------------------------------ MODULE Packages ------------------------------
(* The package ecosystems, their parts side by side over variables of their   *)
(* own: what npm, Go, dist and PyPI do with a request (PackageProxy), a Maven *)
(* group that asks its members (MavenFetch, as G), the package files of PyPI  *)
(* (PypiPackage, as F) and the names under which artifacts are recorded       *)
(* (PackageRoutes, as N).                                                     *)
EXTENDS PackageProxy

CONSTANTS Members, Documents
VARIABLES group, tried, said, pc, member, at, physical, state, documents, canceled, open, gate, result
G == INSTANCE MavenFetch

CONSTANTS PypiKinds, MaxURLs, MaxReads
VARIABLES file, running, caching, reading
F == INSTANCE PypiPackage WITH
        row <- file, fill <- running, slots <- caching, req <- reading, Kinds <- PypiKinds

CONSTANTS MaxSegments
VARIABLES from, tail, parsed, job, again, step
N == INSTANCE PackageRoutes WITH eco <- from, route <- parsed

\* A request of a client leaves no body open but the one it answers with, a group closes
\* every answer it does not use, and transformations and package files hold exactly the
\* slots and the fill that are charged to them (getFromUpstream, fetchPhysical,
\* fetchGroup, acquireMetadataSlot, packageCacheBody).
HoldingsExact == BodiesOwned /\ SlotsHeld /\ G!BodiesClosed /\ F!HoldingsExact

\* Partial answers are never stored as an artifact (shouldPassThrough), and a package file
\* with a hash is stored only when it matches (finishAtEOF, cacheComplete).
StoresVerified == []WholeOnly /\ F!OnlyVerified

\* A group says that an artifact is missing only when every member said so itself: an
\* endpoint that failed or was not asked never counts as a miss (take, rememberMiss).
MissesAuthoritative == G!MissIsAuthoritative

\* The metadata that a group merges lists every version that a member lists, and names
\* the newest release and the newest version of them all where the comparison, which is
\* not transitive, orders them (buildMergedMavenMetadata, maxMavenVersion).
MergedIsNewest == G!MergedIsNewest

\* A recorded pull leads back to the path that was pulled, and two paths share a record
\* only when one of them lies in a directory that bears the reserved name of the root.
RecordsIdentify == N!RecordsIdentify
=============================================================================
