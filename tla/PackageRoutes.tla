--------------------------- MODULE PackageRoutes ---------------------------
(***************************************************************************)
(* How the package ecosystems name an artifact: a request's path is parsed *)
(* into a repository and a reference, under which the artifact is cached   *)
(* and its pull recorded; prefetch, manual synchronisation and refresh     *)
(* build a path again from such a record and send it through the parser.   *)
(* The two conversions are written far apart (route.go and runtime.go of   *)
(* each ecosystem) and have to be inverse to each other.                   *)
(*                                                                         *)
(* A path is the sequence of its segments, taken from a small alphabet.    *)
(***************************************************************************)
EXTENDS Naturals, SequencesExt

CONSTANTS MaxSegments    \* bound: segments of a path

Ecosystems == {"npm", "go", "maven", "dist", "pypi"}

Alphabet(eco) ==
  CASE eco = "npm"   -> {"@s", "@s%2fb", "a", "-", "a.tgz"}
    [] eco = "go"    -> {"m", "@v", "@latest", "list", "x.zip"}
    [] eco = "maven" -> {"_root", "org", "1-SNAPSHOT", "maven-metadata.xml", "a.jar"}
    [] eco = "dist"  -> {"dist", "v1", "a.zip"}
    [] OTHER         -> {"simple", "packages", "Demo_x", "demo-x", "http"}

Tails(eco) == UNION {[1..n -> Alphabet(eco)] : n \in 1..MaxSegments}

VARIABLES eco, tail, route, job, again, step
vars == <<eco, tail, route, job, again, step>>

Without(s, prefix) ==
  IF Len(s) >= Len(prefix) /\ SubSeq(s, 1, Len(prefix)) = prefix
  THEN SubSeq(s, Len(prefix) + 1, Len(s)) ELSE s

\* What a parser returns; `path' is what the upstream is asked for.
Route(kind, repository, reference, path) ==
  [kind |-> kind, repository |-> repository, reference |-> reference, path |-> path]
NoRoute == Route("rejected", << >>, << >>, << >>)

-----------------------------------------------------------------------------
(* npm.                                                                    *)

\* PathUnescape turns an escaped scope into two segments.
Decode(t) ==
  FlattenSeq([i \in 1..Len(t) |-> IF t[i] = "@s%2fb" THEN <<"@s", "b">> ELSE <<t[i]>>])

\* The first dash with a segment on either side, 0 when there is none.
DashAt(t) ==
  LET at == {i \in 2..(Len(t) - 1) : t[i] = "-"}
  IN  IF at = {} THEN 0 ELSE CHOOSE i \in at : \A k \in at : i <= k

NpmPackage(p) == Len(p) = IF p[1] = "@s" THEN 2 ELSE 1

parseTarballPath(t) ==
  /\ DashAt(t) # 0 /\ Last(t) = "a.tgz"
  /\ NpmPackage(SubSeq(t, 1, DashAt(t) - 1))

parseMetadataPath(t) == DashAt(t) = 0 /\ Last(t) # "a.tgz" /\ NpmPackage(t)

parseNpm(raw) ==
  LET t == Decode(raw) IN
  IF parseTarballPath(t)
  THEN Route("tarball", SubSeq(t, 1, DashAt(t) - 1),
             <<"tarball:">> \o SubSeq(t, DashAt(t) + 1, Len(t)), t)
  ELSE IF parseMetadataPath(t) THEN Route("metadata", t, <<"metadata">>, t)
  ELSE Route("other", << >>, << >>, t)

MutantNpmTail(use, repository, reference) == repository
\* Prefetch and synchronisation rebuild a tarball's path; refresh is asked for
\* metadata only and takes the package's name.
npmTail(use, repository, reference) ==
  IF use # "refresh" /\ reference[1] = "tarball:"
  THEN repository \o <<"-">> \o Without(reference, <<"tarball:">>)
  ELSE repository

-----------------------------------------------------------------------------
(* The Go module proxy.                                                    *)

VersionAt(t) ==
  LET at == {i \in 2..(Len(t) - 1) : t[i] = "@v"}
  IN  IF at = {} THEN 0 ELSE CHOOSE i \in at : \A k \in at : i <= k

parseGo(t) ==
  IF Len(t) > 1 /\ Last(t) = "@latest" THEN Route("metadata", Front(t), <<"@latest">>, t)
  ELSE IF VersionAt(t) = 0 THEN NoRoute
  ELSE LET file == SubSeq(t, VersionAt(t) + 1, Len(t)) IN
       Route(CASE file = <<"list">>      -> "metadata"
               [] Last(file) = "x.zip"   -> "release"
               [] OTHER                  -> "other",
             SubSeq(t, 1, VersionAt(t) - 1), <<"@v">> \o file, t)

goTail(use, repository, reference) == repository \o reference

-----------------------------------------------------------------------------
(* Maven and the distribution mirrors: the directory and the file, with a  *)
(* name of its own for the empty directory.                                *)

DirOr(t, root) == IF Len(t) = 1 THEN <<root>> ELSE Front(t)

parseMaven(t) ==
  Route(IF Last(t) = "maven-metadata.xml" THEN "metadata"
        ELSE IF \E i \in 1..Len(t) : t[i] = "1-SNAPSHOT" THEN "snapshot" ELSE "release",
        DirOr(t, "_root"), <<Last(t)>>, t)

mavenTail(use, repository, reference) ==
  IF repository = <<"_root">> THEN reference ELSE repository \o reference

parseDist(t) == Route("artifact", DirOr(t, "dist"), <<Last(t)>>, t)

distTail(use, repository, reference) ==
  IF repository = <<"dist">> THEN reference ELSE repository \o reference

-----------------------------------------------------------------------------
(* The Python index: project names are normalised, files keep their path.  *)

NormalizeProjectName(p) == IF p = "Demo_x" THEN "demo-x" ELSE p

parsePypi(t) ==
  IF t[1] = "simple" /\ Len(t) = 2
  THEN LET p == NormalizeProjectName(t[2])
       IN  Route("simple", <<"pypi", "simple", p>>, <<"index.html">>, <<"simple", p>>)
  ELSE IF t[1] = "packages" /\ Len(t) > 1
  THEN Route("package", <<"pypi", "packages">>, Tail(t), t)
  ELSE NoRoute

pypiTail(use, repository, reference) ==
  IF use = "refresh" \/ Without(repository, <<"pypi", "simple">>) # repository
  THEN <<"simple">> \o Without(repository, <<"pypi", "simple">>)
  ELSE <<"packages">> \o reference

-----------------------------------------------------------------------------
(* Pulls.  Every ecosystem records the pull of a cacheable route under its *)
(* scoped alias (the mirrors under the bare one, which their prefetcher    *)
(* passes over) and asks for a refresh of what may change.                 *)

npmPulled(r)   == [record |-> r.kind \in {"metadata", "tarball"}, intent |-> r.kind = "metadata", scoped |-> TRUE]
goPulled(r)    == [record |-> r.kind # "other", intent |-> r.kind = "metadata", scoped |-> TRUE]
mavenPulled(r) == [record |-> TRUE, intent |-> r.kind # "release", scoped |-> TRUE]
distPulled(r)  == [record |-> TRUE, intent |-> FALSE, scoped |-> FALSE]
pypiPulled(r)  == [record |-> TRUE, intent |-> r.kind = "simple", scoped |-> TRUE]

Parse(e, t) ==
  CASE e = "npm" -> parseNpm(t) [] e = "go" -> parseGo(t) [] e = "maven" -> parseMaven(t)
    [] e = "dist" -> parseDist(t) [] OTHER -> parsePypi(t)

Rebuild(e, use, repository, reference) ==
  CASE e = "npm"   -> npmTail(use, repository, reference)
    [] e = "go"    -> goTail(use, repository, reference)
    [] e = "maven" -> mavenTail(use, repository, reference)
    [] e = "dist"  -> distTail(use, repository, reference)
    [] OTHER       -> pypiTail(use, repository, reference)

Pulled(e, r) ==
  CASE e = "npm" -> npmPulled(r) [] e = "go" -> goPulled(r) [] e = "maven" -> mavenPulled(r)
    [] e = "dist" -> distPulled(r) [] OTHER -> pypiPulled(r)

-----------------------------------------------------------------------------
Init ==
  /\ eco \in Ecosystems /\ tail \in Tails(eco)
  /\ route = NoRoute /\ again = NoRoute /\ job = "none" /\ step = "request"

\* A client's request is parsed and served, or refused.
Pull ==
  /\ step = "request"
  /\ route' = Parse(eco, tail)
  /\ step' = IF route'.kind = "rejected" THEN "end" ELSE "pulled"
  /\ UNCHANGED <<eco, tail, again, job>>

\* The record or the intent comes back: the prefetcher takes pulls of its own
\* scope, the drain takes intents, an administrator names what he likes.
Refetch(use) ==
  /\ step = "pulled"
  /\ LET p == Pulled(eco, route) IN
     CASE use = "prefetch" -> p.record /\ p.scoped
       [] use = "refresh"  -> p.intent
       [] OTHER            -> p.record
  /\ job' = use
  /\ again' = Parse(eco, Rebuild(eco, use, route.repository, route.reference))
  /\ step' = "end"
  /\ UNCHANGED <<eco, tail, route>>

Stay == step \in {"pulled", "end"} /\ UNCHANGED vars

Next == Pull \/ (\E use \in {"prefetch", "sync", "refresh"} : Refetch(use)) \/ Stay

Spec == Init /\ [][Next]_vars

\* Directories that the parsers use as the name of the empty one.
Reserved(e, t) ==
  Len(t) = 2 /\ <<e, t[1]>> \in {<<"maven", "_root">>, <<"dist", "dist">>}

(***************************************************************************)
(* A record names one artifact: two paths with the same key ask the        *)
(* upstream for the same thing, and what prefetch, synchronisation and     *)
(* refresh rebuild from it is that artifact (runtime.go against route.go). *)
(* A directory really called "_root" or "dist" is left out: its files      *)
(* share the keys of the files at the root.                                *)
(***************************************************************************)
RecordsIdentify ==
  step # "request" /\ route.kind # "rejected" /\ Pulled(eco, route).record /\ ~Reserved(eco, tail) =>
    /\ job # "none" => again = route
    /\ \A other \in {t \in Tails(eco) : ~Reserved(eco, t)} :
         LET r == Parse(eco, other) IN
         /\ r.kind # "rejected" /\ Pulled(eco, r).record
         /\ r.repository = route.repository /\ r.reference = route.reference
         => r.path = route.path
=============================================================================
