---------------------------- MODULE PackageProxy ----------------------------
(***************************************************************************)
(* The npm, Go, dist and PyPI index proxies (ecosystems/npm, golang, dist, *)
(* pypi): requests for one artifact.  Each service looks in the artifact   *)
(* cache, answers a client with whatever is there, fresh or expired, and   *)
(* otherwise fetches from its endpoints and stores; plain GETs of one key  *)
(* coalesce (ArtifactFill has the lease and the retries, here a fill is    *)
(* its owner).  A Go request without an alias asks the upstreams in turn.  *)
(* The ecosystem is chosen at the start, and so is the policy's verdict at *)
(* each request.  A body is named by where it came from.                   *)
(***************************************************************************)
EXTENDS Integers, FiniteSets

CONSTANTS
    Requests,
    Kinds,      \* the kinds a request may have: "get", "head", "range", "refresh", "root"
    Upstreams,  \* bound: Go upstreams asked in turn, 1 .. Upstreams
    Endpoints,  \* bound: endpoints of an upstream, tried in order
    Slots       \* metadataTransformConcurrency

ASSUME PackageAssumption ==
    Upstreams \in Nat \ {0} /\ Endpoints \in Nat \ {0} /\ Slots \in Nat \ {0}

VARIABLES
    eco,      \* the ecosystem the requests are for
    route,    \* what the path they name is
    row,      \* tag and manifest rows with their object, by upstream
    fill,     \* FillTracker: owner of the running fill, by upstream
    ended,    \* how a request's own fill ended
    slots,    \* metadataSlots in use
    req

vars == <<eco, route, row, fill, ended, slots, req>>
path == <<eco, route>>
stored == <<row, path>>
fills == <<fill, ended>>

None == "none"
Bodies == {"cached", "fetched", "last", "prepared", "stored"}
NewRequest == [pc |-> "idle", kind |-> None, up |-> 1, at |-> 1, status |-> 0,
               open |-> {}, body |-> None, follows |-> None, pull |-> None]
NoRow == [state |-> "none", whole |-> TRUE]

\* What a path can be, by ecosystem; "other" is proxied and never cached.
NpmRoutes == {"metadata", "tarball", "other"}
GoRoutes == {"listing", "file", "other"}
DistRoutes == {"artifact"}
PypiRoutes == {"index"}
Routes(e) == CASE e = "npm" -> NpmRoutes [] e = "go" -> GoRoutes
               [] e = "dist" -> DistRoutes [] e = "pypi" -> PypiRoutes

\* routeTTL: tarballs and module files never expire.
Expires == route \notin {"tarball", "file"}
Init ==
    /\ eco \in {"npm", "go", "dist", "pypi"}
    /\ route \in Routes(eco)
    /\ row \in [1 .. Upstreams -> {NoRow, [NoRow EXCEPT !.state = "fresh"]}]
    /\ eco # "go" => \A u \in 2 .. Upstreams : row[u] = NoRow
    /\ route = "other" => \A u \in 1 .. Upstreams : row[u] = NoRow
    /\ fill = [u \in 1 .. Upstreams |-> None]
    /\ ended = [r \in Requests |-> None]
    /\ slots = 0
    /\ req = [r \in Requests |-> NewRequest]

-----------------------------------------------------------------------------
Client(r) == req[r].kind # "refresh"
Set(r, new) == req' = [req EXCEPT ![r] = new]
Goto(r, pc) == Set(r, [req[r] EXCEPT !.pc = pc])

\* canFallback: a request without an alias has another upstream to ask.
CanFallback(r) == req[r].kind = "root" /\ req[r].up < Upstreams
NextUpstream(r, open) ==
    [req[r] EXCEPT !.pc = "policy", !.up = @ + 1, !.at = 1, !.status = 0, !.open = open]

\* The fill a request owns ends with its work: Coalesce's Finish.
Ends(r, outcome) ==
    IF fill[req[r].up] = r
    THEN fill' = [fill EXCEPT ![req[r].up] = None] /\ ended' = [ended EXCEPT ![r] = outcome]
    ELSE UNCHANGED fills

\* recordPull: a client's 2xx answer, an upstream pull when it was a miss; a
\* root request records none.
RecordPull(r, cache, status) ==
    IF req[r].kind \in {"get", "head", "range"} /\ status \in {200, 206}
    THEN IF cache = "miss" THEN "upstream" ELSE "pull" ELSE None
RecordPolicyDeniedPull(r) == IF Client(r) THEN "denied" ELSE None

\* responseFromStored and responseFromUpstream: a HEAD answer's body is closed.
Response(r, open, body, cache, status) ==
    [req[r] EXCEPT !.pc = "reading", !.status = status, !.pull = RecordPull(r, cache, status),
        !.body = IF req[r].kind = "head" THEN None ELSE body,
        !.open = IF req[r].kind = "head" THEN open \ {body} ELSE open]
\* What getFromUpstream returns, with the bodies then open: a response
\* (shouldFallbackFromResponse closes the one it does not take) or an error.
MutantAnswer(r, open, body, cache, status) ==
    IF CanFallback(r) /\ status = 404 THEN Set(r, NextUpstream(r, open))
    ELSE Set(r, Response(r, open, body, cache, status))
Answer(r, open, body, cache, status) ==
    IF CanFallback(r) /\ status = 404 THEN Set(r, NextUpstream(r, open \ {body}))
    ELSE Set(r, Response(r, open, body, cache, status))
Done(r, open) == [NewRequest EXCEPT !.pc = "done", !.kind = req[r].kind, !.open = open]
Fail(r, open) == Set(r, IF CanFallback(r) THEN NextUpstream(r, open) ELSE Done(r, open))

-----------------------------------------------------------------------------
(* Get and refresh.                                                        *)

\* A request parses its path, or fails.
Arrive(r, kinds) ==
    /\ req[r].pc = "idle"
    /\ \E kind \in kinds \cap Kinds, pc \in {"policy", "done"} :
          Set(r, [NewRequest EXCEPT !.pc = pc, !.kind = kind])
    /\ UNCHANGED <<stored, fills, slots>>
ArriveNpm(r) == eco = "npm" /\ Arrive(r, {"get", "head"})
ArriveGo(r) == eco = "go" /\ Arrive(r, {"get", "head", "root"})
ArriveDist(r) == eco = "dist" /\ Arrive(r, {"get", "head", "range"})
ArrivePypi(r) == eco = "pypi" /\ Arrive(r, {"get", "head"})
Refresh(r) == Arrive(r, {"refresh"})

\* checkDependencyPolicy and ensureAllowed: a blocked dependency stops even a
\* root request.
CheckPolicy(r) ==
    /\ req[r].pc = "policy"
    /\ \/ Goto(r, "lookup")
       \/ Set(r, [Done(r, req[r].open) EXCEPT !.pull = RecordPolicyDeniedPull(r)])
    /\ UNCHANGED <<stored, fills, slots>>

\* responseFromCached: a client is answered with what is there, fresh or
\* expired, a refresh goes on.
ServeCached(r) ==
    /\ row[req[r].up].state # "none"
    /\ IF Client(r)
       THEN /\ Answer(r, req[r].open \cup {"cached"}, "cached", "hit", IF req[r].kind = "range" THEN 206 ELSE 200)
            /\ Ends(r, "ok")
       ELSE Set(r, [req[r] EXCEPT !.pc = "fetch", !.open = @ \cup {"cached"}]) /\ UNCHANGED fills

\* A miss: plain GETs coalesce, in a fill (Wait) it is the owner's turn to fetch.
Coalesces(r) == req[r].kind \in {"get", "root"} /\ (eco = "npm" => route # "other")
Miss(r) ==
    /\ Goto(r, IF req[r].pc # "owner" /\ Coalesces(r) THEN "begin" ELSE "fetch")
    /\ UNCHANGED fills
Looks(r) == req[r].pc \in {"lookup", "woken", "owner"} /\ UNCHANGED <<stored, slots>>
Absent(r) == row[req[r].up].state = "none"

\* npm: metadata in another format is closed and is a miss; an error fails.
LookupNpm(r) ==
    /\ eco = "npm" /\ Looks(r)
    /\ \/ ServeCached(r)
       \/ (Absent(r) \/ route = "metadata") /\ Miss(r)
       \/ Fail(r, req[r].open) /\ Ends(r, "error")
LookupGo(r) ==
    /\ eco = "go" /\ Looks(r)
    /\ \/ ServeCached(r)
       \/ Absent(r) /\ Miss(r)
       \/ Fail(r, req[r].open) /\ Ends(r, "error")
\* dist: an error goes straight to upstream, inside or outside a fill.
LookupDist(r) ==
    /\ eco = "dist" /\ Looks(r)
    /\ \/ ServeCached(r)
       \/ Absent(r) /\ Miss(r)
       \/ Goto(r, "fetch") /\ UNCHANGED fills
\* PyPI: an error, a read slower than pypiCacheTimeout or another format is a miss.
LookupPypi(r) == eco = "pypi" /\ Looks(r) /\ (ServeCached(r) \/ Miss(r))

\* The request's context ends before or during the read of the cache.
Cancelled(r) ==
    /\ req[r].pc \in {"lookup", "owner"}
    /\ Fail(r, req[r].open) /\ Ends(r, "canceled")
    /\ UNCHANGED <<stored, slots>>

\* coalesceFill.
Begin(r) ==
    /\ req[r].pc = "begin"
    /\ IF fill[req[r].up] = None
       THEN fill' = [fill EXCEPT ![req[r].up] = r] /\ Goto(r, "owner")
       ELSE UNCHANGED fill /\ Set(r, [req[r] EXCEPT !.pc = "wait", !.follows = fill[req[r].up]])
    /\ ended' = [ended EXCEPT ![r] = None]
    /\ UNCHANGED <<stored, slots>>
\* A waiter gets the owner's error, unless it is the end of the owner's own
\* context; a fill that succeeded is read again from the cache.
Wait(r) ==
    /\ req[r].pc = "wait"
    /\ \/ ended[req[r].follows] = "error" /\ Fail(r, req[r].open)
       \/ ended[req[r].follows] \in {"ok", "canceled"} /\ Goto(r, "woken")
    /\ UNCHANGED <<stored, fills, slots>>
\* The waiter's own context ends.
WaitEnds(r) ==
    /\ req[r].pc = "wait" /\ Fail(r, req[r].open)
    /\ UNCHANGED <<stored, fills, slots>>

-----------------------------------------------------------------------------
(* fetch: the endpoints in order; an attempt spools the whole body.  npm    *)
(* and Go take any response; that of a plain GET is never a partial one.    *)

Asks(r) == req[r].pc = "fetch" /\ req[r].at <= Endpoints /\ UNCHANGED <<stored, fills, slots>>
TryNext(r, open) == Set(r, [req[r] EXCEPT !.at = @ + 1, !.open = open])
Take(r, status) ==
    Set(r, [req[r] EXCEPT !.pc = "fetched", !.status = status, !.open = (@ \ {"last"}) \cup {"fetched"}])
FetchNpm(r) ==
    eco = "npm" /\ Asks(r) /\ (TryNext(r, req[r].open) \/ \E status \in {200, 404, 500} : Take(r, status))
FetchGo(r) ==
    eco = "go" /\ Asks(r) /\ (TryNext(r, req[r].open) \/ \E status \in {200, 404, 500} : Take(r, status))
\* dist closes a response that another endpoint may improve on.
FetchDist(r) ==
    /\ eco = "dist" /\ Asks(r)
    /\ \/ TryNext(r, req[r].open)
       \/ \E status \in {200, 404, 500} \cup (IF req[r].kind = "range" THEN {206} ELSE {}) :
             IF req[r].at < Endpoints /\ status \in {404, 500}
             THEN TryNext(r, req[r].open) ELSE Take(r, status)
\* PyPI keeps the last unavailable answer, until a later attempt ends.
FetchPypi(r) ==
    /\ eco = "pypi" /\ Asks(r)
    /\ \/ TryNext(r, req[r].open \ {"last"})
       \/ TryNext(r, req[r].open \cup {"last"})
       \/ \E status \in {200, 404} : Take(r, status)
FetchEnds(r) ==
    /\ req[r].pc = "fetch" /\ req[r].at > Endpoints
    /\ IF "last" \in req[r].open
       THEN Take(r, 500) /\ UNCHANGED fills
       ELSE Fail(r, req[r].open) /\ Ends(r, "error")
    /\ UNCHANGED <<stored, slots>>

\* shouldPassThrough.
PassThrough(r) == req[r].kind \in {"head", "range"} \/ route = "other" \/ req[r].status \notin {200, 206}

Fetched(r) ==
    /\ req[r].pc = "fetched"
    /\ IF PassThrough(r)
       THEN Answer(r, req[r].open, "fetched", "miss", req[r].status) /\ Ends(r, "ok")
       ELSE Goto(r, IF route \in {"metadata", "index"} THEN "admit" ELSE "store") /\ UNCHANGED fills
    /\ UNCHANGED <<stored, slots>>

-----------------------------------------------------------------------------
(* Metadata is rewritten two at a time, then stored.                        *)

AcquireMetadataSlot(r) ==
    /\ req[r].pc = "admit" /\ slots < Slots
    /\ slots' = slots + 1 /\ Goto(r, "transform")
    /\ UNCHANGED <<stored, fills>>
AdmissionEnds(r) ==
    /\ req[r].pc = "admit"
    /\ Fail(r, req[r].open \ {"fetched"}) /\ Ends(r, "canceled")
    /\ UNCHANGED <<stored, slots>>
\* prepareFetched: the body is read within its limit, closed, rewritten and
\* spooled; the slot is given back, whether that fails or not.
Rewritten(r) == Set(r, [req[r] EXCEPT !.pc = "store", !.open = (@ \ {"fetched"}) \cup {"prepared"}])
PrepareNpm(r) ==
    /\ eco = "npm" /\ req[r].pc = "transform" /\ UNCHANGED stored
    /\ slots' = slots - 1
    /\ \/ Rewritten(r) /\ UNCHANGED fills
       \/ Fail(r, req[r].open \ {"fetched"}) /\ Ends(r, "error")
PreparePypi(r) ==
    /\ eco = "pypi" /\ req[r].pc = "transform" /\ UNCHANGED stored
    /\ slots' = slots - 1
    /\ \/ Rewritten(r) /\ UNCHANGED fills
       \/ Fail(r, req[r].open \ {"fetched"}) /\ Ends(r, "error")

\* store closes the body it was given, fetched or prepared, in any case.
Closed(r) == req[r].open \ {"fetched", "prepared"}
Fresh(r) == row' = [row EXCEPT ![req[r].up] = [state |-> "fresh", whole |-> req[r].status = 200]]
\* npm and dist: Put hands back the stored body, or fails; a row that cannot be
\* written, or a spool that cannot be rewound, may leave the others in place.
StoreNpm(r) ==
    /\ eco = "npm" /\ req[r].pc = "store" /\ UNCHANGED <<path, slots>>
    /\ \/ Fresh(r) /\ Answer(r, Closed(r) \cup {"stored"}, "stored", "miss", 200) /\ Ends(r, "ok")
       \/ (Fresh(r) \/ UNCHANGED row) /\ Fail(r, Closed(r)) /\ Ends(r, "error")
StoreDist(r) ==
    /\ eco = "dist" /\ req[r].pc = "store" /\ UNCHANGED <<path, slots>>
    /\ \/ Fresh(r) /\ Answer(r, Closed(r) \cup {"stored"}, "stored", "miss", 200) /\ Ends(r, "ok")
       \/ (Fresh(r) \/ UNCHANGED row) /\ Fail(r, Closed(r)) /\ Ends(r, "error")
\* Go validates a spooled copy, writes object and rows itself, and opens the
\* object again, which may fail with the rows in place.
StoreGo(r) ==
    /\ eco = "go" /\ req[r].pc = "store" /\ UNCHANGED <<path, slots>>
    /\ \/ Fresh(r) /\ Answer(r, Closed(r) \cup {"stored"}, "stored", "miss", 200) /\ Ends(r, "ok")
       \/ (Fresh(r) \/ UNCHANGED row) /\ Fail(r, Closed(r)) /\ Ends(r, "error")
\* PyPI answers from the spool, whether the write of it succeeded or not, and
\* closes the copy the write handed back; a client that left gets an error.
StorePypi(r) ==
    /\ eco = "pypi" /\ req[r].pc = "store" /\ UNCHANGED <<path, slots>>
    /\ Fresh(r) \/ UNCHANGED row
    /\ \/ Answer(r, req[r].open, "prepared", "miss", 200) /\ Ends(r, "ok")
       \/ Fail(r, Closed(r)) /\ Ends(r, "canceled")

\* The endpoint streams the body, whole or cut short, and closes it.
Close(r) ==
    /\ req[r].pc = "reading"
    /\ Set(r, Done(r, req[r].open \ {req[r].body}))
    /\ UNCHANGED <<stored, fills, slots>>

\* Time passes, or the cleanup removes the artifact.
Age(u) ==
    /\ row[u].state # "none"
    /\ \/ row[u].state = "fresh" /\ Expires /\ row' = [row EXCEPT ![u].state = "stale"]
       \/ row' = [row EXCEPT ![u] = NoRow]
    /\ UNCHANGED <<path, fills, slots, req>>

Progress ==
    \E r \in Requests :
       \/ ArriveNpm(r) \/ ArriveGo(r) \/ ArriveDist(r) \/ ArrivePypi(r) \/ Refresh(r)
       \/ CheckPolicy(r)
       \/ LookupNpm(r) \/ LookupGo(r) \/ LookupDist(r) \/ LookupPypi(r)
       \/ Begin(r) \/ Wait(r)
       \/ FetchNpm(r) \/ FetchGo(r) \/ FetchDist(r) \/ FetchPypi(r) \/ FetchEnds(r) \/ Fetched(r)
       \/ AcquireMetadataSlot(r) \/ PrepareNpm(r) \/ PreparePypi(r)
       \/ StoreNpm(r) \/ StoreDist(r) \/ StoreGo(r) \/ StorePypi(r)
       \/ Close(r)
Terminated == (\A r \in Requests : req[r].pc = "done") /\ UNCHANGED vars
Next ==
    \/ Progress
    \/ \E r \in Requests : Cancelled(r) \/ WaitEnds(r) \/ AdmissionEnds(r)
    \/ \E u \in 1 .. Upstreams : Age(u)
    \/ Terminated

\* Reads, upstream requests and cache writes are bounded by timeouts, and the
\* server cuts a client that stops reading.
Spec == Init /\ [][Next]_vars /\ WF_vars(Progress)

-----------------------------------------------------------------------------
TypeOK ==
    /\ slots \in 0 .. Slots
    /\ \A r \in Requests : req[r].open \subseteq Bodies /\ req[r].at \in 1 .. Endpoints + 1

\* Every body the services open is closed again: a request that has been
\* answered holds its answer's body alone, one that ended holds none, on every
\* path through the upstreams, the endpoints, the rewriting and the writes.
\* The one exception is the cached copy that a refresh looks up and drops.
BodiesOwned ==
    \A r \in Requests : req[r].pc \in {"reading", "done"} =>
       req[r].open \ {req[r].body} \subseteq IF Client(r) THEN {} ELSE {"cached"}

\* The cache holds whole artifacts only: no HEAD answer, byte range or error
\* page of one request is ever what a later request is served.
WholeOnly == \A u \in 1 .. Upstreams : row[u].whole

\* A rewriting slot is never lost: they are held by the requests that rewrite.
SlotsHeld == slots = Cardinality({r \in Requests : req[r].pc = "transform"})

\* Every request has ended and the fills with them.
AllEnded == (\A r \in Requests : req[r].pc = "done") /\ (\A u \in 1 .. Upstreams : fill[u] = None)

\* Every request ends, whatever fails on the way.
RequestsEnd == <>[]AllEnded
=============================================================================
