--------------------------- MODULE ManifestCache ----------------------------
(***************************************************************************)
(* The container manifest proxy (ecosystems/container/cache/manifest_*.go) *)
(* under the registry endpoint that answers with it (endpoint.go,          *)
(* endpoint_routes.go, metadata_stream.go): requests for one tag.  Flights *)
(* of manifestProxy.get (plain, prepared or refreshing) read the envelope, *)
(* the tag row, the manifest row and the object in passes, revalidate or   *)
(* fetch, and write in the code's order; a prepared flight leaves its rows *)
(* to the responses that share it.  Digests are the versions 1, 2, ... that *)
(* upstream tags one after another; time counts units of the TTL.  A       *)
(* request by digest takes the same passes without the tag row.            *)
(***************************************************************************)
EXTENDS Integers, FiniteSets, TLC

CONSTANTS
    Flights,      \* runs of manifestProxy.get; a forgotten one may overlap its successor
    Responses,    \* registry requests, each for a prepared manifest
    MaxVersion,   \* bound: digests upstream gives the tag
    MaxTime,      \* bound: time units
    GateSize,     \* metadataGate
    StaleIfError  \* cache.stale_if_error with a max_stale

ASSUME ManifestAssumption ==
    /\ MaxVersion \in Nat \ {0} /\ MaxTime \in Nat \ {0} /\ GateSize \in Nat \ {0} /\ StaleIfError \in BOOLEAN
    /\ IsFiniteSet(Responses)

VARIABLES
    now, upstream, until,   \* time, upstream's digest of the tag, when it left an earlier one
    lag,                    \* history: the longest time from upstream's answer to the stamp of its expiry
    envelope,               \* cache backend: [v, exp] (v = 0: no entry)
    tag,                    \* tag row: [v, exp] (v = 0: no row)
    row,                    \* manifest rows: version -> expiry (0: no row)
    objects,                \* manifest objects in the object store
    flight, resp, gate

world == <<now, upstream, until, lag>>
stores == <<envelope, tag, row, objects>>
front == <<resp, gate>>
vars == <<now, upstream, until, lag, envelope, tag, row, objects, flight, resp, gate>>

Versions == 1 .. MaxVersion
TTL == 1
None == [v |-> 0, exp |-> 0]
NewFlight == [pc |-> "idle", kind |-> "none", head |-> FALSE, pass |-> "fresh", v |-> 0, asked |-> 0, exp |-> 0,
              stored |-> FALSE, strict |-> FALSE, result |-> "none", pulls |-> 0, once |-> "off", failed |-> FALSE]
NewResponse == [pc |-> "idle", head |-> FALSE, f |-> "none", spool |-> FALSE, whole |-> FALSE,
                counted |-> 0]

Init ==
    /\ now = 1 /\ upstream = 1 /\ until = [v \in Versions |-> 0] /\ lag = 0
    /\ envelope = None /\ tag = None /\ row = [v \in Versions |-> 0] /\ objects = {}
    /\ flight = [f \in Flights |-> NewFlight]
    /\ resp = [r \in Responses |-> NewResponse] /\ gate = 0

Expired(exp) == now >= exp
Go(f, pc) == flight' = [flight EXCEPT ![f].pc = pc]
\* Only a prepared flight is of any use after it returned a manifest.
Ended(f, v, result) ==
    IF flight[f].kind = "prepare" /\ result # "error"
    THEN [flight[f] EXCEPT !.pc = "done", !.v = v, !.result = result, !.pass = "fresh",
             !.exp = IF flight[f].strict \/ result = "bypass" THEN @ ELSE 0]
    ELSE [NewFlight EXCEPT !.pc = "done", !.kind = flight[f].kind, !.result = IF flight[f].kind = "prepare" THEN "error" ELSE "none"]
Return(f, result) == flight' = [flight EXCEPT ![f] = Ended(f, flight[f].v, result)]

-----------------------------------------------------------------------------
(* get: the envelope, then the stored copies, in passes.                   *)

\* Get and Refresh; a refresh reads no cache.
Start(f, kind, head) ==
    /\ flight[f].pc = "idle"
    /\ flight' = [flight EXCEPT ![f] = [NewFlight EXCEPT !.kind = kind, !.head = head,
                     !.pc = IF kind = "refresh" THEN "tag" ELSE "envelope",
                     !.pass = IF kind = "refresh" THEN "revalidate" ELSE "fresh"]]

\* lookupEnvelope: an unreadable backend fails the request, an undecodable or
\* unsupported entry is deleted and is a miss.
LookupEnvelope(f) ==
    /\ flight[f].pc = "envelope"
    /\ \/ envelope.v # 0 /\ ~Expired(envelope.exp)
          /\ \/ flight' = [flight EXCEPT ![f] = Ended(f, envelope.v, "hit")] /\ UNCHANGED envelope
             \/ Go(f, "tag") /\ envelope' = None
       \/ (envelope.v = 0 \/ Expired(envelope.exp)) /\ Go(f, "tag") /\ UNCHANGED envelope
       \/ Return(f, "error") /\ UNCHANGED envelope
    /\ UNCHANGED <<world, tag, row, objects, front>>

\* lookupStored, lookupAnyStored, revalidationCandidate and lookupStale ask
\* different things of the tag and manifest rows.
Usable(f, exp) ==
    CASE flight[f].pass = "fresh"      -> ~Expired(exp)
      [] flight[f].pass = "any"        -> TRUE
      [] flight[f].pass = "revalidate" -> TRUE
      [] flight[f].pass = "stale"      -> Expired(exp)    \* within max_stale: bound
UsableTag(f) ==
    /\ tag.v # 0 /\ Usable(f, tag.exp)
    /\ flight[f].pass = "revalidate" => flight[f].kind = "refresh" \/ Expired(tag.exp)
UsableRow(f) == row[flight[f].v] # 0 /\ Usable(f, row[flight[f].v])

\* A pass that finds nothing hands over to the next.
Miss(f) ==
    \/ flight[f].pass = "stale" /\ Return(f, "error")
    \/ flight[f].pass = "revalidate" /\ flight' = [flight EXCEPT ![f].pc = "fetch", ![f].v = 0, ![f].exp = 0]
    \/ /\ flight[f].pass \in {"fresh", "any"}
       /\ flight' = [flight EXCEPT ![f].pass = IF @ = "fresh" THEN "any" ELSE "revalidate",
                        ![f].pc = "tag", ![f].v = 0, ![f].exp = 0]

ReadTag(f) ==
    /\ flight[f].pc = "tag"
    /\ \/ UsableTag(f) /\ flight' = [flight EXCEPT ![f].pc = "row", ![f].v = tag.v]
       \/ ~UsableTag(f) /\ Miss(f)
       \/ Return(f, "error")
    /\ UNCHANGED <<world, stores, front>>

ReadRow(f) ==
    /\ flight[f].pc = "row"
    /\ \/ UsableRow(f) /\ flight' = [flight EXCEPT ![f].pc = "object", ![f].exp = row[flight[f].v]]
       \/ ~UsableRow(f) /\ Miss(f)
       \/ Return(f, "error")
    /\ UNCHANGED <<world, stores, front>>

\* setManifestCache: best effort, never for a response without a body.
SetEnvelope(f, exp) ==
    \/ ~flight[f].head /\ envelope' = [v |-> flight[f].v, exp |-> exp]
    \/ UNCHANGED envelope

\* storedManifestBody, or Exists in the revalidation pass; a HEAD needs no
\* object.  A fresh copy refills the envelope for its remaining life.
ReadObject(f) ==
    /\ flight[f].pc = "object"
    /\ LET pass == flight[f].pass
           here == flight[f].v \in objects \/ (flight[f].head /\ pass # "revalidate")
       IN \/ here /\ pass = "fresh" /\ Return(f, "hit") /\ SetEnvelope(f, flight[f].exp)
          \/ here /\ pass \in {"any", "stale"} /\ Return(f, "stale") /\ UNCHANGED envelope
          \/ here /\ pass = "revalidate" /\ Go(f, "head") /\ UNCHANGED envelope
          \/ ~here /\ Miss(f) /\ UNCHANGED envelope
          \/ Return(f, "error") /\ UNCHANGED envelope
    /\ UNCHANGED <<world, tag, row, objects, front>>

-----------------------------------------------------------------------------
(* Revalidation, and fetching with everything it stores.                   *)

\* revalidationHead and sameRevalidatedDigest: only upstream's own digest
\* renews the copy; a failed HEAD, another digest or an unsupported media type
\* means a fetch.  A body that fails to close fails the request.
Head(f) ==
    /\ flight[f].pc = "head"
    /\ \/ upstream = flight[f].v /\ flight' = [flight EXCEPT ![f].asked = now, ![f].pc = "renew"]
       \/ flight' = [flight EXCEPT ![f].pc = "fetch", ![f].v = 0, ![f].exp = 0]
       \/ Return(f, "error")
    /\ UNCHANGED <<world, stores, front>>

\* An expiry counts from when it is stamped, not from upstream's answer.
Stamped(f) ==
    /\ lag' = IF lag < now - flight[f].asked THEN now - flight[f].asked ELSE lag
    /\ UNCHANGED <<now, upstream, until>>

\* refreshRevalidatedRecord; the upstream pull is recorded here unless deferred.
Renew(f) ==
    /\ flight[f].pc = "renew" /\ Stamped(f)
    /\ flight' = [flight EXCEPT ![f].exp = now + TTL, ![f].asked = 0, ![f].strict = TRUE, ![f].stored = TRUE,
                     ![f].pc = IF flight[f].kind = "prepare" THEN "body" ELSE "saveRow",
                     ![f].pulls = IF flight[f].kind = "get" THEN @ + 1 ELSE @]
    /\ UNCHANGED <<stores, front>>

\* A failed fetch of a client looks for a stale copy.
FetchFails(f) ==
    \/ (flight[f].kind = "refresh" \/ ~StaleIfError) /\ Return(f, "error")
    \/ flight[f].kind # "refresh" /\ StaleIfError
       /\ flight' = [flight EXCEPT ![f].pc = "tag", ![f].pass = "stale", ![f].v = 0, ![f].asked = 0]

\* fetch: GetManifest, and the media type of its answer.
Fetch(f) ==
    /\ flight[f].pc = "fetch"
    /\ \/ flight' = [flight EXCEPT ![f].v = upstream, ![f].asked = now, ![f].pc = "read"]
       \/ FetchFails(f)
    /\ UNCHANGED <<world, stores, front>>

\* The body is read and its digest verified; only then newManifestRecord stamps
\* the expiry.
ReadBody(f) ==
    /\ flight[f].pc = "read"
    /\ \/ /\ flight' = [flight EXCEPT ![f].exp = now + TTL, ![f].asked = 0, ![f].pc = "put"]
          /\ Stamped(f)
       \/ FetchFails(f) /\ UNCHANGED world
    /\ UNCHANGED <<stores, front>>

\* storeFetchedManifest and storeManifestObject: the upstream pull is recorded
\* (a refresh records none), the object written if there is a body and the
\* store agrees.  Without an object no row is written.
PutObject(f) ==
    /\ flight[f].pc = "put"
    /\ \E stored \in BOOLEAN :
          /\ flight[f].head => stored
          /\ objects' = IF stored /\ ~flight[f].head THEN objects \cup {flight[f].v} ELSE objects
          /\ flight' = [flight EXCEPT ![f].stored = stored,
                           ![f].pulls = IF flight[f].kind = "get" THEN @ + 1 ELSE @,
                           ![f].pc = IF stored /\ flight[f].kind # "prepare" THEN "saveRow" ELSE "setEnvelope"]
    /\ UNCHANGED <<world, envelope, tag, row, front>>

\* Where a plain flight goes after its rows: revalidation reads the body.
AfterRows(f) == IF flight[f].strict THEN "body" ELSE "setEnvelope"

MutantSaveRow(f) ==
    /\ flight[f].pc = "saveRow"
    /\ \/ row' = [row EXCEPT ![flight[f].v] = flight[f].exp] /\ Go(f, "saveTag")
       \/ Go(f, "saveTag") /\ UNCHANGED row
    /\ UNCHANGED <<world, envelope, tag, objects, front>>

\* UpsertManifest, then UpsertTag: no tag row without its manifest row.  A
\* revalidation fails with the write, a fetch answers regardless.
SaveRow(f) ==
    /\ flight[f].pc = "saveRow"
    /\ \/ row' = [row EXCEPT ![flight[f].v] = flight[f].exp] /\ Go(f, "saveTag")
       \/ /\ IF flight[f].strict THEN Return(f, "error") ELSE Go(f, "setEnvelope")
          /\ UNCHANGED row
    /\ UNCHANGED <<world, envelope, tag, objects, front>>

SaveTag(f) ==
    /\ flight[f].pc = "saveTag"
    /\ \/ tag' = [v |-> flight[f].v, exp |-> flight[f].exp] /\ Go(f, AfterRows(f))
       \/ /\ IF flight[f].strict THEN Return(f, "error") ELSE Go(f, "setEnvelope")
          /\ UNCHANGED tag
    /\ UNCHANGED <<world, envelope, row, objects, front>>

\* finishRevalidation: the object may be gone by now; then the flight fetches, and
\* nothing of the revalidation is left to be saved.
Body(f) ==
    /\ flight[f].pc = "body"
    /\ LET here == flight[f].v \in objects \/ flight[f].head
       IN \/ here /\ Return(f, "hit")
             /\ (IF flight[f].kind = "prepare" THEN UNCHANGED envelope ELSE SetEnvelope(f, now + TTL))
          \/ ~here /\ UNCHANGED envelope
             /\ flight' = [flight EXCEPT ![f].pc = "fetch", ![f].v = 0, ![f].exp = 0,
                              ![f].strict = FALSE, ![f].stored = FALSE]
          \/ Return(f, "error") /\ UNCHANGED envelope
    /\ UNCHANGED <<world, tag, row, objects, front>>

FinishStore(f) ==
    /\ flight[f].pc = "setEnvelope"
    /\ SetEnvelope(f, now + TTL)
    /\ Return(f, "bypass")
    /\ UNCHANGED <<world, tag, row, objects, front>>

-----------------------------------------------------------------------------
(* Prepared metadata: one save for all the responses that share it.        *)

\* Only an answer of upstream leaves rows or a pull to be saved.
Prepared(f) == flight[f].kind = "prepare" /\ (flight[f].result = "bypass" \/ flight[f].strict)

MutantComplete(f) ==
    /\ Prepared(f) /\ flight[f].once \in {"off", "done"}
    /\ flight' = [flight EXCEPT ![f].once = IF flight[f].stored THEN "row" ELSE "done", ![f].pulls = @ + 1]

\* complete: sync.Once starts the save, with a context of its own; the upstream
\* pull is recorded whether or not there are rows.
Complete(f) ==
    /\ Prepared(f) /\ flight[f].once = "off"
    /\ flight' = [flight EXCEPT ![f].once = IF flight[f].stored THEN "row" ELSE "done", ![f].pulls = @ + 1]

CommitFails(f) == flight' = [flight EXCEPT ![f].once = "done", ![f].failed = flight[f].strict]

MutantCommitRow(f) ==
    /\ flight[f].once = "row"
    /\ \/ row' = [row EXCEPT ![flight[f].v] = now + TTL]
          /\ flight' = [flight EXCEPT ![f].once = "tag", ![f].exp = now + TTL]
       \/ CommitFails(f) /\ UNCHANGED row
    /\ UNCHANGED <<world, envelope, tag, objects, front>>

\* savePreparedCanonicalManifest and savePreparedRevalidation: the expiry is the
\* one stamped when upstream's answer had been read.
CommitRow(f) ==
    /\ flight[f].once = "row"
    /\ \/ row' = [row EXCEPT ![flight[f].v] = flight[f].exp]
          /\ flight' = [flight EXCEPT ![f].once = "tag"]
       \/ CommitFails(f) /\ UNCHANGED row
    /\ UNCHANGED <<world, envelope, tag, objects, front>>

CommitTag(f) ==
    /\ flight[f].once = "tag"
    /\ \/ tag' = [v |-> flight[f].v, exp |-> flight[f].exp] /\ flight' = [flight EXCEPT ![f].once = "done"]
       \/ CommitFails(f) /\ UNCHANGED tag
    /\ UNCHANGED <<world, envelope, row, objects, front>>

Saved(f) == Prepared(f) => flight[f].once = "done"

-----------------------------------------------------------------------------
(* The endpoint: dispatch, metadataResponse, manifest, manifestCompletion. *)

Set(r, rec) == resp' = [resp EXCEPT ![r] = rec]
Failed(r) == Set(r, [NewResponse EXCEPT !.pc = "done"])

\* dispatch: the dependency policy comes first; a denied pull is only recorded.
Dispatch(r, head, allowed) ==
    /\ resp[r].pc = "idle"
    /\ IF allowed THEN Set(r, [resp[r] EXCEPT !.head = head, !.pc = "admit"]) ELSE Failed(r)
    /\ UNCHANGED <<world, stores, flight, gate>>

\* metadataGate.Acquire; then Prepare joins a running flight of its method or
\* starts one.
Admit(r) ==
    /\ resp[r].pc = "admit" /\ gate < GateSize
    /\ gate' = gate + 1
    /\ \E f \in Flights :
          /\ \/ Start(f, "prepare", resp[r].head)
             \/ /\ flight[f].kind = "prepare" /\ flight[f].head = resp[r].head
                /\ flight[f].pc \notin {"idle", "done"}
                /\ UNCHANGED flight
          /\ Set(r, [resp[r] EXCEPT !.pc = "wait", !.f = f])
    /\ UNCHANGED <<world, stores>>

\* The request's context ends while it waits for the gate.
GiveUp(r) ==
    /\ resp[r].pc = "admit" /\ Failed(r)
    /\ UNCHANGED <<world, stores, flight, gate>>

\* The flight's result: an error answers at once, a HEAD has nothing to spool.
\* A caller that gives up gets the error too.  The gate is left either way,
\* with the spooled body or without.
Loaded(r) ==
    /\ resp[r].pc = "wait"
    /\ \/ /\ flight[resp[r].f].pc = "done" /\ flight[resp[r].f].result # "error"
          /\ \/ Set(r, [resp[r] EXCEPT !.pc = "complete", !.whole = TRUE, !.spool = ~resp[r].head])
             \/ ~resp[r].head /\ Set(r, [resp[r] EXCEPT !.pc = "complete"])       \* spooling failed
       \/ /\ flight[resp[r].f].pc = "done" /\ flight[resp[r].f].result = "error"
          /\ Failed(r)
       \/ flight[resp[r].f].pc # "done" /\ Failed(r)                                  \* context ended
    /\ gate' = gate - 1
    /\ UNCHANGED <<world, stores, flight>>

\* Finalize: run the save, or wait for the one that runs.
Finalize(r) ==
    /\ resp[r].pc = "complete" /\ Complete(resp[r].f)
    /\ UNCHANGED <<world, stores, front>>

\* CompleteResponse after the save: its error or a cancelled request drops the
\* spooled body; otherwise the pull is counted and the response goes out.  A
\* response that failed to spool only finalizes.
Respond(r, cancelled) ==
    /\ resp[r].pc = "complete" /\ Saved(resp[r].f)
    /\ LET ok == resp[r].whole /\ ~flight[resp[r].f].failed /\ ~cancelled
       IN IF ok THEN Set(r, [resp[r] EXCEPT !.pc = "done", !.counted = @ + 1]) ELSE Failed(r)
    /\ UNCHANGED <<world, stores, flight, gate>>

-----------------------------------------------------------------------------

\* Upstream moves the tag.
Push ==
    /\ upstream < MaxVersion
    /\ upstream' = upstream + 1 /\ until' = [until EXCEPT ![upstream] = now]
    /\ UNCHANGED <<now, lag, stores, flight, front>>

Tick ==
    /\ now < MaxTime /\ now' = now + 1
    /\ UNCHANGED <<upstream, until, lag, stores, flight, front>>

\* InvalidatePackageCache drops the envelopes of a retired package.
InvalidatePackageCache ==
    /\ envelope.v # 0 /\ envelope' = None
    /\ UNCHANGED <<world, tag, row, objects, flight, front>>

\* An object may be swept or evicted under its rows.
LoseObject ==
    /\ \E v \in objects : objects' = objects \ {v}
    /\ UNCHANGED <<world, envelope, tag, row, flight, front>>

RunFlight(f) ==
    \/ LookupEnvelope(f) \/ ReadTag(f) \/ ReadRow(f) \/ ReadObject(f) \/ Head(f) \/ Renew(f) \/ Fetch(f) \/ ReadBody(f)
    \/ PutObject(f) \/ SaveRow(f) \/ SaveTag(f) \/ Body(f) \/ FinishStore(f) \/ CommitRow(f) \/ CommitTag(f)
Answer(r) == Admit(r) \/ GiveUp(r) \/ Loaded(r) \/ Finalize(r) \/ \E cancelled \in BOOLEAN : Respond(r, cancelled)
Background(f) ==
    /\ \E kind \in {"get", "refresh"} : Start(f, kind, FALSE)
    /\ UNCHANGED <<world, stores, front>>
Finished ==
    /\ \A r \in Responses : resp[r].pc \in {"admit", "done"}     \* bound: no flight left to start
    /\ \A f \in Flights : flight[f].pc = "done"
    /\ UNCHANGED vars

Next ==
    \/ \E f \in Flights : RunFlight(f) \/ Background(f)
    \/ \E r \in Responses : Answer(r) \/ \E head, allowed \in BOOLEAN : Dispatch(r, head, allowed)
    \/ Push \/ Tick \/ InvalidatePackageCache \/ LoseObject \/ Finished

Spec == Init /\ [][Next]_vars

-----------------------------------------------------------------------------

Until(v) == IF v = upstream THEN now ELSE until[v]

\* A tag row never points at a manifest row that was not written, whichever of
\* the writes of overlapping flights and deferred saves fail.
TagResolves == tag.v # 0 => row[tag.v] # 0

\* The tag and manifest rows are fresh for no longer than the TTL after upstream
\* last had the digest and the longest time an answer of upstream was on its way
\* to its stamp, however late a deferred save commits and whichever flight
\* overwrites which: an old digest that returns is gone by then.
FreshIsRecent ==
    /\ tag.v # 0 => tag.exp <= Until(tag.v) + lag + TTL
    /\ \A v \in Versions : row[v] # 0 => row[v] <= Until(v) + lag + TTL

\* Responses that share a prepared manifest save it once: every answer of
\* upstream is recorded as one upstream pull, and a response is counted only
\* when that save has succeeded.
PullsCounted ==
    /\ \A f \in Flights :
          /\ flight[f].pulls <= (IF flight[f].kind = "get" THEN 2 ELSE 1)   \* a revalidation, then a fetch
          /\ flight[f].kind = "refresh" => flight[f].pulls = 0
    /\ \A r \in Responses : resp[r].counted > 0 => /\ resp[r].whole /\ resp[r].counted = 1
                                                   /\ Saved(resp[r].f) /\ ~flight[resp[r].f].failed

\* The gate admits as many as load, and a spooled body outlives its request
\* only as the body of a response that goes out.
ResponsesAccounted ==
    /\ gate = Cardinality({r \in Responses : resp[r].pc = "wait"})
    /\ \A r \in Responses : resp[r].pc = "done" /\ resp[r].spool => resp[r].counted = 1

\* Both, for the responses that share a flight.
SavedOnce == PullsCounted /\ ResponsesAccounted

\* For model checking: flights are interchangeable, and so are responses.
Symmetry == Permutations(Flights) \cup Permutations(Responses)
=============================================================================
