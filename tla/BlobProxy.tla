----------------------------- MODULE BlobProxy ------------------------------
(***************************************************************************)
(* The container blob proxy (ecosystems/container/cache/blob_*.go): all    *)
(* requests for one blob of one repository, on the instances that share    *)
(* the object store, the metadata and the lease backend.  A full GET of an *)
(* absent blob streams it to its client and through a pipe into a store    *)
(* task; other requests wait for that fill.  A range request stores the    *)
(* blob first; a HEAD only looks and asks upstream.  A stored object that  *)
(* cannot be opened is answered from upstream under a gate.  Log lines and *)
(* events are left out, and so is the removal of blobs (see CacheCleanup).  *)
(***************************************************************************)
EXTENDS Integers, FiniteSets

CONSTANTS
    Requests,     \* calls of blobProxy.Get
    Nodes,        \* instances; each has its own fill tracker
    NodeOf,       \* the instance of a request
    Kinds,        \* which of "full", "range" and "head" a request may be
    FallbackGate, \* maxConcurrentBlobOpenFallbacks
    MaxExpiries   \* bound: leases that run out, under their holder or lost

VARIABLES
    small,     \* small blob cache entry
    object,    \* blob object stored (verified against its digest by Put)
    blobRow, repoRow,   \* metadata rows
    lease,     \* holder of the fill lease; "lost": its key is in the backend and nobody has it
    fill,      \* per instance: the request that owns the fill, or "none"
    filled,    \* per request: outcome of the fill it owns
    req, task, \* requests, and the store tasks of streaming ones
    permits, expiries

rows == <<small, object, blobRow, repoRow>>
vars == <<small, object, blobRow, repoRow, lease, fill, filled, req, task, permits, expiries>>

NewRequest == [pc |-> "idle", kind |-> "none", on |-> "none", body |-> "none", eof |-> FALSE, result |-> "none"]

Init ==
    /\ small = FALSE /\ object = FALSE /\ blobRow = FALSE /\ repoRow = FALSE
    /\ lease = "none" /\ fill = [n \in Nodes |-> "none"] /\ filled = [q \in Requests |-> "none"]
    /\ req = [q \in Requests |-> NewRequest] /\ task = [q \in Requests |-> "off"]
    /\ permits = 0 /\ expiries = 0

Go(q, pc) == req' = [req EXCEPT ![q].pc = pc]
Fail(q) == req' = [req EXCEPT ![q] = [NewRequest EXCEPT !.pc = "done", !.result = "error"]]
Serve(q, body) == req' = [req EXCEPT ![q].pc = IF req[q].kind = "head" THEN "done" ELSE "serving", ![q].body = body]

Start(q, kind) ==
    /\ req[q].pc = "idle"
    /\ req' = [req EXCEPT ![q].pc = "look", ![q].kind = kind]
    /\ UNCHANGED <<rows, lease, fill, filled, task, permits, expiries>>

-----------------------------------------------------------------------------
(* lookupSmallBlobCache and lookup: used at the start, after a fill and     *)
(* again under the lease.                                                  *)

\* The small entry is skipped when its gate of 4 is taken; an undecodable or
\* mismatched one is evicted.
SmallSkipped == small' \in {small, FALSE}

\* openStored touches the rows of what it opens; verifyRepoBlob has asked
\* upstream and written both when the membership was due.
Touched(verified) ==
    /\ blobRow' = TRUE
    /\ repoRow' = (repoRow \/ verified)
    /\ SmallSkipped /\ UNCHANGED object

\* The outcomes of a look: the small entry, the stored object under either row,
\* an object that does not open, a failed read, touch or verification, a miss.
SmallHit == small /\ UNCHANGED rows
StoredHit == object /\ \E verified \in BOOLEAN : Touched(verified)
OpenFails == object /\ SmallSkipped /\ UNCHANGED <<object, blobRow, repoRow>>
LookFails == SmallSkipped /\ UNCHANGED <<object, blobRow, repoRow>>
Missing == ~object /\ ~small /\ UNCHANGED rows

Look(q) ==
    /\ req[q].pc = "look"
    /\ \/ SmallHit /\ Serve(q, "small")
       \/ StoredHit /\ Serve(q, "stored")
       \/ OpenFails /\ req[q].kind # "head" /\ Go(q, "fallback")
       \/ LookFails /\ Fail(q)
       \/ Missing /\ Go(q, CASE req[q].kind = "full"  -> "begin"
                             [] req[q].kind = "range" -> "ongoing"
                             [] req[q].kind = "head"  -> "bypass")
    /\ UNCHANGED <<lease, fill, filled, task, permits, expiries>>

\* fetchPassthrough for a HEAD.
Bypass(q) ==
    /\ req[q].pc = "bypass"
    /\ Serve(q, "none") \/ Fail(q)
    /\ UNCHANGED <<rows, lease, fill, filled, task, permits, expiries>>

-----------------------------------------------------------------------------
(* Fills and the lease.                                                    *)

\* fills.Begin: the first becomes the owner, the others wait for its fill.
Begin(q) ==
    /\ req[q].pc = "begin"
    /\ IF fill[NodeOf[q]] = "none"
       THEN /\ fill' = [fill EXCEPT ![NodeOf[q]] = q]
            /\ filled' = [filled EXCEPT ![q] = "running"]
            /\ Go(q, "lease")
       ELSE /\ req' = [req EXCEPT ![q].pc = "wait", ![q].on = fill[NodeOf[q]]]
            /\ UNCHANGED <<fill, filled>>
    /\ UNCHANGED <<rows, lease, task, permits, expiries>>

\* fills.Finish: every waiter of this fill sees the outcome.
Finish(q, outcome) ==
    /\ fill' = [n \in Nodes |-> IF fill[n] = q THEN "none" ELSE fill[n]]
    /\ filled' = [filled EXCEPT ![q] = IF @ = "running" THEN outcome ELSE @]

\* A failed call of the backend leaves the key without an owner.
LoseLease == expiries < MaxExpiries /\ lease' = "lost"

\* releaseBlobFillLease: a failure is only logged, and the key may stay.
Release(q) == IF lease = q THEN lease' = "none" \/ LoseLease ELSE UNCHANGED lease

\* waitForStreamedFullBlob: a failed fill is tried again, a finished one read.
WaitFill(q) ==
    /\ req[q].pc = "wait"
    /\ \/ filled[req[q].on] = "ok" /\ req' = [req EXCEPT ![q].pc = "look", ![q].on = "none"]
       \/ filled[req[q].on] = "error" /\ req' = [req EXCEPT ![q].pc = "begin", ![q].on = "none"]
    /\ UNCHANGED <<rows, lease, fill, filled, task, permits, expiries>>

\* waitForOngoingStreamedFill: a range request waits for a fill, whatever its
\* outcome, then stores the blob itself if it has to.
Ongoing(q) ==
    /\ req[q].pc = "ongoing"
    /\ LET current == fill[NodeOf[q]]
       IN req' = [req EXCEPT ![q].pc = IF current = "none" THEN "lease" ELSE "waitRange", ![q].on = current]
    /\ UNCHANGED <<rows, lease, fill, filled, task, permits, expiries>>

WaitRange(q) ==
    /\ req[q].pc = "waitRange"
    /\ filled[req[q].on] # "running" /\ req' = [req EXCEPT ![q].pc = "lease", ![q].on = "none"]
    /\ UNCHANGED <<rows, lease, fill, filled, task, permits, expiries>>

\* acquireBlobFillLease: a busy lease is polled every 100 ms.
AcquireLease(q) ==
    /\ req[q].pc = "lease" /\ lease = "none"
    /\ lease' = q /\ Go(q, "recheck")
    /\ UNCHANGED <<rows, fill, filled, task, permits, expiries>>

\* The backend fails: the request goes on without a lease, though its key may
\* have been set.
LeaseUnavailable(q) ==
    /\ req[q].pc = "lease" /\ Go(q, "recheck")
    /\ UNCHANGED lease \/ (lease = "none" /\ LoseLease)
    /\ UNCHANGED <<rows, fill, filled, task, permits, expiries>>

\* lookupAfterBlobFillLease: another instance may have stored the blob.  Every
\* outcome but a miss releases the lease and finishes the fill.  A range
\* request only checks that the object is there.
Recheck(q) ==
    /\ req[q].pc = "recheck"
    /\ \/ SmallHit /\ req[q].kind = "full" /\ Serve(q, "small") /\ Release(q) /\ Finish(q, "ok")
       \/ StoredHit /\ (IF req[q].kind = "full" THEN Serve(q, "stored") ELSE Go(q, "open")) /\ Release(q) /\ Finish(q, "ok")
       \/ OpenFails /\ req[q].kind = "full" /\ Go(q, "fallback") /\ Release(q) /\ Finish(q, "error")
       \/ LookFails /\ Fail(q) /\ Release(q) /\ Finish(q, "error")
       \/ Missing /\ Go(q, "fetch") /\ UNCHANGED <<lease, fill, filled>>
    /\ UNCHANGED <<task, permits, expiries>>

\* The lease's TTL runs out although its holder renews it at half time.
LeaseExpires ==
    /\ lease \notin {"none", "lost"} /\ expiries < MaxExpiries
    /\ lease' = "none" /\ expiries' = expiries + 1
    /\ UNCHANGED <<rows, fill, filled, req, task, permits>>

\* Nobody renews a lease that nobody has: its TTL ends it.
LostLeaseExpires ==
    /\ lease = "lost"
    /\ lease' = "none" /\ expiries' = expiries + 1
    /\ UNCHANGED <<rows, fill, filled, req, task, permits>>

-----------------------------------------------------------------------------
(* fetchFullStreamAndStoreOwner and the store task.                        *)

MutantStream(q) ==
    /\ req[q].pc = "fetch" /\ req[q].kind = "full"
    /\ \/ Fail(q) /\ Release(q) /\ Finish(q, "error") /\ UNCHANGED task
       \/ Serve(q, "raw") /\ Release(q) /\ UNCHANGED <<fill, filled, task>>
       \/ Serve(q, "tee") /\ task' = [task EXCEPT ![q] = "receive"] /\ UNCHANGED <<lease, fill, filled>>
    /\ UNCHANGED <<rows, permits, expiries>>

\* GetBlob fails or its digest does not match; no room in the scheduler, so the
\* client gets the bare body; or the task is submitted and the body teed.
Stream(q) ==
    /\ req[q].pc = "fetch" /\ req[q].kind = "full"
    /\ \/ Fail(q) /\ Release(q) /\ Finish(q, "error") /\ UNCHANGED task
       \/ Serve(q, "raw") /\ Release(q) /\ Finish(q, "error") /\ UNCHANGED task
       \/ Serve(q, "tee") /\ task' = [task EXCEPT ![q] = "receive"] /\ UNCHANGED <<lease, fill, filled>>
    /\ UNCHANGED <<rows, permits, expiries>>

\* The task ends: the lease is released, the fill finished, the reader told.
Done(q, outcome) ==
    /\ task' = [task EXCEPT ![q] = outcome]
    /\ Release(q) /\ Finish(q, outcome)

\* smallBlobRecorder kept the bytes: within the limit, and a slot of the gate free.
Recorded == small' \in {small, TRUE}

\* storeBlobResponse: Put has the whole blob; a small one is cached too.
PutObject(q) ==
    /\ task[q] = "whole"
    /\ object' = TRUE /\ Recorded
    /\ task' = [task EXCEPT ![q] = "blobRow"]
    /\ UNCHANGED <<blobRow, repoRow, lease, fill, filled, req, permits, expiries>>

\* The pipe broke, or Put failed or its digest did not match.
PutFails(q) ==
    /\ task[q] \in {"receive", "whole", "broken"}
    /\ Done(q, "error")
    /\ UNCHANGED <<rows, req, permits, expiries>>

\* upsertBlobRecords: the blob row, then the repository's row.
RecordBlob(q) ==
    /\ task[q] = "blobRow"
    /\ \/ blobRow' = TRUE /\ task' = [task EXCEPT ![q] = "repoRow"] /\ UNCHANGED <<lease, fill, filled>>
       \/ Done(q, "error") /\ UNCHANGED blobRow
    /\ UNCHANGED <<small, object, repoRow, req, permits, expiries>>

RecordRepoBlob(q) ==
    /\ task[q] = "repoRow"
    /\ \/ repoRow' = TRUE /\ Done(q, "ok")
       \/ Done(q, "error") /\ UNCHANGED repoRow
    /\ UNCHANGED <<small, object, blobRow, req, permits, expiries>>

\* ensureStoredWithLease for a range request: ConsumeBlob feeds Put directly;
\* its task has no reader to answer to, the lease is released at the end.
FetchAndStore(q) ==
    /\ req[q].pc = "fetch" /\ req[q].kind = "range"
    /\ \/ Go(q, "storing") /\ task' = [task EXCEPT ![q] = "whole"] /\ UNCHANGED lease
       \/ Fail(q) /\ Release(q) /\ UNCHANGED task
    /\ UNCHANGED <<rows, fill, filled, permits, expiries>>

Stored(q) ==
    /\ req[q].pc = "storing" /\ task[q] \in {"ok", "error"}
    /\ IF task[q] = "ok" THEN Go(q, "open") ELSE Fail(q)
    /\ UNCHANGED <<rows, lease, fill, filled, task, permits, expiries>>

\* openStored once the blob should be there.
OpenStored(q) ==
    /\ req[q].pc = "open"
    /\ \/ StoredHit /\ Serve(q, "stored")
       \/ OpenFails /\ Go(q, "fallback")
       \/ LookFails /\ Fail(q)
    /\ UNCHANGED <<lease, fill, filled, task, permits, expiries>>

-----------------------------------------------------------------------------
(* fallbackAfterStoredObjectOpenError.                                     *)

\* acquireOpenFallback: the permit is held from here on.
Fallback(q) ==
    /\ req[q].pc = "fallback" /\ permits < FallbackGate
    /\ permits' = permits + 1 /\ Go(q, "fallbackFetch")
    /\ UNCHANGED <<rows, lease, fill, filled, task, expiries>>

\* fetchPassthrough and wrapBlobOpenFallback: a context that has ended, a fetch
\* that fails and a wrong digest give the permit back, a body keeps it.
FetchFallback(q) ==
    /\ req[q].pc = "fallbackFetch"
    /\ \/ Serve(q, "fallback") /\ UNCHANGED permits
       \/ Fail(q) /\ permits' = permits - 1
    /\ UNCHANGED <<rows, lease, fill, filled, task, expiries>>

-----------------------------------------------------------------------------
(* Bodies: blobTeeReadCloser and blobOpenFallbackReader.                    *)

Piped(q, state) == IF req[q].body = "tee" /\ task[q] = "receive" THEN [task EXCEPT ![q] = state] ELSE task

\* releasePermit: once, by whichever end of a fallback body comes first.
Spent(body) == IF body = "fallback" THEN "spent" ELSE body
GiveBack(q) == permits' = IF req[q].body = "fallback" THEN permits - 1 ELSE permits

\* Read to the end: the pipe is closed cleanly, unless the task left it before;
\* a fallback body closes itself.
ReadEOF(q) ==
    /\ req[q].pc = "serving" /\ ~req[q].eof /\ req[q].body # "spent"
    /\ req' = [req EXCEPT ![q].eof = TRUE, ![q].body = Spent(@)]
    /\ task' = Piped(q, "whole") /\ GiveBack(q)
    /\ UNCHANGED <<rows, lease, fill, filled, expiries>>

\* A failed read, a digest that does not verify or the end of the request's
\* context (AfterFunc) closes a fallback body before its client does.
FallbackEnds(q) ==
    /\ req[q].pc = "serving" /\ req[q].body = "fallback"
    /\ req' = [req EXCEPT ![q].body = Spent(@)] /\ GiveBack(q)
    /\ UNCHANGED <<rows, lease, fill, filled, task, expiries>>

MutantClosed(q, ok) ==
    [req EXCEPT ![q] = [NewRequest EXCEPT !.pc = "done", !.kind = req[q].kind, !.result = IF ok THEN "ok" ELSE "error"]]

\* The request record of a closed body.
Closed(q, ok) ==
    [req EXCEPT ![q] = [NewRequest EXCEPT !.pc = "done", !.kind = req[q].kind,
        !.result = IF ok /\ (req[q].body = "tee" => task[q] = "ok") THEN "ok" ELSE "error"]]

\* Close after the end waits for the commit and returns its error; an earlier
\* Close, a failed read or a cancelled request breaks the pipe.
CloseBody(q) ==
    /\ req[q].pc = "serving"
    /\ \/ /\ req[q].eof
          /\ req[q].body = "tee" => task[q] \in {"ok", "error"}
          /\ req' = Closed(q, TRUE) /\ UNCHANGED task
       \/ ~req[q].eof /\ req' = Closed(q, FALSE) /\ task' = Piped(q, "broken")
    /\ GiveBack(q)
    /\ UNCHANGED <<rows, lease, fill, filled, expiries>>

-----------------------------------------------------------------------------

\* The request's context ends while it waits: for a fill, for the lease (its
\* own fill fails with it) or for the gate.
ContextEnds(q) ==
    /\ \/ req[q].pc \in {"wait", "waitRange"} /\ filled[req[q].on] = "running" /\ UNCHANGED <<fill, filled>>
       \/ req[q].pc = "lease" /\ lease # "none" /\ Finish(q, "error")
       \/ req[q].pc = "fallback" /\ permits = FallbackGate /\ UNCHANGED <<fill, filled>>
    /\ Fail(q)
    /\ UNCHANGED <<rows, lease, task, permits, expiries>>

\* What the code's progress does not rest on.
Fault(q) == ContextEnds(q) \/ LeaseUnavailable(q) \/ FallbackEnds(q)
Step(q) ==
    \/ Look(q) \/ Bypass(q) \/ Begin(q) \/ WaitFill(q) \/ Ongoing(q) \/ WaitRange(q) \/ AcquireLease(q)
    \/ Recheck(q) \/ Stream(q) \/ PutObject(q) \/ PutFails(q) \/ RecordBlob(q) \/ RecordRepoBlob(q)
    \/ FetchAndStore(q) \/ Stored(q) \/ OpenStored(q) \/ Fallback(q) \/ FetchFallback(q) \/ ReadEOF(q) \/ CloseBody(q)
Finished == (\A q \in Requests : req[q].pc = "done") /\ UNCHANGED vars

Next ==
    \/ \E q \in Requests : Step(q) \/ Fault(q) \/ \E kind \in Kinds[q] : Start(q, kind)
    \/ LeaseExpires \/ LostLeaseExpires \/ Finished

Progress == \E q \in Requests : Step(q)
Spec == Init /\ [][Next]_vars /\ WF_vars(Progress) /\ WF_vars(LostLeaseExpires)

-----------------------------------------------------------------------------

Filling(q) == req[q].pc \in {"lease", "recheck", "fetch"} \/ task[q] \in {"receive", "whole", "broken", "blobRow", "repoRow"}

\* Nobody waits for a fill that no one is working on: a registered fill belongs to
\* a request on its way or to its store task, whichever check, fetch, submission,
\* write or client ended it.  So does the lease, unless a failed call of the backend
\* left its key behind; nobody renews that one.
FillsOwned ==
    /\ \A n \in Nodes : fill[n] # "none" => Filling(fill[n]) /\ filled[fill[n]] = "running"
    /\ lease \notin {"none", "lost"} => Filling(lease)

\* A blob is stored once the whole of it went through the pipe, its row comes
\* after the object, the repository's row after the blob's.
RowsFollowObject == (repoRow => blobRow) /\ (blobRow => object)

\* A client that reads a streamed blob to its end and closes it without error
\* knows that it is cached, rows included.
CloseMeansStored ==
    [][\A q \in Requests : req[q].body = "tee" /\ req'[q].result = "ok" => object /\ blobRow /\ repoRow]_vars

\* Permits of the fallback gate are held by fetches and by bodies being read, and by
\* nothing else: each is given back once, at the end of the body, a failed read, the
\* context's end or Close, whichever comes first.
HoldsPermit(q) == req[q].pc = "fallbackFetch" \/ (req[q].pc = "serving" /\ req[q].body = "fallback")
PermitsExact == permits = Cardinality({q \in Requests : HoldsPermit(q)})

\* What the requests of a blob share is in order: fills, lease, permits and rows.
BlobsOwned == FillsOwned /\ PermitsExact /\ RowsFollowObject

\* Every request ends, even if its context never does, once the clients of
\* streamed bodies read on or close them and lost leases run out.
AllEnded == \A q \in Requests : req[q].pc \in {"idle", "done"}
RequestsEnd == <>[]AllEnded
=============================================================================
