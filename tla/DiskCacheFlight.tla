-------------------------- MODULE DiskCacheFlight --------------------------
(***************************************************************************)
(* One shared fill of a digest (diskCacheFill): the callers of Get that    *)
(* join it, the producer goroutine that copies the canonical object into a *)
(* temporary file, the reader objects over that file, and Close            *)
(* (disk_cache_shared.go, disk_cache_flight_*.go, disk_cache_close.go).    *)
(* Every action is one critical section of `mu' or one effect outside it,  *)
(* so the actors interleave at every unlock. What the fill does to the     *)
(* index and the byte counters is in DiskCache.                            *)
(***************************************************************************)
EXTENDS Integers, FiniteSets

CONSTANTS Callers      \* calls of Get for the digest, over the whole behaviour

VARIABLES
    fill,        \* the diskCacheFill
    caller,      \* caller[c]: a call of Get and the reader object it was given
    producer,    \* runDiskCacheFlight
    closer,      \* DiskCacheStore.Close
    closed,      \* DiskCacheStore.closed
    rootOpen,    \* FALSE once closeCacheRoot has run
    body         \* "none" or "published": the outcome of the fill on disk

vars == <<fill, caller, producer, closer, closed, rootOpen, body>>

\* What releaseDiskCacheFlightRef captures under the lock and acts on afterwards.
NoRelease == [cancel |-> FALSE, wait |-> FALSE, last |-> FALSE, producerDone |-> FALSE, bypass |-> FALSE]

NewFill == [inFills |-> FALSE, active |-> FALSE, refs |-> 0, invalid |-> FALSE,
            ready |-> "no", ownerActive |-> FALSE, directReader |-> FALSE,
            fullConsumed |-> FALSE, producerDone |-> FALSE, producerErr |-> FALSE,
            bypass |-> FALSE, finalizing |-> FALSE, publish |-> FALSE, done |-> FALSE,
            cancelled |-> FALSE, written |-> FALSE, temp |-> "none"]

NewCaller == [pc |-> "idle", leader |-> FALSE, direct |-> FALSE, full |-> FALSE,
              rel |-> NoRelease]

\* A caller holds a reference from joinDiskCacheFlight until its release is recorded.
Holding == {"waiting", "registering", "open", "closing", "abandoning"}
Holders == {c \in Callers : caller[c].pc \in Holding}

\* diskCacheFlightValidLocked
FlightValid == ~closed /\ ~fill.invalid /\ fill.inFills

\* diskCacheFlightReader objects in flightReaders.
FlightReaders == {c \in Callers : caller[c].pc = "open"}

Goto(c, pc) == caller' = [caller EXCEPT ![c].pc = pc]

-----------------------------------------------------------------------------
(* getCanonicalSharedFull *)

\* diskCacheFlightAcceptsReader
AcceptsReader ==
    /\ ~fill.invalid /\ ~fill.finalizing
    /\ fill.refs > 0
    /\ fill.ready \in {"no", "ok"}

\* joinDiskCacheFlight by the first caller. The key token is void from the start when
\* a mutation of the digest is running (blocked), which has the effect of invalid.
JoinLeader(c) ==
    /\ caller[c].pc = "idle"
    /\ ~closed
    /\ fill = NewFill
    /\ \E blocked \in BOOLEAN :
          fill' = [NewFill EXCEPT !.inFills = TRUE, !.active = TRUE, !.refs = 1,
                                  !.ownerActive = TRUE, !.invalid = blocked]
    /\ caller' = [caller EXCEPT ![c].pc = "waiting", ![c].leader = TRUE]
    /\ producer' = [producer EXCEPT !.pc = "getting"]
    /\ UNCHANGED <<closer, closed, rootOpen, body>>

JoinFollower(c) ==
    /\ caller[c].pc = "idle"
    /\ ~closed
    /\ fill.inFills /\ AcceptsReader
    /\ fill' = [fill EXCEPT !.refs = @ + 1]
    /\ Goto(c, "waiting")
    /\ UNCHANGED <<producer, closer, closed, rootOpen, body>>

\* Turned away from this fill: the caller gets an error, reads the canonical store
\* itself or, once the fill has ended, starts another one.
JoinRefused(c) ==
    /\ caller[c].pc = "idle"
    /\ closed \/ (fill # NewFill /\ ~(fill.inFills /\ AcceptsReader))
    /\ Goto(c, "finished")
    /\ UNCHANGED <<fill, producer, closer, closed, rootOpen, body>>

\* awaitDiskCacheFlight: the caller's context is done before or at ready.
AwaitCancelled(c) ==
    /\ caller[c].pc = "waiting"
    /\ Goto(c, "abandoning")
    /\ UNCHANGED <<fill, producer, closer, closed, rootOpen, body>>

\* takeDiskCacheFlightReader with a stream, or with the bypass reader, which only
\* the leader gets; anybody else abandons the flight with the error.
TakeReader(c) ==
    /\ caller[c].pc = "waiting"
    /\ fill.ready # "no"
    /\ LET direct == caller[c].leader /\ fill.ownerActive /\ fill.directReader
       IN  IF ~closed /\ fill.ready = "ok"
           THEN Goto(c, "registering") /\ UNCHANGED fill
           ELSE IF ~closed /\ fill.ready = "unavailable" /\ direct
           THEN /\ caller' = [caller EXCEPT ![c].pc = "registering", ![c].direct = TRUE]
                /\ fill' = [fill EXCEPT !.directReader = FALSE, !.ownerActive = FALSE]
           ELSE Goto(c, "abandoning") /\ UNCHANGED fill
    /\ UNCHANGED <<producer, closer, closed, rootOpen, body>>

\* registerDiskCacheFlightReader; a context done meanwhile has closed the object.
RegisterReader(c) ==
    /\ caller[c].pc = "registering"
    /\ IF closed \/ fill.refs <= 0 \/ (~caller[c].direct /\ fill.producerErr)
       THEN Goto(c, "closing")
       ELSE \E pc \in {"open", "closing"} : Goto(c, pc)
    /\ UNCHANGED <<fill, producer, closer, closed, rootOpen, body>>

-----------------------------------------------------------------------------
(* The reader object. close runs once, whoever calls it first: the caller,  *)
(* its context's AfterFunc, the producer of a failed fill or Close.         *)

\* Everything was read: the bytes have all been written and verified by then.
ReadFull(c) ==
    /\ caller[c].pc = "open"
    /\ ~caller[c].direct /\ ~caller[c].full
    /\ fill.written /\ ~fill.cancelled
    /\ caller' = [caller EXCEPT ![c].full = TRUE]
    /\ UNCHANGED <<fill, producer, closer, closed, rootOpen, body>>

\* close, first critical section.
BeginClose(c) ==
    /\ caller[c].pc = "open"
    /\ Goto(c, "closing")
    /\ UNCHANGED <<fill, producer, closer, closed, rootOpen, body>>

\* updateDiskCacheFlightRefLocked, the reference.
ReleasedRefs(c) == IF fill.refs > 0 THEN fill.refs - 1 ELSE 0

\* updateDiskCacheFlightRefLocked, the reader: only a stream that was read to the end.
Consumed(c) == fill.fullConsumed \/ caller[c].full

\* Mutant: any caller that leaves early cancels the producer.
MutantCancelsAll(c) == ~fill.producerDone /\ ~Consumed(c)

\* captureDiskCacheFlightReleaseLocked: the last reference cancels an unfinished copy
\* that nobody read to the end.
CancelsProducer(c) == ReleasedRefs(c) = 0 /\ ~fill.producerDone /\ ~Consumed(c)

\* The bypass reader goes with its leader or with the last reference; only a caller
\* that never got a reader object passes leader.
DropsDirect(c) ==
    ReleasedRefs(c) = 0 \/ (caller[c].leader /\ caller[c].pc = "abandoning")

\* recordDiskCacheFlightRelease. The bypass reader, taken or not, cancels the shared
\* context when it is closed.
RecordRelease(c) ==
    LET last == ReleasedRefs(c) = 0
    IN  /\ caller[c].pc \in {"closing", "abandoning"}
        /\ fill' = [fill EXCEPT
             !.refs = ReleasedRefs(c),
             !.ownerActive = @ /\ ~(caller[c].leader /\ caller[c].pc = "abandoning"),
             !.fullConsumed = Consumed(c),
             !.invalid = @ \/ CancelsProducer(c),
             !.directReader = @ /\ ~DropsDirect(c),
             !.cancelled = @ \/ caller[c].direct \/ (fill.directReader /\ DropsDirect(c))]
        /\ caller' = [caller EXCEPT
             ![c].pc = "released",
             ![c].rel = [cancel |-> CancelsProducer(c),
                         wait |-> last /\ ~fill.producerDone /\ caller[c].pc = "closing",
                         last |-> last, producerDone |-> fill.producerDone,
                         bypass |-> fill.bypass]]
        /\ UNCHANGED <<producer, closer, closed, rootOpen, body>>

\* finishDiskCacheFlightRelease: cancel the producer outside the lock, then let the
\* last reference of a finished copy end the fill.
FinishRelease(c) ==
    LET rel == caller[c].rel
        bypassEnd == rel.last /\ rel.producerDone /\ rel.bypass
        cleanup == rel.producerDone /\ rel.bypass /\ ~rel.last
                     /\ fill.refs = 0 /\ fill.producerDone
    IN  /\ caller[c].pc = "released"
        /\ fill' = [fill EXCEPT !.cancelled = @ \/ rel.cancel \/ bypassEnd,
                                !.active = @ /\ ~cleanup]
        /\ Goto(c, IF rel.producerDone /\ ~rel.bypass THEN "finishing"
                   ELSE IF rel.wait THEN "draining" ELSE "finished")
        /\ UNCHANGED <<producer, closer, closed, rootOpen, body>>

\* Close waits for the producer that its release left running.
Drained(c) ==
    /\ caller[c].pc = "draining"
    /\ fill.done
    /\ Goto(c, "finished")
    /\ UNCHANGED <<fill, producer, closer, closed, rootOpen, body>>

-----------------------------------------------------------------------------
(* maybeFinishDiskCacheFlight, run by the producer and by every reader that *)
(* finds the copy done; the three unlocks in it are visible to the others.  *)

\* Who runs it next: at is the actor's label before, then the label afterwards.
Actor(at, then) ==
    \/ \E c \in Callers : caller[c].pc = at /\ Goto(c, then) /\ UNCHANGED producer
    \/ producer.pc = at /\ producer' = [producer EXCEPT !.pc = then] /\ UNCHANGED caller

ActorDone(at) ==
    \/ \E c \in Callers : caller[c].pc = at /\ Goto(c, "finished") /\ UNCHANGED producer
    \/ producer.pc = at /\ producer' = [producer EXCEPT !.pc = "returning"] /\ UNCHANGED caller

FinishSkipped ==
    /\ fill.finalizing \/ ~fill.producerDone \/ fill.refs > 0
    /\ ActorDone("finishing")
    /\ UNCHANGED <<fill, closer, closed, rootOpen, body>>

BeginFinalize ==
    /\ ~fill.finalizing /\ fill.producerDone /\ fill.refs = 0
    /\ Actor("finishing", "finalizing")
    /\ fill' = [fill EXCEPT !.finalizing = TRUE,
                            !.publish = ~fill.producerErr /\ fill.fullConsumed /\ FlightValid]
    /\ UNCHANGED <<closer, closed, rootOpen, body>>

\* publishFill, with the checks repeated under the lock.
Publish ==
    /\ fill.publish /\ FlightValid
    /\ Actor("finalizing", "stopping")
    /\ fill' = [fill EXCEPT !.inFills = FALSE, !.temp = "none"]
    /\ body' = "published"
    /\ UNCHANGED <<closer, closed, rootOpen>>

\* abortFill and discardUnpublishableFillLocked, also after a publication that
\* failed. The temporary file stays when the directory was closed under it.
Abort ==
    /\ Actor("finalizing", "stopping")
    /\ fill' = [fill EXCEPT !.inFills = FALSE,
                            !.temp = IF rootOpen THEN "none" ELSE "abandoned"]
    /\ UNCHANGED <<closer, closed, rootOpen, body>>

\* stopDiskCacheFlightContext and cleanupDiskCacheFlightLifetimeLocked.
StopFlight ==
    /\ ActorDone("stopping")
    /\ fill' = [fill EXCEPT !.cancelled = TRUE, !.active = FALSE]
    /\ UNCHANGED <<closer, closed, rootOpen, body>>

-----------------------------------------------------------------------------
(* The producer: runDiskCacheFlight *)

Produce(at, then) == producer.pc = at /\ producer' = [producer EXCEPT !.pc = then]

\* openDiskCacheFlight: backend.Get returns, with a reader or an error.
ProducerGet ==
    /\ \E then \in {"opened", "openError"} : Produce("getting", then)
    /\ UNCHANGED <<fill, caller, closer, closed, rootOpen, body>>

\* canonicalOpenError, then the size limits.
ProducerCheck ==
    /\ IF fill.cancelled \/ closed THEN Produce("opened", "openError")
       ELSE \E then \in {"preparing", "bypassing"} : Produce("opened", then)
    /\ UNCHANGED <<fill, caller, closer, closed, rootOpen, body>>

\* prepareDiskCacheFlight: room was made and the stream created, or not.
ProducerPrepare ==
    /\ \/ /\ FlightValid /\ fill.refs > 0
          /\ Produce("preparing", "copying")
          /\ fill' = [fill EXCEPT !.temp = "file", !.ready = IF @ = "no" THEN "ok" ELSE @]
       \/ /\ FlightValid /\ fill.refs > 0
          /\ \E then \in {"bypassing", "prepareError"} : Produce("preparing", then)
          /\ UNCHANGED fill
       \/ /\ ~FlightValid \/ fill.refs = 0
          /\ Produce("preparing", "prepareError")
          /\ UNCHANGED fill
    /\ UNCHANGED <<caller, closer, closed, rootOpen, body>>

\* prepareDiskCacheFlightOrBypass after an error other than a lack of room.
ProducerPrepareError ==
    /\ Produce("prepareError", IF fill.cancelled \/ closed THEN "openError" ELSE "bypassing")
    /\ UNCHANGED <<fill, caller, closer, closed, rootOpen, body>>

\* finishDiskCacheFlightOpenError
ProducerOpenError ==
    /\ Produce("openError", "returning")
    /\ fill' = [fill EXCEPT !.producerErr = TRUE, !.producerDone = TRUE, !.bypass = TRUE,
                            !.ready = IF @ = "no" THEN "error" ELSE @,
                            !.inFills = FALSE, !.active = @ /\ fill.refs > 0,
                            !.cancelled = TRUE]
    /\ UNCHANGED <<caller, closer, closed, rootOpen, body>>

\* assignDiskCacheFlightBypass: the open reader is kept for the leader.
ProducerBypass ==
    LET keep == fill.ownerActive /\ fill.refs > 0 /\ ~closed
    IN  /\ Produce("bypassing", IF keep THEN "bypassed" ELSE "closingReader")
        /\ fill' = [fill EXCEPT !.producerDone = TRUE, !.bypass = TRUE,
                                !.ready = IF closed THEN "closed" ELSE "unavailable",
                                !.directReader = keep, !.ownerActive = keep,
                                !.inFills = FALSE]
        /\ UNCHANGED <<caller, closer, closed, rootOpen, body>>

\* The rest of finishDiskCacheFlightBypass.
ProducerBypassed ==
    /\ \/ /\ Produce("bypassed", "returning")
          /\ fill' = [fill EXCEPT !.active = @ /\ fill.refs > 0]
       \/ /\ Produce("closingReader", "returning")
          /\ fill' = [fill EXCEPT !.active = @ /\ fill.refs > 0, !.cancelled = TRUE]
    /\ UNCHANGED <<caller, closer, closed, rootOpen, body>>

\* copyVerifiedDiskCacheStream: all bytes written and verified, or an error, which a
\* cancelled context, stream or source brings about.
ProducerCopy ==
    /\ \/ Produce("copying", "written") /\ fill' = [fill EXCEPT !.written = TRUE]
       \/ Produce("copying", "failed") /\ UNCHANGED fill
    /\ UNCHANGED <<caller, closer, closed, rootOpen, body>>

\* The last statements of copyDiskCacheFlight's copy, and its critical section.
ProducerCopied ==
    /\ \/ /\ Produce("written", "finishing")
          /\ fill' = [fill EXCEPT !.producerDone = TRUE]
       \/ \E at \in {"written", "failed"} :
             /\ Produce(at, "invalidating")
             /\ fill' = [fill EXCEPT !.producerDone = TRUE, !.producerErr = TRUE]
    /\ UNCHANGED <<caller, closer, closed, rootOpen, body>>

\* invalidateDiskCacheFlightReaders: the readers registered at this moment.
ProducerInvalidate ==
    /\ producer.pc = "invalidating"
    /\ producer' = [pc |-> "closingReaders", readers |-> FlightReaders]
    /\ UNCHANGED <<fill, caller, closer, closed, rootOpen, body>>

\* reader.Close() by another goroutine: it starts the close or waits for the one
\* that is running, and then for the producer if the close asks for it.
CloseOf(readers) == \E c \in readers : caller[c].pc = "open" /\ Goto(c, "closing")
ClosesReturned(readers) ==
    \A c \in readers : \/ caller[c].pc = "finished"
                       \/ caller[c].pc = "draining" /\ fill.done

ProducerCloseReader ==
    /\ producer.pc = "closingReaders"
    /\ CloseOf(producer.readers)
    /\ UNCHANGED <<fill, producer, closer, closed, rootOpen, body>>

ProducerReadersClosed ==
    /\ ClosesReturned(producer.readers)
    /\ Produce("closingReaders", "finishing")
    /\ UNCHANGED <<fill, caller, closer, closed, rootOpen, body>>

\* The deferred close(fill.done).
ProducerReturn ==
    /\ Produce("returning", "returned")
    /\ fill' = [fill EXCEPT !.done = TRUE]
    /\ UNCHANGED <<caller, closer, closed, rootOpen, body>>

-----------------------------------------------------------------------------
(* Put, Delete or Evict of the digest: beginKeyMutation *)
Invalidate ==
    /\ fill.inFills /\ ~fill.invalid
    /\ fill' = [fill EXCEPT !.invalid = TRUE]
    /\ UNCHANGED <<caller, producer, closer, closed, rootOpen, body>>

-----------------------------------------------------------------------------
(* Close: closeResources *)

MarkClosed ==
    /\ closer.pc = "idle"
    /\ closer' = [pc |-> "fills", waits |-> fill.active, readers |-> FlightReaders]
    /\ closed' = TRUE
    /\ fill' = IF fill.active
               THEN [fill EXCEPT !.invalid = TRUE, !.cancelled = TRUE,
                                 !.ready = IF @ = "no" THEN "closed" ELSE @]
               ELSE fill
    /\ UNCHANGED <<caller, producer, rootOpen, body>>

\* closeActiveFill: the bypass reader nobody took, the context, stream and source.
CloseActiveFill ==
    /\ closer.pc = "fills"
    /\ closer' = [closer EXCEPT !.pc = "readers"]
    /\ fill' = IF closer.waits THEN [fill EXCEPT !.directReader = FALSE, !.cancelled = TRUE] ELSE fill
    /\ UNCHANGED <<caller, producer, closed, rootOpen, body>>

CloserCloseReader ==
    /\ closer.pc = "readers"
    /\ CloseOf(closer.readers)
    /\ UNCHANGED <<fill, producer, closer, closed, rootOpen, body>>

\* closeActiveFlightReaders has returned; waitForDiskCacheFlights; closeCacheRoot.
CloseCacheRoot ==
    /\ closer.pc = "readers"
    /\ ClosesReturned(closer.readers)
    /\ closer.waits => fill.done /\ fill.refs = 0
    /\ closer' = [closer EXCEPT !.pc = "closed"]
    /\ rootOpen' = FALSE
    /\ UNCHANGED <<fill, caller, producer, closed, body>>

\* Nothing is left to do for this flight.
Quiescent ==
    /\ \A c \in Callers : caller[c].pc = "finished"
    /\ producer.pc \in {"none", "returned"}

Terminated == Quiescent /\ closer.pc = "closed" /\ UNCHANGED vars

-----------------------------------------------------------------------------
Init ==
    /\ fill = NewFill
    /\ caller = [c \in Callers |-> NewCaller]
    /\ producer = [pc |-> "none", readers |-> {}]
    /\ closer = [pc |-> "idle", waits |-> FALSE, readers |-> {}]
    /\ closed = FALSE
    /\ rootOpen = TRUE
    /\ body = "none"

CallerStep(c) ==
    \/ JoinLeader(c) \/ JoinFollower(c) \/ JoinRefused(c)
    \/ AwaitCancelled(c) \/ TakeReader(c) \/ RegisterReader(c)
    \/ ReadFull(c) \/ BeginClose(c)
    \/ RecordRelease(c) \/ FinishRelease(c) \/ Drained(c)

FinishStep == FinishSkipped \/ BeginFinalize \/ Publish \/ Abort \/ StopFlight

\* The calls of the canonical store that the producer waits for, and its own steps.
ProducerWait == ProducerGet \/ ProducerCopy

ProducerStep ==
    \/ ProducerCheck \/ ProducerPrepare \/ ProducerPrepareError
    \/ ProducerOpenError \/ ProducerBypass \/ ProducerBypassed
    \/ ProducerCopied
    \/ ProducerInvalidate \/ ProducerCloseReader \/ ProducerReadersClosed \/ ProducerReturn

CloserStep == MarkClosed \/ CloseActiveFill \/ CloserCloseReader \/ CloseCacheRoot

Next ==
    \/ \E c \in Callers : CallerStep(c)
    \/ FinishStep \/ ProducerWait \/ ProducerStep \/ Invalidate \/ CloserStep \/ Terminated

Spec == Init /\ [][Next]_vars

\* Goroutines run. Nothing makes a caller close its reader, the canonical store answer
\* or deliver bytes, unless the fill's context is cancelled: then both return.
CallerReturns(c) ==
    TakeReader(c) \/ RegisterReader(c) \/ RecordRelease(c) \/ FinishRelease(c) \/ Drained(c)
CloserReturns == CloseActiveFill \/ CloserCloseReader \/ CloseCacheRoot
Fairness ==
    /\ \A c \in Callers : WF_vars(CallerReturns(c))
    /\ WF_vars(FinishStep)
    /\ WF_vars(fill.cancelled /\ ProducerWait)
    /\ WF_vars(ProducerStep)
    /\ WF_vars(CloserReturns)

FairSpec == Spec /\ Fairness

-----------------------------------------------------------------------------
(* Properties *)

\* The reference count of a fill is the number of calls that hold it, at every unlock:
\* no release is lost or done twice, whoever closes a reader (updateDiskCacheFlightRefLocked).
RefsExact == fill.refs = Cardinality(Holders)

\* A caller that leaves, and the finalizing of the fill, never cancel the context,
\* stream or source under a reader that is still open; only Close and the failure
\* of the copy itself do. Doc: "Canceling one request leaves the other readers running".
ReadersUndisturbed ==
    FlightReaders # {} /\ fill.cancelled => closed \/ fill.producerErr

\* Only an object that was copied completely, verified, and read to the end by some
\* reader is published, and by then nobody reads the temporary file any more.
PublishedIsComplete ==
    body = "published" => /\ fill.written /\ fill.fullConsumed /\ ~fill.producerErr
                          /\ fill.producerDone /\ ~fill.bypass
                          /\ Holders = {}

\* When all calls and the producer have returned, the fill is out of the index, its
\* temporary file is gone unless the directory was closed first, the bypass reader
\* was handed out or closed, and a fill that reached the disk is out of activeFlights.
NothingLeftBehind ==
    Quiescent => /\ ~fill.inFills
                 /\ fill.temp # "file" /\ (fill.temp = "none" \/ closed)
                 /\ ~fill.directReader
                 /\ fill.active => fill.bypass

\* However callers, producer and Close interleave, a shared fill serves those who hold it,
\* is published only when it is complete and leaves nothing behind.
FlightsSound == RefsExact /\ ReadersUndisturbed /\ PublishedIsComplete /\ NothingLeftBehind

\* Close returns, although readers it does not know of are being registered, released
\* or finalized while it runs.  Doc: "when the last reader closes, an unfinished fill is
\* canceled and cleaned up"; nobody joins a fill that all have left.
Abandoned == fill # NewFill /\ Holders = {}
Returned ==
    /\ closer.pc \in {"idle", "closed"}
    /\ Abandoned => fill.done /\ ~fill.inFills /\ fill.temp # "file"
=============================================================================
