-------------------------- MODULE EndpointHealth ----------------------------
(***************************************************************************)
(* What the container upstream client knows about one registry and how it  *)
(* survives a restart (endpoint_health_*.go, probe.go, probehealth,        *)
(* sql_endpoint_health_repository.go).  The tracker keeps a state for the  *)
(* endpoint and one per repository; requests and probes update it and hand *)
(* snapshots to a buffer and to the hot store; flushes (after a probe, the *)
(* job, the stop hook) write the buffer to SQL; a start loads SQL, then    *)
(* the hot store over it.  One repository is modelled.  Latency and scores *)
(* are in UpstreamFailover.  A cooldown is a flag: Tick lets all of them   *)
(* run out.                                                                *)
(***************************************************************************)
EXTENDS Integers, FiniteSets

CONSTANTS
    Updaters,    \* requests and probes that record at the same time
    Flushers,    \* flushes that may run at the same time
    Threshold,   \* FailureThreshold
    MaxUpdates,  \* bound: updates recorded
    MaxStarts    \* bound: starts of the process

VARIABLES
    states,     \* EndpointHealthTracker.states per scope
    upd,        \* per updater: what it still has to hand over
    pending,    \* Client.healthPending: [scope -> record or None]
    batch,      \* per flusher: drained records not yet dealt with
    sql,        \* meta_endpoint_health
    hot,        \* the redis hash of each record, None when expired
    starts, updates,
    fate,       \* history: what became of the scope's records
    failed      \* history: an endpoint-level failure was recorded

vars == <<states, upd, pending, batch, sql, hot, starts, updates, fate, failed>>

Scopes == {"endpoint", "repo"}
NewState == [fails |-> 0, cool |-> FALSE]
None == [fails |-> -1, cool |-> FALSE]     \* no record
Idle == [pc |-> "idle", ep |-> None, repo |-> None]

Init ==
    /\ states = [s \in Scopes |-> NewState]
    /\ upd = [u \in Updaters |-> Idle]
    /\ pending = [s \in Scopes |-> None]
    /\ batch = [f \in Flushers |-> [s \in Scopes |-> None]]
    /\ sql = [s \in Scopes |-> None] /\ hot = [s \in Scopes |-> None]
    /\ starts = 1 /\ updates = 0
    /\ fate = [s \in Scopes |-> "none"]
    /\ failed = FALSE

-----------------------------------------------------------------------------
(* The tracker.                                                            *)

\* Consecutive failures beyond the threshold tell nothing more.
RecordSuccessLocked(st) == NewState
RecordFailureLocked(st) ==
    [fails |-> IF st.fails < Threshold THEN st.fails + 1 ELSE Threshold,
     cool |-> st.cool \/ st.fails + 1 >= Threshold]

\* The endpoint's snapshot under the repository's name: the consecutive
\* failures are the endpoint's, the cooldown the later of both.
CombinedSnapshotLocked(st) == [st["endpoint"] EXCEPT !.cool = @ \/ st["repo"].cool]

\* recordEndpointSuccess / recordEndpointFailure up to the tracker's unlock.
RecordRequest(u, st) ==
    /\ upd[u].pc = "idle" /\ updates < MaxUpdates
    /\ updates' = updates + 1
    /\ states' = st
    /\ upd' = [upd EXCEPT ![u] = [Idle EXCEPT !.pc = "snapshot", !.repo = CombinedSnapshotLocked(st)]]
    /\ UNCHANGED <<pending, batch, sql, hot, starts, fate>>

RecordRequestSuccess(u) ==
    /\ RecordRequest(u, [s \in Scopes |-> RecordSuccessLocked(states[s])])
    /\ UNCHANGED failed

RecordRequestFailure(u) ==
    /\ RecordRequest(u, [s \in Scopes |-> RecordFailureLocked(states[s])])
    /\ failed' = TRUE

\* A public mirror's allowlist denial: the repository only.
RecordRepositoryRequestFailure(u) ==
    /\ RecordRequest(u, [states EXCEPT !["repo"] = RecordFailureLocked(@)])
    /\ UNCHANGED failed

\* Degrades both states, which only the ranking reads, and hands them over.
RecordContentInconsistent(u) ==
    /\ RecordRequest(u, states)
    /\ UNCHANGED failed

\* The endpoint's own snapshot is read under a lock of its own.
Snapshot(u) ==
    /\ upd[u].pc = "snapshot"
    /\ upd' = [upd EXCEPT ![u].pc = "enqueue", ![u].ep = states["endpoint"]]
    /\ UNCHANGED <<states, pending, batch, sql, hot, starts, fate, failed, updates>>

\* A probe touches the endpoint's state and keeps the snapshot it returns.
RecordProbe(u, ok) ==
    /\ upd[u].pc = "idle" /\ updates < MaxUpdates
    /\ updates' = updates + 1
    /\ LET st == IF ok THEN RecordSuccessLocked(states["endpoint"])
                 ELSE RecordFailureLocked(states["endpoint"])
       IN  /\ states' = [states EXCEPT !["endpoint"] = st]
           /\ upd' = [upd EXCEPT ![u] = [Idle EXCEPT !.pc = "enqueue", !.ep = st]]
    /\ failed' = (failed \/ ~ok)
    /\ UNCHANGED <<pending, batch, sql, hot, starts, fate>>

-----------------------------------------------------------------------------
(* The buffer, the hot store and the flushes.                              *)

Handed(u) == IF upd[u].ep # None THEN "endpoint" ELSE "repo"
HandedRecord(u) == IF upd[u].ep # None THEN upd[u].ep ELSE upd[u].repo

\* persistEndpointHealthSnapshot: the buffer first.
Enqueue(u) ==
    /\ upd[u].pc = "enqueue"
    /\ pending' = [pending EXCEPT ![Handed(u)] = HandedRecord(u)]
    /\ fate' = [fate EXCEPT ![Handed(u)] = "queued"]
    /\ upd' = [upd EXCEPT ![u].pc = "hot"]
    /\ UNCHANGED <<states, batch, sql, hot, starts, failed, updates>>

\* ... then the hot store, whose errors are only logged.
PutHot(u, ok) ==
    /\ upd[u].pc = "hot"
    /\ hot' = IF ok THEN [hot EXCEPT ![Handed(u)] = HandedRecord(u)] ELSE hot
    /\ upd' = [upd EXCEPT ![u] = IF upd[u].ep # None /\ upd[u].repo # None
                                 THEN [@ EXCEPT !.pc = "enqueue", !.ep = None] ELSE Idle]
    /\ UNCHANGED <<states, pending, batch, sql, starts, fate, failed, updates>>

NothingIn(b) == \A s \in Scopes : b[s] = None

Drain(f) ==
    /\ NothingIn(batch[f]) /\ ~NothingIn(pending)
    /\ batch' = [batch EXCEPT ![f] = pending]
    /\ pending' = [s \in Scopes |-> None]
    /\ UNCHANGED <<states, upd, sql, hot, starts, fate, failed, updates>>

\* PutEndpointHealthSnapshot: an unconditional upsert by key.
Persist(f, s) ==
    /\ batch[f][s] # None
    /\ sql' = [sql EXCEPT ![s] = batch[f][s]]
    /\ batch' = [batch EXCEPT ![f][s] = None]
    /\ fate' = [fate EXCEPT ![s] = "stored"]
    /\ UNCHANGED <<states, upd, pending, hot, starts, failed, updates>>

MutantRequeued(f, s) == pending

\* requeueEndpointHealth: a record enqueued since then is newer and stays.
Requeued(f, s) ==
    IF pending[s] = None THEN [pending EXCEPT ![s] = batch[f][s]] ELSE pending

PersistFails(f, s) ==
    /\ batch[f][s] # None
    /\ pending' = Requeued(f, s)
    /\ batch' = [batch EXCEPT ![f][s] = None]
    /\ UNCHANGED <<states, upd, sql, hot, starts, fate, failed, updates>>

\* The flushes that hold a record of the scope.
Waiting(s) == {f \in Flushers : batch[f][s] # None}

\* The flush's 15 seconds are over: the record at hand goes back, the loop ends
\* and the records it did not come to are gone.
FlushTimesOut(f, s) ==
    /\ batch[f][s] # None
    /\ pending' = Requeued(f, s)
    /\ batch' = [batch EXCEPT ![f] = [t \in Scopes |-> None]]
    /\ fate' = [t \in Scopes |-> IF t # s /\ Waiting(t) = {f} /\ pending[t] = None
                                 THEN "dropped" ELSE fate[t]]
    /\ UNCHANGED <<states, upd, sql, hot, starts, failed, updates>>

\* The hash of a record expires after 24 hours without a Put.
HotExpires(s) ==
    /\ hot[s] # None /\ starts < MaxStarts     \* nothing reads it after the last start
    /\ hot' = [hot EXCEPT ![s] = None]
    /\ UNCHANGED <<states, upd, pending, batch, sql, starts, fate, failed, updates>>

\* Every cooldown ends.
Cooled(b) == [s \in Scopes |-> [b[s] EXCEPT !.cool = FALSE]]
Tick ==
    /\ \E s \in Scopes : states[s].cool
    /\ \A u \in Updaters : upd[u].pc = "idle"
    /\ states' = Cooled(states) /\ pending' = Cooled(pending)
    /\ sql' = Cooled(sql) /\ hot' = Cooled(hot)
    /\ batch' = [f \in Flushers |-> Cooled(batch[f])]
    /\ UNCHANGED <<upd, starts, fate, failed, updates>>

\* LoadEndpointHealth: SQL first, what the hot store lists over it.  listed is
\* FALSE when the hot store cannot be read.
Restored(listed) == [s \in Scopes |-> IF listed /\ hot[s] # None THEN hot[s]
                                       ELSE IF sql[s] # None THEN sql[s] ELSE NewState]

\* The process goes away, at any point, and starts again.
Restart(listed) ==
    /\ starts < MaxStarts
    /\ starts' = starts + 1
    /\ states' = Restored(listed)
    /\ upd' = [u \in Updaters |-> Idle]
    /\ pending' = [s \in Scopes |-> None]
    /\ batch' = [f \in Flushers |-> [s \in Scopes |-> None]]
    /\ fate' = [s \in Scopes |-> "none"]
    /\ UNCHANGED <<sql, hot, failed, updates>>

Finished ==
    /\ \A u \in Updaters : upd[u].pc = "idle"
    /\ NothingIn(pending) /\ \A f \in Flushers : NothingIn(batch[f])
    /\ UNCHANGED vars

Update(u) ==
    \/ RecordRequestSuccess(u) \/ RecordRequestFailure(u)
    \/ RecordRepositoryRequestFailure(u) \/ RecordContentInconsistent(u)
    \/ \E ok \in BOOLEAN : RecordProbe(u, ok)
HandOver(u) == Snapshot(u) \/ Enqueue(u) \/ \E ok \in BOOLEAN : PutHot(u, ok)

Next ==
    \/ \E u \in Updaters : Update(u) \/ HandOver(u)
    \/ \E f \in Flushers : Drain(f) \/ \E s \in Scopes : Persist(f, s) \/ PersistFails(f, s) \/ FlushTimesOut(f, s)
    \/ \E s \in Scopes : HotExpires(s)
    \/ \E listed \in BOOLEAN : Restart(listed)
    \/ Tick \/ Finished

Spec == Init /\ [][Next]_vars

-----------------------------------------------------------------------------

\* A scope with a change nothing was written for since has a record in the
\* buffer or in the hands of a flush, through failed writes and overlapping
\* flushes.  Only a flush that runs out of its 15 seconds drops the last one
\* (FlushEndpointHealth ends its loop without requeueing the rest).
NothingForgotten ==
    \A s \in Scopes : fate[s] = "queued" => pending[s] # None \/ Waiting(s) # {}

\* A repository's coverage failures never put the whole endpoint into cooldown,
\* neither in the tracker nor in what any store keeps for the next start
\* (RecordRepositoryRequestFailure, the combined snapshot's record key).
FailureContained ==
    ~failed =>
        /\ ~states["endpoint"].cool /\ ~pending["endpoint"].cool
        /\ ~sql["endpoint"].cool /\ ~hot["endpoint"].cool

\* Both: every health change is on its way to the store until it is written, and what is
\* kept never blames the endpoint for a repository's failures.
HealthKept == NothingForgotten /\ FailureContained
=============================================================================
