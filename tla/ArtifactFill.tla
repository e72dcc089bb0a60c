---------------------------- MODULE ArtifactFill ----------------------------
(* Coalesced filling of one artifact key (internal/artifactcache/fill.go,      *)
(* fill_lease.go, internal/coalescer/tracker.go, internal/worker/             *)
(* lease_renewal.go, internal/cache/backend/lease.go).                        *)
(*                                                                            *)
(* Calls of one process share a Fill: the first one owns it, the others wait. *)
(* Owners of different processes compete for a lease in Valkey (SET NX PX),   *)
(* renewed at half its life and released by token.  A caller makes one call,  *)
(* owns at most one Fill in its life, and names that Fill and its lease token.*)
EXTENDS Naturals

CONSTANTS
    Callers,      \* requests for the key
    Instances,    \* regimux processes
    InstanceOf,   \* the process a request arrives at
    TTL,          \* leaseTTL, in clock ticks
    Prompt,       \* TRUE: a renewal that is due runs before the next tick
    Faulty,       \* TRUE: the lease backend may fail, and metadata reads may
    Crashable,    \* processes that may crash
    Cancellable,  \* requests whose context may end early
    None

ASSUME FillAssumption ==
    /\ InstanceOf \in [Callers -> Instances]
    /\ TTL \in Nat /\ TTL >= 2
    /\ Prompt \in BOOLEAN /\ Faulty \in BOOLEAN
    /\ Crashable \subseteq Instances /\ Cancellable \subseteq Callers
    /\ Callers \cap {None, "none", "upstream", "open", "ownerCanceled"} = {}

VARIABLES
    caller,     \* a request: where it is, the Fill it follows, its context, its result
    tracker,    \* coalescer.Tracker of a process: the owner of the current Fill
    outcome,    \* Fill.done and Fill.err, by owner
    cached,     \* the artifact is in the store
    lease,      \* the lease key in Valkey: token and remaining life
    renewal     \* the renewal goroutine of an owner: state and timer

vars == <<caller, tracker, outcome, cached, lease, renewal>>

-----------------------------------------------------------------------------
(* An error is "upstream" (also a backend's), or the caller whose context ended. *)
Errors == {"none", "upstream"} \cup Callers
OwnerAt == {"check", "acquire", "poll", "filling", "stopping", "joining", "release", "unregister"}
At == {"idle", "begin", "wait", "recheck", "close", "done", "dead"} \cup OwnerAt

NewCaller == [pc |-> "idle", fill |-> None, cancelled |-> FALSE, leased |-> FALSE, err |-> "none"]
NoLease == [token |-> None, left |-> 0]
NoRenewal == [pc |-> "off", wait |-> 0]

\* fillLeaseRenewInterval.
Interval == TTL \div 2

Init ==
    /\ caller = [c \in Callers |-> NewCaller]
    /\ tracker = [i \in Instances |-> None]
    /\ outcome = [c \in Callers |-> "open"]
    /\ cached = FALSE
    /\ lease = NoLease
    /\ renewal = [c \in Callers |-> NoRenewal]

Goto(c, pc) == caller' = [caller EXCEPT ![c].pc = pc]
Return(c, pc, err) == caller' = [caller EXCEPT ![c].pc = pc, ![c].err = err]

-----------------------------------------------------------------------------
(* A request arrives, and its context may end at any later time. *)

Arrive(c) ==
    /\ caller[c].pc = "idle"
    /\ Goto(c, "begin")
    /\ UNCHANGED <<tracker, outcome, cached, lease, renewal>>

Cancel(c) ==
    /\ c \in Cancellable
    /\ caller[c].pc \notin {"idle", "done", "dead"}
    /\ ~caller[c].cancelled
    /\ caller' = [caller EXCEPT ![c].cancelled = TRUE]
    /\ UNCHANGED <<tracker, outcome, cached, lease, renewal>>

(* Begin: GetOrStore of a new Fill under the key. *)
Begin(c) ==
    LET i == InstanceOf[c] IN
    /\ caller[c].pc = "begin"
    /\ IF tracker[i] = None
       THEN tracker' = [tracker EXCEPT ![i] = c] /\ Goto(c, "check")
       ELSE /\ caller' = [caller EXCEPT ![c].pc = "wait", ![c].fill = tracker[i]]
            /\ UNCHANGED tracker
    /\ UNCHANGED <<outcome, cached, lease, renewal>>

(* waitForTrackedFill: the select may see the context or the Fill first, and an *)
(* error of either is the context's once the context has ended.                 *)
WaitCancelled(c) ==
    /\ caller[c].pc = "wait" /\ caller[c].cancelled
    /\ Return(c, "done", c)
    /\ UNCHANGED <<tracker, outcome, cached, lease, renewal>>

WaitDone(c) ==
    LET o == outcome[caller[c].fill] IN
    /\ caller[c].pc = "wait" /\ o # "open"
    /\ CASE o = "none"                               -> Goto(c, "recheck")
         [] o # "none" /\ caller[c].cancelled        -> Return(c, "done", c)
         [] o = "ownerCanceled" /\ ~caller[c].cancelled -> Goto(c, "begin")
         [] OTHER                                    -> Return(c, "done", o)
    /\ UNCHANGED <<tracker, outcome, cached, lease, renewal>>

(* req.Wait reads the store: a hit returns, a miss goes on to the next step. *)
ReadError(c) == IF caller[c].cancelled THEN {c} ELSE IF Faulty THEN {"upstream"} ELSE {}

Recheck(c) ==
    /\ caller[c].pc = "recheck"
    /\ \/ cached /\ Return(c, "done", "none")
       \/ ~cached /\ Goto(c, "begin")
       \/ \E e \in ReadError(c) : Return(c, "done", e)
    /\ UNCHANGED <<tracker, outcome, cached, lease, renewal>>

Check(c) ==
    /\ caller[c].pc = "check"
    /\ \/ cached /\ Return(c, "unregister", "none")
       \/ ~cached /\ Goto(c, "acquire")
       \/ \E e \in ReadError(c) : Return(c, "unregister", e)
    /\ UNCHANGED <<tracker, outcome, cached, lease, renewal>>

-----------------------------------------------------------------------------
(* The distributed lease. *)

\* startFillLeaseRenewal: the timer starts with the fill.
StartRenewal == [pc |-> "timer", wait |-> Interval]

(* acquireFillLease: an error of the backend falls back to a fill without lease, *)
(* although the SET may have taken effect.                                       *)
Acquired(c) ==
    /\ lease.token = None
    /\ lease' = [token |-> c, left |-> TTL]
    /\ renewal' = [renewal EXCEPT ![c] = StartRenewal]
    /\ caller' = [caller EXCEPT ![c].pc = "filling", ![c].leased = TRUE]

Contended(c) ==
    /\ lease.token # None
    /\ Goto(c, "poll")
    /\ UNCHANGED <<lease, renewal>>

AcquireFailed(c) ==
    /\ Faulty \/ caller[c].cancelled
    /\ lease' \in {lease} \cup (IF lease.token = None THEN {[token |-> c, left |-> TTL]} ELSE {})
    /\ Goto(c, "filling")
    /\ UNCHANGED renewal

AcquireLease(c) ==
    /\ caller[c].pc = "acquire"
    /\ Acquired(c) \/ Contended(c) \/ AcquireFailed(c)
    /\ UNCHANGED <<tracker, outcome, cached>>

(* waitForFillPoll. *)
Poll(c) ==
    /\ caller[c].pc = "poll"
    /\ \/ Goto(c, "check")
       \/ caller[c].cancelled /\ Return(c, "unregister", c)
    /\ UNCHANGED <<tracker, outcome, cached, lease, renewal>>

(* req.Fill fetches from upstream and stores; an answer that is not stored (an *)
(* upstream status) is passed through; it may fail, with the context's error   *)
(* once the context has ended.                                                 *)
Fill(c) ==
    /\ caller[c].pc = "filling"
    /\ \/ /\ cached' = TRUE
          /\ Return(c, "stopping", "none")
       \/ /\ \E e \in {"none", "upstream"} \cup {d \in {c} : caller[d].cancelled} :
                Return(c, "stopping", e)
          /\ UNCHANGED cached
    /\ UNCHANGED <<tracker, outcome, lease, renewal>>

(* stopRenew cancels the renewal's context and waits for its goroutine to end. *)
StopRenewal(c) ==
    /\ caller[c].pc = "stopping"
    /\ Goto(c, IF caller[c].leased THEN "joining" ELSE "unregister")
    /\ UNCHANGED <<tracker, outcome, cached, lease, renewal>>

JoinRenewal(c) ==
    /\ caller[c].pc = "joining" /\ renewal[c].pc = "off"
    /\ Goto(c, "release")
    /\ UNCHANGED <<tracker, outcome, cached, lease, renewal>>

(* releaseFillLease: the script deletes the key only if it holds the token. *)
MutantReleasedAny(c) == NoLease
Released(c) == IF lease.token = c THEN NoLease ELSE lease

ReleaseLease(c) ==
    /\ caller[c].pc = "release"
    /\ lease' \in {Released(c)} \cup (IF Faulty THEN {lease} ELSE {})
    /\ Goto(c, "unregister")
    /\ UNCHANGED <<tracker, outcome, cached, renewal>>

-----------------------------------------------------------------------------
(* finishTrackedFill and Tracker.Finish: the key is deleted first, then the     *)
(* outcome is set and the waiters are woken.                                    *)

MutantTrackedErrPlain(c) == caller[c].err
TrackedErr(c) ==
    IF caller[c].err # "none" /\ caller[c].cancelled THEN "ownerCanceled" ELSE caller[c].err

MutantPublishBeforeDelete(c) ==
    /\ caller[c].pc = "unregister"
    /\ outcome' = [outcome EXCEPT ![c] = TrackedErr(c)]
    /\ Goto(c, "close")
    /\ UNCHANGED <<tracker, cached, lease, renewal>>

Unregister(c) ==
    /\ caller[c].pc = "unregister"
    /\ tracker' = [tracker EXCEPT ![InstanceOf[c]] = None]
    /\ Goto(c, "close")
    /\ UNCHANGED <<outcome, cached, lease, renewal>>

MutantCloseFillOnSuccess(c) ==
    /\ caller[c].pc = "close"
    /\ outcome' = [outcome EXCEPT ![c] = IF caller[c].err = "none" THEN "none" ELSE @]
    /\ Goto(c, "done")
    /\ UNCHANGED <<tracker, cached, lease, renewal>>

CloseFill(c) ==
    /\ caller[c].pc = "close"
    /\ outcome' = [outcome EXCEPT ![c] = TrackedErr(c)]
    /\ Goto(c, "done")
    /\ UNCHANGED <<tracker, cached, lease, renewal>>

-----------------------------------------------------------------------------
(* runLeaseRenewal: a timer goroutine per lease, its renewals run on a worker   *)
(* pool that may refuse (retried) or be closed (the goroutine ends).            *)

RenewalStopped(c) == caller[c].cancelled \/ caller[c].pc = "joining"

RenewalSubmit(c) ==
    /\ renewal[c].pc = "due" /\ ~RenewalStopped(c)
    /\ renewal' = [renewal EXCEPT ![c].pc = "extending"]
    /\ UNCHANGED <<caller, tracker, outcome, cached, lease>>

RenewalEnds(c) ==
    /\ \/ renewal[c].pc = "due" /\ ~Prompt
       \/ renewal[c].pc \in {"timer", "due"} /\ RenewalStopped(c)
    /\ renewal' = [renewal EXCEPT ![c] = NoRenewal]
    /\ UNCHANGED <<caller, tracker, outcome, cached, lease>>

(* extendFillLease: the script extends only a key that holds the token; a lost  *)
(* lease and a backend error are logged and the fill goes on.                   *)
Extended(c) == IF lease.token = c THEN [lease EXCEPT !.left = TTL] ELSE lease

Extend(c) ==
    /\ renewal[c].pc = "extending"
    /\ lease' \in {Extended(c)} \cup (IF Faulty \/ RenewalStopped(c) THEN {lease} ELSE {})
    /\ renewal' = [renewal EXCEPT ![c] = IF RenewalStopped(c) THEN NoRenewal ELSE StartRenewal]
    /\ UNCHANGED <<caller, tracker, outcome, cached>>

-----------------------------------------------------------------------------
(* Time, and crashes.  Valkey drops the key when its life ends. *)

Overdue == {c \in Callers : renewal[c].pc \in {"due", "extending"}}

Tick ==
    /\ Prompt => Overdue = {}
    /\ lease' = IF lease.left <= 1 THEN NoLease ELSE [lease EXCEPT !.left = @ - 1]
    /\ renewal' = [c \in Callers |->
                     CASE renewal[c].pc = "timer" /\ renewal[c].wait > 1 -> [renewal[c] EXCEPT !.wait = @ - 1]
                       [] renewal[c].pc = "timer" /\ renewal[c].wait <= 1 -> [pc |-> "due", wait |-> 0]
                       [] OTHER -> renewal[c]]
    /\ UNCHANGED <<caller, tracker, outcome, cached>>

Crash(i) ==
    LET here == {c \in Callers : InstanceOf[c] = i /\ caller[c].pc \notin {"idle", "done", "dead"}} IN
    /\ here # {}
    /\ caller' = [c \in Callers |-> IF c \in here THEN [NewCaller EXCEPT !.pc = "dead"] ELSE caller[c]]
    /\ tracker' = [tracker EXCEPT ![i] = None]
    /\ renewal' = [c \in Callers |-> IF c \in here THEN NoRenewal ELSE renewal[c]]
    /\ UNCHANGED <<outcome, cached, lease>>

-----------------------------------------------------------------------------
Waiting(c) == WaitCancelled(c) \/ WaitDone(c) \/ Recheck(c)
Owning(c) ==
    \/ Check(c) \/ AcquireLease(c) \/ Poll(c) \/ Fill(c) \/ StopRenewal(c) \/ JoinRenewal(c)
    \/ ReleaseLease(c) \/ Unregister(c) \/ CloseFill(c)
Renewing(c) == RenewalSubmit(c) \/ RenewalEnds(c) \/ Extend(c)

Next ==
    \/ \E c \in Callers :
          \/ Arrive(c) \/ Cancel(c) \/ Begin(c) \/ WaitCancelled(c) \/ WaitDone(c) \/ Recheck(c)
          \/ Check(c) \/ AcquireLease(c) \/ Poll(c) \/ Fill(c) \/ StopRenewal(c) \/ JoinRenewal(c)
          \/ ReleaseLease(c) \/ Unregister(c) \/ CloseFill(c)
          \/ RenewalSubmit(c) \/ RenewalEnds(c) \/ Extend(c)
    \/ Tick
    \/ \E i \in Crashable : Crash(i)

Spec == Init /\ [][Next]_vars

(* A goroutine that can run runs, upstream fetches end (transport timeouts), and *)
(* time passes.  Arrivals, cancellations and crashes are not owed.               *)
Fairness ==
    /\ \A c \in Callers : WF_vars(Begin(c) \/ Waiting(c) \/ Owning(c)) /\ WF_vars(Renewing(c))
    /\ WF_vars(Tick)

FairSpec == Spec /\ Fairness

-----------------------------------------------------------------------------
(* Properties *)

\* Every variable has its type: a lease has at most its TTL to live (Extend sets it, it does
\* not add to it) and no timer counts below zero.
TypeOK ==
    /\ caller \in [Callers -> [pc : At, fill : Callers \cup {None}, cancelled : BOOLEAN,
                               leased : BOOLEAN, err : Errors]]
    /\ tracker \in [Instances -> Callers \cup {None}]
    /\ outcome \in [Callers -> Errors \cup {"open", "ownerCanceled"}]
    /\ cached \in BOOLEAN
    /\ lease \in [token : Callers \cup {None}, left : 0..TTL]
    /\ renewal \in [Callers -> [pc : {"off", "timer", "due", "extending"}, wait : 0..Interval]]

\* Tracker.Finish deletes the key before it publishes: a call never joins a Fill whose
\* outcome is already known, so an old error is not handed to a call that came later,
\* and the Fill under the key is the only one of its process being worked on.
JoinsRunningFill ==
    \A i \in Instances :
        /\ tracker[i] # None => /\ outcome[tracker[i]] = "open" /\ caller[tracker[i]].pc \in OwnerAt
                                /\ InstanceOf[tracker[i]] = i
        /\ \A c \in Callers : InstanceOf[c] = i /\ caller[c].pc \in OwnerAt => tracker[i] = c

\* TestCoalescedFillHealthyWaitersSurviveOwnerCancellation: the context error of one
\* request is never the result of another.
HealthyCallsSurvive ==
    \A c \in Callers : caller[c].err \in Callers => caller[c].err = c /\ caller[c].cancelled

\* While renewals run in time, two processes fill under the lease at once only if the
\* request of one of them was cancelled (which stops its renewal).
HealthyFills == {c \in Callers : caller[c].pc = "filling" /\ caller[c].leased /\ ~caller[c].cancelled}
LeaseExclusive == Prompt /\ ~Faulty => \A c, d \in HealthyFills : c = d

\* StartLeaseRenewal: "The returned idempotent stop waits for any admitted renewal
\* before returning, so callers can safely release the lease afterwards": no renewal
\* is under way once the release has begun or the call is over.
RenewalJoined ==
    \A c \in Callers : renewal[c].pc # "off" => caller[c].pc \in {"filling", "stopping", "joining"} /\ caller[c].leased

\* What the lease of an artifact promises (fill_lease.go): one live fill at a time, and an
\* owner that has stopped renewing before it lets go.
LeaseHonoured == LeaseExclusive /\ RenewalJoined
=============================================================================
