---------------------------- MODULE FillsProofs -----------------------------
(* Safety of coalesced fills for every set of requests and processes, every       *)
(* lease life and every pattern of faults, crashes and cancellations; then, from  *)
(* MavenSetting on, of the Maven proxy's fill pool (MavenFill, as M), and from    *)
(* CallerPlaces on of a shared fill of the disk cache (DiskCacheFlight, as D).    *)
EXTENDS Fills, FiniteSetTheorems, TLAPS

(* A call that waits follows some call's Fill. *)
FollowsSome == \A c \in Callers : caller[c].pc = "wait" => caller[c].fill \in Callers

(* A Fill has an outcome only when its owner has returned, and the outcome is   *)
(* never a request's own context error.                                         *)
OutcomeAtEnd == \A c \in Callers : outcome[c] # "open" => caller[c].pc = "done"
OutcomeShared == \A c \in Callers : outcome[c] \notin Callers

TypeInv == TypeOK /\ FollowsSome

Inv == TypeInv /\ JoinsRunningFill /\ OutcomeAtEnd /\ OutcomeShared /\ HealthyCallsSurvive /\ RenewalJoined

(* The steps of one call, of its renewal, and of the rest. *)
CallStep(c) ==
    \/ Arrive(c) \/ Cancel(c) \/ Begin(c) \/ WaitCancelled(c) \/ WaitDone(c) \/ Recheck(c)
    \/ Check(c) \/ AcquireLease(c) \/ Poll(c) \/ Fill(c) \/ StopRenewal(c) \/ JoinRenewal(c)
    \/ ReleaseLease(c) \/ Unregister(c) \/ CloseFill(c)

(* What a step may do to the record of a call. *)
Moves(c, pcs) ==
    \E r \in [pc : pcs, fill : Callers \cup {None}, cancelled : BOOLEAN, leased : BOOLEAN, err : Errors] :
        caller' = [caller EXCEPT ![c] = r]

(* The renewal interval is at least a tick and shorter than the lease. *)
LEMMA IntervalFits == Interval \in Nat /\ 1 <= Interval /\ Interval < TTL
BY FillAssumption DEF Interval

(* The initial state satisfies the invariant. *)
LEMMA InvInit == Init => Inv
<1> SUFFICES ASSUME Init PROVE Inv
    OBVIOUS
<1>1. \A c \in Callers : caller[c] = NewCaller /\ renewal[c] = NoRenewal /\ outcome[c] = "open"
    BY DEF Init
<1>2. NewCaller \in [pc : At, fill : Callers \cup {None}, cancelled : BOOLEAN,
                     leased : BOOLEAN, err : Errors]
    BY DEF NewCaller, At, OwnerAt, Errors
<1>3. TypeOK
    <2>1. NoLease \in [token : Callers \cup {None}, left : 0..TTL]
        BY FillAssumption DEF NoLease
    <2>2. NoRenewal \in [pc : {"off", "timer", "due", "extending"}, wait : 0..Interval]
        BY IntervalFits DEF NoRenewal
    <2> QED BY <1>2, <2>1, <2>2 DEF Init, TypeOK, Errors
<1>4. FollowsSome /\ OutcomeAtEnd /\ HealthyCallsSurvive /\ RenewalJoined
    BY <1>1, FillAssumption DEF NewCaller, NoRenewal, FollowsSome, OutcomeAtEnd, HealthyCallsSurvive, RenewalJoined
<1>5. OutcomeShared
    BY <1>1, FillAssumption DEF OutcomeShared
<1>6. JoinsRunningFill
    BY <1>1 DEF JoinsRunningFill, Init, NewCaller, OwnerAt
<1> QED
    BY <1>3, <1>4, <1>5, <1>6 DEF Inv, TypeInv

(* Every step of a call rewrites that call's record and no other. *)
LEMMA CallMoves ==
    ASSUME TypeInv, NEW c \in Callers, CallStep(c)
    PROVE  Moves(c, At)
<1>1. PICK r \in [pc : At, fill : Callers \cup {None}, cancelled : BOOLEAN, leased : BOOLEAN, err : Errors] :
          r = caller[c]
    BY DEF TypeInv, TypeOK
<1>2. \A p \in At : Goto(c, p) => Moves(c, At)
    BY <1>1 DEF Goto, Moves, TypeInv, TypeOK
<1>3. \A p \in At, e \in Errors : Return(c, p, e) => Moves(c, At)
    BY <1>1 DEF Return, Moves, TypeInv, TypeOK
<1>4. c \in Errors /\ "none" \in Errors /\ "upstream" \in Errors
    BY DEF Errors
<1>5. \A e \in ReadError(c) : e \in Errors
    BY <1>4 DEF ReadError
<1>6. At = {"idle", "begin", "wait", "recheck", "close", "done", "dead", "check", "acquire", "poll",
            "filling", "stopping", "joining", "release", "unregister"}
    BY DEF At, OwnerAt
<1>a. CASE Arrive(c) BY <1>a, <1>2, <1>6 DEF Arrive
<1>b. CASE Cancel(c) BY <1>b, <1>1 DEF Cancel, Moves, TypeInv, TypeOK
<1>c. CASE Begin(c)
    <2>1. tracker[InstanceOf[c]] \in Callers \cup {None}
        BY FillAssumption DEF TypeInv, TypeOK
    <2>2. CASE tracker[InstanceOf[c]] = None
        BY <1>c, <2>2, <1>2, <1>6 DEF Begin
    <2>3. CASE tracker[InstanceOf[c]] # None
        <3>1. caller' = [caller EXCEPT ![c].pc = "wait", ![c].fill = tracker[InstanceOf[c]]]
            BY <1>c, <2>3 DEF Begin
        <3> QED BY <3>1, <2>1, <1>1, <1>6 DEF Moves, TypeInv, TypeOK
    <2> QED BY <2>2, <2>3
<1>d. CASE WaitCancelled(c) BY <1>d, <1>3, <1>4, <1>6 DEF WaitCancelled
<1>e. CASE WaitDone(c)
    <2>1. outcome[caller[c].fill] \in Errors \cup {"open", "ownerCanceled"}
        BY <1>e DEF WaitDone, TypeInv, TypeOK, FollowsSome
    <2> QED BY <1>e, <2>1, <1>2, <1>3, <1>4, <1>6 DEF WaitDone
<1>f. CASE Recheck(c) BY <1>f, <1>2, <1>3, <1>4, <1>5, <1>6 DEF Recheck
<1>g. CASE Check(c) BY <1>g, <1>2, <1>3, <1>4, <1>5, <1>6 DEF Check
<1>h. CASE AcquireLease(c)
    <2>1. CASE Acquired(c)
        BY <2>1, <1>1, <1>6 DEF Acquired, Moves, TypeInv, TypeOK
    <2>2. CASE Contended(c) \/ AcquireFailed(c)
        BY <2>2, <1>2, <1>6 DEF Contended, AcquireFailed
    <2> QED BY <1>h, <2>1, <2>2 DEF AcquireLease
<1>i. CASE Poll(c) BY <1>i, <1>2, <1>3, <1>4, <1>6 DEF Poll
<1>j. CASE Fill(c) BY <1>j, <1>3, <1>4, <1>6 DEF Fill
<1>k. CASE StopRenewal(c) BY <1>k, <1>2, <1>6 DEF StopRenewal
<1>l. CASE JoinRenewal(c) BY <1>l, <1>2, <1>6 DEF JoinRenewal
<1>m. CASE ReleaseLease(c) BY <1>m, <1>2, <1>6 DEF ReleaseLease
<1>n. CASE Unregister(c) BY <1>n, <1>2, <1>6 DEF Unregister
<1>o. CASE CloseFill(c) BY <1>o, <1>2, <1>6 DEF CloseFill
<1> QED
    BY <1>a, <1>b, <1>c, <1>d, <1>e, <1>f, <1>g, <1>h, <1>i, <1>j, <1>k, <1>l, <1>m, <1>n, <1>o DEF CallStep

(* Steps that leave every call alone: renewals and the clock. *)
Background(c) == RenewalSubmit(c) \/ RenewalEnds(c) \/ Extend(c)

LeaseType == [token : Callers \cup {None}, left : 0..TTL]
RenewalType == [pc : {"off", "timer", "due", "extending"}, wait : 0..Interval]

(* The lease and the renewals keep their types. *)
LEMMA LeaseTyped ==
    ASSUME TypeInv, Next
    PROVE  lease' \in LeaseType /\ renewal' \in [Callers -> RenewalType]
<1>1. lease \in LeaseType /\ renewal \in [Callers -> RenewalType]
    BY DEF TypeInv, TypeOK, LeaseType, RenewalType
<1>2. NoLease \in LeaseType /\ \A c \in Callers : [token |-> c, left |-> TTL] \in LeaseType
    BY FillAssumption DEF LeaseType, NoLease
<1>3. NoRenewal \in RenewalType /\ StartRenewal \in RenewalType
    BY IntervalFits DEF RenewalType, NoRenewal, StartRenewal
<1>4. ASSUME NEW c \in Callers, CallStep(c) PROVE lease' \in LeaseType /\ renewal' \in [Callers -> RenewalType]
    <2>1. CASE AcquireLease(c)
        BY <2>1, <1>1, <1>2, <1>3 DEF AcquireLease, Acquired, Contended, AcquireFailed
    <2>2. CASE ReleaseLease(c)
        BY <2>2, <1>1, <1>2 DEF ReleaseLease, Released
    <2>3. CASE UNCHANGED <<lease, renewal>>
        BY <2>3, <1>1
    <2> QED
        BY <1>4, <2>1, <2>2, <2>3 DEF CallStep, Arrive, Cancel, Begin, WaitCancelled, WaitDone, Recheck,
           Check, Poll, Fill, StopRenewal, JoinRenewal, Unregister, CloseFill
<1>5. ASSUME NEW c \in Callers, Background(c) PROVE lease' \in LeaseType /\ renewal' \in [Callers -> RenewalType]
    <2>1. CASE RenewalSubmit(c)
        <3>1. [renewal[c] EXCEPT !.pc = "extending"] \in RenewalType
            BY <1>1 DEF RenewalType
        <3> QED BY <2>1, <3>1, <1>1 DEF RenewalSubmit
    <2>2. CASE RenewalEnds(c) BY <2>2, <1>1, <1>3 DEF RenewalEnds
    <2>3. CASE Extend(c)
        <3>1. [lease EXCEPT !.left = TTL] \in LeaseType
            BY <1>1, FillAssumption DEF LeaseType
        <3> QED BY <2>3, <3>1, <1>1, <1>3 DEF Extend, Extended
    <2> QED BY <1>5, <2>1, <2>2, <2>3 DEF Background
<1>6. CASE Tick
    <2>1. lease' \in LeaseType
        <3>1. CASE lease.left <= 1 BY <1>6, <3>1, <1>2 DEF Tick
        <3>2. CASE ~(lease.left <= 1)
            BY <1>6, <3>2, <1>1, FillAssumption DEF Tick, LeaseType
        <3> QED BY <3>1, <3>2
    <2>2. ASSUME NEW c \in Callers PROVE renewal'[c] \in RenewalType
        <3>1. renewal[c] \in RenewalType /\ renewal[c].wait \in Nat BY <1>1 DEF RenewalType
        <3>2. CASE renewal[c].pc = "timer" /\ renewal[c].wait > 1
            <4>1. renewal'[c] = [renewal[c] EXCEPT !.wait = @ - 1] BY <1>6, <3>1, <3>2 DEF Tick
            <4> QED BY <4>1, <3>1, <3>2, IntervalFits DEF RenewalType
        <3>3. CASE renewal[c].pc = "timer" /\ renewal[c].wait <= 1
            <4>1. renewal'[c] = [pc |-> "due", wait |-> 0] BY <1>6, <3>3, <3>1 DEF Tick
            <4> QED BY <4>1, IntervalFits DEF RenewalType
        <3>4. CASE renewal[c].pc # "timer"
            BY <1>6, <3>1, <3>4 DEF Tick
        <3> QED BY <3>1, <3>2, <3>3, <3>4
    <2> QED BY <2>1, <2>2, <1>6 DEF Tick
<1>7. ASSUME NEW i \in Crashable, Crash(i) PROVE lease' \in LeaseType /\ renewal' \in [Callers -> RenewalType]
    BY <1>7, <1>1, <1>3 DEF Crash
<1> QED
    BY <1>4, <1>5, <1>6, <1>7 DEF Next, CallStep, Background

(* The type invariant is inductive. *)
LEMMA TypeStep == TypeInv /\ [Next]_vars => TypeInv'
<1> SUFFICES ASSUME TypeInv, [Next]_vars PROVE TypeInv'
    OBVIOUS
<1>1. CASE UNCHANGED vars
    BY <1>1 DEF vars, TypeInv, TypeOK, FollowsSome
<1>2. ASSUME NEW c \in Callers, CallStep(c)
      PROVE  /\ caller' \in [Callers -> [pc : At, fill : Callers \cup {None}, cancelled : BOOLEAN,
                                          leased : BOOLEAN, err : Errors]]
             /\ FollowsSome'
    <2>1. PICK r \in [pc : At, fill : Callers \cup {None}, cancelled : BOOLEAN, leased : BOOLEAN, err : Errors] :
              caller' = [caller EXCEPT ![c] = r]
        BY <1>2, CallMoves DEF Moves
    <2>2. r.pc = "wait" => r.fill \in Callers
        <3>1. CASE Begin(c)
            <4>1. tracker[InstanceOf[c]] \in Callers \cup {None}
                BY FillAssumption DEF TypeInv, TypeOK
            <4>2. CASE tracker[InstanceOf[c]] = None
                BY <3>1, <4>2, <2>1 DEF Begin, Goto, TypeInv, TypeOK
            <4>3. CASE tracker[InstanceOf[c]] # None
                <5>1. caller'[c].fill = tracker[InstanceOf[c]]
                    BY <3>1, <4>3 DEF Begin, TypeInv, TypeOK
                <5>2. caller'[c] = r BY <2>1 DEF TypeInv, TypeOK
                <5> QED BY <4>1, <4>3, <5>1, <5>2
            <4> QED BY <4>2, <4>3
        <3>2. CASE Cancel(c)
            BY <3>2, <2>1 DEF Cancel, TypeInv, TypeOK, FollowsSome
        <3>3. CASE ~Begin(c) /\ ~Cancel(c)
            <4>1. caller'[c].pc # "wait"
                BY <3>3, <1>2 DEF CallStep, Arrive, WaitCancelled, WaitDone, Recheck, Check,
                   AcquireLease, Acquired, Contended, AcquireFailed, Poll, Fill, StopRenewal, JoinRenewal,
                   ReleaseLease, Unregister, CloseFill, Goto, Return, TypeInv, TypeOK
            <4> QED BY <4>1, <2>1 DEF TypeInv, TypeOK
        <3> QED BY <3>1, <3>2, <3>3
    <2> QED BY <2>1, <2>2 DEF TypeInv, TypeOK, FollowsSome
<1>3. ASSUME NEW c \in Callers, CallStep(c)
      PROVE  /\ tracker' \in [Instances -> Callers \cup {None}]
             /\ outcome' \in [Callers -> Errors \cup {"open", "ownerCanceled"}]
             /\ cached' \in BOOLEAN
    <2>1. tracker' \in [Instances -> Callers \cup {None}]
        <3>1. CASE Begin(c) \/ Unregister(c)
            BY <3>1 DEF Begin, Unregister, TypeInv, TypeOK
        <3>2. CASE tracker' = tracker
            BY <3>2 DEF TypeInv, TypeOK
        <3> QED
            BY <1>3, <3>1, <3>2 DEF CallStep, Arrive, Cancel, WaitCancelled, WaitDone, Recheck, Check,
               AcquireLease, Poll, Fill, StopRenewal, JoinRenewal, ReleaseLease, CloseFill
    <2>2. outcome' \in [Callers -> Errors \cup {"open", "ownerCanceled"}]
        <3>1. TrackedErr(c) \in Errors \cup {"open", "ownerCanceled"}
            BY DEF TrackedErr, TypeInv, TypeOK
        <3>2. CASE CloseFill(c)
            BY <3>1, <3>2 DEF CloseFill, TypeInv, TypeOK
        <3>3. CASE outcome' = outcome
            BY <3>3 DEF TypeInv, TypeOK
        <3> QED
            BY <1>3, <3>2, <3>3 DEF CallStep, Arrive, Cancel, Begin, WaitCancelled, WaitDone, Recheck, Check,
               AcquireLease, Poll, Fill, StopRenewal, JoinRenewal, ReleaseLease, Unregister
    <2>4. cached' \in BOOLEAN
        <3>1. cached' = TRUE \/ cached' = cached
            BY <1>3 DEF CallStep, Arrive, Cancel, Begin, WaitCancelled, WaitDone, Recheck, Check, AcquireLease,
               Poll, Fill, StopRenewal, JoinRenewal, ReleaseLease, Unregister, CloseFill
        <3> QED BY <3>1 DEF TypeInv, TypeOK
    <2> QED BY <2>1, <2>2, <2>4
<1>4. ASSUME NEW c \in Callers, Background(c) PROVE UNCHANGED <<caller, tracker, outcome, cached>>
    BY <1>4 DEF Background, RenewalSubmit, RenewalEnds, Extend
<1>5. ASSUME Tick PROVE UNCHANGED <<caller, tracker, outcome, cached>>
    BY <1>5 DEF Tick
<1>6. ASSUME NEW i \in Crashable, Crash(i)
      PROVE  /\ caller' \in [Callers -> [pc : At, fill : Callers \cup {None}, cancelled : BOOLEAN,
                                          leased : BOOLEAN, err : Errors]]
             /\ FollowsSome'
             /\ tracker' \in [Instances -> Callers \cup {None}]
             /\ UNCHANGED <<outcome, cached>>
    <2>1. PICK r : r = [NewCaller EXCEPT !.pc = "dead"]
        OBVIOUS
    <2>2. r \in [pc : At, fill : Callers \cup {None}, cancelled : BOOLEAN, leased : BOOLEAN, err : Errors]
          /\ r.pc = "dead"
        BY <2>1 DEF NewCaller, At, Errors
    <2>3. \A c \in Callers : caller'[c] = r \/ caller'[c] = caller[c]
        BY <1>6, <2>1 DEF Crash
    <2>4. caller' = [c \in Callers |-> caller'[c]]
        BY <1>6 DEF Crash
    <2>5. FollowsSome'
        BY <2>2, <2>3 DEF FollowsSome, TypeInv
    <2> QED BY <1>6, <2>2, <2>3, <2>4, <2>5 DEF Crash, TypeInv, TypeOK
<1>7. CASE Next
    <2>1. lease' \in LeaseType /\ renewal' \in [Callers -> RenewalType]
        BY <1>7, LeaseTyped
    <2>2. /\ caller' \in [Callers -> [pc : At, fill : Callers \cup {None}, cancelled : BOOLEAN,
                                       leased : BOOLEAN, err : Errors]]
          /\ FollowsSome'
          /\ tracker' \in [Instances -> Callers \cup {None}]
          /\ outcome' \in [Callers -> Errors \cup {"open", "ownerCanceled"}]
          /\ cached' \in BOOLEAN
        <3>1. CASE \E c \in Callers : CallStep(c) BY <3>1, <1>2, <1>3
        <3>2. CASE \E c \in Callers : Background(c)
            BY <3>2, <1>4 DEF TypeInv, TypeOK, FollowsSome
        <3>3. CASE Tick BY <3>3, <1>5 DEF TypeInv, TypeOK, FollowsSome
        <3>4. CASE \E i \in Crashable : Crash(i) BY <3>4, <1>6 DEF TypeInv, TypeOK
        <3> QED BY <1>7, <3>1, <3>2, <3>3, <3>4 DEF Next, CallStep, Background
    <2> QED BY <2>1, <2>2 DEF TypeInv, TypeOK, LeaseType, RenewalType
<1> QED BY <1>1, <1>7

(* What a call's step does to its own place, by kind: it enters or leaves the   *)
(* owner's part only at Begin and Unregister, and ends the Fill at CloseFill.   *)
LEMMA OwnerMoves ==
    ASSUME TypeInv, NEW c \in Callers, CallStep(c)
    PROVE  /\ \A d \in Callers : d # c => caller'[d] = caller[d]
           /\ \/ /\ tracker' = tracker /\ outcome' = outcome
                 /\ caller[c].pc # "done"
                 /\ caller'[c].pc \in OwnerAt <=> caller[c].pc \in OwnerAt
              \/ /\ tracker[InstanceOf[c]] = None /\ outcome' = outcome
                 /\ caller[c].pc = "begin" /\ caller'[c].pc = "check"
                 /\ tracker' = [tracker EXCEPT ![InstanceOf[c]] = c]
              \/ /\ caller[c].pc = "unregister" /\ caller'[c].pc = "close" /\ outcome' = outcome
                 /\ tracker' = [tracker EXCEPT ![InstanceOf[c]] = None]
              \/ /\ caller[c].pc = "close" /\ caller'[c].pc = "done" /\ tracker' = tracker
                 /\ outcome' = [outcome EXCEPT ![c] = TrackedErr(c)]
<1>1. PICK r \in [pc : At, fill : Callers \cup {None}, cancelled : BOOLEAN, leased : BOOLEAN, err : Errors] :
          caller' = [caller EXCEPT ![c] = r]
    BY CallMoves DEF Moves
<1>2. (\A d \in Callers : d # c => caller'[d] = caller[d]) /\ caller'[c] = r
    BY <1>1 DEF TypeInv, TypeOK
<1>3. CASE Begin(c)
    <2>1. CASE tracker[InstanceOf[c]] = None
        BY <1>3, <2>1, <1>2 DEF Begin, Goto, TypeInv, TypeOK
    <2>2. CASE tracker[InstanceOf[c]] # None
        <3>1. caller'[c].pc = "wait" /\ caller[c].pc = "begin" /\ tracker' = tracker /\ outcome' = outcome
            BY <1>3, <2>2 DEF Begin, TypeInv, TypeOK
        <3> QED BY <3>1, <1>2 DEF OwnerAt
    <2> QED BY <2>1, <2>2
<1>4. CASE Unregister(c)
    BY <1>4, <1>2 DEF Unregister, Goto, TypeInv, TypeOK
<1>5. CASE CloseFill(c)
    BY <1>5, <1>2 DEF CloseFill, Goto, TypeInv, TypeOK
<1>6. CASE Arrive(c) \/ Cancel(c) \/ WaitCancelled(c) \/ WaitDone(c) \/ Recheck(c)
    <2>1. tracker' = tracker /\ outcome' = outcome /\ caller[c].pc # "done"
        BY <1>6 DEF Arrive, Cancel, WaitCancelled, WaitDone, Recheck
    <2>2. CASE Cancel(c)
        <3>1. caller'[c].pc = caller[c].pc
            BY <2>2 DEF Cancel, TypeInv, TypeOK
        <3> QED BY <2>1, <3>1, <1>2
    <2>3. CASE ~Cancel(c)
        <3>1. caller[c].pc \in {"idle", "wait", "recheck"} /\ caller'[c].pc \in {"begin", "recheck", "done"}
            BY <1>6, <2>3 DEF Arrive, WaitCancelled, WaitDone, Recheck, Goto, Return, TypeInv, TypeOK
        <3> QED BY <2>1, <3>1, <1>2 DEF OwnerAt
    <2> QED BY <2>2, <2>3
<1>7. CASE \/ Check(c) \/ AcquireLease(c) \/ Poll(c) \/ Fill(c) \/ StopRenewal(c) \/ JoinRenewal(c)
           \/ ReleaseLease(c)
    <2>1. tracker' = tracker /\ outcome' = outcome
        BY <1>7 DEF Check, AcquireLease, Poll, Fill, StopRenewal, JoinRenewal, ReleaseLease
    <2>2. /\ caller[c].pc \in {"check", "acquire", "poll", "filling", "stopping", "joining", "release"}
          /\ caller'[c].pc \in OwnerAt
        BY <1>7 DEF Check, AcquireLease, Acquired, Contended, AcquireFailed, Poll, Fill, StopRenewal, JoinRenewal,
           ReleaseLease, Goto, Return, TypeInv, TypeOK, OwnerAt
    <2> QED BY <2>1, <2>2, <1>2 DEF OwnerAt
<1> QED BY <1>3, <1>4, <1>5, <1>6, <1>7 DEF CallStep

(* A crash ends every open call of its process. *)
LEMMA CrashMoves ==
    ASSUME TypeInv, NEW i \in Crashable, Crash(i)
    PROVE  /\ tracker' = [tracker EXCEPT ![i] = None] /\ outcome' = outcome
           /\ \A c \in Callers :
                 \/ /\ InstanceOf[c] = i /\ caller[c].pc \notin {"idle", "done", "dead"}
                    /\ caller'[c] = [NewCaller EXCEPT !.pc = "dead"] /\ renewal'[c] = NoRenewal
                 \/ /\ InstanceOf[c] # i \/ caller[c].pc \in {"idle", "done", "dead"}
                    /\ caller'[c] = caller[c] /\ renewal'[c] = renewal[c]
BY DEF Crash

(* Calls join only running Fills, and a Fill has one owner. *)
LEMMA JoinStep ==
    ASSUME TypeInv, JoinsRunningFill, OutcomeAtEnd, Next
    PROVE  JoinsRunningFill' /\ OutcomeAtEnd'
<1>0. /\ \A c \in Callers : InstanceOf[c] \in Instances
      /\ tracker \in [Instances -> Callers \cup {None}] /\ outcome \in [Callers -> Errors \cup {"open", "ownerCanceled"}]
    BY FillAssumption DEF TypeInv, TypeOK
<1>1. ASSUME NEW c \in Callers, CallStep(c) PROVE JoinsRunningFill' /\ OutcomeAtEnd'
    <2>0. \A d \in Callers : d # c => caller'[d] = caller[d] BY <1>1, OwnerMoves
    <2>1. CASE /\ tracker' = tracker /\ outcome' = outcome /\ caller[c].pc # "done"
               /\ caller'[c].pc \in OwnerAt <=> caller[c].pc \in OwnerAt
        BY <2>0, <2>1, <1>0 DEF JoinsRunningFill, OutcomeAtEnd
    <2>2. CASE /\ tracker[InstanceOf[c]] = None /\ outcome' = outcome
               /\ caller[c].pc = "begin" /\ caller'[c].pc = "check"
               /\ tracker' = [tracker EXCEPT ![InstanceOf[c]] = c]
        <3>1. outcome[c] = "open" BY <2>2 DEF OutcomeAtEnd
        <3>2. OutcomeAtEnd' BY <2>0, <2>2, <3>1 DEF OutcomeAtEnd
        <3>3. \A d \in Callers : InstanceOf[d] = InstanceOf[c] => caller[d].pc \notin OwnerAt
            BY <2>2, <1>0, FillAssumption DEF JoinsRunningFill
        <3>4. caller'[c].pc \in OwnerAt BY <2>2 DEF OwnerAt
        <3>5. ASSUME NEW j \in Instances, tracker'[j] # None
              PROVE  outcome'[tracker'[j]] = "open" /\ caller'[tracker'[j]].pc \in OwnerAt /\ InstanceOf[tracker'[j]] = j
            <4>1. CASE j = InstanceOf[c] BY <4>1, <2>2, <3>1, <3>4, <1>0
            <4>2. CASE j # InstanceOf[c]
                BY <4>2, <3>5, <2>0, <2>2, <1>0 DEF JoinsRunningFill
            <4> QED BY <4>1, <4>2
        <3>6. ASSUME NEW d \in Callers, caller'[d].pc \in OwnerAt PROVE tracker'[InstanceOf[d]] = d
            BY <3>6, <2>0, <2>2, <3>3, <1>0 DEF JoinsRunningFill
        <3> QED BY <3>2, <3>5, <3>6 DEF JoinsRunningFill
    <2>3. CASE /\ caller[c].pc = "unregister" /\ caller'[c].pc = "close" /\ outcome' = outcome
               /\ tracker' = [tracker EXCEPT ![InstanceOf[c]] = None]
        <3>1. tracker[InstanceOf[c]] = c /\ outcome[c] = "open"
            BY <2>3, <1>0 DEF JoinsRunningFill, OwnerAt, OutcomeAtEnd
        <3>2. OutcomeAtEnd' BY <2>0, <2>3, <3>1 DEF OutcomeAtEnd
        <3>3. caller'[c].pc \notin OwnerAt BY <2>3 DEF OwnerAt
        <3>4. ASSUME NEW j \in Instances, tracker'[j] # None
              PROVE  outcome'[tracker'[j]] = "open" /\ caller'[tracker'[j]].pc \in OwnerAt /\ InstanceOf[tracker'[j]] = j
            BY <3>4, <2>0, <2>3, <1>0 DEF JoinsRunningFill
        <3>5. ASSUME NEW d \in Callers, caller'[d].pc \in OwnerAt PROVE tracker'[InstanceOf[d]] = d
            <4>1. d # c BY <3>3, <3>5
            <4>2. tracker[InstanceOf[d]] = d BY <4>1, <3>5, <2>0, <1>0 DEF JoinsRunningFill
            <4> QED BY <4>1, <4>2, <3>1, <2>3, <1>0
        <3> QED BY <3>2, <3>4, <3>5 DEF JoinsRunningFill
    <2>4. CASE /\ caller[c].pc = "close" /\ caller'[c].pc = "done" /\ tracker' = tracker
               /\ outcome' = [outcome EXCEPT ![c] = TrackedErr(c)]
        <3>1. caller[c].pc \notin OwnerAt /\ caller'[c].pc \notin OwnerAt BY <2>4 DEF OwnerAt
        <3>2. \A j \in Instances : tracker[j] # c
            BY <3>1, FillAssumption DEF JoinsRunningFill
        <3> QED BY <2>0, <2>4, <3>1, <3>2, <1>0 DEF JoinsRunningFill, OutcomeAtEnd
    <2> QED BY <1>1, <2>1, <2>2, <2>3, <2>4, OwnerMoves
<1>2. ASSUME NEW c \in Callers, Background(c) PROVE JoinsRunningFill' /\ OutcomeAtEnd'
    BY <1>2 DEF Background, RenewalSubmit, RenewalEnds, Extend, JoinsRunningFill, OutcomeAtEnd
<1>3. CASE Tick
    BY <1>3 DEF Tick, JoinsRunningFill, OutcomeAtEnd
<1>4. ASSUME NEW i \in Crashable, Crash(i) PROVE JoinsRunningFill' /\ OutcomeAtEnd'
    <2>1. \A c \in Callers : caller'[c].pc \in OwnerAt => caller'[c] = caller[c] /\ InstanceOf[c] # i
        BY <1>4, CrashMoves DEF OwnerAt, NewCaller
    <2>2. \A c \in Callers : caller[c].pc \in OwnerAt /\ InstanceOf[c] # i => caller'[c] = caller[c]
        BY <1>4, CrashMoves
    <2>3. \A c \in Callers : caller[c].pc = "done" => caller'[c] = caller[c]
        BY <1>4, CrashMoves
    <2> QED BY <1>4, <2>1, <2>2, <2>3, <1>0, CrashMoves DEF JoinsRunningFill, OutcomeAtEnd
<1> QED BY <1>1, <1>2, <1>3, <1>4 DEF Next, CallStep, Background

(* No call takes over the context error of another. *)
LEMMA SurviveStep ==
    ASSUME TypeInv, OutcomeShared, HealthyCallsSurvive, Next
    PROVE  OutcomeShared' /\ HealthyCallsSurvive'
<1>1. ASSUME NEW c \in Callers, CallStep(c) PROVE OutcomeShared' /\ HealthyCallsSurvive'
    <2>1. OutcomeShared'
        <3>1. TrackedErr(c) \notin Callers
            BY FillAssumption DEF TrackedErr, HealthyCallsSurvive, TypeInv, TypeOK, Errors
        <3> QED BY <1>1, <3>1, OwnerMoves DEF OutcomeShared, TypeInv, TypeOK
    <2>2. caller'[c].err \in Callers => caller'[c].err = c /\ caller'[c].cancelled
        <3>0. "none" \notin Callers /\ "upstream" \notin Callers
            BY FillAssumption
        <3>1. \A p, e : Return(c, p, e) /\ (e \in Callers => e = c /\ caller[c].cancelled)
                        => (caller'[c].err \in Callers => caller'[c].err = c /\ caller'[c].cancelled)
            BY DEF Return, TypeInv, TypeOK
        <3>2. \A p : Goto(c, p) => (caller'[c].err \in Callers => caller'[c].err = c /\ caller'[c].cancelled)
            BY DEF Goto, TypeInv, TypeOK, HealthyCallsSurvive
        <3>3. \A e \in ReadError(c) : e \in Callers => e = c /\ caller[c].cancelled
            BY <3>0 DEF ReadError
        <3>a. CASE Arrive(c) \/ StopRenewal(c) \/ JoinRenewal(c) \/ ReleaseLease(c) \/ Unregister(c) \/ CloseFill(c)
            BY <3>a, <3>2 DEF Arrive, StopRenewal, JoinRenewal, ReleaseLease, Unregister, CloseFill
        <3>b. CASE Cancel(c)
            BY <3>b DEF Cancel, TypeInv, TypeOK, HealthyCallsSurvive
        <3>c. CASE Begin(c)
            <4>1. Goto(c, "check") \/ caller' = [caller EXCEPT ![c].pc = "wait", ![c].fill = tracker[InstanceOf[c]]]
                BY <3>c DEF Begin
            <4>2. ASSUME caller' = [caller EXCEPT ![c].pc = "wait", ![c].fill = tracker[InstanceOf[c]]]
                  PROVE  caller'[c].err = caller[c].err /\ caller'[c].cancelled = caller[c].cancelled
                BY <4>2 DEF TypeInv, TypeOK
            <4> QED BY <4>1, <4>2, <3>2 DEF HealthyCallsSurvive
        <3>d. CASE WaitCancelled(c) BY <3>d, <3>1 DEF WaitCancelled
        <3>e. CASE WaitDone(c)
            <4>1. outcome[caller[c].fill] \notin Callers
                BY <3>e DEF WaitDone, TypeInv, FollowsSome, OutcomeShared
            <4> QED BY <3>e, <4>1, <3>1, <3>2 DEF WaitDone
        <3>f. CASE Recheck(c) \/ Check(c) BY <3>f, <3>0, <3>1, <3>2, <3>3 DEF Recheck, Check
        <3>g. CASE AcquireLease(c)
            <4>1. CASE Acquired(c)
                BY <4>1 DEF Acquired, TypeInv, TypeOK, HealthyCallsSurvive
            <4> QED BY <3>g, <4>1, <3>2 DEF AcquireLease, Contended, AcquireFailed
        <3>h. CASE Poll(c) \/ Fill(c) BY <3>h, <3>0, <3>1, <3>2 DEF Poll, Fill
        <3> QED BY <1>1, <3>a, <3>b, <3>c, <3>d, <3>e, <3>f, <3>g, <3>h DEF CallStep
    <2> QED BY <1>1, <2>1, <2>2, OwnerMoves DEF HealthyCallsSurvive
<1>2. ASSUME NEW c \in Callers, Background(c) PROVE OutcomeShared' /\ HealthyCallsSurvive'
    BY <1>2 DEF Background, RenewalSubmit, RenewalEnds, Extend, OutcomeShared, HealthyCallsSurvive
<1>3. CASE Tick
    BY <1>3 DEF Tick, OutcomeShared, HealthyCallsSurvive
<1>4. ASSUME NEW i \in Crashable, Crash(i) PROVE OutcomeShared' /\ HealthyCallsSurvive'
    <2>1. \A c \in Callers : caller'[c] = caller[c] \/ caller'[c].err = "none"
        BY <1>4, CrashMoves DEF NewCaller
    <2> QED BY <1>4, <2>1, CrashMoves, FillAssumption DEF OutcomeShared, HealthyCallsSurvive
<1> QED BY <1>1, <1>2, <1>3, <1>4 DEF Next, CallStep, Background

(* A renewal goroutine lives inside the leased fill of its call. *)
LEMMA RenewalStep ==
    ASSUME TypeInv, RenewalJoined, Next
    PROVE  RenewalJoined'
<1> DEFINE Inside(c) == renewal[c].pc # "off" => caller[c].pc \in {"filling", "stopping", "joining"} /\ caller[c].leased
<1>1. ASSUME NEW c \in Callers, CallStep(c) PROVE RenewalJoined'
    <2>1. CASE AcquireLease(c)
        <3>0. \A d \in Callers : d # c => caller'[d] = caller[d] BY <1>1, OwnerMoves
        <3>1. renewal[c].pc = "off" BY <2>1 DEF AcquireLease, RenewalJoined
        <3>2. CASE Acquired(c)
            BY <3>0, <3>1, <3>2 DEF Acquired, RenewalJoined, TypeInv, TypeOK
        <3>3. CASE Contended(c) \/ AcquireFailed(c)
            BY <3>0, <3>1, <3>3 DEF Contended, AcquireFailed, RenewalJoined
        <3> QED BY <2>1, <3>2, <3>3 DEF AcquireLease
    <2>2. CASE ~AcquireLease(c)
        <3>1. renewal' = renewal
            BY <1>1, <2>2 DEF CallStep, Arrive, Cancel, Begin, WaitCancelled, WaitDone, Recheck, Check, Poll,
               Fill, StopRenewal, JoinRenewal, ReleaseLease, Unregister, CloseFill
        <3>2. Inside(c)'
            <4>1. CASE renewal[c].pc = "off" BY <4>1, <3>1
            <4>2. CASE caller[c].pc \in {"filling", "stopping", "joining"} /\ caller[c].leased
                <5>1. Cancel(c) \/ Fill(c) \/ StopRenewal(c) \/ JoinRenewal(c)
                    BY <1>1, <2>2, <4>2 DEF CallStep, Arrive, Begin, WaitCancelled, WaitDone, Recheck, Check,
                       Poll, ReleaseLease, Unregister, CloseFill
                <5>2. CASE Cancel(c) BY <5>2, <4>2 DEF Cancel, TypeInv, TypeOK
                <5>3. CASE Fill(c) BY <5>3, <4>2 DEF Fill, Return, TypeInv, TypeOK
                <5>4. CASE StopRenewal(c) BY <5>4, <4>2 DEF StopRenewal, Goto, TypeInv, TypeOK
                <5>5. CASE JoinRenewal(c) BY <5>5, <3>1 DEF JoinRenewal
                <5> QED BY <5>1, <5>2, <5>3, <5>4, <5>5
            <4> QED BY <4>1, <4>2 DEF RenewalJoined
        <3> QED BY <1>1, <3>1, <3>2, OwnerMoves DEF RenewalJoined
    <2> QED BY <2>1, <2>2
<1>2. ASSUME NEW c \in Callers, Background(c) PROVE RenewalJoined'
    <2>1. caller' = caller /\ \A d \in Callers : d # c => renewal'[d] = renewal[d]
        BY <1>2 DEF Background, RenewalSubmit, RenewalEnds, Extend, TypeInv, TypeOK
    <2>2. renewal'[c].pc # "off" => renewal[c].pc # "off"
        BY <1>2 DEF Background, RenewalSubmit, RenewalEnds, Extend, NoRenewal, StartRenewal, TypeInv, TypeOK
    <2> QED BY <2>1, <2>2 DEF RenewalJoined
<1>3. CASE Tick
    <2>1. \A c \in Callers : renewal'[c].pc # "off" => renewal[c].pc # "off"
        <3>1. \A c \in Callers : renewal[c].wait \in Nat BY DEF TypeInv, TypeOK
        <3> QED BY <1>3, <3>1 DEF Tick
    <2> QED BY <1>3, <2>1 DEF Tick, RenewalJoined
<1>4. ASSUME NEW i \in Crashable, Crash(i) PROVE RenewalJoined'
    BY <1>4, CrashMoves DEF RenewalJoined, NoRenewal
<1> QED BY <1>1, <1>2, <1>3, <1>4 DEF Next, CallStep, Background

(* The invariant holds in every state. *)
LEMMA InvHolds == Spec => []Inv
<1>1. Inv /\ [Next]_vars => Inv'
    <2> SUFFICES ASSUME Inv, [Next]_vars PROVE Inv'
        OBVIOUS
    <2>1. CASE UNCHANGED vars
        BY <2>1, TypeStep DEF vars, Inv, JoinsRunningFill, OutcomeAtEnd, OutcomeShared, HealthyCallsSurvive,
           RenewalJoined
    <2>2. CASE Next
        BY <2>2, TypeStep, JoinStep, SurviveStep, RenewalStep DEF Inv
    <2> QED BY <2>1, <2>2
<1> QED BY InvInit, <1>1, PTL DEF Spec

(* TypeOK: a lease never lives longer than its TTL, and nothing counts below zero. *)
THEOREM FillTypeCorrect == Spec => []TypeOK
<1>1. Inv => TypeOK BY DEF Inv, TypeInv
<1> QED BY InvHolds, <1>1, PTL

(* Tracker.Finish: calls only join running Fills, and each process works on one. *)
THEOREM JoinsRunning == Spec => []JoinsRunningFill
<1>1. Inv => JoinsRunningFill BY DEF Inv
<1> QED BY InvHolds, <1>1, PTL

(* waitForTrackedFill and finishTrackedFill: an owner's cancellation is its own. *)
THEOREM HealthySurvive == Spec => []HealthyCallsSurvive
<1>1. Inv => HealthyCallsSurvive BY DEF Inv
<1> QED BY InvHolds, <1>1, PTL

(* StartLeaseRenewal's stop: no renewal is under way when the lease is released. *)
LEMMA RenewalsJoined == Spec => []RenewalJoined
<1>1. Inv => RenewalJoined BY DEF Inv
<1> QED BY InvHolds, <1>1, PTL

-----------------------------------------------------------------------------
(* The lease *)

(* While renewals are prompt, a live fill under the lease holds it, with more    *)
(* life left than its timer has to wait.                                         *)
Holds(c) ==
    /\ lease.token = c
    /\ \/ renewal[c].pc = "timer" /\ 1 <= renewal[c].wait /\ renewal[c].wait < lease.left
       \/ renewal[c].pc \in {"due", "extending"} /\ 1 <= lease.left
LeaseHeld == Prompt /\ ~Faulty => \A c \in HealthyFills : Holds(c)

(* A call is leased only from the moment its fill begins. *)
Leasing == {"filling", "stopping", "joining", "release", "unregister", "close", "done"}
LeasedLate == \A c \in Callers : caller[c].leased => caller[c].pc \in Leasing

LeaseInv == LeasedLate /\ LeaseHeld

(* Only Acquired takes a lease, and the steps of an owner go on from there. *)
LEMMA LeasedStep ==
    ASSUME TypeInv, LeasedLate, Next
    PROVE  LeasedLate'
<1>1. ASSUME NEW c \in Callers, CallStep(c) PROVE LeasedLate'
    <2>0. \A d \in Callers : d # c => caller'[d] = caller[d] BY <1>1, OwnerMoves
    <2>1. caller'[c].leased => caller'[c].pc \in Leasing
        <3>1. CASE AcquireLease(c)
            <4>1. CASE Acquired(c) BY <4>1 DEF Acquired, Leasing, TypeInv, TypeOK
            <4>2. CASE Contended(c) \/ AcquireFailed(c)
                <5>1. ~caller[c].leased BY <3>1 DEF AcquireLease, LeasedLate, Leasing
                <5>2. caller'[c].leased = caller[c].leased
                    BY <4>2 DEF Contended, AcquireFailed, Goto, TypeInv, TypeOK
                <5> QED BY <5>1, <5>2
            <4> QED BY <3>1, <4>1, <4>2 DEF AcquireLease
        <3>2. CASE ~AcquireLease(c)
            <4>1. caller'[c].leased = caller[c].leased
                BY <3>2, <1>1 DEF CallStep, Arrive, Cancel, Begin, WaitCancelled, WaitDone, Recheck, Check, Poll, Fill,
                   StopRenewal, JoinRenewal, ReleaseLease, Unregister, CloseFill, Goto, Return, TypeInv, TypeOK
            <4>2. caller[c].pc \in Leasing => caller'[c].pc \in Leasing
                BY <3>2, <1>1 DEF CallStep, Arrive, Cancel, Begin, WaitCancelled, WaitDone, Recheck, Check, Poll, Fill,
                   StopRenewal, JoinRenewal, ReleaseLease, Unregister, CloseFill, Goto, Return, TypeInv, TypeOK, Leasing
            <4> QED BY <4>1, <4>2 DEF LeasedLate
        <3> QED BY <3>1, <3>2
    <2> QED BY <2>0, <2>1 DEF LeasedLate
<1>2. ASSUME NEW c \in Callers, Background(c) PROVE LeasedLate'
    BY <1>2 DEF Background, RenewalSubmit, RenewalEnds, Extend, LeasedLate
<1>3. CASE Tick BY <1>3 DEF Tick, LeasedLate
<1>4. ASSUME NEW i \in Crashable, Crash(i) PROVE LeasedLate'
    <2>1. \A c \in Callers : caller'[c] = caller[c] \/ ~caller'[c].leased
        BY <1>4, CrashMoves DEF NewCaller
    <2> QED BY <2>1 DEF LeasedLate
<1> QED BY <1>1, <1>2, <1>3, <1>4 DEF Next, CallStep, Background

(* A live fill keeps the lease: its own renewals come before the life ends, and  *)
(* the releases, renewals and acquisitions of the others do not touch it.        *)
LEMMA HeldStep ==
    ASSUME TypeInv, LeasedLate, LeaseHeld, Next
    PROVE  LeaseHeld'
<1> SUFFICES ASSUME Prompt, ~Faulty, NEW f \in HealthyFills'
             PROVE  Holds(f)'
    BY DEF LeaseHeld
<1>0. f \in Callers /\ caller'[f].pc = "filling" /\ caller'[f].leased /\ ~caller'[f].cancelled
    BY DEF HealthyFills
<1>1. caller'[f] = caller[f] => Holds(f)
    BY <1>0 DEF HealthyFills, LeaseHeld
<1>2. ASSUME NEW c \in Callers, CallStep(c) PROVE Holds(f)'
    <2>0. \A d \in Callers : d # c => caller'[d] = caller[d] BY <1>2, OwnerMoves
    <2>1. CASE AcquireLease(c)
        <3>1. CASE f = c
            <4>1. Acquired(c)
                <5>1. ~caller[c].leased BY <2>1 DEF AcquireLease, LeasedLate, Leasing
                <5>2. Contended(c) \/ AcquireFailed(c) => caller'[c].leased = caller[c].leased
                    BY DEF Contended, AcquireFailed, Goto, TypeInv, TypeOK
                <5> QED BY <2>1, <3>1, <1>0, <5>1, <5>2 DEF AcquireLease
            <4> QED BY <4>1, <3>1, IntervalFits DEF Acquired, Holds, StartRenewal, TypeInv, TypeOK
        <3>2. CASE f # c
            <4>1. Holds(f) BY <1>0, <1>1, <2>0, <3>2
            <4>2. lease.token # None BY <4>1, <1>0, FillAssumption DEF Holds
            <4>3. lease' = lease /\ renewal' = renewal
                BY <2>1, <4>2 DEF AcquireLease, Acquired, Contended, AcquireFailed
            <4> QED BY <4>1, <4>3 DEF Holds
        <3> QED BY <3>1, <3>2
    <2>2. CASE ~AcquireLease(c)
        <3>1. caller'[c].pc = "filling" => caller'[c].cancelled
            BY <2>2, <1>2 DEF CallStep, Arrive, Cancel, Begin, WaitCancelled, WaitDone, Recheck, Check, Poll, Fill,
               StopRenewal, JoinRenewal, ReleaseLease, Unregister, CloseFill, Goto, Return, TypeInv, TypeOK
        <3>2. f # c BY <1>0, <3>1
        <3>3. Holds(f) BY <1>0, <1>1, <2>0, <3>2
        <3>4. renewal' = renewal /\ (lease' = lease \/ lease' = Released(c))
            BY <2>2, <1>2 DEF CallStep, Arrive, Cancel, Begin, WaitCancelled, WaitDone, Recheck, Check, Poll, Fill,
               StopRenewal, JoinRenewal, ReleaseLease, Unregister, CloseFill
        <3>5. Released(c) = lease BY <3>2, <3>3 DEF Holds, Released
        <3> QED BY <3>3, <3>4, <3>5 DEF Holds
    <2> QED BY <2>1, <2>2
<1>3. ASSUME NEW c \in Callers, Background(c) PROVE Holds(f)'
    <2>1. caller' = caller BY <1>3 DEF Background, RenewalSubmit, RenewalEnds, Extend
    <2>2. Holds(f) BY <1>1, <2>1
    <2>3. CASE f = c
        <3>1. ~RenewalStopped(c) BY <2>1, <2>3, <1>0 DEF RenewalStopped
        <3>2. CASE RenewalSubmit(c)
            BY <3>2, <2>2, <2>3 DEF RenewalSubmit, Holds, TypeInv, TypeOK
        <3>3. CASE RenewalEnds(c) BY <3>3, <3>1 DEF RenewalEnds
        <3>4. CASE Extend(c)
            <4>1. lease' = [lease EXCEPT !.left = TTL] /\ renewal'[c] = StartRenewal
                BY <3>4, <3>1, <2>2, <2>3 DEF Extend, Extended, Holds, TypeInv, TypeOK
            <4>2. lease'.token = c /\ lease'.left = TTL
                BY <4>1, <2>2, <2>3 DEF Holds, TypeInv, TypeOK
            <4> QED BY <4>1, <4>2, <2>3, IntervalFits DEF Holds, StartRenewal
        <3> QED BY <1>3, <3>2, <3>3, <3>4 DEF Background
    <2>4. CASE f # c
        <3>1. renewal'[f] = renewal[f]
            BY <1>0, <1>3, <2>4 DEF Background, RenewalSubmit, RenewalEnds, Extend, TypeInv, TypeOK
        <3>2. lease' = lease \/ lease' = Extended(c)
            BY <1>3 DEF Background, RenewalSubmit, RenewalEnds, Extend
        <3>3. Extended(c) = lease BY <2>2, <2>4 DEF Holds, Extended
        <3> QED BY <2>2, <3>1, <3>2, <3>3 DEF Holds
    <2> QED BY <2>3, <2>4
<1>4. CASE Tick
    <2>1. Holds(f) BY <1>1, <1>4 DEF Tick
    <2>2. renewal[f].pc = "timer" /\ 1 <= renewal[f].wait /\ renewal[f].wait < lease.left /\ lease.token = f
        BY <2>1, <1>4, <1>0 DEF Tick, Overdue, Holds
    <2>3. renewal[f].wait \in Nat /\ lease.left \in Nat BY <1>0 DEF TypeInv, TypeOK
    <2>4. lease'.token = f /\ lease'.left = lease.left - 1
        BY <1>4, <2>2, <2>3 DEF Tick, TypeInv, TypeOK
    <2>5. CASE renewal[f].wait > 1
        <3>1. renewal'[f] = [renewal[f] EXCEPT !.wait = @ - 1] BY <1>0, <1>4, <2>2, <2>5, <2>3 DEF Tick
        <3>2. renewal'[f].pc = "timer" /\ renewal'[f].wait = renewal[f].wait - 1
            BY <3>1, <2>2, <1>0 DEF TypeInv, TypeOK
        <3> QED BY <3>2, <2>2, <2>3, <2>4, <2>5 DEF Holds
    <2>6. CASE renewal[f].wait <= 1
        <3>1. renewal'[f] = [pc |-> "due", wait |-> 0] BY <1>0, <1>4, <2>2, <2>6, <2>3 DEF Tick
        <3> QED BY <3>1, <2>2, <2>3, <2>4 DEF Holds
    <2> QED BY <2>3, <2>5, <2>6
<1>5. ASSUME NEW i \in Crashable, Crash(i) PROVE Holds(f)'
    <2>1. caller'[f] = caller[f] /\ renewal'[f] = renewal[f]
        BY <1>0, <1>5, CrashMoves DEF NewCaller
    <2> QED BY <1>1, <1>5, <2>1 DEF Crash, Holds
<1> QED BY <1>2, <1>3, <1>4, <1>5 DEF Next, CallStep, Background

(* LeaseHonoured: with prompt renewals, one live fill at a time holds the lease, and *)
(* an owner lets go of it only once its renewal has ended. *)
THEOREM LeaseStaysHonoured == Spec => []LeaseHonoured
<1>1. Init => LeaseInv
    BY DEF Init, LeaseInv, LeasedLate, LeaseHeld, HealthyFills, NewCaller
<1>2. TypeInv /\ LeaseInv /\ [Next]_vars => LeaseInv'
    <2> SUFFICES ASSUME TypeInv, LeaseInv, [Next]_vars PROVE LeaseInv'
        OBVIOUS
    <2>1. CASE UNCHANGED vars
        BY <2>1 DEF vars, LeaseInv, LeasedLate, LeaseHeld, HealthyFills, Holds
    <2>2. CASE Next
        BY <2>2, LeasedStep, HeldStep DEF LeaseInv
    <2> QED BY <2>1, <2>2
<1>3. Inv => TypeInv BY DEF Inv
<1>4. LeaseInv => LeaseExclusive
    BY DEF LeaseInv, LeaseHeld, Holds, LeaseExclusive, HealthyFills
<1>5. LeaseExclusive /\ RenewalJoined => LeaseHonoured BY DEF LeaseHonoured
<1> QED BY InvHolds, RenewalsJoined, <1>1, <1>2, <1>3, <1>4, <1>5, PTL DEF Spec
-----------------------------------------------------------------------------
(* Maven's fill pool.  Clients and tasks name the files they spool. *)
MavenSetting ==
    /\ IsFiniteSet(Clients) /\ Tasks \cap Clients = {} /\ M!Nil \notin Tasks \cup Clients

TaskAt == {"free", "look", "fetch", "prepare", "prepareCached", "publish", "publishCached", "persist", "persisting",
           "finish", "return", "gone"}
ClientAt == {"idle", "lookup", "acquire", "wait", "open", "release", "reading", "fetch", "persist", "serve", "done"}
TaskType == [pc : TaskAt, key : Keys \cup {M!Nil}, refs : Int, value : BOOLEAN, ready : BOOLEAN,
             finished : BOOLEAN, canceled : BOOLEAN]
FileType == [exists : BOOLEAN, removed : BOOLEAN, readers : Int]
ClientType == [pc : ClientAt, key : Keys \cup {M!Nil}, kind : {"get", "refresh"}, task : Tasks \cup {M!Nil},
               reads : Tasks \cup Clients \cup {M!Nil}]

MavenTypes ==
    /\ task \in [Tasks -> TaskType]
    /\ file \in [Tasks \cup Clients -> FileType]
    /\ client \in [Clients -> ClientType]
    /\ active \in [Keys -> Tasks \cup {M!Nil}]

(* The counters of a task are those who count: the callers that have not      *)
(* released it, the bodies that read its file, and the worker that stores it. *)
CallersOf(t) == {c \in Clients : client[c].task = t}
ReadersOf(t) == {c \in Clients : client[c].reads = t}
Storing(t) == IF task[t].pc = "persisting" THEN 1 ELSE 0
Tallied(t) ==
    /\ task[t].refs = Cardinality(CallersOf(t))
    /\ file[t].readers = Cardinality(ReadersOf(t)) + Storing(t)

(* A published file can be opened until the last caller of a finished task    *)
(* has left; from then on only those who read it keep it.                     *)
TaskKept(t) ==
    /\ task[t].finished <=> task[t].pc \in {"return", "gone"}
    /\ task[t].pc # "free" => task[t].key \in Keys
    /\ task[t].value => /\ file[t].exists /\ ~file[t].removed
                        /\ task[t].pc \in {"persist", "persisting", "finish", "return", "gone"}
    /\ task[t].value /\ task[t].finished => task[t].refs > 0
    /\ task[t].pc \in {"persist", "persisting"} => task[t].value
    /\ task[t].pc \in {"publish", "publishCached"} =>
          file[t].exists /\ ~file[t].removed /\ file[t].readers = 0
    /\ file[t].exists /\ ~task[t].value /\ task[t].pc \notin {"publish", "publishCached"} => file[t].removed
    /\ file[t].removed => file[t].exists /\ file[t].readers > 0 /\ task[t].pc \in {"free", "return", "gone"}
    /\ ~file[t].exists => file[t].readers = 0

(* A client refers to a task from joining to releasing it, and to a file from *)
(* opening to closing it; its own file is with it until it is closed.         *)
ClientKept(c) ==
    /\ client[c].task # M!Nil <=> client[c].pc \in {"wait", "open", "release"}
    /\ client[c].reads # M!Nil => client[c].pc \in {"release", "reading"} /\ client[c].reads \in Tasks \cup {c}
    /\ client[c].pc = "reading" => client[c].reads # M!Nil
    /\ client[c].pc \in {"lookup", "acquire"} => client[c].key \in Keys
    /\ client[c].pc = "open" => task[client[c].task].value
    /\ client[c].reads = c => client[c].pc = "reading"

OwnFile(c) ==
    IF client[c].pc \in {"persist", "serve"}
    THEN file[c].exists /\ ~file[c].removed /\ file[c].readers = 0
    ELSE IF client[c].reads = c
         THEN file[c].exists /\ file[c].removed /\ file[c].readers = 1
         ELSE file[c] = M!NoFile

(* The task that is active for a key fills that key and has not finished. *)
Filling ==
    \A k \in Keys : active[k] # M!Nil =>
        task[active[k]].key = k /\ task[active[k]].pc \notin {"free", "return", "gone"}

MavenInv ==
    /\ MavenTypes /\ Filling
    /\ \A t \in Tasks : Tallied(t) /\ TaskKept(t)
    /\ \A c \in Clients : ClientKept(c) /\ OwnFile(c)

LEMMA MavenRecords ==
    /\ M!NoFile \in FileType /\ ~M!NoFile.exists /\ ~M!NoFile.removed /\ M!NoFile.readers = 0
    /\ M!NewReplayableBody \in FileType /\ M!NewReplayableBody.exists /\ ~M!NewReplayableBody.removed
    /\ M!NewReplayableBody.readers = 0
    /\ M!Idle \in TaskType /\ M!Idle.pc = "free" /\ M!Idle.refs = 0 /\ ~M!Idle.value /\ ~M!Idle.finished
    /\ M!NewClient \in ClientType /\ M!NewClient.pc = "idle" /\ M!NewClient.task = M!Nil /\ M!NewClient.reads = M!Nil
<1>1. M!NoFile \in FileType /\ ~M!NoFile.exists /\ ~M!NoFile.removed /\ M!NoFile.readers = 0
  BY DEF M!NoFile, FileType
<1>2. /\ M!NewReplayableBody \in FileType /\ M!NewReplayableBody.exists /\ ~M!NewReplayableBody.removed
      /\ M!NewReplayableBody.readers = 0
  BY <1>1 DEF M!NewReplayableBody, FileType
<1>3. M!Idle \in TaskType /\ M!Idle.pc = "free" /\ M!Idle.refs = 0 /\ ~M!Idle.value /\ ~M!Idle.finished
  BY DEF M!Idle, TaskType, TaskAt
<1>4. M!NewClient \in ClientType /\ M!NewClient.pc = "idle" /\ M!NewClient.task = M!Nil /\ M!NewClient.reads = M!Nil
  BY DEF M!NewClient, ClientType, ClientAt
<1> QED BY <1>1, <1>2, <1>3, <1>4

(* The replay file: opening and closing count its readers; what is removed is *)
(* gone when nobody reads it.                                                 *)
LEMMA FileFacts ==
    ASSUME NEW f \in FileType
    PROVE /\ M!Open(f) \in FileType /\ M!Open(f).exists = f.exists /\ M!Open(f).removed = f.removed
          /\ M!Open(f).readers = f.readers + 1
          /\ f.readers = 0 => M!Remove(f) = M!NoFile
          /\ f.readers # 0 => /\ M!Remove(f) \in FileType /\ M!Remove(f).exists = f.exists /\ M!Remove(f).removed
                              /\ M!Remove(f).readers = f.readers
          /\ f.removed /\ f.readers = 1 => M!CloseReader(f) = M!NoFile
          /\ ~(f.removed /\ f.readers = 1) =>
                /\ M!CloseReader(f) \in FileType /\ M!CloseReader(f).exists = f.exists
                /\ M!CloseReader(f).removed = f.removed /\ M!CloseReader(f).readers = f.readers - 1
<1>1. f.readers + 1 \in Int /\ f.readers - 1 \in Int BY DEF FileType
<1>2. PICK g \in FileType : g = [f EXCEPT !.readers = f.readers + 1] BY <1>1 DEF FileType
<1>3. M!Open(f) = g /\ g.exists = f.exists /\ g.removed = f.removed /\ g.readers = f.readers + 1
  BY <1>2 DEF M!Open, FileType
<1>4. PICK h \in FileType : h = [f EXCEPT !.removed = TRUE] BY DEF FileType
<1>5. h.exists = f.exists /\ h.removed /\ h.readers = f.readers BY <1>4 DEF FileType
<1>6. M!Remove(f) = IF h.removed /\ h.readers = 0 THEN M!NoFile ELSE h BY <1>4 DEF M!Remove, M!RemoveIfUnused
<1>7. PICK e \in FileType : e = [f EXCEPT !.readers = f.readers - 1] BY <1>1 DEF FileType
<1>8. e.exists = f.exists /\ e.removed = f.removed /\ e.readers = f.readers - 1 BY <1>7 DEF FileType
<1>9. M!CloseReader(f) = IF e.removed /\ e.readers = 0 THEN M!NoFile ELSE e
  BY <1>7 DEF M!CloseReader, M!RemoveIfUnused
<1>10. e.readers = 0 <=> f.readers = 1 BY <1>8 DEF FileType
<1> QED BY <1>2, <1>3, <1>4, <1>5, <1>6, <1>7, <1>8, <1>9, <1>10

(* One element comes or goes. *)
LEMMA OneMoves ==
    ASSUME NEW S, NEW T, NEW c, IsFiniteSet(S), S \ {c} = T \ {c}
    PROVE /\ Cardinality(S) \in Nat /\ Cardinality(T) \in Nat
          /\ Cardinality(T) = Cardinality(S) + (IF c \in T THEN 1 ELSE 0) - (IF c \in S THEN 1 ELSE 0)
<1>1. Cardinality(S) \in Nat BY FS_CardinalityType
<1>2. CASE c \in T /\ c \notin S
  <2>1. T = S \cup {c} BY <1>2
  <2>2. Cardinality(T) = Cardinality(S) + 1 BY <1>2, <2>1, FS_AddElement
  <2> QED BY <1>1, <1>2, <2>2
<1>3. CASE c \notin T /\ c \in S
  <2>1. T = S \ {c} BY <1>3
  <2>2. IsFiniteSet(T) /\ Cardinality(T) = Cardinality(S) - 1 BY <1>3, <2>1, FS_RemoveElement
  <2>3. Cardinality(T) \in Nat BY <2>2, FS_CardinalityType
  <2> QED BY <1>1, <1>3, <2>2, <2>3
<1>4. CASE c \in T <=> c \in S
  <2>1. T = S BY <1>4
  <2> QED BY <1>1, <1>4, <2>1
<1> QED BY <1>2, <1>3, <1>4
(* What a step of client c, or of the worker of task t, may change. *)
OnlyClient(c) == client' \in [Clients -> ClientType] /\ \A p \in Clients \ {c} : client'[p] = client[p]
OnlyTask(t) == task' \in [Tasks -> TaskType] /\ \A u \in Tasks \ {t} : task'[u] = task[u]
OnlyFile(f) ==
    file' \in [Tasks \cup Clients -> FileType] /\ \A g \in (Tasks \cup Clients) \ {f} : file'[g] = file[g]

(* What a task has published is withdrawn only when nobody refers to it. *)
Withdraws(t) == task[t].value => task'[t].value \/ task'[t].refs = 0

(* The clients that do not move. *)
LEMMA OtherClient ==
    ASSUME MavenSetting, MavenInv, NEW t \in Tasks \cup {M!Nil}, OnlyTask(t), t \in Tasks => Tallied(t)' /\ Withdraws(t),
           NEW p \in Clients, client'[p] = client[p], file'[p] = file[p]
    PROVE ClientKept(p)' /\ OwnFile(p)'
<1>1. OwnFile(p)' BY DEF MavenInv, OwnFile
<1>2. client[p].pc = "open" => task'[client[p].task].value
  <2> SUFFICES ASSUME client[p].pc = "open" PROVE task'[client[p].task].value OBVIOUS
  <2> DEFINE u == client[p].task
  <2>1. u \in Tasks /\ task[u].value BY DEF MavenInv, MavenTypes, ClientType, ClientKept
  <2>2. CASE u # t BY <2>1, <2>2 DEF OnlyTask
  <2>3. CASE u = t
    <3>1. p \in CallersOf(t)' BY <2>3 DEF CallersOf
    <3>2. IsFiniteSet(CallersOf(t)') BY FS_Subset DEF MavenSetting, CallersOf
    <3>3. task'[t].refs # 0 BY <2>1, <2>3, <3>1, <3>2, FS_EmptySet DEF Tallied
    <3> QED BY <2>1, <2>3, <3>3 DEF Withdraws
  <2> QED BY <2>2, <2>3
<1>3. ClientKept(p)' BY <1>2 DEF MavenInv, ClientKept
<1> QED BY <1>1, <1>3

LEMMA OtherTask ==
    ASSUME MavenSetting, MavenInv, NEW u \in Tasks, task'[u] = task[u], file'[u] = file[u]
    PROVE TaskKept(u)'
BY DEF MavenInv, TaskKept

(* A step of a client, with the task it refers to. *)
LEMMA ClientStep ==
    ASSUME MavenSetting, MavenInv, NEW c \in Clients, NEW t \in Tasks \cup {M!Nil}, NEW f \in {c, t},
           OnlyClient(c), OnlyTask(t), OnlyFile(f), active' \in [Keys -> Tasks \cup {M!Nil}], Filling',
           \A u \in Tasks : /\ task'[u].refs = task[u].refs + (IF client'[c].task = u THEN 1 ELSE 0)
                                                            - (IF client[c].task = u THEN 1 ELSE 0)
                            /\ file'[u].readers = file[u].readers + (IF client'[c].reads = u THEN 1 ELSE 0)
                                                                  - (IF client[c].reads = u THEN 1 ELSE 0)
                            /\ task'[u].pc = "persisting" <=> task[u].pc = "persisting",
           t \in Tasks => TaskKept(t)' /\ Withdraws(t), ClientKept(c)', OwnFile(c)'
    PROVE MavenInv'
<1>1. MavenTypes' BY DEF MavenTypes, OnlyClient, OnlyTask, OnlyFile
<1>2. ASSUME NEW u \in Tasks PROVE Tallied(u)'
  <2> DEFINE S == {p \in Clients : client[p].task = u}
  <2> DEFINE T == {p \in Clients : client'[p].task = u}
  <2> DEFINE X == {p \in Clients : client[p].reads = u}
  <2> DEFINE Y == {p \in Clients : client'[p].reads = u}
  <2>1. IsFiniteSet(S) /\ IsFiniteSet(X) BY FS_Subset DEF MavenSetting
  <2>2. S \ {c} = T \ {c} /\ X \ {c} = Y \ {c} BY DEF OnlyClient
  <2>3. /\ c \in S <=> client[c].task = u
        /\ c \in T <=> client'[c].task = u
        /\ c \in X <=> client[c].reads = u
        /\ c \in Y <=> client'[c].reads = u OBVIOUS
  <2>4. task[u].refs = Cardinality(S) /\ file[u].readers = Cardinality(X) + Storing(u)
    BY DEF MavenInv, Tallied, CallersOf, ReadersOf
  <2>5. SUFFICES task'[u].refs = Cardinality(T) /\ file'[u].readers = Cardinality(Y) + Storing(u)'
    BY DEF Tallied, CallersOf, ReadersOf
  <2>6. Storing(u)' = Storing(u) /\ Storing(u) \in Int BY DEF Storing
  <2> HIDE DEF S, T, X, Y
  <2>7. /\ Cardinality(S) \in Nat /\ Cardinality(T) \in Nat
        /\ Cardinality(T) = Cardinality(S) + (IF c \in T THEN 1 ELSE 0) - (IF c \in S THEN 1 ELSE 0)
    BY <2>1, <2>2, OneMoves
  <2>8. /\ Cardinality(X) \in Nat /\ Cardinality(Y) \in Nat
        /\ Cardinality(Y) = Cardinality(X) + (IF c \in Y THEN 1 ELSE 0) - (IF c \in X THEN 1 ELSE 0)
    BY <2>1, <2>2, OneMoves
  <2>9. task'[u].refs = Cardinality(T) BY <2>3, <2>4, <2>7
  <2>10. file'[u].readers = Cardinality(Y) + Storing(u)' BY <2>3, <2>4, <2>6, <2>8
  <2> QED BY <2>9, <2>10
<1>3. ASSUME NEW u \in Tasks PROVE TaskKept(u)'
  <2>1. CASE u # t
    <3>1. u # f BY <2>1 DEF MavenSetting
    <3> QED BY <2>1, <3>1, OtherTask DEF OnlyTask, OnlyFile
  <2> QED BY <2>1
<1>4. ASSUME NEW p \in Clients PROVE ClientKept(p)' /\ OwnFile(p)'
  <2>1. CASE p # c
    <3>1. p # f BY <2>1 DEF MavenSetting
    <3>2. client'[p] = client[p] /\ file'[p] = file[p] BY <2>1, <3>1 DEF OnlyClient, OnlyFile
    <3> QED BY <1>2, <3>2, OtherClient
  <2> QED BY <2>1
<1> QED BY <1>1, <1>2, <1>3, <1>4 DEF MavenInv

(* A step of a worker. *)
LEMMA WorkerStep ==
    ASSUME MavenSetting, MavenInv, NEW t \in Tasks, UNCHANGED client, OnlyTask(t), OnlyFile(t),
           active' \in [Keys -> Tasks \cup {M!Nil}], Filling',
           task'[t].refs = task[t].refs, file'[t].readers = file[t].readers + Storing(t)' - Storing(t),
           TaskKept(t)', Withdraws(t)
    PROVE MavenInv'
<1>1. MavenTypes' BY DEF MavenInv, MavenTypes, OnlyTask, OnlyFile
<1>2. ASSUME NEW u \in Tasks PROVE Tallied(u)'
  <2>1. CallersOf(u)' = CallersOf(u) /\ ReadersOf(u)' = ReadersOf(u) BY DEF CallersOf, ReadersOf
  <2>2. Tallied(u) /\ Storing(u) \in Int /\ Storing(u)' \in Int BY DEF MavenInv, Storing
  <2>3. CASE u # t
    <3>1. task'[u] = task[u] /\ file'[u] = file[u] BY <2>3 DEF OnlyTask, OnlyFile
    <3> QED BY <2>1, <2>2, <3>1 DEF Tallied, Storing
  <2>4. CASE u = t
    <3>1. IsFiniteSet(ReadersOf(t)) BY FS_Subset DEF MavenSetting, ReadersOf
    <3>2. Cardinality(ReadersOf(t)) \in Nat BY <3>1, FS_CardinalityType
    <3> QED BY <2>1, <2>2, <2>4, <3>2 DEF Tallied
  <2> QED BY <2>3, <2>4
<1>3. ASSUME NEW u \in Tasks PROVE TaskKept(u)'
  BY OtherTask DEF OnlyTask, OnlyFile
<1>4. ASSUME NEW p \in Clients PROVE ClientKept(p)' /\ OwnFile(p)'
  <2>1. file'[p] = file[p] BY DEF OnlyFile, MavenSetting
  <2> QED BY <1>2, <2>1, OtherClient
<1> QED BY <1>1, <1>2, <1>3, <1>4 DEF MavenInv
(* A step that concerns only a client and the file it spooled. *)
LEMMA ClientAlone ==
    ASSUME MavenSetting, MavenInv, NEW c \in Clients, OnlyClient(c), OnlyFile(c), UNCHANGED <<task, active>>,
           client'[c].task = client[c].task, \A u \in Tasks : client'[c].reads = u <=> client[c].reads = u,
           ClientKept(c)', OwnFile(c)'
    PROVE MavenInv'
<1>1. OnlyTask(M!Nil) BY DEF MavenInv, MavenTypes, OnlyTask
<1>2. active' \in [Keys -> Tasks \cup {M!Nil}] /\ Filling' BY DEF MavenInv, MavenTypes, Filling
<1>3. ASSUME NEW u \in Tasks
      PROVE /\ task'[u].refs = task[u].refs + (IF client'[c].task = u THEN 1 ELSE 0)
                                            - (IF client[c].task = u THEN 1 ELSE 0)
            /\ file'[u].readers = file[u].readers + (IF client'[c].reads = u THEN 1 ELSE 0)
                                                  - (IF client[c].reads = u THEN 1 ELSE 0)
            /\ task'[u].pc = "persisting" <=> task[u].pc = "persisting"
  <2>1. file'[u] = file[u] /\ task'[u] = task[u] BY DEF OnlyFile, MavenSetting
  <2>2. task[u].refs \in Int /\ file[u].readers \in Int BY DEF MavenInv, MavenTypes, TaskType, FileType
  <2> QED BY <2>1, <2>2
<1>4. M!Nil \notin Tasks BY DEF MavenSetting
<1> QED BY <1>1, <1>2, <1>3, <1>4, ClientStep

LEMMA FilesAlone ==
    ASSUME MavenInv, UNCHANGED file, NEW f
    PROVE OnlyFile(f)
BY DEF MavenInv, MavenTypes, OnlyFile

LEMMA EndFacts ==
    ASSUME MavenInv, NEW c \in Clients, M!End(c)
    PROVE OnlyClient(c) /\ client'[c].pc = "done" /\ client'[c].task = M!Nil /\ client'[c].reads = M!Nil
<1>1. PICK r \in ClientType : r = [M!NewClient EXCEPT !.pc = "done"]
  BY MavenRecords DEF ClientType, ClientAt
<1>2. r.pc = "done" /\ r.task = M!Nil /\ r.reads = M!Nil BY <1>1, MavenRecords DEF ClientType
<1>3. client' = [client EXCEPT ![c] = r] BY <1>1 DEF M!End, M!Set
<1> QED BY <1>2, <1>3 DEF MavenInv, MavenTypes, OnlyClient

LEMMA GotoFacts ==
    ASSUME MavenInv, NEW c \in Clients, NEW at \in ClientAt, M!Goto(c, at)
    PROVE /\ OnlyClient(c) /\ client'[c].pc = at /\ client'[c].task = client[c].task
          /\ client'[c].reads = client[c].reads /\ client'[c].key = client[c].key
<1>1. client[c] \in ClientType BY DEF MavenInv, MavenTypes
<1>2. PICK r \in ClientType : r = [client[c] EXCEPT !.pc = at] BY <1>1 DEF ClientType
<1>3. r.pc = at /\ r.task = client[c].task /\ r.reads = client[c].reads /\ r.key = client[c].key
  BY <1>1, <1>2 DEF ClientType
<1>4. client' = [client EXCEPT ![c] = r] BY <1>2 DEF M!Goto, M!Set
<1> QED BY <1>3, <1>4 DEF MavenInv, MavenTypes, OnlyClient

(* A client that ends without a task or a body, or goes on to another place. *)
LEMMA ClientEnds ==
    ASSUME MavenSetting, MavenInv, NEW c \in Clients, M!End(c), UNCHANGED <<task, active>>, OnlyFile(c),
           client[c].task = M!Nil, client[c].reads \in {M!Nil, c}, file'[c] = M!NoFile
    PROVE MavenInv'
<1>1. OnlyClient(c) /\ client'[c].pc = "done" /\ client'[c].task = M!Nil /\ client'[c].reads = M!Nil BY EndFacts
<1>2. c # M!Nil /\ c \notin Tasks /\ M!Nil \notin Tasks BY DEF MavenSetting
<1>3. ClientKept(c)' /\ OwnFile(c)' BY <1>1, <1>2 DEF ClientKept, OwnFile
<1> QED BY <1>1, <1>2, <1>3, ClientAlone

LEMMA LookupKeeps ==
    ASSUME MavenSetting, MavenInv, NEW c \in Clients, M!Lookup(c) \/ M!AcquireFails(c)
    PROVE MavenInv'
<1>1. client[c].pc \in {"lookup", "acquire"} /\ UNCHANGED <<active, task, file>> BY DEF M!Lookup, M!AcquireFails
<1>2. ClientKept(c) /\ OwnFile(c) /\ c # M!Nil BY DEF MavenInv, MavenSetting
<1>3. client[c].task = M!Nil /\ client[c].reads = M!Nil /\ client[c].key \in Keys /\ file[c] = M!NoFile
  BY <1>1, <1>2 DEF ClientKept, OwnFile
<1>4. OnlyFile(c) BY <1>1, FilesAlone
<1>5. CASE M!End(c) BY <1>1, <1>3, <1>4, <1>5, ClientEnds
<1>6. ASSUME NEW at \in {"acquire", "fetch"}, M!Goto(c, at) PROVE MavenInv'
  <2>1. /\ OnlyClient(c) /\ client'[c].pc = at /\ client'[c].task = M!Nil
        /\ client'[c].reads = M!Nil /\ client'[c].key \in Keys BY <1>3, <1>6, GotoFacts DEF ClientAt
  <2>2. ClientKept(c)' /\ OwnFile(c)' BY <1>1, <1>2, <1>3, <1>6, <2>1 DEF ClientKept, OwnFile
  <2> QED BY <1>1, <1>3, <1>4, <2>1, <2>2, ClientAlone
<1> QED BY <1>5, <1>6 DEF M!Lookup, M!AcquireFails

LEMMA WaitKeeps ==
    ASSUME MavenSetting, MavenInv, NEW c \in Clients, M!Wait(c) \/ M!GiveUp(c)
    PROVE MavenInv'
<1>1. client[c].pc \in {"wait", "open"} /\ UNCHANGED <<active, task, file>> BY DEF M!Wait, M!GiveUp
<1>2. ClientKept(c) /\ OwnFile(c) /\ c # M!Nil BY DEF MavenInv, MavenSetting
<1>3. client[c].task # M!Nil /\ client[c].reads = M!Nil /\ file[c] = M!NoFile
  BY <1>1, <1>2 DEF ClientKept, OwnFile
<1>4. OnlyFile(c) BY <1>1, FilesAlone
<1>5. ASSUME NEW at \in {"open", "release"}, M!Goto(c, at), at = "open" => task[client[c].task].value PROVE MavenInv'
  <2>1. /\ OnlyClient(c) /\ client'[c].pc = at /\ client'[c].task = client[c].task
        /\ client'[c].reads = M!Nil BY <1>3, <1>5, GotoFacts DEF ClientAt
  <2>2. ClientKept(c)' /\ OwnFile(c)' BY <1>1, <1>2, <1>3, <1>5, <2>1 DEF ClientKept, OwnFile
  <2> QED BY <1>1, <1>3, <1>4, <2>1, <2>2, ClientAlone
<1> QED BY <1>5 DEF M!Wait, M!GiveUp

(* The caller that fetches for itself spools a file, opens and removes it. *)
LEMMA FetchAloneKeeps ==
    ASSUME MavenSetting, MavenInv, NEW c \in Clients, M!FetchAlone(c) \/ M!PersistRefresh(c)
    PROVE MavenInv'
<1>1. client[c].pc \in {"fetch", "persist"} /\ UNCHANGED <<active, task>> BY DEF M!FetchAlone, M!PersistRefresh
<1>2. ClientKept(c) /\ OwnFile(c) /\ c # M!Nil BY DEF MavenInv, MavenSetting
<1>3. client[c].task = M!Nil /\ client[c].reads = M!Nil BY <1>1, <1>2 DEF ClientKept
<1>4. ASSUME NEW at \in {"persist", "serve"}, M!Goto(c, at), OnlyFile(c),
             file'[c].exists, ~file'[c].removed, file'[c].readers = 0
      PROVE MavenInv'
  <2>1. /\ OnlyClient(c) /\ client'[c].pc = at /\ client'[c].task = M!Nil /\ client'[c].reads = M!Nil
    BY <1>3, <1>4, GotoFacts DEF ClientAt
  <2>2. ClientKept(c)' /\ OwnFile(c)' BY <1>2, <1>4, <2>1 DEF ClientKept, OwnFile
  <2> QED BY <1>1, <1>3, <1>4, <2>1, <2>2, ClientAlone
<1>5. CASE M!FetchAlone(c)
  <2>1. file[c] = M!NoFile BY <1>2, <1>3, <1>5 DEF M!FetchAlone, OwnFile
  <2>2. CASE M!End(c) /\ UNCHANGED file BY <1>1, <1>3, <2>1, <2>2, ClientEnds, FilesAlone
  <2>3. CASE file' = [file EXCEPT ![c] = M!NewReplayableBody]
    <3>1. OnlyFile(c) /\ file'[c] = M!NewReplayableBody BY <2>3, MavenRecords DEF OnlyFile, MavenInv, MavenTypes
    <3>2. file'[c].exists /\ ~file'[c].removed /\ file'[c].readers = 0 BY <3>1, MavenRecords
    <3>3. M!Goto(c, "persist") \/ M!Goto(c, "serve") BY <1>2, <1>5, <2>3, <2>1, <3>2, MavenRecords DEF M!FetchAlone
    <3> QED BY <1>4, <3>1, <3>2, <3>3
  <2> QED BY <1>5, <2>2, <2>3 DEF M!FetchAlone
<1>6. CASE M!PersistRefresh(c)
  <2>1. M!Goto(c, "serve") /\ UNCHANGED file BY <1>6 DEF M!PersistRefresh
  <2>2. file[c].exists /\ ~file[c].removed /\ file[c].readers = 0 BY <1>2, <1>6 DEF M!PersistRefresh, OwnFile
  <2> QED BY <1>4, <2>1, <2>2, FilesAlone
<1> QED BY <1>5, <1>6

LEMMA ServeAloneKeeps ==
    ASSUME MavenSetting, MavenInv, NEW c \in Clients, M!ServeAlone(c)
    PROVE MavenInv'
<1>1. client[c].pc = "serve" /\ UNCHANGED <<active, task>> BY DEF M!ServeAlone
<1>2. /\ ClientKept(c) /\ OwnFile(c) /\ c # M!Nil /\ c \notin Tasks /\ M!Nil \notin Tasks
      /\ file[c] \in FileType /\ client[c] \in ClientType BY DEF MavenInv, MavenTypes, MavenSetting
<1>3. /\ client[c].task = M!Nil /\ client[c].reads = M!Nil
      /\ file[c].exists /\ ~file[c].removed /\ file[c].readers = 0 BY <1>1, <1>2 DEF ClientKept, OwnFile
<1>4. CASE /\ file' = [file EXCEPT ![c] = M!Remove(M!Open(file[c]))]
           /\ M!Set(c, [client[c] EXCEPT !.pc = "reading", !.reads = c])
  <2>1. M!Open(file[c]) \in FileType /\ M!Open(file[c]).exists /\ M!Open(file[c]).readers = 1 BY <1>2, <1>3, FileFacts
  <2>2. PICK g \in FileType : g = M!Remove(M!Open(file[c])) /\ g.exists /\ g.removed /\ g.readers = 1
    BY <2>1, FileFacts
  <2>3. OnlyFile(c) /\ file'[c] = g BY <1>4, <2>2 DEF OnlyFile, MavenInv, MavenTypes
  <2>4. PICK r \in ClientType : r = [client[c] EXCEPT !.pc = "reading", !.reads = c] BY <1>2 DEF ClientType, ClientAt
  <2>5. r.pc = "reading" /\ r.task = M!Nil /\ r.reads = c BY <1>2, <1>3, <2>4 DEF ClientType
  <2>6. OnlyClient(c) /\ client'[c] = r BY <1>4, <2>4 DEF M!Set, OnlyClient, MavenInv, MavenTypes
  <2>7. ClientKept(c)' /\ OwnFile(c)' BY <1>2, <2>2, <2>3, <2>5, <2>6 DEF ClientKept, OwnFile
  <2> QED BY <1>1, <1>2, <1>3, <2>3, <2>5, <2>6, <2>7, ClientAlone
<1>5. CASE file' = [file EXCEPT ![c] = M!Remove(file[c])] /\ M!End(c)
  <2>1. M!Remove(file[c]) = M!NoFile BY <1>2, <1>3, FileFacts
  <2>2. OnlyFile(c) /\ file'[c] = M!NoFile BY <1>5, <2>1, MavenRecords DEF OnlyFile, MavenInv, MavenTypes
  <2> QED BY <1>1, <1>3, <1>5, <2>2, ClientEnds
<1> QED BY <1>4, <1>5 DEF M!ServeAlone
(* One more caller of the task that fills a key. *)
LEMMA JoinTaskKeeps ==
    ASSUME MavenSetting, MavenInv, NEW c \in Clients, client[c].pc \in {"idle", "acquire"}, NEW k \in Keys, active[k] # M!Nil,
           task' = [task EXCEPT ![active[k]].refs = @ + 1], UNCHANGED <<active, file>>,
           NEW r \in ClientType, client' = [client EXCEPT ![c] = r], r.pc = "wait", r.task = active[k], r.reads = M!Nil
    PROVE MavenInv'
<1>0. PICK t \in Tasks : t = active[k] BY DEF MavenInv, MavenTypes
<1>1. task[t] \in TaskType /\ task[t].pc \notin {"free", "return", "gone"} /\ TaskKept(t)
  BY <1>0 DEF MavenInv, MavenTypes, Filling
<1>2. /\ ClientKept(c) /\ OwnFile(c) /\ c # M!Nil /\ c \notin Tasks /\ M!Nil \notin Tasks /\ client[c] \in ClientType
  BY DEF MavenInv, MavenTypes, MavenSetting
<1>3. client[c].task = M!Nil /\ client[c].reads = M!Nil /\ file[c] = M!NoFile BY <1>2 DEF ClientKept, OwnFile
<1>4. task[t].refs + 1 \in Int BY <1>1 DEF TaskType
<1>5. PICK q \in TaskType : q = [task[t] EXCEPT !.refs = task[t].refs + 1] BY <1>1, <1>4 DEF TaskType
<1>6. /\ q.refs = task[t].refs + 1 /\ q.pc = task[t].pc /\ q.key = task[t].key /\ q.value = task[t].value
      /\ q.finished = task[t].finished
  BY <1>1, <1>5 DEF TaskType
<1>7. task' = [task EXCEPT ![t] = q] BY <1>0, <1>5
<1>8. OnlyTask(t) /\ task'[t] = q BY <1>1, <1>7 DEF OnlyTask, MavenInv, MavenTypes
<1>9. OnlyClient(c) /\ client'[c] = r BY DEF OnlyClient, MavenInv, MavenTypes
<1>10. OnlyFile(t) BY FilesAlone
<1>11. TaskKept(t)' /\ Withdraws(t)
  <2>1. task[t].refs \in Int BY <1>1 DEF TaskType
  <2>2. ~q.finished BY <1>1, <1>6 DEF TaskKept
  <2>3. TaskKept(t)'
    <3>1. file'[t] = file[t] OBVIOUS
    <3> QED BY <1>1, <1>6, <1>8, <2>2, <3>1 DEF TaskKept
  <2> QED BY <1>6, <1>8, <2>3 DEF Withdraws
<1>12. ClientKept(c)' /\ OwnFile(c)' BY <1>0, <1>1, <1>2, <1>3, <1>9 DEF ClientKept, OwnFile
<1>13. Filling' /\ active' \in [Keys -> Tasks \cup {M!Nil}]
  <2>1. active' = active /\ active \in [Keys -> Tasks \cup {M!Nil}] BY DEF MavenInv, MavenTypes
  <2>2. ASSUME NEW j \in Keys, active[j] # M!Nil
        PROVE task'[active[j]].key = j /\ task'[active[j]].pc \notin {"free", "return", "gone"}
    <3>1. active[j] \in Tasks /\ task[active[j]].key = j /\ task[active[j]].pc \notin {"free", "return", "gone"}
      BY <2>1, <2>2 DEF MavenInv, Filling
    <3> QED BY <1>6, <1>8, <3>1 DEF OnlyTask
  <2> QED BY <2>1, <2>2 DEF Filling
<1>14. ASSUME NEW u \in Tasks
       PROVE /\ task'[u].refs = task[u].refs + (IF client'[c].task = u THEN 1 ELSE 0)
                                             - (IF client[c].task = u THEN 1 ELSE 0)
             /\ file'[u].readers = file[u].readers + (IF client'[c].reads = u THEN 1 ELSE 0)
                                                   - (IF client[c].reads = u THEN 1 ELSE 0)
             /\ task'[u].pc = "persisting" <=> task[u].pc = "persisting"
  <2>1. task[u].refs \in Int /\ file[u].readers \in Int BY DEF MavenInv, MavenTypes, TaskType, FileType
  <2>2. client'[c].task = t /\ client[c].task # u /\ client'[c].reads # u /\ client[c].reads # u BY <1>0, <1>2, <1>3, <1>9
  <2>3. CASE u = t BY <1>6, <1>8, <2>1, <2>2, <2>3
  <2>4. CASE u # t
    <3>1. task'[u] = task[u] BY <1>8, <2>4 DEF OnlyTask
    <3>2. task'[u].refs = task[u].refs /\ file'[u].readers = file[u].readers BY <3>1
    <3>3. client'[c].task # u BY <2>2, <2>4
    <3>4. task'[u].pc = "persisting" <=> task[u].pc = "persisting" BY <3>1
    <3>5. /\ task[u].refs = task[u].refs + 0 - 0
          /\ file[u].readers = file[u].readers + 0 - 0 BY <2>1
    <3> QED BY <2>2, <3>2, <3>3, <3>4, <3>5, Zenon
  <2> QED BY <2>3, <2>4
<1> QED BY <1>1, <1>8, <1>9, <1>10, <1>11, <1>12, <1>13, <1>14, ClientStep

LEMMA ArriveKeeps ==
    ASSUME MavenSetting, MavenInv, NEW c \in Clients, NEW k \in Keys, NEW kind \in {"get", "refresh"}, M!Arrive(c, k, kind)
    PROVE MavenInv'
<1>1. client[c].pc = "idle" /\ UNCHANGED <<active, file>> BY DEF M!Arrive
<1>2. /\ ClientKept(c) /\ OwnFile(c) /\ c # M!Nil /\ client[c] \in ClientType BY DEF MavenInv, MavenTypes, MavenSetting
<1>3. client[c].task = M!Nil /\ client[c].reads = M!Nil /\ file[c] = M!NoFile BY <1>1, <1>2 DEF ClientKept, OwnFile
<1>4. PICK n \in ClientType : n = [client[c] EXCEPT !.key = k, !.kind = kind] BY <1>2 DEF ClientType
<1>5. n.pc = "idle" /\ n.task = M!Nil /\ n.reads = M!Nil /\ n.key = k BY <1>1, <1>2, <1>3, <1>4 DEF ClientType
<1>6. CASE /\ active[k] # M!Nil /\ task' = [task EXCEPT ![active[k]].refs = @ + 1]
           /\ M!Set(c, [n EXCEPT !.pc = "wait", !.task = active[k]])
  <2>1. active[k] \in Tasks BY <1>6 DEF MavenInv, MavenTypes
  <2>2. PICK r \in ClientType : r = [n EXCEPT !.pc = "wait", !.task = active[k]] BY <2>1 DEF ClientType, ClientAt
  <2>3. r.pc = "wait" /\ r.task = active[k] /\ r.reads = M!Nil BY <1>5, <2>2 DEF ClientType
  <2> QED BY <1>1, <1>6, <2>2, <2>3, JoinTaskKeeps DEF M!Set
<1>7. CASE M!Set(c, [n EXCEPT !.pc = "lookup"]) /\ UNCHANGED task
  <2>1. PICK r \in ClientType : r = [n EXCEPT !.pc = "lookup"] BY DEF ClientType, ClientAt
  <2>2. r.pc = "lookup" /\ r.task = M!Nil /\ r.reads = M!Nil /\ r.key = k BY <1>5, <2>1 DEF ClientType
  <2>3. OnlyClient(c) /\ client'[c] = r BY <1>7, <2>1 DEF M!Set, OnlyClient, MavenInv, MavenTypes
  <2>4. ClientKept(c)' /\ OwnFile(c)' BY <1>1, <1>2, <1>3, <2>2, <2>3 DEF ClientKept, OwnFile
  <2> QED BY <1>1, <1>3, <1>7, <2>2, <2>3, <2>4, ClientAlone, FilesAlone
<1> QED BY <1>4, <1>6, <1>7 DEF M!Arrive

(* acquire: a new task is one that nobody refers to or reads. *)
LEMMA AcquireTaskKeeps ==
    ASSUME MavenSetting, MavenInv, NEW c \in Clients, M!Acquire(c)
    PROVE MavenInv'
<1> DEFINE k == client[c].key
<1>1. client[c].pc = "acquire" /\ UNCHANGED file BY DEF M!Acquire
<1>2. /\ ClientKept(c) /\ OwnFile(c) /\ c # M!Nil /\ client[c] \in ClientType /\ M!Nil \notin Tasks /\ c \notin Tasks
  BY DEF MavenInv, MavenTypes, MavenSetting
<1>3. client[c].task = M!Nil /\ client[c].reads = M!Nil /\ file[c] = M!NoFile /\ k \in Keys
  BY <1>1, <1>2 DEF ClientKept, OwnFile
<1>4. ASSUME NEW t \in Tasks
      PROVE \E r \in ClientType : /\ r = [client[c] EXCEPT !.pc = "wait", !.task = t]
                                  /\ r.pc = "wait" /\ r.task = t /\ r.reads = M!Nil
  <2>1. PICK r \in ClientType : r = [client[c] EXCEPT !.pc = "wait", !.task = t] BY <1>2 DEF ClientType, ClientAt
  <2>2. r.pc = "wait" /\ r.task = t /\ r.reads = M!Nil BY <1>2, <1>3, <2>1 DEF ClientType
  <2> QED BY <2>1, <2>2
<1>5. CASE active[k] # M!Nil /\ M!Joins(c, active[k]) /\ UNCHANGED active
  <2>1. active[k] \in Tasks BY <1>3, <1>5 DEF MavenInv, MavenTypes
  <2>2. PICK r \in ClientType : /\ r = [client[c] EXCEPT !.pc = "wait", !.task = active[k]]
                                /\ r.pc = "wait" /\ r.task = active[k] /\ r.reads = M!Nil BY <1>4, <2>1
  <2>3. client' = [client EXCEPT ![c] = r] /\ task' = [task EXCEPT ![active[k]].refs = @ + 1]
    BY <1>5, <2>2 DEF M!Joins, M!Set
  <2> QED BY <1>1, <1>3, <1>5, <2>2, <2>3, JoinTaskKeeps
<1>6. ASSUME active[k] = M!Nil, NEW t \in Tasks, M!Unused(t), active' = [active EXCEPT ![k] = t],
             task' = [task EXCEPT ![t] = [M!Idle EXCEPT !.pc = "look", !.key = k, !.refs = 1]],
             M!Set(c, [client[c] EXCEPT !.pc = "wait", !.task = t])
      PROVE MavenInv'
  <2>1. PICK one \in Int : one = 1 OBVIOUS
  <2>2. PICK q \in TaskType : q = [M!Idle EXCEPT !.pc = "look", !.key = k, !.refs = one]
    BY <1>3, MavenRecords DEF TaskType, TaskAt
  <2>3. q.pc = "look" /\ q.key = k /\ q.refs = one /\ ~q.value /\ ~q.finished
    BY <1>3, <2>2, MavenRecords DEF TaskType
  <2>4. PICK r \in ClientType : /\ r = [client[c] EXCEPT !.pc = "wait", !.task = t]
                                /\ r.pc = "wait" /\ r.task = t /\ r.reads = M!Nil BY <1>4
  <2>5. OnlyClient(c) /\ client'[c] = r BY <1>6, <2>4 DEF M!Set, OnlyClient, MavenInv, MavenTypes
  <2>6. task' = [task EXCEPT ![t] = q] BY <1>6, <2>1, <2>2
  <2>7. OnlyTask(t) /\ task'[t] = q BY <2>6 DEF OnlyTask, MavenInv, MavenTypes
  <2>8. OnlyFile(t) BY <1>1, FilesAlone
  <2>9. /\ task[t].pc = "free" /\ task[t].refs = 0 /\ ~task[t].value /\ ~file[t].exists /\ ~file[t].removed
        /\ file[t].readers = 0
    BY <1>6, MavenRecords DEF M!Unused
  <2>10. TaskKept(t)' /\ Withdraws(t) BY <1>1, <1>3, <2>3, <2>7, <2>9 DEF TaskKept, Withdraws
  <2>11. ClientKept(c)' /\ OwnFile(c)' BY <1>1, <1>2, <1>3, <2>4, <2>5 DEF ClientKept, OwnFile
  <2>12. Filling' /\ active' \in [Keys -> Tasks \cup {M!Nil}]
    <3>1. active' \in [Keys -> Tasks \cup {M!Nil}] BY <1>6 DEF MavenInv, MavenTypes
    <3>2. ASSUME NEW j \in Keys, active'[j] # M!Nil
          PROVE task'[active'[j]].key = j /\ task'[active'[j]].pc \notin {"free", "return", "gone"}
      <4>1. CASE j = k
        <5>1. active'[j] = t BY <1>3, <1>6, <4>1 DEF MavenInv, MavenTypes
        <5> QED BY <2>3, <2>7, <4>1, <5>1
      <4>2. CASE j # k
        <5>1. active'[j] = active[j] BY <1>6, <4>2 DEF MavenInv, MavenTypes
        <5>2. active[j] \in Tasks /\ task[active[j]].key = j /\ task[active[j]].pc \notin {"free", "return", "gone"}
          BY <3>2, <5>1 DEF MavenInv, MavenTypes, Filling
        <5> QED BY <2>7, <2>9, <5>1, <5>2 DEF OnlyTask
      <4> QED BY <4>1, <4>2
    <3> QED BY <3>1, <3>2 DEF Filling
  <2>13. ASSUME NEW u \in Tasks
         PROVE /\ task'[u].refs = task[u].refs + (IF client'[c].task = u THEN 1 ELSE 0)
                                               - (IF client[c].task = u THEN 1 ELSE 0)
               /\ file'[u].readers = file[u].readers + (IF client'[c].reads = u THEN 1 ELSE 0)
                                                     - (IF client[c].reads = u THEN 1 ELSE 0)
               /\ task'[u].pc = "persisting" <=> task[u].pc = "persisting"
    <3>1. task[u].refs \in Int /\ file[u].readers \in Int BY DEF MavenInv, MavenTypes, TaskType, FileType
    <3>2. client'[c].task = t /\ client[c].task # u /\ client'[c].reads # u /\ client[c].reads # u BY <1>2, <1>3, <2>4, <2>5
    <3>3. CASE u = t BY <1>1, <2>1, <2>3, <2>7, <2>9, <3>1, <3>2, <3>3
    <3>4. CASE u # t BY <1>1, <2>7, <3>1, <3>2, <3>4 DEF OnlyTask
    <3> QED BY <3>3, <3>4
  <2> QED BY <2>5, <2>7, <2>8, <2>10, <2>11, <2>12, <2>13, ClientStep
<1>7. CASE M!Goto(c, "fetch") /\ UNCHANGED <<active, task>>
  <2>1. /\ OnlyClient(c) /\ client'[c].pc = "fetch" /\ client'[c].task = M!Nil /\ client'[c].reads = M!Nil
    BY <1>3, <1>7, GotoFacts DEF ClientAt
  <2>2. ClientKept(c)' /\ OwnFile(c)' BY <1>1, <1>2, <1>3, <2>1 DEF ClientKept, OwnFile
  <2> QED BY <1>1, <1>3, <1>7, <2>1, <2>2, ClientAlone, FilesAlone
<1> QED BY <1>5, <1>6, <1>7 DEF M!Acquire
(* responseFromPrepared: a body that reads the file of the task. *)
LEMMA OpenReplayKeeps ==
    ASSUME MavenSetting, MavenInv, NEW c \in Clients, M!OpenReplay(c)
    PROVE MavenInv'
<1>1. client[c].pc = "open" /\ UNCHANGED <<active, task>> BY DEF M!OpenReplay
<1>2. /\ ClientKept(c) /\ OwnFile(c) /\ c # M!Nil /\ client[c] \in ClientType /\ M!Nil \notin Tasks /\ c \notin Tasks
  BY DEF MavenInv, MavenTypes, MavenSetting
<1>3. PICK t \in Tasks : t = client[c].task BY <1>1, <1>2 DEF ClientKept, ClientType
<1>4. client[c].reads = M!Nil /\ file[c] = M!NoFile /\ task[t].value BY <1>1, <1>2, <1>3 DEF ClientKept, OwnFile
<1>5. TaskKept(t) /\ file[t] \in FileType /\ task[t] \in TaskType BY DEF MavenInv, MavenTypes
<1>6. CASE UNCHANGED file /\ M!Goto(c, "release")
  <2>1. /\ OnlyClient(c) /\ client'[c].pc = "release" /\ client'[c].task = t /\ client'[c].reads = M!Nil
    BY <1>3, <1>4, <1>6, GotoFacts DEF ClientAt
  <2>2. ClientKept(c)' /\ OwnFile(c)' BY <1>2, <1>3, <1>4, <1>6, <2>1 DEF ClientKept, OwnFile
  <2> QED BY <1>1, <1>3, <1>4, <1>6, <2>1, <2>2, ClientAlone, FilesAlone
<1>7. CASE file' = [file EXCEPT ![t] = M!Open(file[t])] /\ M!Set(c, [client[c] EXCEPT !.pc = "release", !.reads = t])
  <2>1. PICK g \in FileType : /\ g = M!Open(file[t]) /\ g.exists = file[t].exists /\ g.removed = file[t].removed
                              /\ g.readers = file[t].readers + 1 BY <1>5, FileFacts
  <2>2. OnlyFile(t) /\ file'[t] = g BY <1>7, <2>1 DEF OnlyFile, MavenInv, MavenTypes
  <2>3. PICK r \in ClientType : r = [client[c] EXCEPT !.pc = "release", !.reads = t] BY <1>2 DEF ClientType, ClientAt
  <2>4. r.pc = "release" /\ r.task = t /\ r.reads = t BY <1>2, <1>3, <2>3 DEF ClientType
  <2>5. OnlyClient(c) /\ client'[c] = r BY <1>7, <2>3 DEF M!Set, OnlyClient, MavenInv, MavenTypes
  <2>6. OnlyTask(t) BY <1>1 DEF OnlyTask, MavenInv, MavenTypes
  <2>7. TaskKept(t)' /\ Withdraws(t)
    <3>1. file[t].readers \in Int BY <1>5 DEF FileType
    <3> QED BY <1>1, <1>4, <1>5, <2>1, <2>2, <3>1 DEF TaskKept, Withdraws
  <2>8. file'[c] = M!NoFile BY <1>2, <1>4, <2>2 DEF OnlyFile
  <2>9. ClientKept(c)' /\ OwnFile(c)' BY <1>2, <2>4, <2>5, <2>8 DEF ClientKept, OwnFile
  <2>10. Filling' /\ active' \in [Keys -> Tasks \cup {M!Nil}] BY <1>1 DEF MavenInv, MavenTypes, Filling
  <2>11. ASSUME NEW u \in Tasks
         PROVE /\ task'[u].refs = task[u].refs + (IF client'[c].task = u THEN 1 ELSE 0)
                                               - (IF client[c].task = u THEN 1 ELSE 0)
               /\ file'[u].readers = file[u].readers + (IF client'[c].reads = u THEN 1 ELSE 0)
                                                     - (IF client[c].reads = u THEN 1 ELSE 0)
               /\ task'[u].pc = "persisting" <=> task[u].pc = "persisting"
    <3>1. task[u].refs \in Int /\ file[u].readers \in Int BY DEF MavenInv, MavenTypes, TaskType, FileType
    <3>2. client'[c].task = client[c].task /\ client'[c].reads = t /\ client[c].reads # u BY <1>2, <1>3, <1>4, <2>4, <2>5
    <3>3. file'[u].readers = file[u].readers + (IF t = u THEN 1 ELSE 0) BY <2>1, <2>2, <3>1 DEF OnlyFile
    <3> QED BY <1>1, <3>1, <3>2, <3>3
  <2> QED BY <2>2, <2>5, <2>6, <2>7, <2>9, <2>10, <2>11, ClientStep
<1> QED BY <1>3, <1>6, <1>7 DEF M!OpenReplay

(* SetTask: the last of a finished task and its callers takes the value away. *)
LEMMA SetTaskFacts ==
    ASSUME MavenInv, NEW t \in Tasks, NEW n \in TaskType, M!SetTask(t, n),
           n.value => file[t].exists /\ ~file[t].removed
    PROVE /\ OnlyTask(t) /\ OnlyFile(t)
          /\ task'[t].refs = n.refs
          /\ task'[t] = n \/ (n.finished /\ n.refs = 0 /\ ~task'[t].value)
          /\ n.finished /\ n.refs = 0 => ~task'[t].value
          /\ \/ task'[t].pc = n.pc /\ task'[t].key = n.key /\ task'[t].finished = n.finished
             \/ n.finished /\ n.pc = "gone" /\ task'[t].pc = "free" /\ ~task'[t].finished /\ ~task'[t].value
          /\ file'[t].readers = file[t].readers
          /\ \/ n.finished /\ n.refs = 0 /\ n.value /\ file[t].readers = 0 /\ file'[t] = M!NoFile
             \/ n.finished /\ n.refs = 0 /\ n.value /\ file'[t].exists /\ file'[t].removed /\ file[t].readers # 0
             \/ ~(n.finished /\ n.refs = 0 /\ n.value) /\ file'[t] = file[t]
<1>1. file[t] \in FileType BY DEF MavenInv, MavenTypes
<1>2. PICK m \in TaskType : m = [n EXCEPT !.value = FALSE] BY DEF TaskType
<1>3. /\ ~m.value /\ m.refs = n.refs /\ m.pc = n.pc /\ m.key = n.key /\ m.finished = n.finished BY <1>2 DEF TaskType
<1> DEFINE q == M!Settled(IF M!Cleanup(n) THEN m ELSE n)
<1>4. task' = [task EXCEPT ![t] = q] BY <1>2 DEF M!SetTask
<1>5. /\ q \in TaskType /\ q.refs = n.refs
      /\ q = n \/ (n.finished /\ n.refs = 0 /\ ~q.value)
      /\ n.finished /\ n.refs = 0 => ~q.value
      /\ \/ q.pc = n.pc /\ q.key = n.key /\ q.finished = n.finished
         \/ n.finished /\ n.pc = "gone" /\ q.pc = "free" /\ ~q.finished /\ ~q.value
  <2>1. CASE n.finished /\ n.refs = 0
    <3>1. q = IF m.finished /\ m.refs = 0 /\ m.pc = "gone" THEN M!Idle ELSE m BY <2>1 DEF M!Cleanup, M!Settled
    <3> HIDE DEF q
    <3>2. CASE m.pc = "gone" BY <1>3, <2>1, <3>1, <3>2, MavenRecords
    <3>3. CASE m.pc # "gone" BY <1>3, <2>1, <3>1, <3>3
    <3> QED BY <3>2, <3>3
  <2>2. CASE ~(n.finished /\ n.refs = 0)
    <3>1. q = n BY <2>2 DEF M!Cleanup, M!Settled
    <3> HIDE DEF q
    <3> QED BY <2>2, <3>1
  <2> QED BY <2>1, <2>2
<1> HIDE DEF q
<1>6. OnlyTask(t) /\ task'[t] = q BY <1>4, <1>5 DEF OnlyTask, MavenInv, MavenTypes
<1>7. /\ OnlyFile(t) /\ file'[t].readers = file[t].readers
      /\ \/ n.finished /\ n.refs = 0 /\ n.value /\ file[t].readers = 0 /\ file'[t] = M!NoFile
         \/ n.finished /\ n.refs = 0 /\ n.value /\ file'[t].exists /\ file'[t].removed /\ file[t].readers # 0
         \/ ~(n.finished /\ n.refs = 0 /\ n.value) /\ file'[t] = file[t]
  <2>1. CASE n.finished /\ n.refs = 0 /\ n.value
    <3>1. file' = [file EXCEPT ![t] = M!Remove(file[t])] BY <2>1 DEF M!SetTask, M!Cleanup
    <3>2. CASE file[t].readers = 0
      <4>1. M!Remove(file[t]) = M!NoFile /\ M!NoFile \in FileType /\ M!NoFile.readers = 0
        BY <1>1, <3>2, FileFacts, MavenRecords
      <4>2. OnlyFile(t) /\ file'[t] = M!NoFile BY <3>1, <4>1 DEF OnlyFile, MavenInv, MavenTypes
      <4> QED BY <2>1, <3>2, <4>1, <4>2
    <3>3. CASE file[t].readers # 0
      <4>1. PICK g \in FileType : g = M!Remove(file[t]) /\ g.exists = file[t].exists /\ g.removed /\ g.readers = file[t].readers
        BY <1>1, <3>3, FileFacts
      <4>2. OnlyFile(t) /\ file'[t] = g BY <3>1, <4>1 DEF OnlyFile, MavenInv, MavenTypes
      <4> QED BY <2>1, <3>3, <4>1, <4>2
    <3> QED BY <3>2, <3>3
  <2>2. CASE ~(n.finished /\ n.refs = 0 /\ n.value)
    <3>1. file' = file BY <2>2 DEF M!SetTask, M!Cleanup
    <3> QED BY <2>2, <3>1, FilesAlone
  <2> QED BY <2>1, <2>2
<1>8. /\ task'[t].refs = n.refs
      /\ task'[t] = n \/ (n.finished /\ n.refs = 0 /\ ~task'[t].value)
      /\ n.finished /\ n.refs = 0 => ~task'[t].value
      /\ \/ task'[t].pc = n.pc /\ task'[t].key = n.key /\ task'[t].finished = n.finished
         \/ n.finished /\ n.pc = "gone" /\ task'[t].pc = "free" /\ ~task'[t].finished /\ ~task'[t].value
  BY <1>5, <1>6, Zenon
<1> QED BY <1>6, <1>7, <1>8, Zenon
LEMMA CountersNat ==
    ASSUME MavenSetting, MavenInv, NEW t \in Tasks
    PROVE /\ task[t].refs \in Nat /\ file[t].readers \in Nat
          /\ (\E c \in Clients : client[c].task = t) => task[t].refs > 0
          /\ (\E c \in Clients : client[c].reads = t) => file[t].readers > 0
<1>1. IsFiniteSet(CallersOf(t)) /\ IsFiniteSet(ReadersOf(t)) BY FS_Subset DEF MavenSetting, CallersOf, ReadersOf
<1>2. Cardinality(CallersOf(t)) \in Nat /\ Cardinality(ReadersOf(t)) \in Nat BY <1>1, FS_CardinalityType
<1>3. (\E c \in Clients : client[c].task = t) => Cardinality(CallersOf(t)) # 0 BY <1>1, FS_EmptySet DEF CallersOf
<1>4. (\E c \in Clients : client[c].reads = t) => Cardinality(ReadersOf(t)) # 0 BY <1>1, FS_EmptySet DEF ReadersOf
<1>5. Storing(t) \in Nat BY DEF Storing
<1>6. task[t].refs = Cardinality(CallersOf(t)) /\ file[t].readers = Cardinality(ReadersOf(t)) + Storing(t)
  BY DEF MavenInv, Tallied
<1> QED BY <1>2, <1>3, <1>4, <1>5, <1>6

(* release: a caller leaves, and the last one of a finished task takes the file. *)
LEMMA ReleaseKeeps ==
    ASSUME MavenSetting, MavenInv, NEW c \in Clients, M!Release(c)
    PROVE MavenInv'
<1>1. client[c].pc = "release" /\ UNCHANGED active BY DEF M!Release
<1>2. /\ ClientKept(c) /\ OwnFile(c) /\ c # M!Nil /\ client[c] \in ClientType /\ M!Nil \notin Tasks /\ c \notin Tasks
  BY DEF MavenInv, MavenTypes, MavenSetting
<1>3. PICK t \in Tasks : t = client[c].task BY <1>1, <1>2 DEF ClientKept, ClientType
<1>4. client[c].reads \in Tasks \cup {M!Nil} /\ file[c] = M!NoFile BY <1>1, <1>2 DEF ClientKept, OwnFile, ClientType
<1>5. TaskKept(t) /\ file[t] \in FileType /\ task[t] \in TaskType BY DEF MavenInv, MavenTypes
<1>6. task[t].refs \in Nat /\ task[t].refs > 0 /\ file[t].readers \in Nat BY <1>3, CountersNat
<1>7. PICK n \in TaskType : /\ M!SetTask(t, n) /\ n.refs = task[t].refs - 1 /\ n.pc = task[t].pc /\ n.key = task[t].key
                            /\ n.value = task[t].value /\ n.finished = task[t].finished
  <2>1. PICK b \in BOOLEAN : b = (task[t].canceled \/ (task[t].refs = 1 /\ ~task[t].ready)) OBVIOUS
  <2>2. task[t].refs - 1 \in Int BY <1>6
  <2>3. PICK n \in TaskType : n = [task[t] EXCEPT !.refs = task[t].refs - 1, !.canceled = b] BY <1>5, <2>2 DEF TaskType
  <2>4. /\ n.refs = task[t].refs - 1 /\ n.pc = task[t].pc /\ n.key = task[t].key
        /\ n.value = task[t].value /\ n.finished = task[t].finished BY <1>5, <2>3 DEF TaskType
  <2>5. M!SetTask(t, n) BY <1>3, <2>1, <2>3 DEF M!Release
  <2> QED BY <2>4, <2>5
<1>8. /\ OnlyTask(t) /\ OnlyFile(t)
      /\ task'[t].refs = n.refs
      /\ task'[t] = n \/ (n.finished /\ n.refs = 0 /\ ~task'[t].value)
      /\ n.finished /\ n.refs = 0 => ~task'[t].value
      /\ \/ task'[t].pc = n.pc /\ task'[t].key = n.key /\ task'[t].finished = n.finished
         \/ n.finished /\ n.pc = "gone" /\ task'[t].pc = "free" /\ ~task'[t].finished /\ ~task'[t].value
      /\ file'[t].readers = file[t].readers
      /\ \/ n.finished /\ n.refs = 0 /\ n.value /\ file[t].readers = 0 /\ file'[t] = M!NoFile
         \/ n.finished /\ n.refs = 0 /\ n.value /\ file'[t].exists /\ file'[t].removed /\ file[t].readers # 0
         \/ ~(n.finished /\ n.refs = 0 /\ n.value) /\ file'[t] = file[t]
  <2>1. n.value => file[t].exists /\ ~file[t].removed BY <1>5, <1>7 DEF TaskKept
  <2> QED BY <1>7, <2>1, SetTaskFacts
<1>9. n.refs \in Nat BY <1>6, <1>7
<1>10. TaskKept(t)' /\ Withdraws(t)
  <2>1. CASE n.finished /\ n.refs = 0
    <3>1. task[t].pc \in {"return", "gone"} BY <1>5, <1>7, <2>1 DEF TaskKept
    <3>2. ~task'[t].value BY <1>8, <2>1
    <3>3. \/ task'[t].pc = task[t].pc /\ task'[t].key \in Keys /\ task'[t].finished
          \/ task'[t].pc = "free" /\ ~task'[t].finished
      BY <1>5, <1>7, <1>8, <2>1, <3>1 DEF TaskKept
    <3>4. /\ file'[t].exists => file'[t].removed
          /\ file'[t].removed => file'[t].exists /\ file'[t].readers > 0
          /\ ~file'[t].exists => file'[t].readers = 0
      <4>1. CASE file'[t] = M!NoFile BY <4>1, MavenRecords
      <4>2. CASE file'[t].exists /\ file'[t].removed /\ file[t].readers # 0 BY <1>6, <1>8, <4>2
      <4>3. CASE ~n.value /\ file'[t] = file[t] BY <1>5, <1>7, <3>1, <4>3 DEF TaskKept
      <4> QED BY <1>8, <2>1, <4>1, <4>2, <4>3
    <3>5. task'[t].refs = 0 BY <1>8, <2>1
    <3> QED BY <3>1, <3>2, <3>3, <3>4, <3>5 DEF TaskKept, Withdraws
  <2>2. CASE ~(n.finished /\ n.refs = 0)
    <3>1. task'[t] = n /\ file'[t] = file[t] BY <1>8, <2>2
    <3>2. n.finished => n.refs > 0 BY <1>9, <2>2
    <3>3. TaskKept(t)' BY <1>5, <1>7, <3>1, <3>2 DEF TaskKept
    <3> QED BY <1>7, <3>1, <3>3 DEF Withdraws
  <2> QED BY <2>1, <2>2
<1>11. /\ OnlyClient(c) /\ client'[c].task = M!Nil /\ client'[c].reads = client[c].reads
       /\ client'[c].pc = IF client[c].reads = M!Nil THEN "done" ELSE "reading"
  <2>1. CASE client[c].reads = M!Nil
    <3>1. M!End(c) BY <1>3, <2>1 DEF M!Release, M!End, M!Set
    <3> QED BY <2>1, <3>1, EndFacts
  <2>2. CASE client[c].reads # M!Nil
    <3>1. PICK r \in ClientType : r = [client[c] EXCEPT !.pc = "reading", !.task = M!Nil] BY <1>2 DEF ClientType, ClientAt
    <3>2. r.pc = "reading" /\ r.task = M!Nil /\ r.reads = client[c].reads BY <1>2, <3>1 DEF ClientType
    <3>3. client' = [client EXCEPT ![c] = r] BY <2>2, <3>1 DEF M!Release, M!Set
    <3> QED BY <2>2, <3>2, <3>3 DEF OnlyClient, MavenInv, MavenTypes
  <2> QED BY <2>1, <2>2
<1>12. file'[c] = M!NoFile BY <1>2, <1>4, <1>8 DEF OnlyFile
<1>13. ClientKept(c)' /\ OwnFile(c)' BY <1>2, <1>4, <1>11, <1>12 DEF ClientKept, OwnFile
<1>14. Filling' /\ active' \in [Keys -> Tasks \cup {M!Nil}]
  <2>1. active' = active /\ active \in [Keys -> Tasks \cup {M!Nil}] BY <1>1 DEF MavenInv, MavenTypes
  <2>2. ASSUME NEW j \in Keys, active[j] # M!Nil
        PROVE task'[active[j]].key = j /\ task'[active[j]].pc \notin {"free", "return", "gone"}
    <3>1. active[j] \in Tasks /\ task[active[j]].key = j /\ task[active[j]].pc \notin {"free", "return", "gone"}
      BY <2>1, <2>2 DEF MavenInv, Filling
    <3>2. CASE active[j] = t BY <1>7, <1>8, <3>1, <3>2
    <3>3. CASE active[j] # t BY <1>8, <3>1, <3>3 DEF OnlyTask
    <3> QED BY <3>2, <3>3
  <2> QED BY <2>1, <2>2 DEF Filling
<1>15. ASSUME NEW u \in Tasks
       PROVE /\ task'[u].refs = task[u].refs + (IF client'[c].task = u THEN 1 ELSE 0)
                                             - (IF client[c].task = u THEN 1 ELSE 0)
             /\ file'[u].readers = file[u].readers + (IF client'[c].reads = u THEN 1 ELSE 0)
                                                   - (IF client[c].reads = u THEN 1 ELSE 0)
             /\ task'[u].pc = "persisting" <=> task[u].pc = "persisting"
  <2>1. task[u].refs \in Int /\ file[u].readers \in Int BY DEF MavenInv, MavenTypes, TaskType, FileType
  <2>2. client[c].task = t /\ client'[c].task # u /\ client'[c].reads = client[c].reads BY <1>2, <1>3, <1>11
  <2>3. file'[u].readers = file[u].readers BY <1>8 DEF OnlyFile
  <2>4. task'[u].refs = task[u].refs - (IF t = u THEN 1 ELSE 0) BY <1>7, <1>8, <2>1 DEF OnlyTask
  <2>5. task'[u].pc = "persisting" <=> task[u].pc = "persisting" BY <1>7, <1>8 DEF OnlyTask
  <2> QED BY <2>1, <2>2, <2>3, <2>4, <2>5
<1> QED BY <1>8, <1>10, <1>11, <1>13, <1>14, <1>15, ClientStep

(* A body is closed; the last reader of a removed file takes it away. *)
LEMMA CloseBodyKeeps ==
    ASSUME MavenSetting, MavenInv, NEW c \in Clients, M!CloseBody(c)
    PROVE MavenInv'
<1>1. client[c].pc = "reading" /\ UNCHANGED <<active, task>> /\ M!End(c) BY DEF M!CloseBody
<1>2. /\ ClientKept(c) /\ OwnFile(c) /\ c # M!Nil /\ client[c] \in ClientType /\ M!Nil \notin Tasks /\ c \notin Tasks
  BY DEF MavenInv, MavenTypes, MavenSetting
<1>3. client[c].task = M!Nil /\ client[c].reads \in Tasks \cup {c} BY <1>1, <1>2 DEF ClientKept
<1>4. PICK f \in Tasks \cup {c} : f = client[c].reads BY <1>3
<1>5. file[f] \in FileType /\ file' = [file EXCEPT ![f] = M!CloseReader(file[f])]
  BY <1>4 DEF MavenInv, MavenTypes, M!CloseBody
<1>6. CASE f = c
  <2>1. file[c].removed /\ file[c].readers = 1 BY <1>1, <1>2, <1>4, <1>6 DEF OwnFile
  <2>2. M!CloseReader(file[c]) = M!NoFile BY <1>5, <1>6, <2>1, FileFacts
  <2>3. OnlyFile(c) /\ file'[c] = M!NoFile BY <1>5, <1>6, <2>2, MavenRecords DEF OnlyFile, MavenInv, MavenTypes
  <2> QED BY <1>1, <1>3, <1>4, <1>6, <2>3, ClientEnds
<1>7. CASE f \in Tasks
  <2>1. /\ OnlyClient(c) /\ client'[c].pc = "done" /\ client'[c].task = M!Nil /\ client'[c].reads = M!Nil
    BY <1>1, EndFacts
  <2>2. file[f].readers \in Nat /\ file[f].readers > 0 BY <1>4, <1>7, CountersNat
  <2>3. PICK g \in FileType : /\ g = M!CloseReader(file[f]) /\ g.readers = file[f].readers - 1
                              /\ \/ file[f].removed /\ file[f].readers = 1 /\ ~g.exists /\ ~g.removed
                                 \/ /\ ~(file[f].removed /\ file[f].readers = 1)
                                    /\ g.exists = file[f].exists /\ g.removed = file[f].removed
    BY <1>5, FileFacts, MavenRecords
  <2>4. OnlyFile(f) /\ file'[f] = g BY <1>5, <2>3 DEF OnlyFile, MavenInv, MavenTypes
  <2>5. TaskKept(f) /\ task'[f] = task[f] BY <1>1, <1>7 DEF MavenInv
  <2>6. TaskKept(f)' /\ Withdraws(f)
    <3>1. file[f].exists /\ task[f].pc \notin {"publish", "publishCached"} BY <2>2, <2>5 DEF TaskKept
    <3>2. CASE file[f].removed /\ file[f].readers = 1 /\ ~g.exists /\ ~g.removed
      <4>1. g.readers = 0 BY <2>3, <3>2
      <4> QED BY <2>4, <2>5, <3>1, <3>2, <4>1 DEF TaskKept, Withdraws
    <3>3. CASE ~(file[f].removed /\ file[f].readers = 1) /\ g.exists = file[f].exists /\ g.removed = file[f].removed
      <4>1. g.removed => g.readers > 0 BY <2>2, <2>3, <3>3
      <4> QED BY <2>4, <2>5, <3>1, <3>3, <4>1 DEF TaskKept, Withdraws
    <3> QED BY <2>3, <3>2, <3>3
  <2>7. file'[c] = M!NoFile
    <3>1. file[c] = M!NoFile BY <1>1, <1>2, <1>4, <1>7 DEF OwnFile
    <3> QED BY <1>2, <1>7, <2>4, <3>1 DEF OnlyFile
  <2>8. ClientKept(c)' /\ OwnFile(c)' BY <1>2, <2>1, <2>7 DEF ClientKept, OwnFile
  <2>9. Filling' /\ active' \in [Keys -> Tasks \cup {M!Nil}] BY <1>1 DEF MavenInv, MavenTypes, Filling
  <2>10. OnlyTask(f) BY <1>1 DEF OnlyTask, MavenInv, MavenTypes
  <2>11. ASSUME NEW u \in Tasks
         PROVE /\ task'[u].refs = task[u].refs + (IF client'[c].task = u THEN 1 ELSE 0)
                                               - (IF client[c].task = u THEN 1 ELSE 0)
               /\ file'[u].readers = file[u].readers + (IF client'[c].reads = u THEN 1 ELSE 0)
                                                     - (IF client[c].reads = u THEN 1 ELSE 0)
               /\ task'[u].pc = "persisting" <=> task[u].pc = "persisting"
    <3>1. task[u].refs \in Int /\ file[u].readers \in Int BY DEF MavenInv, MavenTypes, TaskType, FileType
    <3>2. client'[c].task # u /\ client[c].task # u /\ client'[c].reads # u /\ client[c].reads = f BY <1>2, <1>3, <1>4, <2>1
    <3>3. file'[u].readers = file[u].readers - (IF f = u THEN 1 ELSE 0) BY <2>3, <2>4, <3>1 DEF OnlyFile
    <3> QED BY <1>1, <3>1, <3>2, <3>3
  <2> QED BY <1>7, <2>1, <2>4, <2>6, <2>8, <2>9, <2>10, <2>11, ClientStep
<1> QED BY <1>6, <1>7
(* The worker moves on: only the place of its task changes. *)
AtWork == TaskAt \ {"free", "return", "gone"}

LEMMA GoesOn ==
    ASSUME MavenSetting, MavenInv, NEW t \in Tasks, NEW p \in AtWork, M!TaskGoto(t, p), task[t].pc \in AtWork, UNCHANGED active
    PROVE /\ OnlyTask(t) /\ Filling' /\ active' \in [Keys -> Tasks \cup {M!Nil}]
          /\ task'[t].pc = p /\ task'[t].key = task[t].key /\ task'[t].refs = task[t].refs
          /\ task'[t].value = task[t].value /\ task'[t].finished = task[t].finished /\ Withdraws(t)
          /\ TaskKept(t) /\ ~task[t].finished /\ task[t].key \in Keys /\ file[t] \in FileType
          /\ file[t].readers \in Nat
<1>1. TaskKept(t) /\ task[t] \in TaskType /\ file[t] \in FileType BY DEF MavenInv, MavenTypes
<1>2. PICK q \in TaskType : q = [task[t] EXCEPT !.pc = p] BY <1>1 DEF TaskType, AtWork
<1>3. /\ q.pc = p /\ q.key = task[t].key /\ q.refs = task[t].refs /\ q.value = task[t].value
      /\ q.finished = task[t].finished BY <1>1, <1>2 DEF TaskType
<1>4. task' = [task EXCEPT ![t] = q] BY <1>2 DEF M!TaskGoto
<1>5. OnlyTask(t) /\ task'[t] = q BY <1>4 DEF OnlyTask, MavenInv, MavenTypes
<1>6. Filling' BY <1>3, <1>5 DEF OnlyTask, Filling, MavenInv, MavenTypes, AtWork
<1>7. ~task[t].finished /\ task[t].key \in Keys BY <1>1 DEF TaskKept, AtWork
<1>8. Withdraws(t) BY <1>3, <1>5 DEF Withdraws
<1>9. active' \in [Keys -> Tasks \cup {M!Nil}] BY DEF MavenInv, MavenTypes
<1> QED BY <1>1, <1>3, <1>5, <1>6, <1>7, <1>8, <1>9, CountersNat

(* Looking again and fetching touch no file. *)
LEMMA FetchKeeps ==
    ASSUME MavenSetting, MavenInv, NEW t \in Tasks, M!LookAgain(t) \/ M!Fetch(t)
    PROVE MavenInv'
<1>1. /\ UNCHANGED <<active, file, client>> /\ task[t].pc \in {"look", "fetch"}
      /\ \E p \in {"prepareCached", "fetch", "finish", "prepare"} : M!TaskGoto(t, p)
  BY DEF M!LookAgain, M!Fetch
<1>2. PICK p \in {"prepareCached", "fetch", "finish", "prepare"} : M!TaskGoto(t, p) BY <1>1
<1>3. p \in AtWork /\ task[t].pc \in AtWork BY <1>1 DEF AtWork, TaskAt
<1>4. /\ OnlyTask(t) /\ Filling' /\ active' \in [Keys -> Tasks \cup {M!Nil}]
      /\ task'[t].pc = p /\ task'[t].key = task[t].key /\ task'[t].refs = task[t].refs
      /\ task'[t].value = task[t].value /\ task'[t].finished = task[t].finished /\ Withdraws(t)
      /\ TaskKept(t) /\ ~task[t].finished /\ task[t].key \in Keys /\ file[t].readers \in Nat
  BY <1>1, <1>2, <1>3, GoesOn
<1>5. OnlyFile(t) /\ file'[t] = file[t] BY <1>1, FilesAlone
<1>6. TaskKept(t)' BY <1>1, <1>4, <1>5 DEF TaskKept
<1>7. file'[t].readers = file[t].readers + Storing(t)' - Storing(t) BY <1>1, <1>4, <1>5 DEF Storing
<1> QED BY <1>1, <1>4, <1>5, <1>6, <1>7, WorkerStep

(* The file is spooled: nobody has read it yet. *)
LEMMA PrepareKeeps ==
    ASSUME MavenSetting, MavenInv, NEW t \in Tasks, M!Prepare(t)
    PROVE MavenInv'
<1>1. UNCHANGED <<active, client>> /\ task[t].pc \in {"prepare", "prepareCached"} BY DEF M!Prepare
<1>2. PICK p \in {"publish", "publishCached", "finish"} :
        /\ M!TaskGoto(t, p)
        /\ \/ p # "finish" /\ file' = [file EXCEPT ![t] = M!NewReplayableBody]
           \/ p = "finish" /\ UNCHANGED file
  BY DEF M!Prepare
<1>3. p \in AtWork /\ task[t].pc \in AtWork BY <1>1 DEF AtWork, TaskAt
<1>4. /\ OnlyTask(t) /\ Filling' /\ active' \in [Keys -> Tasks \cup {M!Nil}]
      /\ task'[t].pc = p /\ task'[t].key = task[t].key /\ task'[t].refs = task[t].refs
      /\ task'[t].value = task[t].value /\ task'[t].finished = task[t].finished /\ Withdraws(t)
      /\ TaskKept(t) /\ ~task[t].finished /\ task[t].key \in Keys /\ file[t].readers \in Nat
  BY <1>1, <1>2, <1>3, GoesOn
<1>5. ~task[t].value /\ ~file[t].exists /\ ~file[t].removed /\ file[t].readers = 0 BY <1>1, <1>4 DEF TaskKept
<1>6. CASE p # "finish" /\ file' = [file EXCEPT ![t] = M!NewReplayableBody]
  <2>1. OnlyFile(t) /\ file'[t] = M!NewReplayableBody BY <1>6, MavenRecords DEF OnlyFile, MavenInv, MavenTypes
  <2>2. file'[t].exists /\ ~file'[t].removed /\ file'[t].readers = 0 BY <2>1, MavenRecords
  <2>3. TaskKept(t)' BY <1>2, <1>4, <1>5, <1>6, <2>2 DEF TaskKept
  <2>4. file'[t].readers = file[t].readers + Storing(t)' - Storing(t) BY <1>1, <1>2, <1>4, <1>5, <2>2 DEF Storing
  <2> QED BY <1>1, <1>4, <2>1, <2>3, <2>4, WorkerStep
<1>7. CASE p = "finish" /\ UNCHANGED file
  <2>1. OnlyFile(t) /\ file'[t] = file[t] BY <1>7, FilesAlone
  <2>2. TaskKept(t)' BY <1>4, <1>5, <1>7, <2>1 DEF TaskKept
  <2>3. file'[t].readers = file[t].readers + Storing(t)' - Storing(t) BY <1>1, <1>4, <1>7, <2>1 DEF Storing
  <2> QED BY <1>1, <1>4, <2>1, <2>2, <2>3, WorkerStep
<1> QED BY <1>2, <1>6, <1>7

(* publish: the file can be opened from here on. *)
LEMMA PublishKeeps ==
    ASSUME MavenSetting, MavenInv, NEW t \in Tasks, M!Publish(t)
    PROVE MavenInv'
<1>1. UNCHANGED <<active, file, client>> /\ task[t].pc \in {"publish", "publishCached"} BY DEF M!Publish
<1>2. TaskKept(t) /\ task[t] \in TaskType /\ file[t].readers \in Nat BY CountersNat DEF MavenInv, MavenTypes
<1>3. PICK p \in {"persist", "finish"} : p = IF task[t].pc = "publish" THEN "persist" ELSE "finish" OBVIOUS
<1>4. PICK q \in TaskType : q = [task[t] EXCEPT !.value = TRUE, !.ready = TRUE, !.pc = p] BY <1>2 DEF TaskType, TaskAt
<1>5. /\ q.pc = p /\ q.key = task[t].key /\ q.refs = task[t].refs /\ q.value /\ q.finished = task[t].finished
  BY <1>2, <1>4 DEF TaskType
<1>6. OnlyTask(t) /\ task'[t] = q
  <2>1. task' = [task EXCEPT ![t] = q] BY <1>2, <1>3, <1>4 DEF M!Publish, MavenInv, MavenTypes, TaskType
  <2> QED BY <2>1 DEF OnlyTask, MavenInv, MavenTypes
<1>7. Filling' /\ active' \in [Keys -> Tasks \cup {M!Nil}]
  BY <1>1, <1>5, <1>6 DEF OnlyTask, Filling, MavenInv, MavenTypes
<1>8. OnlyFile(t) /\ file'[t] = file[t] BY <1>1, FilesAlone
<1>9. TaskKept(t)' /\ Withdraws(t) BY <1>1, <1>2, <1>5, <1>6, <1>8 DEF TaskKept, Withdraws
<1>10. file'[t].readers = file[t].readers + Storing(t)' - Storing(t) BY <1>1, <1>2, <1>5, <1>6, <1>8 DEF Storing
<1> QED BY <1>1, <1>5, <1>6, <1>7, <1>8, <1>9, <1>10, WorkerStep

(* The worker reads the file to store it. *)
LEMMA PersistKeeps ==
    ASSUME MavenSetting, MavenInv, NEW t \in Tasks, M!Persist(t) \/ M!Persisted(t)
    PROVE MavenInv'
<1>1. /\ UNCHANGED <<active, client>> /\ task[t].pc \in {"persist", "persisting"}
      /\ \/ /\ task[t].pc = "persist" /\ M!TaskGoto(t, "persisting")
            /\ file' = [file EXCEPT ![t] = M!Open(file[t])]
         \/ task[t].pc = "persist" /\ M!TaskGoto(t, "finish") /\ UNCHANGED file
         \/ /\ task[t].pc = "persisting" /\ M!TaskGoto(t, "finish")
            /\ file' = [file EXCEPT ![t] = M!CloseReader(file[t])]
  BY DEF M!Persist, M!Persisted, MavenInv, MavenTypes
<1>2. PICK p \in {"persisting", "finish"} :
        /\ M!TaskGoto(t, p)
        /\ \/ task[t].pc = "persist" /\ p = "persisting" /\ file' = [file EXCEPT ![t] = M!Open(file[t])]
           \/ task[t].pc = "persist" /\ p = "finish" /\ UNCHANGED file
           \/ task[t].pc = "persisting" /\ p = "finish" /\ file' = [file EXCEPT ![t] = M!CloseReader(file[t])]
  BY <1>1
<1>3. p \in AtWork /\ task[t].pc \in AtWork BY <1>1 DEF AtWork, TaskAt
<1>4. /\ OnlyTask(t) /\ Filling' /\ active' \in [Keys -> Tasks \cup {M!Nil}]
      /\ task'[t].pc = p /\ task'[t].key = task[t].key /\ task'[t].refs = task[t].refs
      /\ task'[t].value = task[t].value /\ task'[t].finished = task[t].finished /\ Withdraws(t)
      /\ TaskKept(t) /\ ~task[t].finished /\ task[t].key \in Keys /\ file[t].readers \in Nat /\ file[t] \in FileType
  BY <1>1, <1>2, <1>3, GoesOn
<1>5. task[t].value /\ file[t].exists /\ ~file[t].removed BY <1>1, <1>4 DEF TaskKept
<1>6. PICK g \in FileType : /\ g = file'[t] /\ OnlyFile(t) /\ g.exists /\ ~g.removed
                            /\ g.readers = file[t].readers + (IF p = "persisting" THEN 1 ELSE 0)
                                                           - (IF task[t].pc = "persisting" THEN 1 ELSE 0)
  <2>1. CASE task[t].pc = "persist" /\ p = "persisting" /\ file' = [file EXCEPT ![t] = M!Open(file[t])]
    <3>1. PICK g \in FileType : g = M!Open(file[t]) /\ g.exists /\ ~g.removed /\ g.readers = file[t].readers + 1
      BY <1>4, <1>5, FileFacts
    <3>2. OnlyFile(t) /\ file'[t] = g BY <2>1, <3>1 DEF OnlyFile, MavenInv, MavenTypes
    <3> QED BY <1>4, <2>1, <3>1, <3>2
  <2>2. CASE task[t].pc = "persist" /\ p = "finish" /\ UNCHANGED file
    <3>1. OnlyFile(t) /\ file'[t] = file[t] BY <2>2, FilesAlone
    <3> QED BY <1>4, <1>5, <2>2, <3>1
  <2>3. CASE task[t].pc = "persisting" /\ p = "finish" /\ file' = [file EXCEPT ![t] = M!CloseReader(file[t])]
    <3>1. PICK g \in FileType : g = M!CloseReader(file[t]) /\ g.exists /\ ~g.removed /\ g.readers = file[t].readers - 1
      BY <1>4, <1>5, FileFacts
    <3>2. OnlyFile(t) /\ file'[t] = g BY <2>3, <3>1 DEF OnlyFile, MavenInv, MavenTypes
    <3> QED BY <1>4, <2>3, <3>1, <3>2
  <2> QED BY <1>2, <2>1, <2>2, <2>3
<1>7. TaskKept(t)' BY <1>2, <1>4, <1>5, <1>6 DEF TaskKept
<1>8. file'[t].readers = file[t].readers + Storing(t)' - Storing(t) BY <1>4, <1>6 DEF Storing
<1> QED BY <1>1, <1>4, <1>6, <1>7, <1>8, WorkerStep
(* finish: the key is free; without a caller the file goes at once. *)
LEMMA FinishKeeps ==
    ASSUME MavenSetting, MavenInv, NEW t \in Tasks, M!Finish(t)
    PROVE MavenInv'
<1>1. /\ UNCHANGED client /\ task[t].pc = "finish"
      /\ active' = [active EXCEPT ![task[t].key] = IF active[task[t].key] = t THEN M!Nil ELSE active[task[t].key]]
  BY DEF M!Finish
<1>2. /\ TaskKept(t) /\ task[t] \in TaskType /\ file[t] \in FileType /\ t # M!Nil
      /\ task[t].refs \in Nat /\ file[t].readers \in Nat
  BY CountersNat DEF MavenInv, MavenTypes, MavenSetting
<1>3. PICK n \in TaskType : /\ M!SetTask(t, n) /\ n.refs = task[t].refs /\ n.pc = "return" /\ n.key = task[t].key
                            /\ n.value = task[t].value /\ n.finished
  <2>1. PICK n \in TaskType : n = [task[t] EXCEPT !.pc = "return", !.finished = TRUE, !.ready = TRUE]
    BY <1>2 DEF TaskType, TaskAt
  <2>2. n.refs = task[t].refs /\ n.pc = "return" /\ n.key = task[t].key /\ n.value = task[t].value /\ n.finished
    BY <1>2, <2>1 DEF TaskType
  <2> QED BY <2>1, <2>2 DEF M!Finish
<1>4. /\ OnlyTask(t) /\ OnlyFile(t)
      /\ task'[t].refs = n.refs
      /\ task'[t] = n \/ (n.finished /\ n.refs = 0 /\ ~task'[t].value)
      /\ n.finished /\ n.refs = 0 => ~task'[t].value
      /\ \/ task'[t].pc = n.pc /\ task'[t].key = n.key /\ task'[t].finished = n.finished
         \/ n.finished /\ n.pc = "gone" /\ task'[t].pc = "free" /\ ~task'[t].finished /\ ~task'[t].value
      /\ file'[t].readers = file[t].readers
      /\ \/ n.finished /\ n.refs = 0 /\ n.value /\ file[t].readers = 0 /\ file'[t] = M!NoFile
         \/ n.finished /\ n.refs = 0 /\ n.value /\ file'[t].exists /\ file'[t].removed /\ file[t].readers # 0
         \/ ~(n.finished /\ n.refs = 0 /\ n.value) /\ file'[t] = file[t]
  <2>1. n.value => file[t].exists /\ ~file[t].removed BY <1>2, <1>3 DEF TaskKept
  <2> QED BY <1>3, <2>1, SetTaskFacts
<1>5. task'[t].pc = "return" /\ task'[t].key = task[t].key /\ task'[t].finished /\ task[t].key \in Keys
  BY <1>1, <1>2, <1>3, <1>4 DEF TaskKept
<1>6. TaskKept(t)' /\ Withdraws(t)
  <2>1. CASE n.refs = 0
    <3>1. ~task'[t].value BY <1>3, <1>4, <2>1
    <3>2. /\ file'[t].exists => file'[t].removed
          /\ file'[t].removed => file'[t].exists /\ file'[t].readers > 0
          /\ ~file'[t].exists => file'[t].readers = 0
      <4>1. CASE file'[t] = M!NoFile BY <4>1, MavenRecords
      <4>2. CASE file'[t].exists /\ file'[t].removed /\ file[t].readers # 0 BY <1>2, <1>4, <4>2
      <4>3. CASE ~n.value /\ file'[t] = file[t] BY <1>1, <1>2, <1>3, <4>3 DEF TaskKept
      <4> QED BY <1>3, <1>4, <2>1, <4>1, <4>2, <4>3
    <3> QED BY <1>4, <1>5, <2>1, <3>1, <3>2 DEF TaskKept, Withdraws
  <2>2. CASE n.refs # 0
    <3>1. task'[t] = n /\ file'[t] = file[t] BY <1>4, <2>2
    <3>2. n.refs > 0 BY <1>2, <1>3, <2>2
    <3>3. TaskKept(t)' BY <1>1, <1>2, <1>3, <1>5, <3>1, <3>2 DEF TaskKept
    <3> QED BY <1>3, <3>1, <3>3 DEF Withdraws
  <2> QED BY <2>1, <2>2
<1>7. Filling' /\ active' \in [Keys -> Tasks \cup {M!Nil}]
  <2>1. active \in [Keys -> Tasks \cup {M!Nil}] /\ Filling BY DEF MavenInv, MavenTypes
  <2>2. active' \in [Keys -> Tasks \cup {M!Nil}] BY <1>1, <1>5, <2>1
  <2>3. ASSUME NEW j \in Keys, active'[j] # M!Nil
        PROVE task'[active'[j]].key = j /\ task'[active'[j]].pc \notin {"free", "return", "gone"}
    <3>1. active'[j] = active[j] /\ active[j] \in Tasks BY <1>1, <1>5, <2>1, <2>3
    <3>2. task[active[j]].key = j /\ task[active[j]].pc \notin {"free", "return", "gone"}
      BY <2>1, <2>3, <3>1 DEF Filling
    <3>3. active[j] # t
      <4> SUFFICES ASSUME active[j] = t PROVE FALSE OBVIOUS
      <4>1. task[t].key = j BY <3>2
      <4>2. active'[j] = M!Nil BY <1>1, <1>5, <2>1, <4>1
      <4> QED BY <2>3, <4>2
    <3>4. task'[active[j]] = task[active[j]] BY <1>4, <3>1, <3>3 DEF OnlyTask
    <3> QED BY <3>1, <3>2, <3>4
  <2> QED BY <2>2, <2>3 DEF Filling
<1>8. task'[t].refs = task[t].refs /\ file'[t].readers = file[t].readers + Storing(t)' - Storing(t)
  BY <1>1, <1>2, <1>3, <1>4, <1>5 DEF Storing
<1> QED BY <1>1, <1>4, <1>6, <1>7, <1>8, WorkerStep

(* The worker returns: a task without callers can be used again. *)
LEMMA ReturnKeeps ==
    ASSUME MavenSetting, MavenInv, NEW t \in Tasks, M!Return(t)
    PROVE MavenInv'
<1>1. UNCHANGED <<active, file, client>> /\ task[t].pc = "return" BY DEF M!Return
<1>2. TaskKept(t) /\ task[t] \in TaskType /\ task[t].refs \in Nat /\ file[t].readers \in Nat
  BY CountersNat DEF MavenInv, MavenTypes
<1>3. PICK n \in TaskType : n = [task[t] EXCEPT !.pc = "gone"] BY <1>2 DEF TaskType, TaskAt
<1>4. n.pc = "gone" /\ n.key = task[t].key /\ n.refs = task[t].refs /\ n.value = task[t].value /\ n.finished = task[t].finished
  BY <1>2, <1>3 DEF TaskType
<1>5. PICK q \in TaskType : /\ task' = [task EXCEPT ![t] = q] /\ q.refs = task[t].refs
                            /\ \/ q = n
                               \/ task[t].refs = 0 /\ q.pc = "free" /\ ~q.finished /\ ~q.value
  <2>1. task' = [task EXCEPT ![t] = IF n.finished /\ n.refs = 0 /\ n.pc = "gone" THEN M!Idle ELSE n]
    BY <1>3 DEF M!Return, M!Settled
  <2>2. CASE n.finished /\ n.refs = 0 BY <1>4, <2>1, <2>2, MavenRecords
  <2>3. CASE ~(n.finished /\ n.refs = 0) BY <1>4, <2>1, <2>3
  <2> QED BY <2>2, <2>3
<1>6. OnlyTask(t) /\ task'[t] = q BY <1>5 DEF OnlyTask, MavenInv, MavenTypes
<1>7. Filling' /\ active' \in [Keys -> Tasks \cup {M!Nil}]
  BY <1>1, <1>6 DEF OnlyTask, Filling, MavenInv, MavenTypes
<1>8. OnlyFile(t) /\ file'[t] = file[t] BY <1>1, FilesAlone
<1>9. TaskKept(t)' /\ Withdraws(t)
  <2>1. CASE q = n BY <1>1, <1>2, <1>4, <1>6, <1>8, <2>1 DEF TaskKept, Withdraws
  <2>2. CASE task[t].refs = 0 /\ q.pc = "free" /\ ~q.finished /\ ~q.value
    BY <1>1, <1>2, <1>5, <1>6, <1>8, <2>2 DEF TaskKept, Withdraws
  <2> QED BY <1>5, <2>1, <2>2
<1>10. file'[t].readers = file[t].readers + Storing(t)' - Storing(t)
  BY <1>1, <1>2, <1>4, <1>5, <1>6, <1>8 DEF Storing
<1> QED BY <1>1, <1>5, <1>6, <1>7, <1>8, <1>9, <1>10, WorkerStep

(* A timeout and the pool's close only tell tasks to stop. *)
LEMMA StopKeeps ==
    ASSUME MavenSetting, MavenInv, M!Close \/ \E t \in Tasks : M!TimeOut(t)
    PROVE MavenInv'
<1>1. UNCHANGED <<active, file, client>> BY DEF M!Close, M!TimeOut
<1>2. task' \in [Tasks -> TaskType] /\ \A u \in Tasks : task'[u] \in {task[u], [task[u] EXCEPT !.canceled = TRUE]}
  <2>1. ASSUME NEW u \in Tasks PROVE [task[u] EXCEPT !.canceled = TRUE] \in TaskType BY DEF MavenInv, MavenTypes, TaskType
  <2>2. task \in [Tasks -> TaskType] BY DEF MavenInv, MavenTypes
  <2>3. CASE M!Close
    <3>1. task' = [t \in Tasks |-> IF \E k \in Keys : active[k] = t
                                   THEN [task[t] EXCEPT !.canceled = TRUE] ELSE task[t]] BY <2>3 DEF M!Close
    <3> QED BY <2>1, <2>2, <3>1
  <2>4. ASSUME NEW t \in Tasks, M!TimeOut(t)
        PROVE task' \in [Tasks -> TaskType] /\ \A u \in Tasks : task'[u] \in {task[u], [task[u] EXCEPT !.canceled = TRUE]}
    <3>1. task' = [task EXCEPT ![t] = [task[t] EXCEPT !.canceled = TRUE]] BY <2>4 DEF M!TimeOut
    <3> QED BY <2>1, <2>2, <3>1
  <2> QED BY <2>3, <2>4
<1>3. \A u \in Tasks :
        /\ task'[u].pc = task[u].pc /\ task'[u].key = task[u].key /\ task'[u].refs = task[u].refs
        /\ task'[u].value = task[u].value /\ task'[u].finished = task[u].finished
  BY <1>2 DEF MavenInv, MavenTypes, TaskType
<1>4. MavenTypes' BY <1>1, <1>2 DEF MavenInv, MavenTypes
<1>5. Filling' BY <1>1, <1>3 DEF MavenInv, MavenTypes, Filling
<1>6. ASSUME NEW u \in Tasks PROVE Tallied(u)' /\ TaskKept(u)'
  <2>1. CallersOf(u)' = CallersOf(u) /\ ReadersOf(u)' = ReadersOf(u) BY <1>1 DEF CallersOf, ReadersOf
  <2>2. Tallied(u)' BY <1>1, <1>3, <2>1 DEF MavenInv, Tallied, Storing
  <2> QED BY <1>1, <1>3, <2>2 DEF MavenInv, TaskKept
<1>7. ASSUME NEW p \in Clients PROVE ClientKept(p)' /\ OwnFile(p)'
  <2>1. ClientKept(p) /\ OwnFile(p) /\ client[p] \in ClientType BY DEF MavenInv, MavenTypes
  <2>2. client[p].pc = "open" => client[p].task \in Tasks BY <2>1 DEF ClientKept, ClientType
  <2> QED BY <1>1, <1>3, <2>1, <2>2 DEF ClientKept, OwnFile
<1> QED BY <1>4, <1>5, <1>6, <1>7 DEF MavenInv

LEMMA MavenInitial == ASSUME MavenSetting, M!Init PROVE MavenInv
<1>1. /\ active = [k \in Keys |-> M!Nil] /\ task = [t \in Tasks |-> M!Idle]
      /\ file = [f \in Tasks \cup Clients |-> M!NoFile] /\ client = [c \in Clients |-> M!NewClient]
  BY DEF M!Init
<1>2. MavenTypes BY <1>1, MavenRecords DEF MavenTypes
<1>3. Filling BY <1>1 DEF Filling
<1>4. ASSUME NEW t \in Tasks PROVE Tallied(t) /\ TaskKept(t)
  <2>1. t # M!Nil BY DEF MavenSetting
  <2>2. CallersOf(t) = {} /\ ReadersOf(t) = {} BY <1>1, <2>1, MavenRecords DEF CallersOf, ReadersOf
  <2>3. Cardinality({}) = 0 BY FS_EmptySet
  <2>4. task[t] = M!Idle /\ file[t] = M!NoFile BY <1>1
  <2>5. Tallied(t) BY <2>2, <2>3, <2>4, MavenRecords DEF Tallied, Storing
  <2> QED BY <2>4, <2>5, MavenRecords DEF TaskKept
<1>5. ASSUME NEW c \in Clients PROVE ClientKept(c) /\ OwnFile(c)
  <2>1. client[c] = M!NewClient /\ file[c] = M!NoFile /\ c # M!Nil BY <1>1 DEF MavenSetting
  <2> QED BY <2>1, MavenRecords DEF ClientKept, OwnFile
<1> QED BY <1>2, <1>3, <1>4, <1>5 DEF MavenInv

LEMMA MavenSame == ASSUME MavenInv, UNCHANGED <<active, task, file, client>> PROVE MavenInv'
<1>1. MavenTypes' /\ Filling' BY DEF MavenInv, MavenTypes, Filling
<1>2. ASSUME NEW t \in Tasks PROVE Tallied(t)' /\ TaskKept(t)'
  <2>1. CallersOf(t)' = CallersOf(t) /\ ReadersOf(t)' = ReadersOf(t) BY DEF CallersOf, ReadersOf
  <2>2. Tallied(t)' BY <2>1 DEF MavenInv, Tallied, Storing
  <2> QED BY <2>2 DEF MavenInv, TaskKept
<1>3. ASSUME NEW c \in Clients PROVE ClientKept(c)' /\ OwnFile(c)' BY DEF MavenInv, ClientKept, OwnFile
<1> QED BY <1>1, <1>2, <1>3 DEF MavenInv

LEMMA MavenNext == ASSUME MavenSetting, MavenInv, [M!Next]_M!vars PROVE MavenInv'
<1>1. CASE UNCHANGED M!vars BY <1>1, MavenSame DEF M!vars
<1>2. ASSUME NEW c \in Clients,
             \/ \E k \in Keys, kind \in {"get", "refresh"} : M!Arrive(c, k, kind)
             \/ M!Lookup(c) \/ M!Acquire(c) \/ M!AcquireFails(c) \/ M!Wait(c) \/ M!OpenReplay(c) \/ M!GiveUp(c)
             \/ M!Release(c) \/ M!CloseBody(c) \/ M!FetchAlone(c) \/ M!PersistRefresh(c) \/ M!ServeAlone(c)
      PROVE MavenInv'
  <2>1. CASE \E k \in Keys, kind \in {"get", "refresh"} : M!Arrive(c, k, kind) BY <2>1, ArriveKeeps
  <2>2. CASE M!Lookup(c) \/ M!AcquireFails(c) BY <2>2, LookupKeeps
  <2>3. CASE M!Acquire(c) BY <2>3, AcquireTaskKeeps
  <2>4. CASE M!Wait(c) \/ M!GiveUp(c) BY <2>4, WaitKeeps
  <2>5. CASE M!OpenReplay(c) BY <2>5, OpenReplayKeeps
  <2>6. CASE M!Release(c) BY <2>6, ReleaseKeeps
  <2>7. CASE M!CloseBody(c) BY <2>7, CloseBodyKeeps
  <2>8. CASE M!FetchAlone(c) \/ M!PersistRefresh(c) BY <2>8, FetchAloneKeeps
  <2>9. CASE M!ServeAlone(c) BY <2>9, ServeAloneKeeps
  <2> QED BY <1>2, <2>1, <2>2, <2>3, <2>4, <2>5, <2>6, <2>7, <2>8, <2>9
<1>3. ASSUME NEW t \in Tasks,
             \/ M!LookAgain(t) \/ M!Fetch(t) \/ M!Prepare(t) \/ M!Publish(t)
             \/ M!Persist(t) \/ M!Persisted(t) \/ M!Finish(t) \/ M!Return(t)
      PROVE MavenInv'
  BY <1>3, FetchKeeps, PrepareKeeps, PublishKeeps, PersistKeeps, FinishKeeps, ReturnKeeps
<1>4. CASE M!Close \/ \E t \in Tasks : M!TimeOut(t) BY <1>4, StopKeeps
<1>5. CASE \E k \in Keys : M!Expire(k) BY <1>5, MavenSame DEF M!Expire
<1> QED BY <1>1, <1>2, <1>3, <1>4, <1>5 DEF M!Next, M!Progress

(* ReplaysKept: for any finite set of clients, any keys, tasks and workers, a  *)
(* caller that pendingMavenFill has counted can open what its task published,  *)
(* whoever has left, finished or closed the pool meanwhile; the replay file    *)
(* stays while a body reads it, and no file is left that nobody will remove.   *)
THEOREM ReplaysStayKept == ASSUME MavenSetting PROVE M!Spec => []ReplaysKept
<1>1. MavenInv => ReplaysKept
  <2> SUFFICES ASSUME MavenInv PROVE ReplaysKept OBVIOUS
  <2>1. M!PublishedStays
    <3>1. ASSUME NEW c \in Clients
          PROVE /\ client[c].pc = "open" => M!Openable(file[client[c].task])
                /\ client[c].reads # M!Nil => file[client[c].reads].exists /\ file[client[c].reads].readers > 0
      <4>1. ClientKept(c) /\ OwnFile(c) /\ client[c] \in ClientType BY DEF MavenInv, MavenTypes
      <4>2. ASSUME client[c].pc = "open" PROVE M!Openable(file[client[c].task])
        <5>1. client[c].task \in Tasks /\ task[client[c].task].value BY <4>1, <4>2 DEF ClientKept, ClientType
        <5> QED BY <5>1 DEF MavenInv, TaskKept, M!Openable
      <4>3. ASSUME client[c].reads # M!Nil
            PROVE file[client[c].reads].exists /\ file[client[c].reads].readers > 0
        <5>1. CASE client[c].reads = c BY <4>1, <5>1 DEF ClientKept, OwnFile
        <5>2. CASE client[c].reads \in Tasks
          <6>1. file[client[c].reads].readers \in Nat /\ file[client[c].reads].readers > 0 BY <5>2, CountersNat
          <6> QED BY <5>2, <6>1 DEF MavenInv, TaskKept
        <5> QED BY <4>1, <4>3, <5>1, <5>2 DEF ClientKept
      <4> QED BY <4>2, <4>3
    <3> QED BY <3>1 DEF M!PublishedStays
  <2>2. M!ReplaysOwned
    <3>1. ASSUME NEW t \in Tasks, file[t].exists
          PROVE (t \in M!Running /\ ~task[t].finished) \/ task[t].refs > 0 \/ file[t].readers > 0
      BY <3>1 DEF MavenInv, TaskKept, M!Running
    <3>2. ASSUME NEW c \in Clients, file[c].exists PROVE client[c].pc \in {"persist", "serve", "reading"}
      BY <3>2, MavenRecords DEF MavenInv, ClientKept, OwnFile
    <3> QED BY <3>1, <3>2 DEF M!ReplaysOwned
  <2> QED BY <2>1, <2>2 DEF ReplaysKept, M!ReplaysKept
<1>2. M!Init => MavenInv BY MavenInitial
<1>3. MavenInv /\ [M!Next]_M!vars => MavenInv' BY MavenNext
<1> QED BY <1>1, <1>2, <1>3, PTL DEF M!Spec
-----------------------------------------------------------------------------
(* A shared fill of the disk cache. *)
CallerPlaces == {"idle", "waiting", "registering", "open", "closing", "abandoning",
                 "released", "draining", "finishing", "finalizing", "stopping", "finished"}
ProducerPlaces == {"none", "getting", "opened", "preparing", "prepareError", "openError",
                   "bypassing", "bypassed", "closingReader", "copying", "written", "failed",
                   "invalidating", "closingReaders", "finishing", "finalizing", "stopping",
                   "returning", "returned"}
ReleaseType == [cancel : BOOLEAN, wait : BOOLEAN, last : BOOLEAN, producerDone : BOOLEAN, bypass : BOOLEAN]
CallerType == [pc : CallerPlaces, leader : BOOLEAN, direct : BOOLEAN, full : BOOLEAN, rel : ReleaseType]
FillType == [inFills : BOOLEAN, active : BOOLEAN, refs : Nat, invalid : BOOLEAN,
             ready : {"no", "ok", "unavailable", "error", "closed"}, ownerActive : BOOLEAN,
             directReader : BOOLEAN, fullConsumed : BOOLEAN, producerDone : BOOLEAN,
             producerErr : BOOLEAN, bypass : BOOLEAN, finalizing : BOOLEAN, publish : BOOLEAN,
             done : BOOLEAN, cancelled : BOOLEAN, written : BOOLEAN,
             temp : {"none", "file", "abandoned"}]

FlightTypes ==
    /\ fill \in FillType
    /\ getter \in [Getters -> CallerType]
    /\ producer \in [pc : ProducerPlaces, readers : SUBSET Getters]
    /\ closer \in [pc : {"idle", "fills", "readers", "closed"}, waits : BOOLEAN, readers : SUBSET Getters]
    /\ shut \in BOOLEAN /\ rootOpen \in BOOLEAN /\ body \in {"none", "published"}

(* Before the first call joins there is no fill, and there is never another. *)
Begins ==
    /\ producer.pc = "none" =>
          /\ fill = D!NewFill /\ body = "none"
          /\ \A c \in Getters : getter[c].pc \in {"idle", "finished"} /\ ~getter[c].leader /\ ~getter[c].direct
    /\ producer.pc # "none" => fill.active \/ fill.producerDone

(* Where the producer is tells what became of the copy. *)
Opening == {"getting", "opened", "preparing", "prepareError", "openError", "bypassing"}
Bypassing == {"bypassed", "closingReader"}
Copying == {"copying", "written", "failed"}
Copied == {"invalidating", "closingReaders", "finishing", "finalizing", "stopping"}
Copies ==
    /\ producer.pc \in Opening => ~fill.producerDone /\ ~fill.bypass /\ fill.ready # "ok"
    /\ producer.pc \in Bypassing => fill.producerDone /\ fill.bypass
    /\ producer.pc \in Copying => ~fill.producerDone /\ ~fill.bypass
    /\ producer.pc \in Copied => fill.producerDone /\ ~fill.bypass
    /\ producer.pc \in {"returning", "returned"} => fill.producerDone
    /\ producer.pc = "written" => fill.written
    /\ fill.bypass => fill.ready # "ok" /\ ~fill.inFills /\ fill.producerDone
    /\ fill.temp # "none" \/ fill.written => producer.pc \notin Opening /\ ~fill.bypass
    /\ fill.producerDone /\ ~fill.producerErr /\ ~fill.bypass => fill.written
    /\ fill.producerErr => fill.producerDone
    /\ fill.fullConsumed => fill.written
    /\ fill.temp = "abandoned" \/ ~rootOpen => shut

(* The bypass reader is the leader's: it is kept until the leader takes it or *)
(* leaves, and a caller that has a reader has the stream or is that leader.   *)
Asks(c) == getter[c].pc \in {"waiting", "abandoning"}
FlightReads ==
    /\ \A c, d \in Getters : getter[c].leader /\ getter[d].leader => c = d
    /\ \A c \in Getters : /\ getter[c].pc \in {"registering", "open"} => fill.ready = "ok" \/ getter[c].direct
                          /\ getter[c].direct => getter[c].leader /\ fill.bypass /\ ~fill.ownerActive
                          /\ getter[c].full => fill.written
    /\ fill.directReader => fill.ownerActive /\ fill.bypass
    /\ producer.pc = "closingReader" => ~fill.directReader /\ \A c \in Getters : ~getter[c].direct
    /\ fill.ownerActive => fill.ready = "ok" \/ \E c \in Getters : getter[c].leader /\ Asks(c)

(* Whoever cancels leaves no reader behind that could notice. *)
Cancels ==
    fill.cancelled =>
        \/ shut \/ fill.producerErr \/ fill.refs = 0
        \/ /\ fill.bypass /\ ~fill.directReader
           /\ \A c \in Getters : getter[c].pc \notin {"registering", "open"}

(* A release that saw the last reference go saw it go for good. *)
Releases ==
    \A c \in Getters :
        /\ getter[c].pc = "released" =>
              /\ getter[c].rel.cancel => getter[c].rel.last
              /\ getter[c].rel.last => fill.refs = 0
              /\ getter[c].rel.producerDone => fill.producerDone /\ getter[c].rel.bypass = fill.bypass
        /\ getter[c].pc \in {"finishing", "finalizing", "stopping"} => fill.producerDone /\ ~fill.bypass

(* A finished copy is finalised, once nobody holds it, by somebody. *)
SomebodyAt(pc) == producer.pc = pc \/ \E c \in Getters : getter[c].pc = pc
WillFinish ==
    \/ producer.pc \in {"invalidating", "closingReaders", "finishing"}
    \/ \E c \in Getters : \/ getter[c].pc = "finishing"
                          \/ getter[c].pc = "released" /\ getter[c].rel.producerDone
Finalizes ==
    /\ fill.producerDone /\ ~fill.bypass /\ ~fill.finalizing => fill.refs > 0 \/ WillFinish
    /\ fill.finalizing =>
          /\ fill.refs = 0 /\ fill.producerDone /\ ~fill.bypass
          /\ fill.publish => ~fill.producerErr /\ fill.fullConsumed
          /\ \/ SomebodyAt("finalizing")
             \/ ~fill.inFills /\ fill.temp # "file" /\ (SomebodyAt("stopping") \/ ~fill.active)
    /\ SomebodyAt("finalizing") \/ SomebodyAt("stopping") \/ fill.publish => fill.finalizing

(* The references are the calls that hold the fill. *)
RefsMatch == fill.refs = Cardinality(D!Holders)

FlightInv ==
    /\ FlightTypes /\ RefsMatch /\ Begins /\ Copies /\ FlightReads /\ Cancels /\ Releases /\ Finalizes
    /\ D!PublishedIsComplete
-----------------------------------------------------------------------------
(* Reference counting *)

LEMMA HoldersFinite ==
    ASSUME IsFiniteSet(Getters)
    PROVE  IsFiniteSet(D!Holders) /\ Cardinality(D!Holders) \in Nat
<1>1. D!Holders \subseteq Getters
    BY DEF D!Holders
<1> QED BY <1>1, FS_Subset, FS_CardinalityType

LEMMA HolderCounted ==
    ASSUME IsFiniteSet(Getters), FlightTypes, RefsMatch, NEW c \in Getters, getter[c].pc \in D!Holding
    PROVE  fill.refs > 0
<1>1. c \in D!Holders
    BY DEF D!Holders
<1>2. Cardinality(D!Holders) # 0
    BY <1>1, HoldersFinite, FS_EmptySet
<1> QED BY <1>2, HoldersFinite DEF RefsMatch

LEMMA NobodyHolds ==
    ASSUME IsFiniteSet(Getters), FlightTypes, RefsMatch, fill.refs = 0
    PROVE  D!Holders = {} /\ \A c \in Getters : getter[c].pc \notin D!Holding
<1>1. D!Holders = {}
    BY HoldersFinite, FS_EmptySet DEF RefsMatch
<1> QED BY <1>1 DEF D!Holders

(* Nobody starts or stops holding. *)
LEMMA RefsKept ==
    ASSUME RefsMatch, fill'.refs = fill.refs,
           \A c \in Getters : getter'[c].pc \in D!Holding <=> getter[c].pc \in D!Holding
    PROVE  RefsMatch' /\ D!Holders' = D!Holders
<1>1. D!Holders' = D!Holders
    BY DEF D!Holders
<1> QED BY <1>1 DEF RefsMatch

(* What a step of one caller leaves alone. *)
OtherGetters(c) == \A d \in Getters : d # c => getter'[d] = getter[d]

LEMMA CallerSteps ==
    ASSUME FlightTypes, NEW c \in Getters, NEW q \in CallerPlaces, D!Goto(c, q)
    PROVE  /\ getter' \in [Getters -> CallerType] /\ OtherGetters(c)
           /\ getter'[c].pc = q /\ getter'[c].leader = getter[c].leader
           /\ getter'[c].direct = getter[c].direct /\ getter'[c].full = getter[c].full
           /\ getter'[c].rel = getter[c].rel
<1>1. getter[c] \in CallerType
    BY DEF FlightTypes
<1>2. PICK w \in CallerType : w = [getter[c] EXCEPT !.pc = q]
    BY <1>1 DEF CallerType
<1>3. getter' = [getter EXCEPT ![c] = w]
    BY <1>2 DEF D!Goto, FlightTypes
<1>4. w.pc = q /\ w.leader = getter[c].leader /\ w.direct = getter[c].direct
      /\ w.full = getter[c].full /\ w.rel = getter[c].rel
    BY <1>1, <1>2 DEF CallerType
<1>5. getter'[c] = w /\ OtherGetters(c) /\ getter' \in [Getters -> CallerType]
    BY <1>3 DEF FlightTypes, OtherGetters
<1> QED BY <1>4, <1>5
-----------------------------------------------------------------------------
(* Steps in which only one caller moves on. *)

MovesOn(c, q) ==
    \/ getter[c].pc = "idle" /\ q = "finished"
    \/ getter[c].pc = "waiting" /\ q = "abandoning"
    \/ getter[c].pc = "waiting" /\ q = "registering" /\ fill.ready = "ok"
    \/ getter[c].pc = "registering" /\ q \in {"open", "closing"}
    \/ getter[c].pc = "open" /\ q = "closing"
    \/ getter[c].pc = "draining" /\ q = "finished"
    \/ getter[c].pc = "finishing" /\ q = "finished" /\ (fill.finalizing \/ fill.refs > 0)

LEMMA CallerMoves ==
    ASSUME IsFiniteSet(Getters), FlightInv, NEW c \in Getters, NEW q, D!Goto(c, q), MovesOn(c, q),
           UNCHANGED <<fill, producer, closer, shut, rootOpen, body>>
    PROVE  FlightInv'
<1>1. FlightTypes /\ q \in CallerPlaces
    BY DEF FlightInv, MovesOn, CallerPlaces
<1>2. /\ getter' \in [Getters -> CallerType] /\ OtherGetters(c)
      /\ getter'[c].pc = q /\ getter'[c].leader = getter[c].leader
      /\ getter'[c].direct = getter[c].direct /\ getter'[c].full = getter[c].full
      /\ getter'[c].rel = getter[c].rel
    BY <1>1, CallerSteps
<1>3. FlightTypes'
    BY <1>1, <1>2 DEF FlightTypes
<1>4. \A d \in Getters : getter'[d].pc \in D!Holding <=> getter[d].pc \in D!Holding
    BY <1>2 DEF MovesOn, D!Holding, OtherGetters
<1>5. RefsMatch' /\ D!Holders' = D!Holders
    BY <1>4, RefsKept DEF FlightInv
<1>6. Begins'
    BY <1>1, <1>2 DEF FlightInv, Begins, MovesOn, OtherGetters
<1>7. Copies'
    BY DEF FlightInv, Copies
<1>8. FlightReads'
    <2>1. \A d \in Getters : /\ getter'[d].leader = getter[d].leader
                             /\ getter'[d].direct = getter[d].direct
                             /\ getter'[d].full = getter[d].full
                             /\ Asks(d) => Asks(d)' \/ fill.ready = "ok"
                             /\ getter'[d].pc \in {"registering", "open"} =>
                                    getter[d].pc \in {"registering", "open"} \/ fill.ready = "ok"
        BY <1>2 DEF OtherGetters, MovesOn, Asks
    <2> QED BY <2>1 DEF FlightInv, FlightReads
<1>9. Cancels'
    <2>1. \A d \in Getters : getter'[d].pc \in {"registering", "open"} =>
                                 getter[d].pc \in {"registering", "open"} \/ ~fill.bypass
        BY <1>2 DEF OtherGetters, MovesOn, FlightInv, Copies
    <2> QED BY <2>1 DEF FlightInv, Cancels
<1>10. Releases'
    BY <1>2 DEF FlightInv, Releases, OtherGetters, MovesOn
<1>11. Finalizes'
    <2>1. SomebodyAt("finalizing")' <=> SomebodyAt("finalizing")
        BY <1>2 DEF SomebodyAt, OtherGetters, MovesOn
    <2>2. SomebodyAt("stopping")' <=> SomebodyAt("stopping")
        BY <1>2 DEF SomebodyAt, OtherGetters, MovesOn
    <2>3. WillFinish => WillFinish' \/ fill.finalizing \/ fill.refs > 0
        BY <1>2 DEF WillFinish, OtherGetters, MovesOn
    <2> QED BY <2>1, <2>2, <2>3 DEF FlightInv, Finalizes
<1>12. D!PublishedIsComplete'
    BY <1>5 DEF FlightInv, D!PublishedIsComplete
<1> QED BY <1>3, <1>5, <1>6, <1>7, <1>8, <1>9, <1>10, <1>11, <1>12 DEF FlightInv

-----------------------------------------------------------------------------
(* Steps in which only the producer moves on. *)

Proceeds(q) ==
    \/ producer.pc \in Opening /\ q \in Opening
    \/ producer.pc = "copying" /\ q = "failed"
    \/ producer.pc = "invalidating" /\ q = "closingReaders"
    \/ producer.pc = "closingReaders" /\ q = "finishing"
    \/ producer.pc = "finishing" /\ q = "returning" /\ (fill.finalizing \/ fill.refs > 0)

LEMMA ProducerMoves ==
    ASSUME FlightInv, NEW q, Proceeds(q), producer'.pc = q,
           producer' \in [pc : ProducerPlaces, readers : SUBSET Getters],
           UNCHANGED <<fill, getter, closer, shut, rootOpen, body>>
    PROVE  FlightInv'
<1>1. FlightTypes'
    BY DEF FlightInv, FlightTypes
<1>2. RefsMatch' /\ D!PublishedIsComplete' /\ Cancels'
    BY DEF FlightInv, RefsMatch, D!PublishedIsComplete, Cancels, D!Holders
<1>3. producer.pc # "none" /\ q # "none" /\ q \notin {"closingReader", "written", "finalizing", "stopping"}
      /\ producer.pc \notin {"finalizing", "stopping"}
    BY DEF Proceeds, Opening
<1>4. Begins'
    BY <1>3 DEF FlightInv, Begins
<1>5. Copies'
    BY DEF FlightInv, Copies, Proceeds, Opening, Bypassing, Copying, Copied
<1>6. FlightReads'
    BY <1>3 DEF FlightInv, FlightReads, Asks
<1>7. Releases'
    BY DEF FlightInv, Releases
<1>8. Finalizes'
    <2>1. SomebodyAt("finalizing")' <=> SomebodyAt("finalizing")
        BY <1>3 DEF SomebodyAt
    <2>2. SomebodyAt("stopping")' <=> SomebodyAt("stopping")
        BY <1>3 DEF SomebodyAt
    <2>3. WillFinish => WillFinish' \/ fill.finalizing \/ fill.refs > 0
        BY DEF WillFinish, Proceeds, Opening
    <2> QED BY <2>1, <2>2, <2>3 DEF FlightInv, Finalizes
<1> QED BY <1>1, <1>2, <1>4, <1>5, <1>6, <1>7, <1>8 DEF FlightInv
-----------------------------------------------------------------------------
(* A call joins, and waits for its reader. *)

LEMMA JoinLeaderKeeps ==
    ASSUME IsFiniteSet(Getters), FlightInv, NEW c \in Getters, D!JoinLeader(c)
    PROVE  FlightInv'
<1>0. FlightTypes
    BY DEF FlightInv
<1>1. producer.pc = "none" /\ body = "none" /\ fill = D!NewFill
      /\ \A d \in Getters : getter[d].pc \in {"idle", "finished"} /\ ~getter[d].leader /\ ~getter[d].direct
    BY DEF FlightInv, Begins, D!JoinLeader, D!NewFill
<1>2. PICK b \in BOOLEAN :
        fill' = [D!NewFill EXCEPT !.inFills = TRUE, !.active = TRUE, !.refs = 1,
                                !.ownerActive = TRUE, !.invalid = b]
    BY DEF D!JoinLeader
<1>3. /\ fill' \in FillType /\ fill'.active /\ fill'.refs = 1 /\ fill'.ready = "no" /\ ~fill'.directReader
      /\ ~fill'.fullConsumed /\ ~fill'.producerDone /\ ~fill'.producerErr /\ ~fill'.bypass
      /\ ~fill'.finalizing /\ ~fill'.publish /\ ~fill'.cancelled /\ ~fill'.written /\ fill'.temp = "none"
    BY <1>2 DEF D!NewFill, FillType
<1>4. getter[c] \in CallerType
    BY <1>0 DEF FlightTypes
<1>5. PICK w \in CallerType : w = [getter[c] EXCEPT !.pc = "waiting", !.leader = TRUE]
    BY <1>4 DEF CallerType, CallerPlaces
<1>6. w.pc = "waiting" /\ w.leader /\ w.direct = getter[c].direct /\ w.full = getter[c].full
    BY <1>4, <1>5 DEF CallerType
<1>7. getter' = [getter EXCEPT ![c] = w]
    BY <1>0, <1>5 DEF D!JoinLeader, FlightTypes
<1>8. getter'[c] = w /\ OtherGetters(c) /\ getter' \in [Getters -> CallerType]
    BY <1>0, <1>7 DEF FlightTypes, OtherGetters
<1>9. producer'.pc = "getting" /\ producer' \in [pc : ProducerPlaces, readers : SUBSET Getters]
    BY <1>0 DEF D!JoinLeader, FlightTypes, ProducerPlaces
<1>10. FlightTypes'
    BY <1>0, <1>3, <1>8, <1>9 DEF FlightTypes, D!JoinLeader
<1>11. RefsMatch'
    <2>1. D!Holders' = {c}
        BY <1>1, <1>6, <1>8 DEF D!Holders, D!Holding, OtherGetters
    <2> QED BY <1>3, <2>1, FS_Singleton DEF RefsMatch
<1>12. Begins'
    BY <1>3, <1>9 DEF Begins
<1>13. Copies'
    BY <1>0, <1>1, <1>3, <1>9 DEF FlightInv, Copies, Opening, Bypassing, Copying, Copied, D!JoinLeader
<1>14. FlightReads'
    <2>1. ~D!NewFill.written
        BY DEF D!NewFill
    <2>2. \A d \in Getters : ~getter'[d].full /\ ~getter'[d].direct /\ getter'[d].pc \notin {"registering", "open"}
        BY <1>1, <1>6, <1>8, <2>1 DEF OtherGetters, FlightInv, FlightReads
    <2>3. Asks(c)' /\ getter'[c].leader
        BY <1>6, <1>8 DEF Asks
    <2>4. \A d \in Getters : getter'[d].leader => d = c
        BY <1>1, <1>8 DEF OtherGetters
    <2> QED BY <1>3, <1>9, <2>2, <2>3, <2>4 DEF FlightReads
<1>15. Cancels'
    BY <1>3 DEF Cancels
<1>16. Releases'
    BY <1>1, <1>6, <1>8 DEF Releases, OtherGetters
<1>17. Finalizes'
    <2>1. ~SomebodyAt("finalizing")' /\ ~SomebodyAt("stopping")'
        BY <1>1, <1>6, <1>8, <1>9 DEF SomebodyAt, OtherGetters
    <2> QED BY <1>3, <2>1 DEF Finalizes
<1>18. D!PublishedIsComplete'
    BY <1>1 DEF D!PublishedIsComplete, D!JoinLeader
<1> QED BY <1>10, <1>11, <1>12, <1>13, <1>14, <1>15, <1>16, <1>17, <1>18 DEF FlightInv

LEMMA JoinFollowerKeeps ==
    ASSUME IsFiniteSet(Getters), FlightInv, NEW c \in Getters, D!JoinFollower(c)
    PROVE  FlightInv'
<1>0. FlightTypes /\ fill.refs > 0 /\ getter[c].pc = "idle"
    BY DEF FlightInv, D!JoinFollower, D!AcceptsReader
<1>1. /\ getter' \in [Getters -> CallerType] /\ OtherGetters(c)
      /\ getter'[c].pc = "waiting" /\ getter'[c].leader = getter[c].leader
      /\ getter'[c].direct = getter[c].direct /\ getter'[c].full = getter[c].full
    BY <1>0, CallerSteps DEF D!JoinFollower, CallerPlaces
<1>2. /\ fill' \in FillType /\ fill'.refs = fill.refs + 1 /\ fill'.inFills = fill.inFills
      /\ fill'.active = fill.active /\ fill'.ready = fill.ready /\ fill'.ownerActive = fill.ownerActive
      /\ fill'.directReader = fill.directReader /\ fill'.fullConsumed = fill.fullConsumed
      /\ fill'.producerDone = fill.producerDone /\ fill'.producerErr = fill.producerErr
      /\ fill'.bypass = fill.bypass /\ fill'.finalizing = fill.finalizing /\ fill'.publish = fill.publish
      /\ fill'.cancelled = fill.cancelled /\ fill'.written = fill.written /\ fill'.temp = fill.temp
    <2>1. PICK n \in Nat : n = fill.refs + 1 /\ fill \in FillType
        BY <1>0 DEF FlightTypes, FillType
    <2>2. fill' = [fill EXCEPT !.refs = n]
        BY <2>1 DEF D!JoinFollower
    <2>3. fill' \in FillType
        BY <2>1, <2>2 DEF FillType
    <2> QED BY <2>1, <2>2, <2>3 DEF FillType
<1>3. FlightTypes'
    BY <1>0, <1>1, <1>2 DEF FlightTypes, D!JoinFollower
<1>4. RefsMatch'
    <2>1. c \notin D!Holders /\ D!Holders' = D!Holders \cup {c}
        BY <1>0, <1>1 DEF D!Holders, D!Holding, OtherGetters
    <2>2. Cardinality(D!Holders') = Cardinality(D!Holders) + 1
        BY <2>1, HoldersFinite, FS_AddElement
    <2> QED BY <1>2, <2>2 DEF FlightInv, RefsMatch
<1>5. producer.pc # "none"
    BY <1>0 DEF FlightInv, Begins, D!NewFill
<1>6. Begins'
    BY <1>2, <1>5 DEF FlightInv, Begins, D!JoinFollower
<1>7. Copies'
    BY <1>2 DEF FlightInv, Copies, D!JoinFollower
<1>8. FlightReads'
    <2>1. \A d \in Getters : /\ getter'[d].leader = getter[d].leader /\ getter'[d].direct = getter[d].direct
                             /\ getter'[d].full = getter[d].full /\ (Asks(d) => Asks(d)')
                             /\ (getter'[d].pc \in {"registering", "open"} <=> getter[d].pc \in {"registering", "open"})
        BY <1>0, <1>1 DEF OtherGetters, Asks
    <2> QED BY <1>2, <2>1 DEF FlightInv, FlightReads, D!JoinFollower
<1>9. Cancels'
    BY <1>0, <1>1, <1>2 DEF FlightInv, Cancels, D!JoinFollower, OtherGetters
<1>10. Releases'
    BY <1>0, <1>1, <1>2 DEF FlightInv, Releases, OtherGetters
<1>11. Finalizes'
    <2>1. (SomebodyAt("finalizing")' <=> SomebodyAt("finalizing")) /\ (SomebodyAt("stopping")' <=> SomebodyAt("stopping"))
        BY <1>0, <1>1 DEF SomebodyAt, OtherGetters, D!JoinFollower
    <2> QED BY <1>0, <1>2, <2>1 DEF FlightInv, Finalizes, FlightTypes, FillType
<1>12. D!PublishedIsComplete'
    BY <1>0, HolderCounted, NobodyHolds, HoldersFinite, FS_EmptySet DEF FlightInv, D!PublishedIsComplete, D!JoinFollower, RefsMatch
<1> QED BY <1>3, <1>4, <1>6, <1>7, <1>8, <1>9, <1>10, <1>11, <1>12 DEF FlightInv

LEMMA TakeDirectKeeps ==
    ASSUME IsFiniteSet(Getters), FlightInv, NEW c \in Getters, getter[c].pc = "waiting", ~shut,
           getter[c].leader, fill.directReader,
           getter' = [getter EXCEPT ![c].pc = "registering", ![c].direct = TRUE],
           fill' = [fill EXCEPT !.directReader = FALSE, !.ownerActive = FALSE],
           UNCHANGED <<producer, closer, shut, rootOpen, body>>
    PROVE  FlightInv'
<1>0. FlightTypes /\ fill.refs > 0 /\ fill.bypass /\ producer.pc # "closingReader"
    BY HolderCounted DEF FlightInv, FlightReads, D!Holding
<1>1. /\ fill' \in FillType /\ fill'.refs = fill.refs /\ fill'.inFills = fill.inFills
      /\ fill'.active = fill.active /\ fill'.ready = fill.ready /\ ~fill'.ownerActive
      /\ ~fill'.directReader /\ fill'.fullConsumed = fill.fullConsumed
      /\ fill'.producerDone = fill.producerDone /\ fill'.producerErr = fill.producerErr
      /\ fill'.bypass = fill.bypass /\ fill'.finalizing = fill.finalizing /\ fill'.publish = fill.publish
      /\ fill'.cancelled = fill.cancelled /\ fill'.written = fill.written /\ fill'.temp = fill.temp
    BY <1>0, ZenonT(40) DEF FlightTypes, FillType
<1>2. getter[c] \in CallerType
    BY <1>0 DEF FlightTypes
<1>3. PICK w \in CallerType : w = [getter[c] EXCEPT !.pc = "registering", !.direct = TRUE]
    BY <1>2 DEF CallerType, CallerPlaces
<1>4. w.pc = "registering" /\ w.leader /\ w.direct /\ w.full = getter[c].full
    BY <1>2, <1>3 DEF CallerType
<1>5. getter' = [getter EXCEPT ![c] = w]
    BY <1>0, <1>3 DEF FlightTypes
<1>6. getter'[c] = w /\ OtherGetters(c) /\ getter' \in [Getters -> CallerType]
    BY <1>0, <1>5 DEF FlightTypes, OtherGetters
<1>7. FlightTypes'
    BY <1>0, <1>1, <1>6 DEF FlightTypes
<1>8. RefsMatch' /\ D!Holders' = D!Holders
    BY <1>1, <1>4, <1>6, RefsKept DEF FlightInv, D!Holding, OtherGetters
<1>9. producer.pc # "none"
    BY DEF FlightInv, Begins
<1>10. Begins'
    BY <1>1, <1>9 DEF FlightInv, Begins
<1>11. Copies'
    BY <1>1 DEF FlightInv, Copies
<1>12. FlightReads'
    <2>1. \A d \in Getters : getter'[d].leader = getter[d].leader /\ getter'[d].full = getter[d].full
                             /\ (d # c => getter'[d].direct = getter[d].direct /\ getter'[d].pc = getter[d].pc)
        BY <1>4, <1>6 DEF OtherGetters
    <2> QED BY <1>0, <1>1, <1>4, <1>6, <2>1 DEF FlightInv, FlightReads
<1>13. Cancels'
    BY <1>0, <1>1 DEF FlightInv, Cancels, FlightTypes, FillType
<1>14. Releases'
    BY <1>1, <1>4, <1>6 DEF FlightInv, Releases, OtherGetters
<1>15. Finalizes'
    BY <1>0, <1>1, <1>4, <1>6 DEF FlightInv, Finalizes, SomebodyAt, OtherGetters
<1>16. D!PublishedIsComplete'
    BY <1>1, <1>8 DEF FlightInv, D!PublishedIsComplete
<1> QED BY <1>7, <1>8, <1>10, <1>11, <1>12, <1>13, <1>14, <1>15, <1>16 DEF FlightInv

LEMMA TakeReaderKeeps ==
    ASSUME IsFiniteSet(Getters), FlightInv, NEW c \in Getters, D!TakeReader(c)
    PROVE  FlightInv'
<1>1. CASE ~shut /\ fill.ready = "ok"
    BY <1>1, CallerMoves DEF D!TakeReader, MovesOn
<1>2. CASE ~(~shut /\ fill.ready = "ok") /\ ~shut /\ fill.ready = "unavailable"
           /\ getter[c].leader /\ fill.ownerActive /\ fill.directReader
    BY <1>2, TakeDirectKeeps DEF D!TakeReader
<1>3. CASE ~(~shut /\ fill.ready = "ok") /\ ~(~shut /\ fill.ready = "unavailable"
           /\ getter[c].leader /\ fill.ownerActive /\ fill.directReader)
    BY <1>3, CallerMoves DEF D!TakeReader, MovesOn
<1> QED BY <1>1, <1>2, <1>3

LEMMA QuietCalls ==
    ASSUME IsFiniteSet(Getters), FlightInv, NEW c \in Getters,
           \/ D!JoinRefused(c) \/ D!AwaitCancelled(c) \/ D!RegisterReader(c) \/ D!BeginClose(c) \/ D!Drained(c)
    PROVE  FlightInv'
<1>1. CASE D!JoinRefused(c)
    BY <1>1, CallerMoves DEF D!JoinRefused, MovesOn
<1>2. CASE D!AwaitCancelled(c)
    BY <1>2, CallerMoves DEF D!AwaitCancelled, MovesOn
<1>3. CASE D!RegisterReader(c)
    <2>1. PICK q \in {"open", "closing"} : D!Goto(c, q)
        BY <1>3 DEF D!RegisterReader
    <2> QED BY <1>3, <2>1, CallerMoves DEF D!RegisterReader, MovesOn
<1>4. CASE D!BeginClose(c)
    BY <1>4, CallerMoves DEF D!BeginClose, MovesOn
<1>5. CASE D!Drained(c)
    BY <1>5, CallerMoves DEF D!Drained, MovesOn
<1> QED BY <1>1, <1>2, <1>3, <1>4, <1>5
-----------------------------------------------------------------------------
(* A call reads, and gives its reference back. *)

LEMMA ReadFullKeeps ==
    ASSUME IsFiniteSet(Getters), FlightInv, NEW c \in Getters, D!ReadFull(c)
    PROVE  FlightInv'
<1>0. FlightTypes
    BY DEF FlightInv
<1>1. getter[c] \in CallerType
    BY <1>0 DEF FlightTypes
<1>2. PICK w \in CallerType : w = [getter[c] EXCEPT !.full = TRUE]
    BY <1>1 DEF CallerType
<1>3. w.pc = getter[c].pc /\ w.leader = getter[c].leader /\ w.direct = getter[c].direct /\ w.rel = getter[c].rel
    BY <1>1, <1>2 DEF CallerType
<1>4. getter' = [getter EXCEPT ![c] = w]
    BY <1>0, <1>2 DEF D!ReadFull, FlightTypes
<1>5. getter' \in [Getters -> CallerType]
      /\ \A d \in Getters : /\ getter'[d].pc = getter[d].pc /\ getter'[d].leader = getter[d].leader
                            /\ getter'[d].direct = getter[d].direct /\ getter'[d].rel = getter[d].rel
    BY <1>0, <1>3, <1>4 DEF FlightTypes
<1>6. FlightTypes'
    BY <1>0, <1>5 DEF FlightTypes, D!ReadFull
<1>7. RefsMatch' /\ D!Holders' = D!Holders
    BY <1>5, RefsKept DEF FlightInv, D!ReadFull
<1>8. Begins' /\ Copies'
    BY <1>5 DEF FlightInv, Begins, Copies, D!ReadFull
<1>9. FlightReads'
    <2>1. fill.written
        BY DEF D!ReadFull
    <2> QED BY <1>5, <2>1 DEF FlightInv, FlightReads, Asks, D!ReadFull
<1>10. Cancels'
    BY <1>5 DEF FlightInv, Cancels, D!ReadFull
<1>11. Releases'
    BY <1>5 DEF FlightInv, Releases, D!ReadFull
<1>12. Finalizes'
    <2>1. (WillFinish => WillFinish') /\ (SomebodyAt("finalizing")' <=> SomebodyAt("finalizing")) /\ (SomebodyAt("stopping")' <=> SomebodyAt("stopping"))
        BY <1>5 DEF WillFinish, SomebodyAt, D!ReadFull
    <2> QED BY <2>1 DEF FlightInv, Finalizes, D!ReadFull
<1>13. D!PublishedIsComplete'
    BY <1>7 DEF FlightInv, D!PublishedIsComplete, D!ReadFull
<1> QED BY <1>6, <1>7, <1>8, <1>9, <1>10, <1>11, <1>12, <1>13 DEF FlightInv

LEMMA RecordReleaseKeeps ==
    ASSUME IsFiniteSet(Getters), FlightInv, NEW c \in Getters, D!RecordRelease(c)
    PROVE  FlightInv'
<1>0. FlightTypes /\ getter[c].pc \in {"closing", "abandoning"} /\ fill.refs > 0 /\ fill.refs \in Nat
    BY HolderCounted DEF FlightInv, D!RecordRelease, D!Holding, FlightTypes, FillType
<1>1. PICK n \in Nat : n = D!ReleasedRefs(c) /\ n = fill.refs - 1
    BY <1>0 DEF D!ReleasedRefs
<1>2. PICK own \in BOOLEAN : own = (fill.ownerActive /\ ~(getter[c].leader /\ getter[c].pc = "abandoning"))
    OBVIOUS
<1>3. PICK full \in BOOLEAN : full = D!Consumed(c)
    BY <1>0 DEF D!Consumed, FlightTypes, FillType, CallerType
<1>4. PICK cancels \in BOOLEAN : cancels = D!CancelsProducer(c)
    BY DEF D!CancelsProducer
<1>5. PICK drops \in BOOLEAN : drops = D!DropsDirect(c)
    BY DEF D!DropsDirect
<1>6. PICK inv \in BOOLEAN : inv = (fill.invalid \/ cancels)
    OBVIOUS
<1>7. PICK dir \in BOOLEAN : dir = (fill.directReader /\ ~drops)
    OBVIOUS
<1>8. PICK can \in BOOLEAN : can = (fill.cancelled \/ getter[c].direct \/ (fill.directReader /\ drops))
    OBVIOUS
<1>9. fill' = [fill EXCEPT !.refs = n, !.ownerActive = own, !.fullConsumed = full, !.invalid = inv,
                           !.directReader = dir, !.cancelled = can]
    BY <1>1, <1>2, <1>3, <1>4, <1>5, <1>6, <1>7, <1>8 DEF D!RecordRelease
<1>10. fill \in FillType
    BY <1>0 DEF FlightTypes
<1>11. /\ fill' \in FillType /\ fill'.refs = n /\ fill'.inFills = fill.inFills
       /\ fill'.active = fill.active /\ fill'.ready = fill.ready /\ fill'.ownerActive = own
       /\ fill'.directReader = dir /\ fill'.fullConsumed = full
       /\ fill'.producerDone = fill.producerDone /\ fill'.producerErr = fill.producerErr
       /\ fill'.bypass = fill.bypass /\ fill'.finalizing = fill.finalizing /\ fill'.publish = fill.publish
       /\ fill'.cancelled = can /\ fill'.written = fill.written /\ fill'.temp = fill.temp
    <2>1. fill' \in FillType
        <3>1. PICK g \in FillType : g = [fill EXCEPT !.refs = n, !.ownerActive = own, !.fullConsumed = full]
            BY <1>10 DEF FillType
        <3>2. PICK h \in FillType : h = [g EXCEPT !.invalid = inv, !.directReader = dir, !.cancelled = can]
            BY ZenonT(40) DEF FillType
        <3>3. fill' = h
            BY <1>9, <1>10, <3>1, <3>2 DEF FillType
        <3> QED BY <3>3
    <2>2. fill'.refs = n /\ fill'.ownerActive = own /\ fill'.directReader = dir /\ fill'.fullConsumed = full
          /\ fill'.cancelled = can
        BY <1>9, <1>10 DEF FillType
    <2>3. /\ fill'.inFills = fill.inFills /\ fill'.active = fill.active /\ fill'.ready = fill.ready
          /\ fill'.producerDone = fill.producerDone /\ fill'.producerErr = fill.producerErr
          /\ fill'.bypass = fill.bypass /\ fill'.finalizing = fill.finalizing /\ fill'.publish = fill.publish
          /\ fill'.written = fill.written /\ fill'.temp = fill.temp
        BY <1>9, <1>10 DEF FillType
    <2> QED BY <2>1, <2>2, <2>3
<1>12. PICK rel \in ReleaseType :
         rel = [cancel |-> cancels, wait |-> n = 0 /\ ~fill.producerDone /\ getter[c].pc = "closing",
                last |-> n = 0, producerDone |-> fill.producerDone, bypass |-> fill.bypass]
    <2>1. PICK wait \in BOOLEAN : wait = (n = 0 /\ ~fill.producerDone /\ getter[c].pc = "closing")
        OBVIOUS
    <2>2. PICK last \in BOOLEAN : last = (n = 0)
        OBVIOUS
    <2>3. fill.producerDone \in BOOLEAN /\ fill.bypass \in BOOLEAN
        BY <1>10 DEF FillType
    <2> QED BY <2>1, <2>2, <2>3 DEF ReleaseType
<1>13. getter[c] \in CallerType
    BY <1>0 DEF FlightTypes
<1>14. PICK w \in CallerType : w = [getter[c] EXCEPT !.pc = "released", !.rel = rel]
    BY <1>13 DEF CallerType, CallerPlaces
<1>15. getter' = [getter EXCEPT ![c] = w]
    BY <1>0, <1>1, <1>4, <1>12, <1>14 DEF D!RecordRelease, FlightTypes
<1>16. w.pc = "released" /\ w.leader = getter[c].leader /\ w.direct = getter[c].direct /\ w.full = getter[c].full
       /\ w.rel = rel
    BY <1>13, <1>14 DEF CallerType
<1>17. getter'[c] = w /\ OtherGetters(c) /\ getter' \in [Getters -> CallerType]
    BY <1>0, <1>15 DEF FlightTypes, OtherGetters
<1>18. rel.cancel = cancels /\ rel.last = (n = 0) /\ rel.producerDone = fill.producerDone /\ rel.bypass = fill.bypass
    BY <1>12
<1>19. cancels => n = 0
    BY <1>1, <1>4 DEF D!CancelsProducer
<1>20. FlightTypes'
    BY <1>0, <1>11, <1>17 DEF FlightTypes, D!RecordRelease
<1>21. RefsMatch'
    <2>1. c \in D!Holders /\ D!Holders' = D!Holders \ {c}
        BY <1>0, <1>16, <1>17 DEF D!Holders, D!Holding, OtherGetters
    <2>2. Cardinality(D!Holders') = Cardinality(D!Holders) - 1
        BY <2>1, HoldersFinite, FS_RemoveElement
    <2> QED BY <1>1, <1>11, <2>2 DEF FlightInv, RefsMatch
<1>22. producer.pc # "none"
    BY <1>0 DEF FlightInv, Begins
<1>23. Begins'
    BY <1>11, <1>22 DEF FlightInv, Begins, D!RecordRelease
<1>24. full => fill.written
    BY <1>3 DEF FlightInv, FlightReads, Copies, D!Consumed
<1>25. Copies'
    BY <1>11, <1>24 DEF FlightInv, Copies, D!RecordRelease
<1>26. FlightReads'
    <2>1. \A d \in Getters : /\ getter'[d].leader = getter[d].leader /\ getter'[d].direct = getter[d].direct
                             /\ getter'[d].full = getter[d].full
                             /\ (getter'[d].pc \in {"registering", "open"} => getter[d].pc \in {"registering", "open"})
        BY <1>16, <1>17 DEF OtherGetters
    <2>2. dir => own
        BY <1>2, <1>5, <1>7 DEF D!DropsDirect, FlightInv, FlightReads
    <2>3. own => fill.ownerActive
        BY <1>2
    <2>4. own => fill.ready = "ok" \/ \E d \in Getters : getter'[d].leader /\ Asks(d)'
        <3> SUFFICES ASSUME own, fill.ready # "ok" PROVE \E d \in Getters : getter'[d].leader /\ Asks(d)'
            OBVIOUS
        <3>1. PICK d \in Getters : getter[d].leader /\ Asks(d)
            BY <2>3 DEF FlightInv, FlightReads
        <3>2. d # c
            BY <1>0, <1>2, <3>1 DEF Asks
        <3> QED BY <1>17, <3>1, <3>2 DEF OtherGetters, Asks
    <2>5. dir => fill.directReader
        BY <1>7
    <2>6. producer' = producer
        BY DEF D!RecordRelease
    <2>7. \A d \in Getters : /\ getter'[d].pc \in {"registering", "open"} => fill'.ready = "ok" \/ getter'[d].direct
                             /\ getter'[d].direct => getter'[d].leader /\ fill'.bypass /\ ~fill'.ownerActive
                             /\ getter'[d].full => fill'.written
        BY <1>11, <2>1, <2>3 DEF FlightInv, FlightReads
    <2>8. /\ fill'.directReader => fill'.ownerActive /\ fill'.bypass
          /\ producer'.pc = "closingReader" => ~fill'.directReader /\ \A d \in Getters : ~getter'[d].direct
        BY <1>11, <2>1, <2>2, <2>5, <2>6 DEF FlightInv, FlightReads
    <2>9. \A d, e \in Getters : getter'[d].leader /\ getter'[e].leader => d = e
        BY <2>1 DEF FlightInv, FlightReads
    <2> QED BY <1>11, <2>4, <2>7, <2>8, <2>9 DEF FlightReads
<1>27. Cancels'
    <2>1. CASE n = 0
        BY <1>11, <2>1 DEF Cancels
    <2>2. CASE n # 0 /\ getter[c].direct
        <3>1. \A d \in Getters : getter[d].pc \in {"registering", "open"} => d = c
            BY <2>2 DEF FlightInv, FlightReads, Copies
        <3>2. \A d \in Getters : getter'[d].pc \notin {"registering", "open"}
            BY <1>16, <1>17, <3>1 DEF OtherGetters
        <3>3. fill.bypass /\ ~dir
            BY <1>7, <2>2 DEF FlightInv, FlightReads
        <3> QED BY <1>11, <3>2, <3>3 DEF Cancels
    <2>3. CASE n # 0 /\ fill.directReader /\ drops
        <3>1. \A d \in Getters : getter[d].pc \notin {"registering", "open"}
            BY <2>3 DEF FlightInv, FlightReads, Copies
        <3>2. \A d \in Getters : getter'[d].pc \notin {"registering", "open"}
            BY <1>16, <1>17, <3>1 DEF OtherGetters
        <3>3. fill.bypass /\ ~dir
            BY <1>7, <2>3 DEF FlightInv, FlightReads
        <3> QED BY <1>11, <3>2, <3>3 DEF Cancels
    <2>4. CASE n # 0 /\ ~getter[c].direct /\ ~(fill.directReader /\ drops)
        <3>1. can = fill.cancelled /\ dir = fill.directReader
            BY <1>7, <1>8, <1>10, <2>4 DEF FillType
        <3>2. \A d \in Getters : getter'[d].pc \in {"registering", "open"} => getter[d].pc \in {"registering", "open"}
            BY <1>16, <1>17 DEF OtherGetters
        <3>3. shut' = shut /\ fill.refs # 0
            BY <1>0 DEF D!RecordRelease
        <3>4. /\ fill'.cancelled = fill.cancelled /\ fill'.producerErr = fill.producerErr
              /\ fill'.bypass = fill.bypass /\ fill'.directReader = fill.directReader
            BY <1>11, <3>1
        <3> QED BY <3>2, <3>3, <3>4 DEF FlightInv, Cancels
    <2> QED BY <2>1, <2>2, <2>3, <2>4
<1>28. Releases'
    <2>1. ASSUME NEW d \in Getters, d # c, getter[d].pc = "released", getter[d].rel.last PROVE FALSE
        BY <1>0, <2>1 DEF FlightInv, Releases
    <2>2. ASSUME NEW d \in Getters, d # c
          PROVE  /\ getter'[d].pc = "released" =>
                       /\ getter'[d].rel.cancel => getter'[d].rel.last
                       /\ getter'[d].rel.last => fill'.refs = 0
                       /\ getter'[d].rel.producerDone => fill'.producerDone /\ getter'[d].rel.bypass = fill'.bypass
                 /\ getter'[d].pc \in {"finishing", "finalizing", "stopping"} => fill'.producerDone /\ ~fill'.bypass
        BY <1>11, <1>17, <2>1, <2>2 DEF FlightInv, Releases, OtherGetters
    <2> QED BY <1>11, <1>16, <1>17, <1>18, <1>19, <2>2 DEF Releases
<1>29. Finalizes'
    <2>1. (SomebodyAt("finalizing")' <=> SomebodyAt("finalizing")) /\ (SomebodyAt("stopping")' <=> SomebodyAt("stopping"))
        BY <1>0, <1>16, <1>17 DEF SomebodyAt, OtherGetters, D!RecordRelease
    <2>2. fill.producerDone => WillFinish'
        BY <1>16, <1>17, <1>18 DEF WillFinish
    <2>3. fill.fullConsumed => full
        BY <1>3 DEF D!Consumed
    <2> QED BY <1>0, <1>11, <2>1, <2>2, <2>3 DEF FlightInv, Finalizes
<1>30. D!PublishedIsComplete'
    <2>1. c \in D!Holders
        BY <1>0 DEF D!Holders, D!Holding
    <2> QED BY <2>1 DEF FlightInv, D!PublishedIsComplete, D!RecordRelease
<1> QED BY <1>20, <1>21, <1>23, <1>25, <1>26, <1>27, <1>28, <1>29, <1>30 DEF FlightInv
LEMMA FinishReleaseKeeps ==
    ASSUME IsFiniteSet(Getters), FlightInv, NEW c \in Getters, D!FinishRelease(c)
    PROVE  FlightInv'
<1> DEFINE rel == getter[c].rel
           next == IF rel.producerDone /\ ~rel.bypass THEN "finishing"
                   ELSE IF rel.wait THEN "draining" ELSE "finished"
<1>0. FlightTypes /\ getter[c].pc = "released" /\ fill \in FillType /\ rel \in ReleaseType
    BY DEF FlightInv, D!FinishRelease, FlightTypes, CallerType
<1>1. PICK can \in BOOLEAN : can = (fill.cancelled \/ rel.cancel \/ (rel.last /\ rel.producerDone /\ rel.bypass))
    OBVIOUS
<1>2. PICK act \in BOOLEAN : act = (fill.active /\ ~(rel.producerDone /\ rel.bypass /\ ~rel.last
                                                      /\ fill.refs = 0 /\ fill.producerDone))
    OBVIOUS
<1>3. fill' = [fill EXCEPT !.cancelled = can, !.active = act]
    BY <1>1, <1>2 DEF D!FinishRelease
<1>4. /\ fill' \in FillType /\ fill'.refs = fill.refs /\ fill'.inFills = fill.inFills
      /\ fill'.active = act /\ fill'.ready = fill.ready /\ fill'.ownerActive = fill.ownerActive
      /\ fill'.directReader = fill.directReader /\ fill'.fullConsumed = fill.fullConsumed
      /\ fill'.producerDone = fill.producerDone /\ fill'.producerErr = fill.producerErr
      /\ fill'.bypass = fill.bypass /\ fill'.finalizing = fill.finalizing /\ fill'.publish = fill.publish
      /\ fill'.cancelled = can /\ fill'.written = fill.written /\ fill'.temp = fill.temp
    BY <1>0, <1>3 DEF FillType
<1>5. PICK q \in {"finishing", "draining", "finished"} : q = next
    OBVIOUS
<1>6. q = "finishing" <=> rel.producerDone /\ ~rel.bypass
    BY <1>5
<1>7. D!Goto(c, q)
    BY <1>5 DEF D!FinishRelease
<1>8. /\ getter' \in [Getters -> CallerType] /\ OtherGetters(c)
      /\ getter'[c].pc = q /\ getter'[c].leader = getter[c].leader
      /\ getter'[c].direct = getter[c].direct /\ getter'[c].full = getter[c].full
    BY <1>0, <1>7, CallerSteps DEF CallerPlaces
<1>9. (rel.cancel => rel.last) /\ (rel.last => fill.refs = 0)
      /\ (rel.producerDone => fill.producerDone /\ rel.bypass = fill.bypass)
    BY <1>0 DEF FlightInv, Releases
<1>10. (can => fill.cancelled \/ fill.refs = 0) /\ (act => fill.active) /\ (~act => ~fill.active \/ fill.producerDone)
    BY <1>1, <1>2, <1>9
<1>11. FlightTypes'
    BY <1>0, <1>4, <1>8 DEF FlightTypes, D!FinishRelease
<1>12. RefsMatch' /\ D!Holders' = D!Holders
    BY <1>0, <1>4, <1>8, RefsKept DEF FlightInv, D!Holding, OtherGetters
<1>13. producer.pc # "none"
    BY <1>0 DEF FlightInv, Begins
<1>14. Begins'
    BY <1>4, <1>10, <1>13 DEF FlightInv, Begins, D!FinishRelease
<1>15. Copies'
    BY <1>4 DEF FlightInv, Copies, D!FinishRelease
<1>16. FlightReads'
    <2>1. \A d \in Getters : /\ getter'[d].leader = getter[d].leader /\ getter'[d].direct = getter[d].direct
                             /\ getter'[d].full = getter[d].full /\ (Asks(d) <=> Asks(d)')
                             /\ (getter'[d].pc \in {"registering", "open"} <=> getter[d].pc \in {"registering", "open"})
        BY <1>0, <1>8 DEF OtherGetters, Asks
    <2> QED BY <1>4, <2>1 DEF FlightInv, FlightReads, D!FinishRelease
<1>17. Cancels'
    <2>1. \A d \in Getters : getter'[d].pc \in {"registering", "open"} => getter[d].pc \in {"registering", "open"}
        BY <1>0, <1>8 DEF OtherGetters
    <2> QED BY <1>4, <1>10, <2>1 DEF FlightInv, Cancels, D!FinishRelease
<1>18. Releases'
    BY <1>4, <1>6, <1>8, <1>9 DEF FlightInv, Releases, OtherGetters
<1>19. Finalizes'
    <2>1. (SomebodyAt("finalizing")' <=> SomebodyAt("finalizing")) /\ (SomebodyAt("stopping")' <=> SomebodyAt("stopping"))
        BY <1>0, <1>8 DEF SomebodyAt, OtherGetters, D!FinishRelease
    <2>2. WillFinish /\ ~fill.bypass => WillFinish'
        BY <1>6, <1>8, <1>9 DEF WillFinish, OtherGetters, D!FinishRelease
    <2> QED BY <1>4, <1>10, <2>1, <2>2 DEF FlightInv, Finalizes
<1>20. D!PublishedIsComplete'
    BY <1>4, <1>12 DEF FlightInv, D!PublishedIsComplete, D!FinishRelease
<1> QED BY <1>11, <1>12, <1>14, <1>15, <1>16, <1>17, <1>18, <1>19, <1>20 DEF FlightInv

-----------------------------------------------------------------------------
(* maybeFinishDiskCacheFlight, by a caller or by the producer. *)

Hands(at, then, pthen) ==
    /\ getter' \in [Getters -> CallerType] /\ producer' \in [pc : ProducerPlaces, readers : SUBSET Getters]
    /\ \A d \in Getters :
          /\ getter'[d].leader = getter[d].leader /\ getter'[d].direct = getter[d].direct
          /\ getter'[d].full = getter[d].full /\ getter'[d].rel = getter[d].rel
          /\ getter'[d].pc = getter[d].pc \/ (getter[d].pc = at /\ getter'[d].pc = then)
    /\ producer'.pc = producer.pc \/ (producer.pc = at /\ producer'.pc = pthen)
    /\ \/ producer.pc = at /\ producer'.pc = pthen
       \/ \E d \in Getters : getter[d].pc = at /\ getter'[d].pc = then

LEMMA CallerHands ==
    ASSUME FlightTypes, NEW at, NEW then \in CallerPlaces, NEW pthen,
           \E c \in Getters : getter[c].pc = at /\ D!Goto(c, then) /\ UNCHANGED producer
    PROVE  Hands(at, then, pthen)
<1>1. PICK c \in Getters : getter[c].pc = at /\ D!Goto(c, then) /\ UNCHANGED producer
    OBVIOUS
<1>2. /\ getter' \in [Getters -> CallerType] /\ OtherGetters(c)
      /\ getter'[c].pc = then /\ getter'[c].leader = getter[c].leader
      /\ getter'[c].direct = getter[c].direct /\ getter'[c].full = getter[c].full
      /\ getter'[c].rel = getter[c].rel
    BY <1>1, CallerSteps
<1>3. producer' \in [pc : ProducerPlaces, readers : SUBSET Getters]
    BY <1>1 DEF FlightTypes
<1> QED BY <1>1, <1>2, <1>3 DEF Hands, OtherGetters

LEMMA ProducerHands ==
    ASSUME FlightTypes, NEW at, NEW then, NEW pthen \in ProducerPlaces,
           producer.pc = at, producer' = [producer EXCEPT !.pc = pthen], UNCHANGED getter
    PROVE  Hands(at, then, pthen)
<1>1. producer' \in [pc : ProducerPlaces, readers : SUBSET Getters] /\ producer'.pc = pthen
    BY DEF FlightTypes
<1> QED BY <1>1 DEF Hands, FlightTypes

LEMMA ActorHands ==
    ASSUME FlightTypes, NEW at, NEW then \in CallerPlaces, then \in ProducerPlaces, D!Actor(at, then)
    PROVE  Hands(at, then, then)
BY CallerHands, ProducerHands DEF D!Actor

LEMMA DoneHands ==
    ASSUME FlightTypes, NEW at, D!ActorDone(at)
    PROVE  Hands(at, "finished", "returning")
<1>1. "finished" \in CallerPlaces /\ "returning" \in ProducerPlaces
    BY DEF CallerPlaces, ProducerPlaces
<1> QED BY <1>1, CallerHands, ProducerHands DEF D!ActorDone

(* All but what finalising changes is kept. *)
Finisher(at, then, pthen) ==
    \/ at = "finishing" /\ then = "finalizing" /\ pthen = then
    \/ at = "finalizing" /\ then = "stopping" /\ pthen = then
    \/ at = "stopping" /\ then = "finished" /\ pthen = "returning"

FillKept ==
    /\ fill' \in FillType /\ fill'.refs = fill.refs /\ fill'.ready = fill.ready
    /\ fill'.ownerActive = fill.ownerActive /\ fill'.directReader = fill.directReader
    /\ fill'.fullConsumed = fill.fullConsumed /\ fill'.producerDone = fill.producerDone
    /\ fill'.producerErr = fill.producerErr /\ fill'.bypass = fill.bypass /\ fill'.written = fill.written

LEMMA FinisherKeeps ==
    ASSUME FlightInv, NEW at, NEW then, NEW pthen, Finisher(at, then, pthen), Hands(at, then, pthen), FillKept,
           fill.refs = 0, fill'.inFills => fill.inFills,
           fill'.temp = "abandoned" => shut,
           UNCHANGED <<closer, shut, rootOpen>>
    PROVE  /\ RefsMatch' /\ D!Holders' = D!Holders /\ Begins' /\ Copies' /\ FlightReads' /\ Cancels' /\ Releases'
           /\ fill.producerDone /\ ~fill.bypass
<1>1. fill.producerDone /\ ~fill.bypass
    BY DEF FlightInv, Releases, Copies, Copied, Hands, Finisher
<1>2. \A d \in Getters : /\ getter'[d].pc \in D!Holding <=> getter[d].pc \in D!Holding
                         /\ getter'[d].pc \in {"registering", "open"} <=> getter[d].pc \in {"registering", "open"}
                         /\ Asks(d)' <=> Asks(d)
                         /\ getter'[d].pc = "released" <=> getter[d].pc = "released"
    BY DEF Hands, Finisher, D!Holding, Asks
<1>3. RefsMatch' /\ D!Holders' = D!Holders
    BY <1>2, RefsKept DEF FlightInv, FillKept
<1>4. producer.pc # "none" /\ producer'.pc # "none"
    BY <1>1 DEF FlightInv, Begins, D!NewFill, Hands, Finisher
<1>5. Begins'
    BY <1>1, <1>4 DEF Begins, FillKept
<1>6. Copies'
    <2>1. producer'.pc # producer.pc => producer'.pc \in {"finalizing", "stopping", "returning"}
        BY DEF Hands, Finisher
    <2>2. producer'.pc \notin Opening \cup Bypassing \cup Copying \/ producer'.pc = producer.pc
        BY <2>1 DEF Opening, Bypassing, Copying
    <2>3. producer'.pc # "written" \/ producer'.pc = producer.pc
        BY <2>1
    <2>4. producer'.pc \notin Opening
        BY <1>1, <2>2 DEF FlightInv, Copies
    <2> QED BY <1>1, <2>2, <2>3, <2>4 DEF FlightInv, Copies, FillKept
<1>7. FlightReads'
    <2>1. producer'.pc = "closingReader" => producer.pc = "closingReader"
        BY DEF Hands, Finisher
    <2> QED BY <1>2, <2>1 DEF FlightInv, FlightReads, FillKept, Hands
<1>8. Cancels'
    BY DEF Cancels, FillKept
<1>9. Releases'
    BY <1>1, <1>2 DEF FlightInv, Releases, FillKept, Hands
<1> QED BY <1>1, <1>3, <1>5, <1>6, <1>7, <1>8, <1>9
LEMMA FinishSkippedKeeps ==
    ASSUME IsFiniteSet(Getters), FlightInv, D!FinishSkipped
    PROVE  FlightInv'
<1>0. FlightTypes
    BY DEF FlightInv
<1>1. CASE \E c \in Getters : getter[c].pc = "finishing" /\ D!Goto(c, "finished") /\ UNCHANGED producer
    <2>1. PICK c \in Getters : getter[c].pc = "finishing" /\ D!Goto(c, "finished") /\ UNCHANGED producer
        BY <1>1
    <2>2. fill.finalizing \/ fill.refs > 0
        BY <2>1 DEF D!FinishSkipped, FlightInv, Releases
    <2> QED BY <2>1, <2>2, CallerMoves DEF D!FinishSkipped, MovesOn
<1>2. CASE producer.pc = "finishing" /\ producer' = [producer EXCEPT !.pc = "returning"] /\ UNCHANGED getter
    <2>1. fill.finalizing \/ fill.refs > 0
        BY <1>2 DEF D!FinishSkipped, FlightInv, Copies, Copied
    <2>2. producer' \in [pc : ProducerPlaces, readers : SUBSET Getters] /\ producer'.pc = "returning"
        BY <1>0, <1>2 DEF FlightTypes, ProducerPlaces
    <2> QED BY <1>2, <2>1, <2>2, ProducerMoves DEF D!FinishSkipped, Proceeds
<1> QED BY <1>1, <1>2 DEF D!FinishSkipped, D!ActorDone

LEMMA BeginFinalizeKeeps ==
    ASSUME IsFiniteSet(Getters), FlightInv, D!BeginFinalize
    PROVE  FlightInv'
<1>0. FlightTypes /\ fill \in FillType /\ fill.refs = 0 /\ fill.producerDone
    BY DEF FlightInv, FlightTypes, D!BeginFinalize
<1>1. Hands("finishing", "finalizing", "finalizing")
    BY <1>0, ActorHands DEF D!BeginFinalize, CallerPlaces, ProducerPlaces
<1>2. PICK pub \in BOOLEAN : pub = (~fill.producerErr /\ fill.fullConsumed /\ D!FlightValid)
    OBVIOUS
<1>3. fill' = [fill EXCEPT !.finalizing = TRUE, !.publish = pub]
    BY <1>2 DEF D!BeginFinalize
<1>4. FillKept /\ fill'.finalizing /\ fill'.publish = pub /\ fill'.inFills = fill.inFills
      /\ fill'.active = fill.active /\ fill'.temp = fill.temp
    BY <1>0, <1>3 DEF FillType, FillKept
<1>5. fill'.temp = "abandoned" => shut
    BY <1>4 DEF FlightInv, Copies
<1>6. /\ RefsMatch' /\ D!Holders' = D!Holders /\ Begins' /\ Copies' /\ FlightReads' /\ Cancels' /\ Releases'
      /\ fill.producerDone /\ ~fill.bypass
    BY <1>0, <1>1, <1>4, <1>5, FinisherKeeps DEF Finisher, D!BeginFinalize
<1>7. FlightTypes'
    BY <1>0, <1>1, <1>4 DEF FlightTypes, FillKept, Hands, D!BeginFinalize
<1>8. Finalizes'
    <2>1. SomebodyAt("finalizing")'
        BY <1>1 DEF Hands, SomebodyAt
    <2>2. pub => ~fill.producerErr /\ fill.fullConsumed
        BY <1>2
    <2> QED BY <1>0, <1>4, <1>6, <2>1, <2>2 DEF Finalizes, FillKept
<1>9. D!PublishedIsComplete'
    BY <1>4, <1>6 DEF FlightInv, D!PublishedIsComplete, FillKept, D!BeginFinalize
<1> QED BY <1>6, <1>7, <1>8, <1>9 DEF FlightInv

LEMMA EndFillKeeps ==
    ASSUME IsFiniteSet(Getters), FlightInv, D!Publish \/ D!Abort
    PROVE  FlightInv'
<1>0. FlightTypes /\ fill \in FillType /\ D!Actor("finalizing", "stopping")
    BY DEF FlightInv, FlightTypes, D!Publish, D!Abort
<1>1. Hands("finalizing", "stopping", "stopping")
    BY <1>0, ActorHands DEF CallerPlaces, ProducerPlaces
<1>2. SomebodyAt("finalizing") /\ SomebodyAt("stopping")'
    BY <1>1 DEF Hands, SomebodyAt
<1>3. fill.finalizing /\ fill.refs = 0 /\ fill.producerDone /\ ~fill.bypass
      /\ (fill.publish => ~fill.producerErr /\ fill.fullConsumed)
    BY <1>2 DEF FlightInv, Finalizes
<1>4. PICK t \in {"none", "abandoned"} : fill' = [fill EXCEPT !.inFills = FALSE, !.temp = t]
                                         /\ (t = "abandoned" => shut)
    <2>1. ~rootOpen => shut
        BY DEF FlightInv, Copies
    <2> QED BY <2>1 DEF D!Publish, D!Abort
<1>5. FillKept /\ fill'.finalizing = fill.finalizing /\ fill'.publish = fill.publish /\ ~fill'.inFills
      /\ fill'.active = fill.active /\ fill'.temp = t
    BY <1>0, <1>4 DEF FillType, FillKept
<1>6. UNCHANGED <<closer, shut, rootOpen>>
    BY DEF D!Publish, D!Abort
<1>7. /\ RefsMatch' /\ D!Holders' = D!Holders /\ Begins' /\ Copies' /\ FlightReads' /\ Cancels' /\ Releases'
      /\ fill.producerDone /\ ~fill.bypass
    BY <1>1, <1>3, <1>4, <1>5, <1>6, FinisherKeeps DEF Finisher
<1>8. body' = body \/ (body' = "published" /\ fill.publish)
    BY DEF D!Publish, D!Abort
<1>9. FlightTypes'
    BY <1>0, <1>1, <1>5, <1>6, <1>8 DEF FlightTypes, FillKept, Hands
<1>10. Finalizes'
    BY <1>2, <1>3, <1>5 DEF Finalizes, FillKept
<1>11. D!PublishedIsComplete'
    <2>1. D!Holders = {}
        BY <1>3, <1>0, NobodyHolds DEF FlightInv
    <2>2. fill.fullConsumed => fill.written
        BY DEF FlightInv, Copies
    <2>3. /\ fill'.written = fill.written /\ fill'.fullConsumed = fill.fullConsumed /\ fill'.bypass = fill.bypass
          /\ fill'.producerErr = fill.producerErr /\ fill'.producerDone = fill.producerDone
        BY <1>5 DEF FillKept
    <2> QED BY <1>3, <1>7, <1>8, <2>1, <2>2, <2>3 DEF FlightInv, D!PublishedIsComplete
<1> QED BY <1>7, <1>9, <1>10, <1>11 DEF FlightInv

LEMMA StopFlightKeeps ==
    ASSUME IsFiniteSet(Getters), FlightInv, D!StopFlight
    PROVE  FlightInv'
<1>0. FlightTypes /\ fill \in FillType
    BY DEF FlightInv, FlightTypes
<1>1. Hands("stopping", "finished", "returning")
    BY <1>0, DoneHands DEF D!StopFlight
<1>2. SomebodyAt("stopping")
    BY <1>1 DEF Hands, SomebodyAt
<1>3. fill.finalizing /\ fill.refs = 0
    BY <1>2 DEF FlightInv, Finalizes
<1>4. fill' = [fill EXCEPT !.cancelled = TRUE, !.active = FALSE]
    BY DEF D!StopFlight
<1>5. FillKept /\ fill'.finalizing = fill.finalizing /\ fill'.publish = fill.publish
      /\ fill'.inFills = fill.inFills /\ ~fill'.active /\ fill'.temp = fill.temp
    BY <1>0, <1>4 DEF FillType, FillKept
<1>6. fill'.temp = "abandoned" => shut
    BY <1>5 DEF FlightInv, Copies
<1>7. /\ RefsMatch' /\ D!Holders' = D!Holders /\ Begins' /\ Copies' /\ FlightReads' /\ Cancels' /\ Releases'
      /\ fill.producerDone /\ ~fill.bypass
    BY <1>1, <1>3, <1>5, <1>6, FinisherKeeps DEF Finisher, D!StopFlight
<1>8. FlightTypes'
    BY <1>0, <1>1, <1>5 DEF FlightTypes, FillKept, Hands, D!StopFlight
<1>9. Finalizes'
    <2>1. SomebodyAt("finalizing")' <=> SomebodyAt("finalizing")
        BY <1>1 DEF Hands, SomebodyAt
    <2> QED BY <1>3, <1>5, <2>1 DEF FlightInv, Finalizes, FillKept
<1>10. D!PublishedIsComplete'
    BY <1>5, <1>7 DEF FlightInv, D!PublishedIsComplete, FillKept, D!StopFlight
<1> QED BY <1>7, <1>8, <1>9, <1>10 DEF FlightInv
-----------------------------------------------------------------------------
(* The producer. *)

LEMMA Produces ==
    ASSUME FlightTypes, NEW at, NEW then \in ProducerPlaces, D!Produce(at, then)
    PROVE  producer' \in [pc : ProducerPlaces, readers : SUBSET Getters] /\ producer'.pc = then /\ producer.pc = at
BY DEF FlightTypes, D!Produce

LEMMA OpeningPlaces == Opening \subseteq ProducerPlaces /\ "none" \notin Opening
BY DEF Opening, ProducerPlaces

LEMMA OpensOn ==
    ASSUME FlightInv, NEW at \in Opening, NEW then \in Opening, D!Produce(at, then),
           UNCHANGED <<fill, getter, closer, shut, rootOpen, body>>
    PROVE  FlightInv'
<1>1. producer' \in [pc : ProducerPlaces, readers : SUBSET Getters] /\ producer'.pc = then /\ producer.pc = at
    BY Produces, OpeningPlaces DEF FlightInv
<1> QED BY <1>1, ProducerMoves DEF Proceeds

LEMMA OpeningKeeps ==
    ASSUME FlightInv, D!ProducerGet \/ D!ProducerCheck \/ D!ProducerPrepareError
    PROVE  FlightInv'
<1>1. CASE D!ProducerGet
    <2>1. PICK then \in {"opened", "openError"} : D!Produce("getting", then)
        BY <1>1 DEF D!ProducerGet
    <2> QED BY <1>1, <2>1, OpensOn DEF D!ProducerGet, Opening
<1>2. CASE D!ProducerCheck
    <2>1. PICK then \in {"openError", "preparing", "bypassing"} : D!Produce("opened", then)
        BY <1>2 DEF D!ProducerCheck
    <2> QED BY <1>2, <2>1, OpensOn DEF D!ProducerCheck, Opening
<1>3. CASE D!ProducerPrepareError
    <2>1. PICK then \in {"openError", "bypassing"} : D!Produce("prepareError", then)
        BY <1>3 DEF D!ProducerPrepareError
    <2> QED BY <1>3, <2>1, OpensOn DEF D!ProducerPrepareError, Opening
<1> QED BY <1>1, <1>2, <1>3

(* While it opens nobody has a reader, and nobody is finishing. *)
LEMMA WhileOpening ==
    ASSUME FlightInv, producer.pc \in Opening
    PROVE  /\ ~fill.producerDone /\ ~fill.bypass /\ ~fill.producerErr /\ ~fill.finalizing /\ ~fill.publish
           /\ fill.active /\ fill.ready # "ok" /\ fill.temp = "none" /\ ~fill.written /\ ~fill.fullConsumed
           /\ ~fill.directReader /\ body = "none"
           /\ \A c \in Getters : /\ getter[c].pc \notin {"registering", "open", "finishing", "finalizing", "stopping"}
                                 /\ ~getter[c].direct /\ ~getter[c].full
                                 /\ getter[c].pc = "released" => ~getter[c].rel.producerDone
<1>1. /\ ~fill.producerDone /\ ~fill.bypass /\ ~fill.producerErr /\ fill.ready # "ok" /\ fill.temp = "none"
      /\ ~fill.written /\ ~fill.fullConsumed
    BY DEF FlightInv, Copies
<1>2. ~fill.finalizing /\ ~fill.publish
    BY <1>1 DEF FlightInv, Finalizes
<1>3. fill.active
    BY <1>1, OpeningPlaces DEF FlightInv, Begins
<1>4. ~fill.directReader /\ \A c \in Getters : ~getter[c].direct /\ ~getter[c].full
    BY <1>1 DEF FlightInv, FlightReads
<1>5. \A c \in Getters : getter[c].pc \notin {"registering", "open"}
    BY <1>1, <1>4 DEF FlightInv, FlightReads
<1>6. \A c \in Getters : /\ getter[c].pc \notin {"finishing", "finalizing", "stopping"}
                         /\ getter[c].pc = "released" => ~getter[c].rel.producerDone
    BY <1>1 DEF FlightInv, Releases
<1>7. body = "none"
    BY <1>1 DEF FlightInv, D!PublishedIsComplete, FlightTypes
<1> QED BY <1>1, <1>2, <1>3, <1>4, <1>5, <1>6, <1>7

LEMMA ProducerPrepareKeeps ==
    ASSUME FlightInv, D!ProducerPrepare
    PROVE  FlightInv'
<1>0. FlightTypes /\ fill \in FillType
    BY DEF FlightInv, FlightTypes
<1>1. CASE \E then \in {"bypassing", "prepareError"} : D!Produce("preparing", then) /\ UNCHANGED fill
    <2>1. PICK then \in {"bypassing", "prepareError"} : D!Produce("preparing", then) /\ UNCHANGED fill
        BY <1>1
    <2> QED BY <2>1, OpensOn DEF D!ProducerPrepare, Opening
<1>2. CASE /\ D!Produce("preparing", "copying")
           /\ fill' = [fill EXCEPT !.temp = "file", !.ready = IF @ = "no" THEN "ok" ELSE @]
    <2>1. producer' \in [pc : ProducerPlaces, readers : SUBSET Getters] /\ producer'.pc = "copying"
          /\ producer.pc = "preparing"
        BY <1>0, <1>2, Produces DEF ProducerPlaces
    <2>2. producer.pc \in Opening
        BY <2>1 DEF Opening
    <2>3. /\ ~fill.producerDone /\ ~fill.bypass /\ ~fill.producerErr /\ ~fill.finalizing /\ ~fill.publish
          /\ fill.active /\ fill.ready # "ok" /\ fill.temp = "none" /\ ~fill.written /\ ~fill.fullConsumed
          /\ ~fill.directReader /\ body = "none"
          /\ \A c \in Getters : /\ getter[c].pc \notin {"registering", "open", "finishing", "finalizing", "stopping"}
                                /\ ~getter[c].direct /\ ~getter[c].full
                                /\ getter[c].pc = "released" => ~getter[c].rel.producerDone
        BY <2>2, WhileOpening
    <2>4. PICK y \in {"ok", "unavailable", "error", "closed"} :
            fill' = [fill EXCEPT !.temp = "file", !.ready = y] /\ (fill.ready # "no" => y = fill.ready)
        BY <1>0, <1>2 DEF FillType
    <2>5. /\ fill' \in FillType /\ fill'.refs = fill.refs /\ fill'.active = fill.active /\ fill'.temp = "file"
          /\ fill'.ready = y /\ fill'.ownerActive = fill.ownerActive /\ fill'.directReader = fill.directReader
          /\ fill'.fullConsumed = fill.fullConsumed /\ fill'.producerDone = fill.producerDone
          /\ fill'.producerErr = fill.producerErr /\ fill'.bypass = fill.bypass
          /\ fill'.finalizing = fill.finalizing /\ fill'.publish = fill.publish
          /\ fill'.cancelled = fill.cancelled /\ fill'.written = fill.written
        BY <1>0, <2>4 DEF FillType
    <2>6. UNCHANGED <<getter, closer, shut, rootOpen, body>>
        BY DEF D!ProducerPrepare
    <2>7. FlightTypes' /\ RefsMatch'
        BY <1>0, <2>1, <2>5, <2>6 DEF FlightInv, FlightTypes, RefsMatch, D!Holders
    <2>8. Begins'
        BY <2>1, <2>3, <2>5 DEF Begins
    <2>9. Copies'
        BY <2>1, <2>3, <2>5, <2>6 DEF FlightInv, Copies, Opening, Bypassing, Copying, Copied
    <2>10. FlightReads'
        BY <2>1, <2>3, <2>4, <2>5, <2>6 DEF FlightInv, FlightReads, Asks
    <2>11. Cancels'
        BY <2>3, <2>5, <2>6 DEF FlightInv, Cancels
    <2>12. Releases'
        BY <2>3, <2>5, <2>6 DEF FlightInv, Releases
    <2>13. Finalizes'
        BY <2>1, <2>3, <2>5, <2>6 DEF Finalizes, SomebodyAt
    <2>14. D!PublishedIsComplete'
        BY <2>3, <2>6 DEF D!PublishedIsComplete
    <2> QED BY <2>7, <2>8, <2>9, <2>10, <2>11, <2>12, <2>13, <2>14 DEF FlightInv
<1> QED BY <1>1, <1>2 DEF D!ProducerPrepare

(* The fill ends without a copy. *)
LEMMA OpenErrorKeeps ==
    ASSUME FlightInv, D!ProducerOpenError
    PROVE  FlightInv'
<1>0. FlightTypes /\ fill \in FillType
    BY DEF FlightInv, FlightTypes
<1>1. producer' \in [pc : ProducerPlaces, readers : SUBSET Getters] /\ producer'.pc = "returning"
      /\ producer.pc = "openError"
    BY <1>0, Produces DEF D!ProducerOpenError, ProducerPlaces
<1>2. producer.pc \in Opening
    BY <1>1 DEF Opening
<1>3. /\ ~fill.producerDone /\ ~fill.bypass /\ ~fill.producerErr /\ ~fill.finalizing /\ ~fill.publish
      /\ fill.active /\ fill.ready # "ok" /\ fill.temp = "none" /\ ~fill.written /\ ~fill.fullConsumed
      /\ ~fill.directReader /\ body = "none"
      /\ \A c \in Getters : /\ getter[c].pc \notin {"registering", "open", "finishing", "finalizing", "stopping"}
                            /\ ~getter[c].direct /\ ~getter[c].full
                            /\ getter[c].pc = "released" => ~getter[c].rel.producerDone
    BY <1>2, WhileOpening
<1>4. PICK y \in {"unavailable", "error", "closed"} : y = IF fill.ready = "no" THEN "error" ELSE fill.ready
    BY <1>0, <1>3 DEF FillType
<1>5. PICK act \in BOOLEAN : act = (fill.active /\ fill.refs > 0)
    OBVIOUS
<1>6. fill' = [fill EXCEPT !.producerErr = TRUE, !.producerDone = TRUE, !.bypass = TRUE, !.ready = y,
                           !.inFills = FALSE, !.active = act, !.cancelled = TRUE]
    BY <1>4, <1>5 DEF D!ProducerOpenError
<1>7. fill' \in FillType
    <2>1. PICK g \in FillType : g = [fill EXCEPT !.producerErr = TRUE, !.producerDone = TRUE, !.bypass = TRUE]
        BY <1>0 DEF FillType
    <2>2. PICK h \in FillType : h = [g EXCEPT !.inFills = FALSE, !.active = act, !.cancelled = TRUE]
        <3>1. [g EXCEPT !.inFills = FALSE, !.active = act] \in FillType
            BY DEF FillType
        <3>2. PICK k \in FillType : k = [g EXCEPT !.inFills = FALSE, !.active = act]
            BY <3>1
        <3>3. [k EXCEPT !.cancelled = TRUE] \in FillType
            BY DEF FillType
        <3>4. [k EXCEPT !.cancelled = TRUE] = [g EXCEPT !.inFills = FALSE, !.active = act, !.cancelled = TRUE]
            BY <3>2 DEF FillType
        <3> QED BY <3>3, <3>4
    <2>3. y \in {"no", "ok", "unavailable", "error", "closed"}
        OBVIOUS
    <2>4. [h EXCEPT !.ready = y] \in FillType
        BY <2>3 DEF FillType
    <2>5. fill' = [h EXCEPT !.ready = y]
        BY <1>0, <1>6, <2>1, <2>2, ZenonT(40) DEF FillType
    <2> QED BY <2>4, <2>5
<1>8. /\ fill'.refs = fill.refs /\ fill'.temp = fill.temp /\ fill'.ready = y /\ ~fill'.inFills
      /\ fill'.ownerActive = fill.ownerActive /\ fill'.directReader = fill.directReader
      /\ fill'.fullConsumed = fill.fullConsumed /\ fill'.producerDone /\ fill'.producerErr /\ fill'.bypass
      /\ fill'.finalizing = fill.finalizing /\ fill'.publish = fill.publish /\ fill'.written = fill.written
    BY <1>0, <1>6 DEF FillType
<1>9. UNCHANGED <<getter, closer, shut, rootOpen, body>>
    BY DEF D!ProducerOpenError
<1>10. FlightTypes' /\ RefsMatch'
    BY <1>0, <1>1, <1>7, <1>8, <1>9 DEF FlightInv, FlightTypes, RefsMatch, D!Holders
<1>11. Begins' /\ Cancels'
    BY <1>1, <1>8 DEF Begins, Cancels
<1>12. Copies'
    BY <1>1, <1>3, <1>8, <1>9 DEF FlightInv, Copies, Opening, Bypassing, Copying, Copied
<1>13. FlightReads'
    BY <1>1, <1>3, <1>8, <1>9 DEF FlightInv, FlightReads, Asks
<1>14. Releases'
    BY <1>3, <1>8, <1>9 DEF FlightInv, Releases
<1>15. Finalizes'
    BY <1>1, <1>3, <1>8, <1>9 DEF Finalizes, SomebodyAt
<1>16. D!PublishedIsComplete'
    BY <1>3, <1>9 DEF D!PublishedIsComplete
<1> QED BY <1>10, <1>11, <1>12, <1>13, <1>14, <1>15, <1>16 DEF FlightInv
LEMMA BypassKeeps ==
    ASSUME IsFiniteSet(Getters), FlightInv, D!ProducerBypass
    PROVE  FlightInv'
<1>0. FlightTypes /\ fill \in FillType
    BY DEF FlightInv, FlightTypes
<1>1. PICK keep \in BOOLEAN : keep = (fill.ownerActive /\ fill.refs > 0 /\ ~shut)
    OBVIOUS
<1>2. PICK then \in Bypassing : then = (IF keep THEN "bypassed" ELSE "closingReader")
    BY DEF Bypassing
<1>3. D!Produce("bypassing", then)
    BY <1>1, <1>2 DEF D!ProducerBypass
<1>4. producer' \in [pc : ProducerPlaces, readers : SUBSET Getters] /\ producer'.pc = then
      /\ producer.pc = "bypassing"
    BY <1>0, <1>3, Produces DEF ProducerPlaces, Bypassing
<1>5. producer.pc \in Opening
    BY <1>4 DEF Opening
<1>6. /\ ~fill.producerDone /\ ~fill.bypass /\ ~fill.producerErr /\ ~fill.finalizing /\ ~fill.publish
      /\ fill.active /\ fill.ready # "ok" /\ fill.temp = "none" /\ ~fill.written /\ ~fill.fullConsumed
      /\ ~fill.directReader /\ body = "none"
      /\ \A c \in Getters : /\ getter[c].pc \notin {"registering", "open", "finishing", "finalizing", "stopping"}
                            /\ ~getter[c].direct /\ ~getter[c].full
                            /\ getter[c].pc = "released" => ~getter[c].rel.producerDone
    BY <1>5, WhileOpening
<1>7. PICK y \in {"unavailable", "closed"} : y = IF shut THEN "closed" ELSE "unavailable"
    OBVIOUS
<1>8. fill' = [fill EXCEPT !.producerDone = TRUE, !.bypass = TRUE, !.ready = y,
                           !.directReader = keep, !.ownerActive = keep, !.inFills = FALSE]
    BY <1>1, <1>7 DEF D!ProducerBypass
<1>9. fill' \in FillType
    <2>1. PICK g \in FillType : g = [fill EXCEPT !.producerDone = TRUE, !.bypass = TRUE, !.inFills = FALSE]
        BY <1>0 DEF FillType
    <2>2. PICK h \in FillType : h = [g EXCEPT !.directReader = keep, !.ownerActive = keep]
        BY DEF FillType
    <2>3. y \in {"no", "ok", "unavailable", "error", "closed"}
        OBVIOUS
    <2>4. [h EXCEPT !.ready = y] \in FillType
        BY <2>3 DEF FillType
    <2>5. fill' = [h EXCEPT !.ready = y]
        BY <1>0, <1>8, <2>1, <2>2 DEF FillType
    <2> QED BY <2>4, <2>5
<1>10. /\ fill'.refs = fill.refs /\ fill'.temp = fill.temp /\ fill'.ready = y /\ ~fill'.inFills
       /\ fill'.ownerActive = keep /\ fill'.directReader = keep /\ fill'.cancelled = fill.cancelled
       /\ fill'.fullConsumed = fill.fullConsumed /\ fill'.producerDone /\ fill'.producerErr = fill.producerErr
       /\ fill'.bypass /\ fill'.finalizing = fill.finalizing /\ fill'.publish = fill.publish
       /\ fill'.written = fill.written
    BY <1>0, <1>8 DEF FillType
<1>11. UNCHANGED <<getter, closer, shut, rootOpen, body>>
    BY DEF D!ProducerBypass
<1>12. FlightTypes' /\ RefsMatch'
    BY <1>0, <1>4, <1>9, <1>10, <1>11 DEF FlightInv, FlightTypes, RefsMatch, D!Holders
<1>13. Begins'
    BY <1>4, <1>10 DEF Begins, Bypassing
<1>14. Cancels'
    BY <1>6, <1>10, <1>11 DEF FlightInv, Cancels
<1>15. Copies'
    BY <1>4, <1>6, <1>10, <1>11 DEF FlightInv, Copies, Opening, Bypassing, Copying, Copied
<1>16. FlightReads'
    <2>1. keep => fill.ownerActive
        BY <1>1
    <2>2. producer'.pc = "closingReader" => ~keep
        BY <1>2, <1>4
    <2> QED BY <1>6, <1>10, <1>11, <2>1, <2>2 DEF FlightInv, FlightReads, Asks
<1>17. Releases'
    BY <1>6, <1>10, <1>11 DEF FlightInv, Releases
<1>18. Finalizes'
    BY <1>4, <1>6, <1>10, <1>11 DEF Finalizes, SomebodyAt, Bypassing
<1>19. D!PublishedIsComplete'
    BY <1>6, <1>11 DEF D!PublishedIsComplete
<1> QED BY <1>12, <1>13, <1>14, <1>15, <1>16, <1>17, <1>18, <1>19 DEF FlightInv

(* What a producer that reads no more leaves alone. *)
FillStays ==
    /\ fill'.refs = fill.refs /\ fill'.ready = fill.ready /\ fill'.inFills = fill.inFills
    /\ fill'.ownerActive = fill.ownerActive /\ fill'.directReader = fill.directReader
    /\ fill'.fullConsumed = fill.fullConsumed /\ fill'.bypass = fill.bypass /\ fill'.temp = fill.temp
    /\ fill'.finalizing = fill.finalizing /\ fill'.publish = fill.publish

LEMMA BypassedKeeps ==
    ASSUME FlightInv, D!ProducerBypassed
    PROVE  FlightInv'
<1>0. FlightTypes /\ fill \in FillType
    BY DEF FlightInv, FlightTypes
<1>1. PICK at \in Bypassing : D!Produce(at, "returning") /\ (fill'.cancelled # fill.cancelled => at = "closingReader")
    <2>1. CASE D!Produce("bypassed", "returning") /\ fill' = [fill EXCEPT !.active = @ /\ fill.refs > 0]
        BY <1>0, <2>1 DEF Bypassing, FillType
    <2> QED BY <2>1 DEF D!ProducerBypassed, Bypassing
<1>2. producer' \in [pc : ProducerPlaces, readers : SUBSET Getters] /\ producer'.pc = "returning" /\ producer.pc = at
    BY <1>0, <1>1, Produces DEF ProducerPlaces
<1>3. PICK act \in BOOLEAN : act = (fill.active /\ fill.refs > 0)
    OBVIOUS
<1>4. fill' = [fill EXCEPT !.active = act] \/ fill' = [fill EXCEPT !.active = act, !.cancelled = TRUE]
    BY <1>3 DEF D!ProducerBypassed
<1>5. fill' \in FillType /\ FillStays /\ fill'.producerDone = fill.producerDone
      /\ fill'.producerErr = fill.producerErr /\ fill'.written = fill.written
    BY <1>0, <1>4 DEF FillType, FillStays
<1>6. fill.producerDone /\ fill.bypass
    BY <1>2 DEF FlightInv, Copies
<1>7. UNCHANGED <<getter, closer, shut, rootOpen, body>>
    BY DEF D!ProducerBypassed
<1>8. FlightTypes' /\ RefsMatch'
    BY <1>0, <1>2, <1>5, <1>7 DEF FlightInv, FlightTypes, RefsMatch, D!Holders, FillStays
<1>9. Begins'
    BY <1>2, <1>5, <1>6 DEF Begins
<1>10. Copies'
    BY <1>2, <1>5, <1>6, <1>7 DEF FlightInv, Copies, FillStays, Opening, Bypassing, Copying, Copied
<1>11. FlightReads'
    BY <1>2, <1>5, <1>7 DEF FlightInv, FlightReads, FillStays, Asks
<1>12. Cancels'
    <2>1. CASE fill'.cancelled = fill.cancelled
        BY <1>5, <1>7, <2>1 DEF FlightInv, Cancels, FillStays
    <2>2. CASE at = "closingReader"
        <3>1. ~fill.directReader /\ \A c \in Getters : ~getter[c].direct
            BY <1>2, <2>2 DEF FlightInv, FlightReads
        <3>2. \A c \in Getters : getter[c].pc \notin {"registering", "open"}
            BY <1>6, <3>1 DEF FlightInv, FlightReads, Copies
        <3> QED BY <1>5, <1>6, <1>7, <3>1, <3>2 DEF Cancels, FillStays
    <2> QED BY <1>1, <2>1, <2>2
<1>13. Releases'
    BY <1>5, <1>7 DEF FlightInv, Releases, FillStays
<1>14. Finalizes'
    BY <1>2, <1>5, <1>6, <1>7 DEF FlightInv, Finalizes, FillStays, SomebodyAt, Bypassing
<1>15. D!PublishedIsComplete'
    BY <1>6, <1>7 DEF FlightInv, D!PublishedIsComplete
<1> QED BY <1>8, <1>9, <1>10, <1>11, <1>12, <1>13, <1>14, <1>15 DEF FlightInv
(* The bytes are all there, or the copy ends. *)
LEMMA CopyKeeps ==
    ASSUME FlightInv, D!ProducerCopy
    PROVE  FlightInv'
<1>0. FlightTypes /\ fill \in FillType
    BY DEF FlightInv, FlightTypes
<1>1. CASE D!Produce("copying", "failed") /\ UNCHANGED fill
    <2>1. producer' \in [pc : ProducerPlaces, readers : SUBSET Getters] /\ producer'.pc = "failed"
          /\ producer.pc = "copying"
        BY <1>0, <1>1, Produces DEF ProducerPlaces
    <2> QED BY <1>1, <2>1, ProducerMoves DEF Proceeds, D!ProducerCopy
<1>2. CASE D!Produce("copying", "written") /\ fill' = [fill EXCEPT !.written = TRUE]
    <2>1. producer' \in [pc : ProducerPlaces, readers : SUBSET Getters] /\ producer'.pc = "written"
          /\ producer.pc = "copying"
        BY <1>0, <1>2, Produces DEF ProducerPlaces
    <2>2. fill' \in FillType /\ FillStays /\ fill'.producerDone = fill.producerDone /\ fill'.active = fill.active
          /\ fill'.producerErr = fill.producerErr /\ fill'.cancelled = fill.cancelled /\ fill'.written
        BY <1>0, <1>2 DEF FillType, FillStays
    <2>3. UNCHANGED <<getter, closer, shut, rootOpen, body>>
        BY DEF D!ProducerCopy
    <2>4. FlightTypes' /\ RefsMatch' /\ Cancels'
        BY <1>0, <2>1, <2>2, <2>3 DEF FlightInv, FlightTypes, RefsMatch, Cancels, D!Holders, FillStays
    <2>5. Begins'
        BY <2>1, <2>2 DEF FlightInv, Begins
    <2>6. Copies'
        BY <2>1, <2>2, <2>3 DEF FlightInv, Copies, FillStays, Opening, Bypassing, Copying, Copied
    <2>7. FlightReads'
        BY <2>1, <2>2, <2>3 DEF FlightInv, FlightReads, FillStays, Asks
    <2>8. Releases'
        BY <2>2, <2>3 DEF FlightInv, Releases, FillStays
    <2>9. Finalizes'
        <3>1. (SomebodyAt("finalizing")' <=> SomebodyAt("finalizing")) /\ (SomebodyAt("stopping")' <=> SomebodyAt("stopping")) /\ (WillFinish => WillFinish')
            BY <2>1, <2>3 DEF SomebodyAt, WillFinish
        <3> QED BY <2>2, <3>1 DEF FlightInv, Finalizes, FillStays
    <2>10. D!PublishedIsComplete'
        BY <2>2, <2>3 DEF FlightInv, D!PublishedIsComplete, FillStays, D!Holders
    <2> QED BY <2>4, <2>5, <2>6, <2>7, <2>8, <2>9, <2>10 DEF FlightInv
<1> QED BY <1>1, <1>2 DEF D!ProducerCopy

LEMMA CopiedKeeps ==
    ASSUME FlightInv, D!ProducerCopied
    PROVE  FlightInv'
<1>0. FlightTypes /\ fill \in FillType
    BY DEF FlightInv, FlightTypes
<1>1. PICK at \in {"written", "failed"}, then \in {"finishing", "invalidating"} :
        /\ D!Produce(at, then) /\ (then = "finishing" => at = "written" /\ fill' = [fill EXCEPT !.producerDone = TRUE])
        /\ then = "invalidating" => fill' = [fill EXCEPT !.producerDone = TRUE, !.producerErr = TRUE]
    BY DEF D!ProducerCopied
<1>2. producer' \in [pc : ProducerPlaces, readers : SUBSET Getters] /\ producer'.pc = then /\ producer.pc = at
    BY <1>0, <1>1, Produces DEF ProducerPlaces
<1>3. fill' \in FillType /\ FillStays /\ fill'.producerDone /\ fill'.active = fill.active
      /\ fill'.cancelled = fill.cancelled /\ fill'.written = fill.written
      /\ (fill'.producerErr \/ (at = "written" /\ fill'.producerErr = fill.producerErr))
      /\ (fill.producerErr => fill'.producerErr)
    BY <1>0, <1>1 DEF FillType, FillStays
<1>4. ~fill.producerDone /\ ~fill.bypass /\ (at = "written" => fill.written)
    BY <1>2 DEF FlightInv, Copies, Copying
<1>5. UNCHANGED <<getter, closer, shut, rootOpen, body>>
    BY DEF D!ProducerCopied
<1>6. FlightTypes' /\ RefsMatch'
    BY <1>0, <1>2, <1>3, <1>5 DEF FlightInv, FlightTypes, RefsMatch, D!Holders, FillStays
<1>7. Begins' /\ Cancels'
    BY <1>2, <1>3, <1>5 DEF FlightInv, Begins, Cancels, FillStays
<1>8. Copies'
    BY <1>2, <1>3, <1>4, <1>5 DEF FlightInv, Copies, FillStays, Opening, Bypassing, Copying, Copied
<1>9. FlightReads'
    BY <1>2, <1>3, <1>5 DEF FlightInv, FlightReads, FillStays, Asks
<1>10. Releases'
    BY <1>3, <1>4, <1>5 DEF FlightInv, Releases, FillStays
<1>11. Finalizes'
    <2>1. (SomebodyAt("finalizing")' <=> SomebodyAt("finalizing")) /\ (SomebodyAt("stopping")' <=> SomebodyAt("stopping")) /\ WillFinish'
        BY <1>2, <1>5 DEF SomebodyAt, WillFinish
    <2>2. ~fill.finalizing
        BY <1>4 DEF FlightInv, Finalizes
    <2> QED BY <1>3, <2>1, <2>2 DEF FlightInv, Finalizes, FillStays
<1>12. D!PublishedIsComplete'
    BY <1>4, <1>5 DEF FlightInv, D!PublishedIsComplete
<1> QED BY <1>6, <1>7, <1>8, <1>9, <1>10, <1>11, <1>12 DEF FlightInv

LEMMA ClosingReadersKeeps ==
    ASSUME IsFiniteSet(Getters), FlightInv, D!ProducerInvalidate \/ D!ProducerCloseReader \/ D!ProducerReadersClosed
    PROVE  FlightInv'
<1>0. FlightTypes
    BY DEF FlightInv
<1>1. CASE D!ProducerInvalidate
    <2>1. producer' \in [pc : ProducerPlaces, readers : SUBSET Getters] /\ producer'.pc = "closingReaders"
        BY <1>1 DEF D!ProducerInvalidate, D!FlightReaders, ProducerPlaces
    <2> QED BY <1>1, <2>1, ProducerMoves DEF D!ProducerInvalidate, Proceeds
<1>2. CASE D!ProducerCloseReader
    <2>1. PICK c \in producer.readers : getter[c].pc = "open" /\ D!Goto(c, "closing")
        BY <1>2 DEF D!ProducerCloseReader, D!CloseOf
    <2>2. c \in Getters
        BY <1>0 DEF FlightTypes
    <2> QED BY <1>2, <2>1, <2>2, CallerMoves DEF D!ProducerCloseReader, MovesOn
<1>3. CASE D!ProducerReadersClosed
    <2>1. producer' \in [pc : ProducerPlaces, readers : SUBSET Getters] /\ producer'.pc = "finishing"
          /\ producer.pc = "closingReaders"
        BY <1>0, <1>3, Produces DEF ProducerPlaces, D!ProducerReadersClosed
    <2> QED BY <1>3, <2>1, ProducerMoves DEF D!ProducerReadersClosed, Proceeds
<1> QED BY <1>1, <1>2, <1>3

-----------------------------------------------------------------------------
(* The producer returns, a mutation of the digest, and Close. *)

(* Of the fill only the marks that nothing here depends on change, and the    *)
(* context is cancelled, the bypass reader closed, only by Close.             *)
Marks ==
    /\ fill' \in FillType /\ fill'.refs = fill.refs /\ fill'.inFills = fill.inFills /\ fill'.active = fill.active
    /\ fill'.ready = fill.ready \/ (fill.ready = "no" /\ fill'.ready = "closed")
    /\ fill'.ownerActive = fill.ownerActive /\ (fill'.directReader => fill.directReader)
    /\ fill'.fullConsumed = fill.fullConsumed /\ fill'.producerDone = fill.producerDone
    /\ fill'.producerErr = fill.producerErr /\ fill'.bypass = fill.bypass
    /\ fill'.finalizing = fill.finalizing /\ fill'.publish = fill.publish
    /\ fill'.written = fill.written /\ fill'.temp = fill.temp
    /\ (fill'.cancelled = fill.cancelled /\ shut' = shut) \/ shut'

LEMMA MarksKeep ==
    ASSUME FlightInv, Marks, producer.pc # "none" \/ fill' = fill,
           producer' = producer \/ (producer.pc = "returning" /\ producer'.pc = "returned"),
           FlightTypes', shut => shut', ~rootOpen' => shut', UNCHANGED <<getter, body>>
    PROVE  FlightInv'
<1>1. RefsMatch' /\ D!PublishedIsComplete'
    BY DEF FlightInv, RefsMatch, D!PublishedIsComplete, D!Holders, Marks
<1>2. Begins'
    BY DEF FlightInv, Begins, Marks
<1>3. Copies'
    BY DEF FlightInv, Copies, Marks, Opening, Bypassing, Copying, Copied
<1>4. FlightReads'
    BY DEF FlightInv, FlightReads, Marks, Asks
<1>5. Cancels'
    BY DEF FlightInv, Cancels, Marks
<1>6. Releases'
    BY DEF FlightInv, Releases, Marks
<1>7. Finalizes'
    <2>1. (SomebodyAt("finalizing")' <=> SomebodyAt("finalizing")) /\ (SomebodyAt("stopping")' <=> SomebodyAt("stopping")) /\ (WillFinish => WillFinish')
        BY DEF SomebodyAt, WillFinish
    <2> QED BY <2>1 DEF FlightInv, Finalizes, Marks
<1> QED BY <1>1, <1>2, <1>3, <1>4, <1>5, <1>6, <1>7 DEF FlightInv

LEMMA ProducerReturnKeeps ==
    ASSUME FlightInv, D!ProducerReturn
    PROVE  FlightInv'
<1>0. FlightTypes /\ fill \in FillType
    BY DEF FlightInv, FlightTypes
<1>1. producer' \in [pc : ProducerPlaces, readers : SUBSET Getters] /\ producer'.pc = "returned"
      /\ producer.pc = "returning"
    BY <1>0, Produces DEF ProducerPlaces, D!ProducerReturn
<1>2. Marks
    BY <1>0 DEF D!ProducerReturn, FillType, Marks
<1>3. FlightTypes'
    BY <1>0, <1>1, <1>2 DEF FlightTypes, Marks, D!ProducerReturn
<1>4. ~rootOpen' => shut'
    BY DEF FlightInv, Copies, D!ProducerReturn
<1> QED BY <1>1, <1>2, <1>3, <1>4, MarksKeep DEF D!ProducerReturn

LEMMA InvalidateKeeps ==
    ASSUME FlightInv, D!Invalidate
    PROVE  FlightInv'
<1>0. FlightTypes /\ fill \in FillType
    BY DEF FlightInv, FlightTypes
<1>1. producer.pc # "none"
    BY DEF FlightInv, Begins, D!NewFill, D!Invalidate
<1>2. Marks
    BY <1>0 DEF D!Invalidate, FillType, Marks
<1>3. FlightTypes'
    BY <1>0, <1>2 DEF FlightTypes, Marks, D!Invalidate
<1>4. ~rootOpen' => shut'
    BY DEF FlightInv, Copies, D!Invalidate
<1> QED BY <1>1, <1>2, <1>3, <1>4, MarksKeep DEF D!Invalidate

LEMMA MarkClosedKeeps ==
    ASSUME FlightInv, D!MarkClosed
    PROVE  FlightInv'
<1>0. FlightTypes /\ fill \in FillType
    BY DEF FlightInv, FlightTypes
<1>1. producer.pc # "none" \/ fill' = fill
    BY DEF FlightInv, Begins, D!NewFill, D!MarkClosed
<1>2. Marks
    <2>1. CASE fill' = fill
        BY <1>0, <2>1 DEF Marks, D!MarkClosed
    <2>2. CASE fill' = [fill EXCEPT !.invalid = TRUE, !.cancelled = TRUE, !.ready = IF @ = "no" THEN "closed" ELSE @]
        <3>1. PICK y \in {"no", "ok", "unavailable", "error", "closed"} :
                fill' = [fill EXCEPT !.invalid = TRUE, !.cancelled = TRUE, !.ready = y]
                /\ (y = fill.ready \/ (fill.ready = "no" /\ y = "closed"))
            BY <1>0, <2>2 DEF FillType
        <3>2. fill' \in FillType
            BY <1>0, <3>1 DEF FillType
        <3> QED BY <1>0, <3>1, <3>2 DEF FillType, Marks, D!MarkClosed
    <2> QED BY <2>1, <2>2 DEF D!MarkClosed
<1>3. closer' \in [pc : {"idle", "fills", "readers", "closed"}, waits : BOOLEAN, readers : SUBSET Getters]
    BY <1>0 DEF D!MarkClosed, D!FlightReaders, FillType
<1>4. FlightTypes'
    BY <1>0, <1>2, <1>3 DEF FlightTypes, Marks, D!MarkClosed
<1> QED BY <1>1, <1>2, <1>4, MarksKeep DEF D!MarkClosed

(* Close has marked the cache closed, and waits only for a fill there is. *)
CloserWaits == closer.pc # "idle" => shut /\ (closer.waits => producer.pc # "none")

LEMMA CloserKeeps ==
    ASSUME IsFiniteSet(Getters), FlightInv, CloserWaits, D!CloseActiveFill \/ D!CloserCloseReader \/ D!CloseCacheRoot
    PROVE  FlightInv'
<1>0. FlightTypes /\ fill \in FillType
    BY DEF FlightInv, FlightTypes
<1>00. shut /\ (closer.waits => producer.pc # "none")
    BY DEF CloserWaits, D!CloseActiveFill, D!CloserCloseReader, D!CloseCacheRoot
<1>1. CASE D!CloseActiveFill
    <2>1. Marks
        BY <1>0, <1>00, <1>1 DEF D!CloseActiveFill, FillType, Marks
    <2>2. FlightTypes'
        BY <1>0, <1>1, <2>1 DEF FlightTypes, Marks, D!CloseActiveFill
    <2> QED BY <1>00, <1>1, <2>1, <2>2, MarksKeep DEF D!CloseActiveFill
<1>2. CASE D!CloserCloseReader
    <2>1. PICK c \in closer.readers : getter[c].pc = "open" /\ D!Goto(c, "closing")
        BY <1>2 DEF D!CloserCloseReader, D!CloseOf
    <2>2. c \in Getters
        BY <1>0 DEF FlightTypes
    <2> QED BY <1>2, <2>1, <2>2, CallerMoves DEF D!CloserCloseReader, MovesOn
<1>3. CASE D!CloseCacheRoot
    <2>1. Marks
        BY <1>0, <1>00, <1>3 DEF D!CloseCacheRoot, Marks
    <2>2. FlightTypes'
        BY <1>0, <1>3 DEF FlightTypes, D!CloseCacheRoot
    <2> QED BY <1>00, <1>3, <2>1, <2>2, MarksKeep DEF D!CloseCacheRoot
<1> QED BY <1>1, <1>2, <1>3
LEMMA ClosingKept ==
    ASSUME FlightInv, CloserWaits, D!Next
    PROVE  CloserWaits'
<1>0. FlightTypes
    BY DEF FlightInv
<1>1. CASE D!MarkClosed
    BY <1>1 DEF D!MarkClosed, FlightInv, Begins, D!NewFill, CloserWaits
<1>2. CASE D!CloseActiveFill \/ D!CloserCloseReader \/ D!CloseCacheRoot
    BY <1>0, <1>2 DEF D!CloseActiveFill, D!CloserCloseReader, D!CloseCacheRoot, CloserWaits, FlightTypes
<1>3. CASE UNCHANGED <<closer, shut, producer>>
    BY <1>3 DEF CloserWaits
<1>4. CASE UNCHANGED <<closer, shut>> /\ producer'.pc # "none"
    BY <1>4 DEF CloserWaits
<1>5. ASSUME NEW c \in Getters, D!CallerStep(c) PROVE CloserWaits'
    <2>1. CASE D!JoinLeader(c)
        BY <1>0, <1>4, <2>1 DEF D!JoinLeader, FlightTypes
    <2>2. CASE D!JoinFollower(c) \/ D!JoinRefused(c) \/ D!AwaitCancelled(c) \/ D!TakeReader(c) \/ D!RegisterReader(c)
        BY <1>3, <2>2 DEF D!JoinFollower, D!JoinRefused, D!AwaitCancelled, D!TakeReader, D!RegisterReader
    <2>3. CASE D!ReadFull(c) \/ D!BeginClose(c) \/ D!RecordRelease(c) \/ D!FinishRelease(c) \/ D!Drained(c)
        BY <1>3, <2>3 DEF D!ReadFull, D!BeginClose, D!RecordRelease, D!FinishRelease, D!Drained
    <2> QED BY <1>5, <2>1, <2>2, <2>3 DEF D!CallerStep
<1>6. ASSUME NEW then, then # "none",
             producer' = producer \/ producer' = [producer EXCEPT !.pc = then], UNCHANGED <<closer, shut>>
      PROVE  CloserWaits'
    BY <1>0, <1>6 DEF CloserWaits, FlightTypes
<1>7. CASE D!FinishStep
    <2>1. UNCHANGED <<closer, shut>>
        BY <1>7 DEF D!FinishStep, D!FinishSkipped, D!BeginFinalize, D!Publish, D!Abort, D!StopFlight
    <2>2. \/ producer' = producer \/ producer' = [producer EXCEPT !.pc = "returning"]
          \/ producer' = [producer EXCEPT !.pc = "finalizing"] \/ producer' = [producer EXCEPT !.pc = "stopping"]
        BY <1>7 DEF D!FinishStep, D!FinishSkipped, D!BeginFinalize, D!Publish, D!Abort, D!StopFlight, D!Actor, D!ActorDone
    <2> QED BY <1>6, <2>1, <2>2
<1>8. CASE D!ProducerWait \/ D!ProducerStep
    <2>1. UNCHANGED <<closer, shut>>
        BY <1>8 DEF D!ProducerWait, D!ProducerStep, D!ProducerGet, D!ProducerCopy, D!ProducerCheck, D!ProducerPrepare,
           D!ProducerPrepareError, D!ProducerOpenError, D!ProducerBypass, D!ProducerBypassed, D!ProducerCopied,
           D!ProducerInvalidate, D!ProducerCloseReader, D!ProducerReadersClosed, D!ProducerReturn
    <2>2. CASE D!ProducerInvalidate
        BY <1>4, <2>1, <2>2 DEF D!ProducerInvalidate
    <2>3. CASE ~D!ProducerInvalidate
        <3>1. \/ producer' = producer
              \/ \E then \in ProducerPlaces \ {"none"} : producer' = [producer EXCEPT !.pc = then]
            <4>1. CASE D!ProducerGet \/ D!ProducerCopy \/ D!ProducerCheck \/ D!ProducerPrepare \/ D!ProducerPrepareError
                BY <4>1 DEF D!ProducerGet, D!ProducerCopy, D!ProducerCheck, D!ProducerPrepare, D!ProducerPrepareError,
                   D!Produce, ProducerPlaces
            <4>2. CASE D!ProducerOpenError \/ D!ProducerBypass \/ D!ProducerBypassed
                BY <4>2 DEF D!ProducerOpenError, D!ProducerBypass, D!ProducerBypassed, D!Produce, ProducerPlaces
            <4>3. CASE D!ProducerCopied \/ D!ProducerCloseReader \/ D!ProducerReadersClosed \/ D!ProducerReturn
                BY <4>3 DEF D!ProducerCopied, D!ProducerCloseReader, D!ProducerReadersClosed, D!ProducerReturn,
                   D!Produce, ProducerPlaces
            <4> QED BY <1>8, <2>3, <4>1, <4>2, <4>3 DEF D!ProducerWait, D!ProducerStep
        <3> QED BY <1>6, <2>1, <3>1
    <2> QED BY <2>2, <2>3
<1>9. CASE D!Invalidate \/ D!Terminated
    BY <1>3, <1>9 DEF D!Invalidate, D!Terminated, D!vars
<1> QED BY <1>1, <1>2, <1>5, <1>7, <1>8, <1>9 DEF D!Next, D!CloserStep

LEMMA FlightUnchanged ==
    ASSUME FlightInv, CloserWaits, UNCHANGED D!vars
    PROVE  FlightInv' /\ CloserWaits'
<1>1. FlightTypes' /\ RefsMatch' /\ Begins' /\ Copies' /\ CloserWaits'
    BY DEF D!vars, FlightInv, FlightTypes, RefsMatch, Begins, Copies, CloserWaits, D!Holders
<1>2. FlightReads' /\ Cancels' /\ Releases' /\ Finalizes' /\ D!PublishedIsComplete'
    BY DEF D!vars, FlightInv, FlightReads, Cancels, Releases, Finalizes, D!PublishedIsComplete, D!Holders, Asks, SomebodyAt, WillFinish
<1> QED BY <1>1, <1>2 DEF FlightInv

-----------------------------------------------------------------------------
LEMMA FlightInitial ==
    ASSUME IsFiniteSet(Getters), D!Init
    PROVE  FlightInv /\ CloserWaits
<1>1. D!NewFill \in FillType /\ D!NewCaller \in CallerType
    <2>1. D!NoRelease \in ReleaseType
        BY DEF D!NoRelease, ReleaseType
    <2>2. D!NewCaller \in CallerType
        BY <2>1 DEF D!NewCaller, CallerType, CallerPlaces
    <2>3. D!NewFill \in FillType
        BY DEF D!NewFill, FillType
    <2> QED BY <2>2, <2>3
<1>2. FlightTypes
    BY <1>1 DEF D!Init, FlightTypes, ProducerPlaces
<1>3. \A c \in Getters : getter[c].pc = "idle" /\ ~getter[c].leader /\ ~getter[c].direct /\ ~getter[c].full
    BY DEF D!Init, D!NewCaller
<1>4. /\ fill.refs = 0 /\ ~fill.producerDone /\ ~fill.bypass /\ ~fill.producerErr /\ fill.temp = "none"
      /\ ~fill.written /\ ~fill.fullConsumed /\ ~fill.directReader /\ ~fill.ownerActive /\ ~fill.cancelled
      /\ ~fill.finalizing /\ ~fill.publish
    BY DEF D!Init, D!NewFill
<1>5. RefsMatch
    <2>1. D!Holders = {}
        BY <1>3 DEF D!Holders, D!Holding
    <2> QED BY <1>4, <2>1, FS_EmptySet DEF RefsMatch
<1>6. Begins
    BY <1>3 DEF D!Init, Begins
<1>7. Copies
    BY <1>4 DEF D!Init, Copies, Opening, Bypassing, Copying, Copied
<1>8. FlightReads
    BY <1>3, <1>4 DEF D!Init, FlightReads
<1>9. Cancels /\ Releases
    BY <1>3, <1>4 DEF Cancels, Releases
<1>10. Finalizes
    BY <1>3, <1>4 DEF D!Init, Finalizes, SomebodyAt
<1>11. D!PublishedIsComplete /\ CloserWaits
    BY DEF D!Init, D!PublishedIsComplete, CloserWaits
<1> QED BY <1>2, <1>5, <1>6, <1>7, <1>8, <1>9, <1>10, <1>11 DEF FlightInv

LEMMA FlightNext ==
    ASSUME IsFiniteSet(Getters), FlightInv, CloserWaits, D!Next
    PROVE  FlightInv'
<1>1. ASSUME NEW c \in Getters, D!CallerStep(c) PROVE FlightInv'
    BY <1>1, JoinLeaderKeeps, JoinFollowerKeeps, QuietCalls, TakeReaderKeeps, ReadFullKeeps,
       RecordReleaseKeeps, FinishReleaseKeeps DEF D!CallerStep
<1>2. CASE D!FinishStep
    BY <1>2, FinishSkippedKeeps, BeginFinalizeKeeps, EndFillKeeps, StopFlightKeeps DEF D!FinishStep
<1>3. CASE D!ProducerWait \/ D!ProducerStep
    BY <1>3, OpeningKeeps, ProducerPrepareKeeps, OpenErrorKeeps, BypassKeeps, BypassedKeeps, CopyKeeps,
       CopiedKeeps, ClosingReadersKeeps, ProducerReturnKeeps DEF D!ProducerWait, D!ProducerStep
<1>4. CASE D!Invalidate \/ D!CloserStep
    BY <1>4, InvalidateKeeps, MarkClosedKeeps, CloserKeeps DEF D!CloserStep
<1>5. CASE D!Terminated
    BY <1>5, FlightUnchanged DEF D!Terminated
<1> QED BY <1>1, <1>2, <1>3, <1>4, <1>5 DEF D!Next

\* For any number of callers, every state of a shared fill is one the reference count, the
\* producer's place and the captured releases explain.
THEOREM FlightInvHolds ==
    ASSUME IsFiniteSet(Getters)
    PROVE  D!Spec => [](FlightInv /\ CloserWaits)
<1>1. FlightInv /\ CloserWaits /\ [D!Next]_D!vars => (FlightInv /\ CloserWaits)'
    <2>1. ASSUME FlightInv, CloserWaits, UNCHANGED D!vars PROVE FlightInv' /\ CloserWaits'
        BY <2>1, FlightUnchanged
    <2> QED BY <2>1, FlightNext, ClosingKept
<1> QED BY <1>1, FlightInitial, PTL DEF D!Spec

\* A call that leaves never cancels the fill under another that reads; references are
\* exactly the calls that hold the fill; what is published was copied, verified and read to
\* the end; and when all have returned nothing of the fill is left, whoever closed its
\* readers first and wherever Close came in between.
THEOREM FlightsStaySound ==
    ASSUME IsFiniteSet(Getters)
    PROVE  D!Spec => []FlightsSound
<1>1. ASSUME FlightInv PROVE D!FlightsSound
    <2>1. D!ReadersUndisturbed
        <3>1. \A c \in Getters : getter[c].pc = "open" => getter[c].pc \in D!Holding
            BY DEF D!Holding
        <3>2. fill.refs = 0 => D!FlightReaders = {}
            BY <1>1, <3>1, NobodyHolds DEF FlightInv, D!FlightReaders
        <3> QED BY <1>1, <3>2 DEF FlightInv, Cancels, D!ReadersUndisturbed, D!FlightReaders
    <2>2. D!NothingLeftBehind
        <3> SUFFICES ASSUME D!Quiescent
                     PROVE  /\ ~fill.inFills /\ fill.temp # "file" /\ (fill.temp = "none" \/ shut)
                            /\ ~fill.directReader /\ (fill.active => fill.bypass)
            BY DEF D!NothingLeftBehind
        <3>1. CASE producer.pc = "none"
            BY <1>1, <3>1 DEF FlightInv, Begins, D!NewFill
        <3>2. CASE producer.pc = "returned"
            <4>1. fill.producerDone
                BY <1>1, <3>2 DEF FlightInv, Copies
            <4>2. ~SomebodyAt("finalizing") /\ ~SomebodyAt("stopping") /\ ~WillFinish
                BY <3>2 DEF SomebodyAt, WillFinish, D!Quiescent
            <4>3. fill.refs = 0
                <5>1. D!Holders = {}
                    BY DEF D!Holders, D!Holding, D!Quiescent
                <5> QED BY <1>1, <5>1, FS_EmptySet DEF FlightInv, RefsMatch
            <4>4. ~fill.inFills /\ fill.temp # "file" /\ (fill.active => fill.bypass)
                <5>1. CASE fill.bypass
                    BY <1>1, <5>1 DEF FlightInv, Copies
                <5>2. CASE ~fill.bypass
                    BY <1>1, <4>1, <4>2, <4>3, <5>2 DEF FlightInv, Finalizes
                <5> QED BY <5>1, <5>2
            <4>5. ~fill.directReader
                BY <1>1 DEF FlightInv, FlightReads, Copies, D!Quiescent, Asks
            <4>6. fill.temp = "none" \/ shut
                BY <1>1, <4>4 DEF FlightInv, Copies, FlightTypes, FillType
            <4> QED BY <4>4, <4>5, <4>6
        <3> QED BY <3>1, <3>2 DEF D!Quiescent
    <2>3. D!RefsExact
        <3>1. D!Cardinality(D!Holders) = Cardinality(D!Holders) BY DEF D!Cardinality, Cardinality
        <3> QED BY <1>1, <3>1 DEF FlightInv, RefsMatch, D!RefsExact
    <2> QED BY <1>1, <2>1, <2>2, <2>3 DEF FlightInv, D!FlightsSound
<1>2. FlightInv => FlightsSound BY <1>1 DEF FlightsSound
<1> QED BY <1>2, FlightInvHolds, PTL
=============================================================================
