--------------------------- MODULE UpstreamProofs ---------------------------
(* Theorems about the container upstream.  First the blob requests, for every *)
(* number of requests, endpoints, slots and attempts, every policy and every  *)
(* way the endpoints may fail: how the endpoints are ranked plays no part,    *)
(* that a list names each candidate once does.  Then, from HealthType on, the *)
(* health records of an endpoint (EndpointHealth, instantiated as H), and     *)
(* from CallType on the calls of Client.do (UpstreamRequest, as R).           *)
EXTENDS Upstream, FiniteSetTheorems, TLAPS

Phases == {"idle", "wait", "read", "abort", "done"}
States == {"none", "slot", "call", "got", "sent", "seen"}
Outcomes == {"none", "ok", "unselected", "failed", "fatal", "mismatch", "allowlist"}
MaybeEndpoint == Endpoints \cup {None}
RequestType == [phase : Phases, ctx : {"live", "cancelled"}, order : Seq(Endpoints), next : Nat,
                held : SUBSET Endpoints, selected : MaybeEndpoint, aborted : BOOLEAN, winner : MaybeEndpoint]
AttemptType == [st : States, out : Outcomes, body : {"none", "open", "closed"}, cancelled : BOOLEAN]

TypeOK ==
    /\ req \in [Requests -> RequestType]
    /\ att \in [Requests -> [Endpoints -> AttemptType]]
    /\ inflight \in [Endpoints -> Int] /\ slots \in [Endpoints -> Int] /\ layer \in [Endpoints -> Int]

(* A request that has not selected has nothing; a reservation is held only    *)
(* until the runner gives up or the body is closed.                           *)
Begins(q, a) ==
    /\ q.phase = "idle" => /\ q.selected = None /\ ~q.aborted /\ q.winner = None
                           /\ \A e \in Endpoints : a[e] = NewAttempt
    /\ q.held # {} => q.phase \in {"wait", "read"}
    /\ q.aborted => q.phase = "done"

(* Of the list, which names no endpoint twice, the first next were started.   *)
Runs(q, a) ==
    /\ IsInjective(q.order)
    /\ \A i \in DOMAIN q.order : a[q.order[i]].st = "none" <=> i > q.next

(* While the runner waits nothing is cancelled, every result has an outcome,  *)
(* a result that was dropped lost to a selected one, a denial came from a     *)
(* public mirror, and the selected one is still to be taken.                  *)
MayDeny(e) == Public /\ Mirror(e)
Waits(r, q, a) ==
    q.phase = "wait" =>
        /\ q.winner = None
        /\ \A e \in Endpoints :
              /\ ~a[e].cancelled
              /\ a[e].st = "sent" => a[e].out # "none"
              /\ a[e].st = "sent" /\ a[e].out = "unselected" => q.selected # None
              /\ a[e].st = "sent" /\ a[e].out = "allowlist" => MayDeny(e)
              /\ a[e].st = "sent" /\ a[e].out = "ok" /\ r \notin Consumers => q.selected = e
              /\ a[e].st = "seen" => a[e].out \in {"failed", "mismatch", "allowlist"} \/ q.selected # None
        /\ q.selected # None => a[q.selected].st = "sent" /\ a[q.selected].out = "ok"

(* One body of a request may be open beside those of answers not yet taken. *)
Bodies(r, q, a) ==
    /\ r \in Consumers => q.selected = None
    /\ \A e \in Endpoints : /\ a[e].body = "open" => a[e].st = "got" \/ q.selected = e
                            /\ a[e].st = "got" => a[e].body = "open"
    /\ q.selected # None => a[q.selected].st \in {"sent", "seen"}
    /\ q.selected # None /\ q.phase \in {"wait", "read"} => a[q.selected].body = "open"
    /\ q.phase = "read" => /\ q.winner # None /\ q.selected = q.winner
                           /\ a[q.winner].st = "seen" /\ ~a[q.winner].cancelled

(* FailsOnlyWhenAllFailed, of one request. *)
FailsFairly(q, a) ==
    q.phase \in {"abort", "done"} /\ q.winner = None /\ q.ctx = "live" =>
        \/ \E e \in Endpoints : a[e].st = "seen" /\ a[e].out = "fatal"
        \/ \A i \in DOMAIN q.order :
               a[q.order[i]].st = "seen" /\ a[q.order[i]].out \in {"failed", "mismatch", "allowlist"}

Sound(r, q, a) == Begins(q, a) /\ Runs(q, a) /\ Waits(r, q, a) /\ Bodies(r, q, a) /\ FailsFairly(q, a)

(* Who holds a slot, an in-flight count and a reservation of an endpoint. *)
HasSlot(a) == a.st \in {"call", "got"}
IsCounted(a) == a.st \in {"slot", "call", "got"}
Reserves(q, e) == e \in q.held /\ q.phase \in {"wait", "read"}
Slotted(e) == {r \in Requests : HasSlot(att[r][e])}
Flying(e) == {r \in Requests : IsCounted(att[r][e])}
Reserving(e) == {r \in Requests : Reserves(req[r], e)}

Counts ==
    \A e \in Endpoints :
        /\ slots[e] <= BlobLimit /\ slots[e] = Cardinality(Slotted(e))
        /\ inflight[e] = Cardinality(Flying(e))
        /\ layer[e] = Cardinality(Reserving(e))

Inv == TypeOK /\ Counts /\ \A r \in Requests : Sound(r, req[r], att[r])
-----------------------------------------------------------------------------
LEMMA NoneIsNone == None \notin Endpoints /\ Endpoints \subseteq Nat
BY UpstreamAssumption, FS_CardinalityType DEF None

(* A set that changes by at most one element. *)
LEMMA CountStep ==
    ASSUME NEW A, NEW B, IsFiniteSet(A), NEW r, A \ {r} = B \ {r}
    PROVE  Cardinality(B) = Cardinality(A) + Worse(r \in B) - Worse(r \in A)
<1>0. Cardinality(A) \in Int
    BY FS_CardinalityType
<1>1. CASE r \in A /\ r \in B
    <2>1. A = B
        BY <1>1
    <2> QED BY <1>0, <1>1, <2>1 DEF Worse
<1>2. CASE r \in A /\ r \notin B
    <2>1. B = A \ {r}
        BY <1>2
    <2> QED BY <1>0, <1>2, <2>1, FS_RemoveElement DEF Worse
<1>3. CASE r \notin A /\ r \in B
    <2>1. B = A \cup {r}
        BY <1>3
    <2> QED BY <1>0, <1>3, <2>1, FS_AddElement DEF Worse
<1>4. CASE r \notin A /\ r \notin B
    <2>1. A = B
        BY <1>4
    <2> QED BY <1>0, <1>4, <2>1 DEF Worse
<1> QED BY <1>1, <1>2, <1>3, <1>4

LEMMA CountedFinite ==
    ASSUME NEW e \in Endpoints
    PROVE  IsFiniteSet(Slotted(e)) /\ IsFiniteSet(Flying(e)) /\ IsFiniteSet(Reserving(e))
BY UpstreamAssumption, FS_Subset DEF Slotted, Flying, Reserving

(* The counters of each endpoint follow what the request holds there.         *)
Follow(r, q, a) ==
    /\ slots' \in [Endpoints -> Int] /\ inflight' \in [Endpoints -> Int] /\ layer' \in [Endpoints -> Int]
    /\ \A e \in Endpoints :
           /\ slots'[e] <= BlobLimit
           /\ slots'[e] = slots[e] + Worse(HasSlot(a[e])) - Worse(HasSlot(att[r][e]))
           /\ inflight'[e] = inflight[e] + Worse(IsCounted(a[e])) - Worse(IsCounted(att[r][e]))
           /\ layer'[e] = layer[e] + Worse(Reserves(q, e)) - Worse(Reserves(req[r], e))

(* The step of one request, its runner or one of its attempts.               *)
LEMMA Moves ==
    ASSUME Inv, NEW r \in Requests, NEW q \in RequestType, NEW a \in [Endpoints -> AttemptType],
           req' = [req EXCEPT ![r] = q], att' = [att EXCEPT ![r] = a], Sound(r, q, a),
           Follow(r, q, a)
    PROVE  Inv'
<1>1. TypeOK'
    BY DEF Inv, TypeOK, Follow
<1>2. /\ req'[r] = q /\ att'[r] = a
      /\ \A p \in Requests \ {r} : req'[p] = req[p] /\ att'[p] = att[p]
    BY DEF Inv, TypeOK
<1>3. \A p \in Requests : Sound(p, req[p], att[p])'
    BY <1>2 DEF Inv
<1>4. ASSUME NEW e \in Endpoints
      PROVE  /\ slots'[e] = Cardinality(Slotted(e)')
             /\ inflight'[e] = Cardinality(Flying(e)')
             /\ layer'[e] = Cardinality(Reserving(e)')
    <2>1. /\ Slotted(e)' \ {r} = Slotted(e) \ {r} /\ (r \in Slotted(e)' <=> HasSlot(a[e]))
          /\ r \in Slotted(e) <=> HasSlot(att[r][e])
        BY <1>2 DEF Slotted
    <2>2. /\ Flying(e)' \ {r} = Flying(e) \ {r} /\ (r \in Flying(e)' <=> IsCounted(a[e]))
          /\ r \in Flying(e) <=> IsCounted(att[r][e])
        BY <1>2 DEF Flying
    <2>3. /\ Reserving(e)' \ {r} = Reserving(e) \ {r} /\ (r \in Reserving(e)' <=> Reserves(q, e))
          /\ r \in Reserving(e) <=> Reserves(req[r], e)
        BY <1>2 DEF Reserving
    <2>4. slots'[e] = Cardinality(Slotted(e)')
        BY <2>1, CountedFinite, CountStep DEF Inv, Counts, Worse, Follow
    <2>5. inflight'[e] = Cardinality(Flying(e)')
        BY <2>2, CountedFinite, CountStep DEF Inv, Counts, Worse, Follow
    <2>6. layer'[e] = Cardinality(Reserving(e)')
        BY <2>3, CountedFinite, CountStep DEF Inv, Counts, Worse, Follow
    <2> QED BY <2>4, <2>5, <2>6
<1>5. Counts'
    BY <1>4 DEF Counts, Follow
<1> QED BY <1>1, <1>3, <1>5 DEF Inv

LEMMA Facts ==
    ASSUME Inv, NEW r \in Requests
    PROVE  /\ req \in [Requests -> RequestType] /\ req[r] \in RequestType
           /\ att \in [Requests -> [Endpoints -> AttemptType]] /\ att[r] \in [Endpoints -> AttemptType]
           /\ slots \in [Endpoints -> Int] /\ inflight \in [Endpoints -> Int] /\ layer \in [Endpoints -> Int]
           /\ Sound(r, req[r], att[r])
           /\ \A e \in Endpoints : slots[e] <= BlobLimit
BY DEF Inv, TypeOK, Counts

-----------------------------------------------------------------------------
(* One attempt. *)

(* An attempt on its way: its endpoint is neither seen nor selected. *)
LEMMA AttemptSound ==
    ASSUME NEW r \in Requests, NEW q \in RequestType, NEW a \in [Endpoints -> AttemptType], Sound(r, q, a),
           NEW e \in Endpoints, NEW x \in AttemptType,
           a[e].st \in {"slot", "call", "got"}, x.st \in {"call", "got", "sent"}, x.cancelled = a[e].cancelled,
           x.body = "open" <=> x.st = "got",
           q.phase = "wait" /\ x.st = "sent" =>
               /\ x.out # "none"
               /\ x.out = "ok" => r \in Consumers
               /\ x.out = "unselected" => q.selected # None
               /\ x.out = "allowlist" => MayDeny(e)
    PROVE  Sound(r, q, [a EXCEPT ![e] = x])
<1> DEFINE b == [a EXCEPT ![e] = x]
<1>1. b[e] = x /\ \A d \in Endpoints : d # e => b[d] = a[d]
    OBVIOUS
<1>2. q.order \in Seq(Endpoints) /\ \A i \in DOMAIN q.order : q.order[i] \in Endpoints
    BY DEF RequestType
<1>3. q.phase # "idle" /\ q.selected # e /\ q.selected \in MaybeEndpoint /\ q.winner \in MaybeEndpoint
    BY NoneIsNone DEF Sound, Begins, Bodies, NewAttempt, RequestType
<1> HIDE DEF b
<1>4. Begins(q, b)
    BY <1>3 DEF Sound, Begins
<1>5. Runs(q, b)
    BY <1>1, <1>2 DEF Sound, Runs
<1>6. Waits(r, q, b)
    BY <1>1, <1>3 DEF Sound, Waits, MaybeEndpoint
<1>7. Bodies(r, q, b)
    BY <1>1, <1>3 DEF Sound, Bodies, MaybeEndpoint
<1>8. FailsFairly(q, b)
    BY <1>1, <1>2 DEF Sound, FailsFairly
<1>9. Sound(r, q, b)
    BY <1>4, <1>5, <1>6, <1>7, <1>8 DEF Sound
<1> QED BY <1>9 DEF b

(* The step of one attempt that changes the counters of its endpoint. *)
LEMMA AttemptMoves ==
    ASSUME Inv, NEW r \in Requests, NEW e \in Endpoints, NEW x \in AttemptType, NEW q \in RequestType,
           att' = [att EXCEPT ![r] = [att[r] EXCEPT ![e] = x]], req' = [req EXCEPT ![r] = q],
           q.held = req[r].held, q.phase = req[r].phase,
           Sound(r, q, [att[r] EXCEPT ![e] = x]), UNCHANGED layer,
           NEW s \in Int, NEW n \in Int, slots' = [slots EXCEPT ![e] = s], inflight' = [inflight EXCEPT ![e] = n],
           s <= BlobLimit, s = slots[e] + Worse(HasSlot(x)) - Worse(HasSlot(att[r][e])),
           n = inflight[e] + Worse(IsCounted(x)) - Worse(IsCounted(att[r][e]))
    PROVE  Inv'
<1>0. PICK a \in [Endpoints -> AttemptType] : a = [att[r] EXCEPT ![e] = x]
    BY Facts
<1>1. a[e] = x /\ \A d \in Endpoints : d # e => a[d] = att[r][d]
    BY <1>0, Facts
<1>2. slots' \in [Endpoints -> Int] /\ inflight' \in [Endpoints -> Int] /\ layer' \in [Endpoints -> Int]
    BY Facts
<1>3. ASSUME NEW d \in Endpoints
      PROVE  /\ slots'[d] <= BlobLimit
             /\ slots'[d] = slots[d] + Worse(HasSlot(a[d])) - Worse(HasSlot(att[r][d]))
             /\ inflight'[d] = inflight[d] + Worse(IsCounted(a[d])) - Worse(IsCounted(att[r][d]))
             /\ layer'[d] = layer[d] + Worse(Reserves(q, d)) - Worse(Reserves(req[r], d))
    <2>1. CASE d = e
        BY <1>1, <2>1, Facts DEF Worse, Reserves
    <2>2. CASE d # e
        BY <1>1, <2>2, Facts DEF Worse, Reserves
    <2> QED BY <2>1, <2>2
<1>4. att' = [att EXCEPT ![r] = a] /\ Sound(r, q, a)
    BY <1>0
<1>5. Follow(r, q, a)
    BY <1>2, <1>3 DEF Follow
<1> QED BY <1>4, <1>5, Moves

(* An attempt that has no answer yet has no body. *)
LEMMA NothingOpen ==
    ASSUME Inv, NEW r \in Requests, NEW e \in Endpoints
    PROVE  att[r][e].body = "open" /\ att[r][e].st \in {"slot", "call", "got"} => att[r][e].st = "got"
<1>1. Bodies(r, req[r], att[r])
    BY DEF Inv, Sound
<1> QED BY <1>1, NoneIsNone DEF Bodies

(* An attempt that stays on its way or ends, and leaves the request alone. *)
LEMMA AttemptStep ==
    ASSUME Inv, NEW r \in Requests, NEW e \in Endpoints, NEW x \in AttemptType,
           att' = [att EXCEPT ![r] = [att[r] EXCEPT ![e] = x]], UNCHANGED <<req, layer>>,
           att[r][e].st \in {"slot", "call", "got"}, x.st \in {"call", "got", "sent"},
           x.cancelled = att[r][e].cancelled,
           x.body = "open" => x.st = "got" \/ x.body = att[r][e].body,
           x.st = "got" => x.body = "open",
           req[r].phase = "wait" /\ x.st = "sent" =>
               /\ x.out # "none"
               /\ x.out = "ok" => r \in Consumers
               /\ x.out = "unselected" => req[r].selected # None
               /\ x.out = "allowlist" => MayDeny(e),
           att[r][e].st = "got" => x.body # "open",
           NEW s \in Int, NEW n \in Int, slots' = [slots EXCEPT ![e] = s], inflight' = [inflight EXCEPT ![e] = n],
           s <= BlobLimit, s = slots[e] + Worse(HasSlot(x)) - Worse(HasSlot(att[r][e])),
           n = inflight[e] + Worse(IsCounted(x)) - Worse(IsCounted(att[r][e]))
    PROVE  Inv'
<1>1. att[r][e].body = "open" => att[r][e].st = "got"
    BY NothingOpen
<1>2. PICK a \in [Endpoints -> AttemptType] : a = att[r]
    BY Facts
<1>3. PICK q \in RequestType : q = req[r]
    BY Facts
<1>4. Sound(r, q, a)
    BY <1>2, <1>3, Facts
<1>5. Sound(r, q, [a EXCEPT ![e] = x])
    BY <1>1, <1>2, <1>3, <1>4, AttemptSound
<1>6. req' = [req EXCEPT ![r] = q] /\ Sound(r, q, [att[r] EXCEPT ![e] = x])
    BY <1>2, <1>3, <1>5, Facts
<1> QED BY <1>3, <1>6, AttemptMoves

(* The counters after an attempt's step. *)
LEMMA Counters ==
    ASSUME Inv, NEW e \in Endpoints, NEW r \in Requests
    PROVE  /\ slots[e] \in Int /\ inflight[e] \in Int /\ slots[e] - 1 \in Int /\ inflight[e] - 1 \in Int
           /\ slots[e] <= BlobLimit /\ slots[e] - 1 <= BlobLimit
           /\ slots = [slots EXCEPT ![e] = slots[e]] /\ inflight = [inflight EXCEPT ![e] = inflight[e]]
BY Facts, UpstreamAssumption

LEMMA AcquireRuntimeKeeps ==
    ASSUME Inv, NEW r \in Requests, NEW e \in Endpoints, AcquireRuntime(r, e)
    PROVE  Inv'
<1> DEFINE x == [att[r][e] EXCEPT !.st = "call"]
<1>1. att[r][e] \in AttemptType /\ att[r][e].st = "slot"
    BY Facts DEF AcquireRuntime
<1>2. x \in AttemptType
    BY <1>1 DEF AttemptType, States
<1>3. x.st = "call" /\ x.body = att[r][e].body /\ x.cancelled = att[r][e].cancelled
    BY <1>1 DEF AttemptType
<1>4. att' = [att EXCEPT ![r] = [att[r] EXCEPT ![e] = x]]
    BY Facts DEF AcquireRuntime
<1> HIDE DEF x
<1>5. PICK s \in Int, n \in Int : s = slots[e] + 1 /\ n = inflight[e]
    BY Counters
<1>6. /\ s <= BlobLimit /\ UNCHANGED <<req, layer>>
      /\ slots' = [slots EXCEPT ![e] = s] /\ inflight' = [inflight EXCEPT ![e] = n]
    BY <1>5, Counters, UpstreamAssumption DEF AcquireRuntime
<1>7. /\ s = slots[e] + Worse(HasSlot(x)) - Worse(HasSlot(att[r][e]))
      /\ n = inflight[e] + Worse(IsCounted(x)) - Worse(IsCounted(att[r][e]))
    BY <1>1, <1>3, <1>5, Counters DEF Worse, HasSlot, IsCounted
<1> QED BY <1>1, <1>2, <1>3, <1>4, <1>6, <1>7, AttemptStep

LEMMA BlobArrivesKeeps ==
    ASSUME Inv, NEW r \in Requests, NEW e \in Endpoints, BlobArrives(r, e)
    PROVE  Inv'
<1> DEFINE x == [att[r][e] EXCEPT !.st = "got", !.body = "open"]
<1>1. att[r][e] \in AttemptType /\ att[r][e].st = "call"
    BY Facts DEF BlobArrives
<1>2. x \in AttemptType
    BY <1>1 DEF AttemptType, States
<1>3. x.st = "got" /\ x.cancelled = att[r][e].cancelled /\ x.body = "open"
    BY <1>1 DEF AttemptType
<1>4. att' = [att EXCEPT ![r] = [att[r] EXCEPT ![e] = x]]
    BY Facts DEF BlobArrives
<1> HIDE DEF x
<1>5. PICK s \in Int, n \in Int : s = slots[e] /\ n = inflight[e]
    BY Counters
<1>6. /\ s <= BlobLimit /\ UNCHANGED <<req, layer>>
      /\ slots' = [slots EXCEPT ![e] = s] /\ inflight' = [inflight EXCEPT ![e] = n]
    BY <1>5, Counters DEF BlobArrives
<1>7. /\ s = slots[e] + Worse(HasSlot(x)) - Worse(HasSlot(att[r][e]))
      /\ n = inflight[e] + Worse(IsCounted(x)) - Worse(IsCounted(att[r][e]))
    BY <1>1, <1>3, <1>5, Counters DEF Worse, HasSlot, IsCounted
<1> QED BY <1>1, <1>2, <1>3, <1>4, <1>6, <1>7, AttemptStep

(* An attempt ends without its slot, or gives it back. *)
LEMMA AttemptEnds ==
    ASSUME Inv, NEW r \in Requests, NEW e \in Endpoints, NEW x \in AttemptType,
           att' = [att EXCEPT ![r] = [att[r] EXCEPT ![e] = x]], UNCHANGED <<req, layer>>,
           att[r][e].st \in {"slot", "call", "got"}, x.st = "sent", x.cancelled = att[r][e].cancelled,
           x.body = IF att[r][e].st = "got" THEN "closed" ELSE att[r][e].body,
           req[r].phase = "wait" =>
               /\ x.out # "none"
               /\ x.out = "ok" => r \in Consumers
               /\ x.out = "unselected" => req[r].selected # None
               /\ x.out = "allowlist" => MayDeny(e),
           slots' = IF att[r][e].st = "slot" THEN slots ELSE [slots EXCEPT ![e] = @ - 1],
           inflight' = [inflight EXCEPT ![e] = @ - 1]
    PROVE  Inv'
<1>5. PICK s \in Int, n \in Int : /\ s = IF att[r][e].st = "slot" THEN slots[e] ELSE slots[e] - 1
                                  /\ n = inflight[e] - 1
    BY Counters
<1>6. s <= BlobLimit /\ slots' = [slots EXCEPT ![e] = s] /\ inflight' = [inflight EXCEPT ![e] = n]
    BY <1>5, Counters
<1>7. /\ s = slots[e] + Worse(HasSlot(x)) - Worse(HasSlot(att[r][e]))
      /\ n = inflight[e] + Worse(IsCounted(x)) - Worse(IsCounted(att[r][e]))
    BY <1>5, Counters DEF Worse, HasSlot, IsCounted
<1> QED BY <1>6, <1>7, AttemptStep, ZenonT(40)

LEMMA AcquireFailsKeeps ==
    ASSUME Inv, NEW r \in Requests, NEW e \in Endpoints, AcquireFails(r, e)
    PROVE  Inv'
<1>1. PICK out \in Outcomes : out = Outcome(r, "failed")
    BY DEF Outcome, Outcomes
<1> DEFINE x == [att[r][e] EXCEPT !.st = "sent", !.out = out]
<1>2. att[r][e] \in AttemptType /\ att[r][e].st = "slot"
    BY Facts DEF AcquireFails
<1>3. x \in AttemptType
    BY <1>2 DEF AttemptType, States
<1>4. x.st = "sent" /\ x.cancelled = att[r][e].cancelled /\ x.body = att[r][e].body /\ x.out = out
    BY <1>2 DEF AttemptType
<1>5. att' = [att EXCEPT ![r] = [att[r] EXCEPT ![e] = x]] /\ UNCHANGED <<req, layer, slots>>
    BY <1>1, Facts DEF AcquireFails
<1> HIDE DEF x
<1>6. inflight' = [inflight EXCEPT ![e] = @ - 1] /\ (req[r].phase = "wait" => out = "failed")
    BY <1>1 DEF AcquireFails, Outcome
<1> QED BY <1>2, <1>3, <1>4, <1>5, <1>6, AttemptEnds

LEMMA AttemptFailsKeeps ==
    ASSUME Inv, NEW r \in Requests, NEW e \in Endpoints, NEW result, AttemptFails(r, e, result)
    PROVE  Inv'
<1>0. result \in {"failed", "fatal", "mismatch", "allowlist"} /\ (result = "allowlist" => MayDeny(e))
    BY UpstreamAssumption DEF AttemptFails, Failures, MayDeny
<1>1. PICK out \in Outcomes : out = Outcome(r, result)
    BY <1>0 DEF Outcome, Outcomes
<1> DEFINE x == [att[r][e] EXCEPT !.st = "sent", !.out = out]
<1>2. att[r][e] \in AttemptType /\ att[r][e].st = "call"
    BY Facts DEF AttemptFails
<1>3. x \in AttemptType
    BY <1>2 DEF AttemptType, States
<1>4. x.st = "sent" /\ x.cancelled = att[r][e].cancelled /\ x.body = att[r][e].body /\ x.out = out
    BY <1>2 DEF AttemptType
<1>5. att' = [att EXCEPT ![r] = [att[r] EXCEPT ![e] = x]] /\ UNCHANGED <<req, layer>>
    BY <1>1, Facts DEF AttemptFails
<1> HIDE DEF x
<1>6. /\ inflight' = [inflight EXCEPT ![e] = @ - 1] /\ slots' = [slots EXCEPT ![e] = @ - 1]
      /\ req[r].phase = "wait" => /\ out \in {"failed", "fatal", "mismatch", "allowlist"}
                                  /\ out = "allowlist" => MayDeny(e)
    BY <1>0, <1>1 DEF AttemptFails, ReleaseRuntime, Outcome
<1> QED BY <1>2, <1>3, <1>4, <1>5, <1>6, AttemptEnds

LEMMA ConsumeBlobResponseKeeps ==
    ASSUME Inv, NEW r \in Requests, NEW e \in Endpoints, NEW result, ConsumeBlobResponse(r, e, result)
    PROVE  Inv'
<1>0. /\ result \in {"ok", "failed", "fatal", "mismatch", "allowlist"} /\ r \in Consumers
      /\ result = "allowlist" => MayDeny(e)
    BY UpstreamAssumption DEF ConsumeBlobResponse, Failures, MayDeny
<1>1. PICK out \in Outcomes : out = Outcome(r, result)
    BY <1>0 DEF Outcome, Outcomes
<1> DEFINE x == [att[r][e] EXCEPT !.st = "sent", !.out = out, !.body = "closed"]
<1>2. att[r][e] \in AttemptType /\ att[r][e].st = "got"
    BY Facts DEF ConsumeBlobResponse
<1>3. x \in AttemptType
    BY <1>2 DEF AttemptType, States
<1>4. x.st = "sent" /\ x.cancelled = att[r][e].cancelled /\ x.body = "closed" /\ x.out = out
    BY <1>2 DEF AttemptType
<1>5. att' = [att EXCEPT ![r] = [att[r] EXCEPT ![e] = x]] /\ UNCHANGED <<req, layer>>
    BY <1>1, Facts DEF ConsumeBlobResponse
<1> HIDE DEF x
<1>6. /\ inflight' = [inflight EXCEPT ![e] = @ - 1] /\ slots' = [slots EXCEPT ![e] = @ - 1]
      /\ req[r].phase = "wait" => /\ out \in {"ok", "failed", "fatal", "mismatch", "allowlist"}
                                  /\ out = "allowlist" => MayDeny(e)
    BY <1>0, <1>1 DEF ConsumeBlobResponse, ReleaseRuntime, Outcome
<1> QED BY <1>0, <1>2, <1>3, <1>4, <1>5, <1>6, AttemptEnds

(* selectResponse: a request selects one answer, however many arrive. *)
LEMMA SelectResponseKeeps ==
    ASSUME Inv, NEW r \in Requests, NEW e \in Endpoints, SelectResponse(r, e)
    PROVE  Inv'
<1>0. /\ r \notin Consumers /\ att[r][e].st = "got" /\ att[r][e] \in AttemptType /\ req[r] \in RequestType
      /\ att[r][e].body = "open" /\ Sound(r, req[r], att[r]) /\ att[r] \in [Endpoints -> AttemptType]
    BY Facts DEF SelectResponse, Sound, Bodies
<1>1. inflight' = [inflight EXCEPT ![e] = @ - 1] /\ slots' = [slots EXCEPT ![e] = @ - 1] /\ UNCHANGED layer
    BY DEF SelectResponse, ReleaseRuntime
<1>2. CASE req[r].aborted \/ req[r].selected # None
    <2>1. PICK out \in Outcomes : out = Outcome(r, "unselected")
        BY DEF Outcome, Outcomes
    <2> DEFINE x == [att[r][e] EXCEPT !.st = "sent", !.out = out, !.body = "closed"]
    <2>2. x \in AttemptType
        BY <1>0 DEF AttemptType, States
    <2>3. x.st = "sent" /\ x.cancelled = att[r][e].cancelled /\ x.body = "closed" /\ x.out = out
        BY <1>0 DEF AttemptType
    <2>4. att' = [att EXCEPT ![r] = [att[r] EXCEPT ![e] = x]] /\ UNCHANGED req
        <3>1. UNCHANGED req /\ att' = [att EXCEPT ![r][e].st = "sent", ![r][e].out = out, ![r][e].body = "closed"]
            BY <1>2, <2>1 DEF SelectResponse
        <3> QED BY <3>1, Facts
    <2> HIDE DEF x
    <2>5. req[r].phase = "wait" => out = "unselected" /\ req[r].selected # None
        BY <1>0, <1>2, <2>1 DEF Outcome, Sound, Begins
    <2> QED BY <1>0, <1>1, <2>2, <2>3, <2>4, <2>5, AttemptEnds
<1>3. CASE ~(req[r].aborted \/ req[r].selected # None)
    <2>1. PICK out \in Outcomes : out = Outcome(r, "ok")
        BY DEF Outcome, Outcomes
    <2> DEFINE x == [att[r][e] EXCEPT !.st = "sent", !.out = out]
               q == [req[r] EXCEPT !.selected = e]
               a == [att[r] EXCEPT ![e] = x]
    <2>2. x \in AttemptType
        BY <1>0 DEF AttemptType, States
    <2>3. x.st = "sent" /\ x.cancelled = att[r][e].cancelled /\ x.body = "open" /\ x.out = out
        BY <1>0 DEF AttemptType
    <2>4. att' = [att EXCEPT ![r] = [att[r] EXCEPT ![e] = x]] /\ req' = [req EXCEPT ![r] = q]
        <3>1. req' = [req EXCEPT ![r] = q]
            BY <1>3, Facts DEF SelectResponse
        <3>2. att' = [att EXCEPT ![r][e].st = "sent", ![r][e].out = out]
            BY <1>3, <2>1, Facts DEF SelectResponse
        <3> QED BY <3>1, <3>2, Facts
    <2>5. e \in MaybeEndpoint
        BY DEF MaybeEndpoint
    <2>6. q \in RequestType
        BY <1>0, <2>5 DEF RequestType
    <2>7. /\ q.phase = req[r].phase /\ q.ctx = req[r].ctx /\ q.order = req[r].order /\ q.next = req[r].next
          /\ q.held = req[r].held /\ q.selected = e /\ q.aborted = req[r].aborted /\ q.winner = req[r].winner
        BY <1>0 DEF RequestType
    <2>8. a[e] = x /\ \A d \in Endpoints : d # e => a[d] = att[r][d]
        BY <1>0
    <2> HIDE DEF x, q, a
    <2>9. req[r].phase \notin {"idle", "read"} /\ req[r].selected = None
        BY <1>0, <1>3 DEF Sound, Begins, Bodies, NewAttempt
    <2>10. \A i \in DOMAIN req[r].order : req[r].order[i] \in Endpoints
        BY <1>0 DEF RequestType
    <2>11. Begins(q, a)
        BY <1>0, <2>7, <2>9 DEF Sound, Begins
    <2>12. Runs(q, a)
        BY <1>0, <2>3, <2>7, <2>8, <2>10 DEF Sound, Runs
    <2>13. Waits(r, q, a)
        <3>1. req[r].phase = "wait" => out = "ok"
            BY <2>1 DEF Outcome
        <3> QED BY <1>0, <2>3, <2>7, <2>8, <2>9, <3>1, NoneIsNone DEF Sound, Waits
    <2>14. Bodies(r, q, a)
        BY <1>0, <2>3, <2>7, <2>8, <2>9, NoneIsNone DEF Sound, Bodies
    <2>15. FailsFairly(q, a)
        BY <1>0, <2>7, <2>8, <2>10 DEF Sound, FailsFairly
    <2>16. Sound(r, q, [att[r] EXCEPT ![e] = x])
        BY <2>11, <2>12, <2>13, <2>14, <2>15 DEF Sound, a
    <2>17. PICK s \in Int, n \in Int : s = slots[e] - 1 /\ n = inflight[e] - 1
        BY Counters
    <2>18. s <= BlobLimit /\ slots' = [slots EXCEPT ![e] = s] /\ inflight' = [inflight EXCEPT ![e] = n]
        BY <1>1, <2>17, Counters
    <2>19. /\ s = slots[e] + Worse(HasSlot(x)) - Worse(HasSlot(att[r][e]))
           /\ n = inflight[e] + Worse(IsCounted(x)) - Worse(IsCounted(att[r][e]))
        BY <1>0, <2>3, <2>17, Counters DEF Worse, HasSlot, IsCounted
    <2>20. PICK y \in AttemptType, p \in RequestType : y = x /\ p = q
        BY <2>2, <2>6
    <2>21. /\ att' = [att EXCEPT ![r] = [att[r] EXCEPT ![e] = y]] /\ req' = [req EXCEPT ![r] = p]
           /\ p.held = req[r].held /\ p.phase = req[r].phase /\ UNCHANGED layer
           /\ Sound(r, p, [att[r] EXCEPT ![e] = y])
           /\ s = slots[e] + Worse(HasSlot(y)) - Worse(HasSlot(att[r][e]))
           /\ n = inflight[e] + Worse(IsCounted(y)) - Worse(IsCounted(att[r][e]))
        BY <1>1, <2>4, <2>7, <2>16, <2>19, <2>20
    <2> QED BY <2>18, <2>21, AttemptMoves
<1> QED BY <1>2, <1>3

-----------------------------------------------------------------------------
(* The runner. *)

LEMMA CancelAttemptsFacts ==
    ASSUME NEW a \in [Endpoints -> AttemptType], NEW keep
    PROVE  /\ CancelAttempts(a, keep) \in [Endpoints -> AttemptType]
           /\ \A d \in Endpoints :
                 /\ CancelAttempts(a, keep)[d].st = a[d].st /\ CancelAttempts(a, keep)[d].body = a[d].body
                 /\ a[d].st \in {"none", "seen"} \/ d = keep => CancelAttempts(a, keep)[d] = a[d]
<1>1. ASSUME NEW d \in Endpoints
      PROVE  LET x == [a[d] EXCEPT !.cancelled = TRUE, !.out = "none"]
             IN  x \in AttemptType /\ x.st = a[d].st /\ x.body = a[d].body
    <2>1. a[d] \in AttemptType
        OBVIOUS
    <2> QED BY <2>1 DEF AttemptType, Outcomes
<1> QED BY <1>1 DEF CancelAttempts

LEMMA SeenFacts ==
    ASSUME Inv, NEW r \in Requests, NEW e \in Endpoints
    PROVE  /\ Seen(r, e) \in [Endpoints -> AttemptType]
           /\ Seen(r, e)[e].st = "seen" /\ Seen(r, e)[e].out = att[r][e].out
           /\ Seen(r, e)[e].body = att[r][e].body /\ Seen(r, e)[e].cancelled = att[r][e].cancelled
           /\ \A d \in Endpoints : d # e => Seen(r, e)[d] = att[r][d]
<1>1. att[r] \in [Endpoints -> AttemptType] /\ att[r][e] \in AttemptType
    BY Facts
<1>2. Seen(r, e) = [att[r] EXCEPT ![e] = [att[r][e] EXCEPT !.st = "seen"]]
    BY <1>1 DEF Seen
<1>3. [att[r][e] EXCEPT !.st = "seen"] \in AttemptType
    BY <1>1 DEF AttemptType, States
<1> QED BY <1>1, <1>2, <1>3 DEF AttemptType

(* The runner takes results and gives reservations back, and touches no slot. *)
TakesResults(r, a) ==
    \A d \in Endpoints : a[d].st = att[r][d].st \/ (a[d].st = "seen" /\ att[r][d].st = "sent")
Releases(r, q) ==
    \/ /\ UNCHANGED layer /\ q.held = req[r].held
       /\ q.phase \in {"wait", "read"} /\ req[r].phase \in {"wait", "read"}
    \/ ReleaseReservations(r) /\ q.held = {} /\ req[r].phase \in {"wait", "read"}
    \/ UNCHANGED layer /\ q.held = {} /\ req[r].held = {}

LEMMA RunnerMoves ==
    ASSUME Inv, NEW r \in Requests, NEW q \in RequestType, NEW a \in [Endpoints -> AttemptType],
           req' = [req EXCEPT ![r] = q], att' = [att EXCEPT ![r] = a], Sound(r, q, a),
           UNCHANGED <<slots, inflight>>,
           TakesResults(r, a), Releases(r, q)
    PROVE  Inv'
<1>1. layer' \in [Endpoints -> Int]
    BY Facts DEF Releases, ReleaseReservations, Worse
<1>2. ASSUME NEW d \in Endpoints
      PROVE  layer'[d] = layer[d] + Worse(Reserves(q, d)) - Worse(Reserves(req[r], d))
    BY Facts DEF Releases, ReleaseReservations, Worse, Reserves
<1>3. ASSUME NEW d \in Endpoints
      PROVE  /\ slots'[d] <= BlobLimit
             /\ slots'[d] = slots[d] + Worse(HasSlot(a[d])) - Worse(HasSlot(att[r][d]))
             /\ inflight'[d] = inflight[d] + Worse(IsCounted(a[d])) - Worse(IsCounted(att[r][d]))
    <2>1. slots[d] \in Int /\ inflight[d] \in Int /\ slots[d] <= BlobLimit
        BY Facts
    <2>2. (HasSlot(a[d]) <=> HasSlot(att[r][d])) /\ (IsCounted(a[d]) <=> IsCounted(att[r][d]))
        BY DEF TakesResults, HasSlot, IsCounted
    <2> QED BY <2>1, <2>2 DEF Worse
<1>4. Follow(r, q, a)
    BY <1>1, <1>2, <1>3, Facts DEF Follow
<1> QED BY <1>4, Moves

(* The runner gives up, with the results it has seen. *)
LEMMA Ends ==
    ASSUME Inv, NEW r \in Requests, NEW a \in [Endpoints -> AttemptType], req[r].phase = "wait",
           GiveUp(r, a),
           \A d \in Endpoints : /\ a[d].st = att[r][d].st \/ (a[d].st = "seen" /\ att[r][d].st = "sent")
                                /\ a[d].body = att[r][d].body,
           req[r].ctx = "live" =>
               \/ \E e \in Endpoints : a[e].st = "seen" /\ a[e].out = "fatal"
               \/ \A i \in DOMAIN req[r].order :
                      a[req[r].order[i]].st = "seen" /\ a[req[r].order[i]].out \in {"failed", "mismatch", "allowlist"}
    PROVE  Inv'
<1>1. req[r] \in RequestType /\ Sound(r, req[r], att[r]) /\ req \in [Requests -> RequestType]
    BY Facts
<1>2. PICK q \in RequestType : q = [req[r] EXCEPT !.phase = "abort", !.held = {}]
    <2>1. [req[r] EXCEPT !.phase = "abort", !.held = {}] \in RequestType
        BY <1>1 DEF RequestType, Phases
    <2> QED BY <2>1
<1>3. req' = [req EXCEPT ![r] = q] /\ att' = [att EXCEPT ![r] = a] /\ UNCHANGED <<slots, inflight>>
    BY <1>1, <1>2 DEF GiveUp
<1>4. /\ q.phase = "abort" /\ q.ctx = req[r].ctx /\ q.order = req[r].order /\ q.next = req[r].next
      /\ q.held = {} /\ q.selected = req[r].selected /\ q.aborted = req[r].aborted /\ q.winner = req[r].winner
    BY <1>1, <1>2 DEF RequestType
<1>5. /\ \A i \in DOMAIN req[r].order : req[r].order[i] \in Endpoints
      /\ req[r].selected \in MaybeEndpoint
    BY <1>1 DEF RequestType
<1>6. Begins(q, a)
    BY <1>1, <1>4 DEF Sound, Begins
<1>7. Runs(q, a)
    BY <1>1, <1>4, <1>5 DEF Sound, Runs
<1>8. Waits(r, q, a)
    BY <1>4 DEF Waits
<1>9. Bodies(r, q, a)
    BY <1>1, <1>4, <1>5 DEF Sound, Bodies, MaybeEndpoint
<1>10. FailsFairly(q, a)
    BY <1>4 DEF FailsFairly
<1>11. Sound(r, q, a)
    BY <1>6, <1>7, <1>8, <1>9, <1>10 DEF Sound
<1>12. Releases(r, q) /\ TakesResults(r, a)
    BY <1>4 DEF GiveUp, Releases, TakesResults
<1> QED BY <1>3, <1>11, <1>12, RunnerMoves

LEMMA FatalKeeps ==
    ASSUME Inv, NEW r \in Requests, NEW e \in Endpoints, Fatal(r, e)
    PROVE  Inv'
<1>1. PICK b \in [Endpoints -> AttemptType] : b = Seen(r, e)
    BY SeenFacts
<1>2. PICK a \in [Endpoints -> AttemptType] : a = CancelAttempts(b, None)
    BY CancelAttemptsFacts
<1>3. req[r].phase = "wait" /\ att[r][e].st = "sent" /\ GiveUp(r, a) /\ Terminal(r, e)
    BY <1>1, <1>2 DEF Fatal, Sent
<1>4. \A d \in Endpoints : /\ a[d].st = att[r][d].st \/ (a[d].st = "seen" /\ att[r][d].st = "sent")
                           /\ a[d].body = att[r][d].body
    BY <1>1, <1>2, <1>3, SeenFacts, CancelAttemptsFacts
<1>5. a[e].st = "seen" /\ a[e].out = att[r][e].out
    BY <1>1, <1>2, SeenFacts, CancelAttemptsFacts
<1>6. att[r][e].out # "none" /\ att[r][e].out \in Outcomes /\ (att[r][e].out = "allowlist" => MayDeny(e))
    BY <1>3, Facts DEF Sound, Waits, AttemptType
<1>7. req[r].ctx = "live" => a[e].out = "fatal"
    BY <1>3, <1>5, <1>6 DEF Terminal, ShouldFailover, Outcomes, MayDeny
<1> QED BY <1>3, <1>4, <1>5, <1>7, Ends

LEMMA ExhaustedKeeps ==
    ASSUME Inv, NEW r \in Requests, Exhausted(r)
    PROVE  Inv'
<1>1. PICK a \in [Endpoints -> AttemptType] : a = att[r]
    BY Facts
<1>2. req[r].phase = "wait" /\ GiveUp(r, a) /\ InFlight(r) = {} /\ req[r].next >= Len(req[r].order)
    BY <1>1 DEF Exhausted
<1>3. req[r] \in RequestType /\ Runs(req[r], a) /\ Waits(r, req[r], a)
    BY <1>1, Facts DEF Sound
<1>4. \A d \in Endpoints : a[d].st \in {"none", "seen"}
    BY <1>1, <1>2 DEF InFlight, AttemptType, States
<1>5. req[r].selected = None
    BY <1>2, <1>3, <1>4 DEF Waits, RequestType, MaybeEndpoint
<1>6. ASSUME NEW i \in DOMAIN req[r].order
      PROVE  a[req[r].order[i]].st = "seen" /\ a[req[r].order[i]].out \in {"failed", "mismatch", "allowlist"}
    <2>1. req[r].order[i] \in Endpoints /\ i \in Nat /\ i <= Len(req[r].order) /\ req[r].next \in Nat
        BY <1>3 DEF RequestType
    <2>2. a[req[r].order[i]].st # "none"
        BY <1>2, <1>3, <2>1 DEF Runs
    <2> QED BY <1>2, <1>3, <1>4, <1>5, <2>1, <2>2 DEF Waits
<1> QED BY <1>1, <1>2, <1>6, Ends

LEMMA ContextDoneKeeps ==
    ASSUME Inv, NEW r \in Requests, ContextDone(r)
    PROVE  Inv'
<1>1. PICK b \in [Endpoints -> AttemptType] : b = att[r]
    BY Facts
<1>2. PICK a \in [Endpoints -> AttemptType] : a = CancelAttempts(b, None)
    BY CancelAttemptsFacts
<1>3. req[r].phase = "wait" /\ GiveUp(r, a) /\ req[r].ctx = "cancelled"
    BY <1>1, <1>2 DEF ContextDone
<1>4. \A d \in Endpoints : a[d].st = att[r][d].st /\ a[d].body = att[r][d].body
    BY <1>1, <1>2, CancelAttemptsFacts
<1> QED BY <1>3, <1>4, Ends

LEMMA WinKeeps ==
    ASSUME Inv, NEW r \in Requests, NEW e \in Endpoints, Win(r, e)
    PROVE  Inv'
<1> DEFINE late == Sequential(r) /\ req[r].ctx = "cancelled"
<1>0. /\ req[r] \in RequestType /\ Sound(r, req[r], att[r]) /\ req \in [Requests -> RequestType]
      /\ req[r].phase = "wait" /\ att[r][e].st = "sent" /\ att[r][e].out = "ok" /\ req[r].winner = None
    BY Facts DEF Win, Sent, Sound, Waits
<1>1. PICK b \in [Endpoints -> AttemptType] : b = Seen(r, e)
    BY SeenFacts
<1>2. PICK a \in [Endpoints -> AttemptType] : a = CancelAttempts(b, e)
    BY CancelAttemptsFacts
<1>3. att' = [att EXCEPT ![r] = a] /\ UNCHANGED <<slots, inflight>>
    BY <1>1, <1>2 DEF Win
<1>4. /\ \A d \in Endpoints : /\ a[d].st = att[r][d].st \/ (a[d].st = "seen" /\ att[r][d].st = "sent")
                              /\ a[d].body = att[r][d].body
      /\ a[e].st = "seen" /\ a[e].cancelled = att[r][e].cancelled
    <2>1. /\ b[e].st = "seen" /\ b[e].body = att[r][e].body /\ b[e].cancelled = att[r][e].cancelled
          /\ \A d \in Endpoints : d # e => b[d] = att[r][d]
        BY <1>1, SeenFacts
    <2>2. a[e] = b[e] /\ \A d \in Endpoints : a[d].st = b[d].st /\ a[d].body = b[d].body
        BY <1>2, CancelAttemptsFacts
    <2> QED BY <1>0, <2>1, <2>2
<1>5. /\ \A i \in DOMAIN req[r].order : req[r].order[i] \in Endpoints
      /\ req[r].selected \in MaybeEndpoint /\ e \in MaybeEndpoint
    BY <1>0 DEF RequestType, MaybeEndpoint
<1>6. CASE late
    <2>1. GiveUp(r, a)
        BY <1>3, <1>6 DEF Win, GiveUp
    <2> QED BY <1>0, <1>4, <1>6, <2>1, Ends
<1>7. CASE ~late /\ r \in Consumers
    <2>1. PICK q \in RequestType : q = [req[r] EXCEPT !.phase = "done", !.winner = e, !.held = {}]
        <3>1. [req[r] EXCEPT !.phase = "done", !.winner = e, !.held = {}] \in RequestType
            BY <1>0, <1>5 DEF RequestType, Phases
        <3> QED BY <3>1
    <2>2. req' = [req EXCEPT ![r] = q] /\ ReleaseReservations(r)
        BY <1>0, <1>7, <2>1 DEF Win
    <2>3. /\ q.phase = "done" /\ q.order = req[r].order /\ q.next = req[r].next
          /\ q.held = {} /\ q.selected = req[r].selected /\ q.winner = e
        BY <1>0, <2>1 DEF RequestType
    <2>4. Begins(q, a)
        BY <2>3 DEF Begins
    <2>5. Runs(q, a)
        BY <1>0, <1>4, <1>5, <2>3 DEF Sound, Runs
    <2>6. Waits(r, q, a) /\ FailsFairly(q, a)
        BY <2>3, NoneIsNone DEF Waits, FailsFairly
    <2>7. Bodies(r, q, a)
        BY <1>0, <1>4, <1>5, <2>3 DEF Sound, Bodies, MaybeEndpoint
    <2>8. Sound(r, q, a)
        BY <2>4, <2>5, <2>6, <2>7 DEF Sound
    <2>9. Releases(r, q) /\ TakesResults(r, a)
        BY <1>0, <1>4, <2>2, <2>3 DEF Releases, TakesResults
    <2> QED BY <1>3, <2>2, <2>8, <2>9, RunnerMoves
<1>8. CASE ~late /\ r \notin Consumers
    <2>1. PICK q \in RequestType : q = [req[r] EXCEPT !.phase = "read", !.winner = e]
        <3>1. [req[r] EXCEPT !.phase = "read", !.winner = e] \in RequestType
            BY <1>0, <1>5 DEF RequestType, Phases
        <3> QED BY <3>1
    <2>2. req' = [req EXCEPT ![r] = q] /\ UNCHANGED layer
        BY <1>0, <1>8, <2>1 DEF Win
    <2>3. /\ q.phase = "read" /\ q.order = req[r].order /\ q.next = req[r].next /\ q.aborted = req[r].aborted
          /\ q.held = req[r].held /\ q.selected = req[r].selected /\ q.winner = e
        BY <1>0, <2>1 DEF RequestType
    <2>4. Begins(q, a)
        BY <1>0, <2>3 DEF Sound, Begins
    <2>5. Runs(q, a)
        BY <1>0, <1>4, <1>5, <2>3 DEF Sound, Runs
    <2>6. Waits(r, q, a) /\ FailsFairly(q, a)
        BY <2>3 DEF Waits, FailsFairly
    <2>7. req[r].selected = e /\ ~att[r][e].cancelled
        BY <1>0, <1>8 DEF Sound, Waits
    <2>9. Bodies(r, q, a)
        BY <1>0, <1>4, <1>8, <2>3, <2>7, NoneIsNone DEF Sound, Bodies
    <2>8. Sound(r, q, a)
        BY <2>4, <2>5, <2>6, <2>9 DEF Sound
    <2>10. Releases(r, q) /\ TakesResults(r, a)
        BY <1>0, <1>4, <2>2, <2>3 DEF Releases, TakesResults
    <2> QED BY <1>3, <2>2, <2>8, <2>10, RunnerMoves
<1> QED BY <1>6, <1>7, <1>8

LEMMA IgnoreKeeps ==
    ASSUME Inv, NEW r \in Requests, NEW e \in Endpoints, Ignore(r, e)
    PROVE  Inv'
<1>0. /\ req[r] \in RequestType /\ Sound(r, req[r], att[r]) /\ req \in [Requests -> RequestType]
      /\ req[r].phase = "wait" /\ att[r][e].st = "sent" /\ UNCHANGED <<req, slots, inflight, layer>>
    BY Facts DEF Ignore, Sent
<1>1. PICK a \in [Endpoints -> AttemptType] : a = Seen(r, e)
    BY SeenFacts
<1>2. PICK q \in RequestType : q = req[r]
    BY <1>0
<1>3. att' = [att EXCEPT ![r] = a] /\ req' = [req EXCEPT ![r] = q]
    BY <1>0, <1>1, <1>2 DEF Ignore
<1>4. req[r].selected # None /\ req[r].selected # e /\ req[r].selected \in Endpoints
    BY <1>0 DEF Ignore, Sound, Waits, RequestType, MaybeEndpoint
<1>5. /\ a[e].st = "seen" /\ a[e].body = att[r][e].body /\ a[e].cancelled = att[r][e].cancelled
      /\ \A d \in Endpoints : d # e => a[d] = att[r][d]
    BY <1>1, SeenFacts
<1>6. Begins(q, a)
    BY <1>0, <1>2 DEF Sound, Begins
<1>7. Runs(q, a)
    <2>1. \A i \in DOMAIN q.order : q.order[i] \in Endpoints
        BY DEF RequestType
    <2> QED BY <1>0, <1>2, <1>5, <2>1 DEF Sound, Runs
<1>8. Waits(r, q, a)
    BY <1>0, <1>2, <1>4, <1>5 DEF Sound, Waits
<1>9. Bodies(r, q, a)
    BY <1>0, <1>2, <1>4, <1>5 DEF Sound, Bodies
<1>10. FailsFairly(q, a)
    BY <1>0, <1>2 DEF FailsFairly
<1>11. Sound(r, q, a)
    BY <1>6, <1>7, <1>8, <1>9, <1>10 DEF Sound
<1>12. Releases(r, q) /\ TakesResults(r, a)
    BY <1>0, <1>2, <1>5 DEF Releases, TakesResults
<1> QED BY <1>0, <1>3, <1>11, <1>12, RunnerMoves

(* abort: the selected body is closed. *)
LEMMA AbortKeeps ==
    ASSUME Inv, NEW r \in Requests, Abort(r)
    PROVE  Inv'
<1>0. /\ req[r] \in RequestType /\ Sound(r, req[r], att[r]) /\ req \in [Requests -> RequestType]
      /\ req[r].phase = "abort" /\ UNCHANGED <<slots, inflight, layer>>
    BY Facts DEF Abort
<1>1. None \in MaybeEndpoint
    BY DEF MaybeEndpoint
<1>2. PICK q \in RequestType : q = [req[r] EXCEPT !.phase = "done", !.aborted = TRUE, !.selected = None]
    <2>1. [req[r] EXCEPT !.phase = "done", !.aborted = TRUE, !.selected = None] \in RequestType
        BY <1>0, <1>1 DEF RequestType, Phases
    <2> QED BY <2>1
<1>3. req' = [req EXCEPT ![r] = q]
    BY <1>0, <1>2 DEF Abort
<1>4. /\ q.phase = "done" /\ q.ctx = req[r].ctx /\ q.order = req[r].order /\ q.next = req[r].next
      /\ q.held = req[r].held /\ q.selected = None /\ q.aborted /\ q.winner = req[r].winner
    BY <1>0, <1>2 DEF RequestType
<1>5. PICK a \in [Endpoints -> AttemptType] :
          /\ att' = [att EXCEPT ![r] = a]
          /\ \A d \in Endpoints : /\ a[d].st = att[r][d].st /\ a[d].out = att[r][d].out
                                  /\ a[d].body = IF d = req[r].selected THEN "closed" ELSE att[r][d].body
    <2>1. CASE req[r].selected = None
        BY <2>1, Facts, NoneIsNone DEF Abort
    <2>2. CASE req[r].selected # None
        <3>1. PICK s \in Endpoints : s = req[r].selected
            BY <1>0, <2>2 DEF RequestType, MaybeEndpoint
        <3>2. att[r] \in [Endpoints -> AttemptType] /\ att[r][s] \in AttemptType
            BY Facts
        <3>3. PICK x \in AttemptType : /\ x = [att[r][s] EXCEPT !.body = "closed"]
                                       /\ x.st = att[r][s].st /\ x.out = att[r][s].out /\ x.body = "closed"
            <4>1. [att[r][s] EXCEPT !.body = "closed"] \in AttemptType
                BY <3>2 DEF AttemptType
            <4> QED BY <3>2, <4>1 DEF AttemptType
        <3>4. att' = [att EXCEPT ![r] = [att[r] EXCEPT ![s] = x]]
            BY <2>2, <3>1, <3>3, Facts DEF Abort
        <3> DEFINE a == [att[r] EXCEPT ![s] = x]
        <3>5. a \in [Endpoints -> AttemptType] /\ a[s] = x /\ \A d \in Endpoints : d # s => a[d] = att[r][d]
            BY <3>2
        <3> HIDE DEF a
        <3>6. \A d \in Endpoints : /\ a[d].st = att[r][d].st /\ a[d].out = att[r][d].out
                                   /\ a[d].body = IF d = req[r].selected THEN "closed" ELSE att[r][d].body
            BY <3>1, <3>3, <3>5
        <3> QED BY <3>4, <3>5, <3>6 DEF a
    <2> QED BY <2>1, <2>2
<1>6. \A i \in DOMAIN req[r].order : req[r].order[i] \in Endpoints
    BY <1>0 DEF RequestType
<1>7. req[r].held = {}
    BY <1>0 DEF Sound, Begins
<1>8. Begins(q, a)
    BY <1>4, <1>7 DEF Begins
<1>9. Runs(q, a)
    BY <1>0, <1>4, <1>5, <1>6 DEF Sound, Runs
<1>10. Waits(r, q, a)
    BY <1>4 DEF Waits
<1>11. Bodies(r, q, a)
    BY <1>0, <1>4, <1>5, NoneIsNone DEF Sound, Bodies
<1>12. FailsFairly(q, a)
    <2>1. FailsFairly(req[r], att[r]) /\ req[r].phase = "abort"
        BY <1>0 DEF Sound
    <2>2. \A d \in Endpoints : a[d].st = att[r][d].st /\ a[d].out = att[r][d].out
        BY <1>5
    <2> SUFFICES ASSUME req[r].winner = None, req[r].ctx = "live",
                        ~ \E e \in Endpoints : att[r][e].st = "seen" /\ att[r][e].out = "fatal"
                 PROVE  \A i \in DOMAIN req[r].order :
                            /\ a[req[r].order[i]].st = "seen"
                            /\ a[req[r].order[i]].out \in {"failed", "mismatch", "allowlist"}
        BY <1>4, <2>2 DEF FailsFairly
    <2> QED BY <1>6, <2>1, <2>2 DEF FailsFairly
<1>13. Sound(r, q, a)
    BY <1>8, <1>9, <1>10, <1>11, <1>12 DEF Sound
<1>14. Releases(r, q) /\ TakesResults(r, a)
    BY <1>0, <1>4, <1>5, <1>7 DEF Releases, TakesResults
<1> QED BY <1>0, <1>3, <1>5, <1>13, <1>14, RunnerMoves

LEMMA CloseBodyKeeps ==
    ASSUME Inv, NEW r \in Requests, CloseBody(r)
    PROVE  Inv'
<1>0. /\ req[r] \in RequestType /\ Sound(r, req[r], att[r]) /\ req \in [Requests -> RequestType]
      /\ req[r].phase = "read" /\ UNCHANGED <<slots, inflight>> /\ ReleaseReservations(r)
    BY Facts DEF CloseBody
<1>1. PICK w \in Endpoints : w = req[r].winner /\ w = req[r].selected /\ att[r][w].st = "seen"
    BY <1>0 DEF Sound, Bodies, RequestType, MaybeEndpoint
<1>2. PICK q \in RequestType : q = [req[r] EXCEPT !.phase = "done", !.held = {}]
    <2>1. [req[r] EXCEPT !.phase = "done", !.held = {}] \in RequestType
        BY <1>0 DEF RequestType, Phases
    <2> QED BY <2>1
<1>3. req' = [req EXCEPT ![r] = q]
    BY <1>0, <1>2 DEF CloseBody
<1>4. /\ q.phase = "done" /\ q.ctx = req[r].ctx /\ q.order = req[r].order /\ q.next = req[r].next
      /\ q.held = {} /\ q.selected = req[r].selected /\ q.winner = req[r].winner
    BY <1>0, <1>2 DEF RequestType
<1>5. PICK x \in AttemptType : /\ x = [att[r][w] EXCEPT !.body = "closed", !.cancelled = TRUE]
                               /\ x.st = "seen" /\ x.body = "closed"
    <2>1. att[r][w] \in AttemptType
        BY Facts
    <2>2. [att[r][w] EXCEPT !.body = "closed", !.cancelled = TRUE] \in AttemptType
        BY <2>1 DEF AttemptType
    <2> QED BY <1>1, <2>1, <2>2 DEF AttemptType
<1>6. PICK a \in [Endpoints -> AttemptType] : a = [att[r] EXCEPT ![w] = x]
    BY Facts
<1>7. a[w] = x /\ \A d \in Endpoints : d # w => a[d] = att[r][d]
    BY <1>6, Facts
<1>15. att' = [att EXCEPT ![r] = a]
    <2>1. att' = [att EXCEPT ![r][w].body = "closed", ![r][w].cancelled = TRUE]
        BY <1>1 DEF CloseBody
    <2> QED BY <1>5, <1>6, <2>1, Facts
<1>8. \A i \in DOMAIN req[r].order : req[r].order[i] \in Endpoints
    BY <1>0 DEF RequestType
<1>16. \A d \in Endpoints : a[d].st = att[r][d].st /\ (a[d].body = "open" => att[r][d].body = "open")
    BY <1>1, <1>5, <1>7
<1>9. Begins(q, a)
    BY <1>4 DEF Begins
<1>10. Runs(q, a)
    BY <1>0, <1>4, <1>8, <1>16 DEF Sound, Runs
<1>11. Waits(r, q, a) /\ FailsFairly(q, a)
    BY <1>1, <1>4, NoneIsNone DEF Waits, FailsFairly
<1>12. Bodies(r, q, a)
    <2>1. r \in Consumers => q.selected = None
        BY <1>0, <1>4 DEF Sound, Bodies
    <2>2. \A d \in Endpoints : /\ a[d].body = "open" => a[d].st = "got" \/ q.selected = d
                               /\ a[d].st = "got" => a[d].body = "open"
        BY <1>0, <1>1, <1>4, <1>7, <1>16 DEF Sound, Bodies
    <2>3. a[q.selected].st \in {"sent", "seen"}
        BY <1>1, <1>4, <1>16
    <2> QED BY <1>4, <2>1, <2>2, <2>3 DEF Bodies
<1>13. Sound(r, q, a)
    BY <1>9, <1>10, <1>11, <1>12 DEF Sound
<1>14. Releases(r, q) /\ TakesResults(r, a)
    BY <1>0, <1>1, <1>4, <1>5, <1>7, ZenonT(40) DEF Releases, TakesResults
<1> QED BY <1>0, <1>3, <1>13, <1>14, <1>15, RunnerMoves

LEMMA CancelKeeps ==
    ASSUME Inv, NEW r \in Requests, Cancel(r)
    PROVE  Inv'
<1>0. /\ req[r] \in RequestType /\ Sound(r, req[r], att[r]) /\ req \in [Requests -> RequestType]
      /\ req[r].phase = "wait" /\ UNCHANGED <<att, slots, inflight, layer>>
    BY Facts DEF Cancel
<1>1. PICK q \in RequestType : q = [req[r] EXCEPT !.ctx = "cancelled"]
    <2>1. [req[r] EXCEPT !.ctx = "cancelled"] \in RequestType
        BY <1>0 DEF RequestType
    <2> QED BY <2>1
<1>2. PICK a \in [Endpoints -> AttemptType] : a = att[r]
    BY Facts
<1>3. req' = [req EXCEPT ![r] = q] /\ att' = [att EXCEPT ![r] = a]
    BY <1>0, <1>1, <1>2, Facts DEF Cancel
<1>4. /\ q.phase = req[r].phase /\ q.order = req[r].order /\ q.next = req[r].next
      /\ q.held = req[r].held /\ q.selected = req[r].selected /\ q.aborted = req[r].aborted
      /\ q.winner = req[r].winner
    BY <1>0, <1>1 DEF RequestType
<1>5. Sound(r, q, a)
    BY <1>0, <1>2, <1>4 DEF Sound, Begins, Runs, Waits, Bodies, FailsFairly
<1>6. Releases(r, q) /\ TakesResults(r, a)
    BY <1>0, <1>2, <1>4 DEF Releases, TakesResults
<1> QED BY <1>0, <1>3, <1>5, <1>6, RunnerMoves

-----------------------------------------------------------------------------
(* Starting attempts. *)

(* The attempts of a range of the list, and no other, start. *)
Picked(order, from, n, d) == \E i \in DOMAIN order : order[i] = d /\ i > from /\ i <= from + n

LEMMA StartedFacts ==
    ASSUME NEW a \in [Endpoints -> AttemptType], NEW order, NEW from, NEW n
    PROVE  /\ Started(a, order, from, n) \in [Endpoints -> AttemptType]
           /\ \A d \in Endpoints :
                 LET x == Started(a, order, from, n)[d]
                 IN  /\ ~Picked(order, from, n, d) => x = a[d]
                     /\ Picked(order, from, n, d) =>
                            /\ x.st = "slot" \/ (x.st = "sent" /\ x.out = "failed")
                            /\ x.body = "none" /\ ~x.cancelled
<1>1. /\ [NewAttempt EXCEPT !.st = "sent", !.out = "failed"] \in AttemptType
      /\ [NewAttempt EXCEPT !.st = "slot"] \in AttemptType
    BY DEF NewAttempt, AttemptType, States, Outcomes
<1>2. ASSUME NEW d \in Endpoints
      PROVE  Started(a, order, from, n)[d] = IF Picked(order, from, n, d)
                                             THEN IF d \in Broken
                                                  THEN [NewAttempt EXCEPT !.st = "sent", !.out = "failed"]
                                                  ELSE [NewAttempt EXCEPT !.st = "slot"]
                                             ELSE a[d]
    BY DEF Started, Picked
<1>3. Started(a, order, from, n) \in [Endpoints -> AttemptType]
    BY <1>1 DEF Started
<1>4. ASSUME NEW d \in Endpoints
      PROVE  LET x == Started(a, order, from, n)[d]
             IN  /\ ~Picked(order, from, n, d) => x = a[d]
                 /\ Picked(order, from, n, d) =>
                        /\ x.st = "slot" \/ (x.st = "sent" /\ x.out = "failed")
                        /\ x.body = "none" /\ ~x.cancelled
    BY <1>2 DEF NewAttempt
<1> QED BY <1>3, <1>4

(* health.Acquire counts exactly the attempts that wait for a slot. *)
LEMMA Acquires ==
    ASSUME Inv, NEW r \in Requests, NEW q \in RequestType, NEW a \in [Endpoints -> AttemptType],
           inflight' = Counted(a, att[r]), UNCHANGED slots, layer' \in [Endpoints -> Int],
           \A d \in Endpoints : \/ a[d].st = att[r][d].st
                                \/ a[d].st = "seen" /\ att[r][d].st = "sent"
                                \/ a[d].st \in {"slot", "sent"} /\ att[r][d].st = "none",
           \A d \in Endpoints : layer'[d] = layer[d] + Worse(Reserves(q, d)) - Worse(Reserves(req[r], d))
    PROVE  Follow(r, q, a)
<1>1. ASSUME NEW d \in Endpoints
      PROVE  /\ slots'[d] <= BlobLimit
             /\ slots'[d] = slots[d] + Worse(HasSlot(a[d])) - Worse(HasSlot(att[r][d]))
             /\ inflight'[d] = inflight[d] + Worse(IsCounted(a[d])) - Worse(IsCounted(att[r][d]))
    <2>1. slots[d] \in Int /\ inflight[d] \in Int /\ slots[d] <= BlobLimit
        BY Facts
    <2>2. inflight'[d] = IF a[d].st = "slot" /\ att[r][d].st = "none" THEN inflight[d] + 1 ELSE inflight[d]
        BY DEF Counted
    <2>3. HasSlot(a[d]) <=> HasSlot(att[r][d])
        BY DEF HasSlot
    <2>4. CASE a[d].st = "slot" /\ att[r][d].st = "none"
        BY <2>1, <2>2, <2>3, <2>4 DEF Worse, IsCounted
    <2>5. CASE ~(a[d].st = "slot" /\ att[r][d].st = "none")
        <3>1. IsCounted(a[d]) <=> IsCounted(att[r][d])
            BY <2>5 DEF IsCounted
        <3> QED BY <2>1, <2>2, <2>3, <2>5, <3>1 DEF Worse
    <2> QED BY <2>4, <2>5
<1>2. inflight' \in [Endpoints -> Int] /\ slots' \in [Endpoints -> Int]
    BY Facts DEF Counted
<1> QED BY <1>1, <1>2 DEF Follow

LEMMA FailoverKeeps ==
    ASSUME Inv, NEW r \in Requests, NEW e \in Endpoints, Failover(r, e)
    PROVE  Inv'
<1>0. /\ req[r] \in RequestType /\ Sound(r, req[r], att[r]) /\ req \in [Requests -> RequestType]
      /\ req[r].phase = "wait" /\ att[r][e].st = "sent" /\ UNCHANGED <<slots, layer>>
      /\ att[r][e].out \in {"failed", "mismatch", "allowlist"}
    BY Facts DEF Failover, Sent, ShouldFailover
<1>1. PICK n \in {0, 1} : n = IF req[r].next < Len(req[r].order) THEN 1 ELSE 0
    OBVIOUS
<1>2. PICK b \in [Endpoints -> AttemptType] : b = Seen(r, e)
    BY SeenFacts
<1>3. PICK a \in [Endpoints -> AttemptType] : a = Started(b, req[r].order, req[r].next, n)
    BY StartedFacts
<1>4. att' = [att EXCEPT ![r] = a] /\ inflight' = Counted(a, att[r]) /\ req' = [req EXCEPT ![r].next = @ + n]
    BY <1>1, <1>2, <1>3 DEF Failover
<1>5. PICK q \in RequestType : q = [req[r] EXCEPT !.next = req[r].next + n]
    <2>1. req[r].next + n \in Nat
        BY <1>0 DEF RequestType
    <2>2. [req[r] EXCEPT !.next = req[r].next + n] \in RequestType
        BY <1>0, <2>1 DEF RequestType
    <2> QED BY <2>2
<1>6. /\ q.phase = "wait" /\ q.ctx = req[r].ctx /\ q.order = req[r].order /\ q.next = req[r].next + n
      /\ q.held = req[r].held /\ q.selected = req[r].selected /\ q.aborted = req[r].aborted
      /\ q.winner = req[r].winner
    BY <1>0, <1>5 DEF RequestType
<1>7. /\ b[e].st = "seen" /\ b[e].out = att[r][e].out /\ b[e].body = att[r][e].body
      /\ b[e].cancelled = att[r][e].cancelled /\ \A d \in Endpoints : d # e => b[d] = att[r][d]
    BY <1>2, SeenFacts
<1> DEFINE P(d) == Picked(req[r].order, req[r].next, n, d)
<1>8. \A d \in Endpoints : /\ ~P(d) => a[d] = b[d]
                           /\ P(d) => /\ a[d].st = "slot" \/ (a[d].st = "sent" /\ a[d].out = "failed")
                                      /\ a[d].body = "none" /\ ~a[d].cancelled
    BY <1>3, StartedFacts
<1>9. /\ \A i \in DOMAIN req[r].order : req[r].order[i] \in Endpoints /\ i \in Nat
      /\ req[r].next \in Nat /\ req[r].selected \in MaybeEndpoint
    BY <1>0 DEF RequestType
<1>10. \A d \in Endpoints : P(d) => att[r][d].st = "none"
    BY <1>0, <1>9 DEF Sound, Runs, Picked
<1>11. ~P(e)
    BY <1>0, <1>10
<1>12. \A i \in DOMAIN req[r].order : P(req[r].order[i]) <=> i > req[r].next /\ i <= req[r].next + n
    BY <1>0, <1>9 DEF Sound, Runs, Picked, IsInjective
<1> HIDE DEF P
<1>13. Begins(q, a)
    BY <1>0, <1>6 DEF Sound, Begins
<1>14. Runs(q, a)
    <2>1. ASSUME NEW i \in DOMAIN req[r].order
          PROVE  a[req[r].order[i]].st = "none" <=> i > req[r].next + n
        <3>1. att[r][req[r].order[i]].st = "none" <=> i > req[r].next
            BY <1>0 DEF Sound, Runs
        <3>2. CASE P(req[r].order[i])
            BY <1>8, <1>9, <1>12, <3>2
        <3>3. CASE ~P(req[r].order[i])
            <4>1. a[req[r].order[i]].st = "none" <=> att[r][req[r].order[i]].st = "none"
                BY <1>0, <1>7, <1>8, <1>9, <3>3
            <4> QED BY <1>9, <1>12, <3>1, <3>3, <4>1
        <3> QED BY <3>2, <3>3
    <2> QED BY <1>0, <1>6, <2>1 DEF Sound, Runs
<1>15. Waits(r, q, a)
    <2>1. req[r].winner = None
        BY <1>0 DEF Sound, Waits
    <2>2. ASSUME NEW d \in Endpoints
          PROVE  /\ ~a[d].cancelled
                 /\ a[d].st = "sent" => a[d].out # "none"
                 /\ a[d].st = "sent" /\ a[d].out = "unselected" => q.selected # None
                 /\ a[d].st = "sent" /\ a[d].out = "allowlist" => MayDeny(d)
                 /\ a[d].st = "sent" /\ a[d].out = "ok" /\ r \notin Consumers => q.selected = d
                 /\ a[d].st = "seen" => a[d].out \in {"failed", "mismatch", "allowlist"} \/ q.selected # None
        BY <1>0, <1>6, <1>7, <1>8 DEF Sound, Waits
    <2>3. q.selected # None => a[q.selected].st = "sent" /\ a[q.selected].out = "ok"
        BY <1>0, <1>6, <1>7, <1>8, <1>9, <1>10 DEF Sound, Waits, MaybeEndpoint
    <2> QED BY <1>6, <2>1, <2>2, <2>3 DEF Waits
<1>16. Bodies(r, q, a)
    <2>1. ASSUME NEW d \in Endpoints
          PROVE  /\ a[d].body = "open" => a[d].st = "got" \/ q.selected = d
                 /\ a[d].st = "got" => a[d].body = "open"
        BY <1>0, <1>6, <1>7, <1>8 DEF Sound, Bodies
    <2>2. q.selected # None => a[q.selected].st = "sent" /\ a[q.selected].body = "open"
        BY <1>0, <1>6, <1>7, <1>8, <1>9, <1>10 DEF Sound, Waits, Bodies, MaybeEndpoint
    <2> QED BY <1>0, <1>6, <2>1, <2>2 DEF Sound, Bodies
<1>17. Sound(r, q, a)
    BY <1>6, <1>13, <1>14, <1>15, <1>16 DEF Sound, FailsFairly
<1>18. Follow(r, q, a)
    <2>1. \A d \in Endpoints : \/ a[d].st = att[r][d].st
                               \/ a[d].st = "seen" /\ att[r][d].st = "sent"
                               \/ a[d].st \in {"slot", "sent"} /\ att[r][d].st = "none"
        BY <1>0, <1>7, <1>8, <1>10
    <2>2. \A d \in Endpoints : layer'[d] = layer[d] + Worse(Reserves(q, d)) - Worse(Reserves(req[r], d))
        BY <1>0, <1>6, Facts DEF Worse, Reserves
    <2>3. layer' \in [Endpoints -> Int]
        BY <1>0, Facts
    <2> QED BY <1>0, <1>4, <2>1, <2>2, <2>3, Acquires
<1>19. req' = [req EXCEPT ![r] = q]
    BY <1>0, <1>4, <1>5
<1> QED BY <1>4, <1>17, <1>18, <1>19, Moves

(* Whatever the policy, a selection lists endpoints of the alias, each once,  *)
(* and reserves some of those.                                                *)
LEMMA Selected ==
    ASSUME NEW order \in SelectBlobRuntimes
    PROVE  order \in Seq(Endpoints) /\ IsInjective(order) /\ Reserved(order) \subseteq Endpoints
<1>1. Candidates \subseteq Endpoints
    BY DEF Candidates, FilterHealthyItems
<1>2. IsFiniteSet(Candidates) /\ Cardinality(Candidates) \in Nat
    BY <1>1, UpstreamAssumption, FS_Subset, FS_CardinalityType
<1>3. order \in [1 .. Cardinality(Candidates) -> Candidates] /\ IsInjective(order)
    BY DEF SelectBlobRuntimes, Lists, Injection
<1>4. order \in Seq(Endpoints)
    BY <1>1, <1>2, <1>3
<1>5. \A i \in 1 .. ReserveCount(order) : order[i] \in Endpoints
    BY <1>4, UpstreamAssumption DEF ReserveCount
<1> QED BY <1>3, <1>4, <1>5 DEF Reserved

LEMMA SelectKeeps ==
    ASSUME Inv, NEW r \in Requests, Select(r)
    PROVE  Inv'
<1>0. /\ req[r] \in RequestType /\ Sound(r, req[r], att[r]) /\ req \in [Requests -> RequestType]
      /\ req[r].phase = "idle" /\ UNCHANGED slots
    BY Facts DEF Select
<1>1. /\ req[r].selected = None /\ ~req[r].aborted /\ req[r].winner = None /\ req[r].held = {}
      /\ \A d \in Endpoints : att[r][d] = NewAttempt
    BY <1>0 DEF Sound, Begins
<1>2. PICK order \in SelectBlobRuntimes :
          LET n == InitialAttempts(r, order)
              held == Reserved(order)
              started == Started(att[r], order, 0, n)
          IN  /\ req' = [req EXCEPT ![r].phase = "wait", ![r].order = order, ![r].next = n, ![r].held = held]
              /\ att' = [att EXCEPT ![r] = started]
              /\ inflight' = Counted(started, att[r])
              /\ layer' = [e \in Endpoints |-> layer[e] + Worse(e \in held)]
    BY DEF Select
<1>3. order \in Seq(Endpoints) /\ IsInjective(order)
    BY Selected
<1>4. PICK held \in SUBSET Endpoints : held = Reserved(order)
    BY Selected
<1>5. PICK n \in Nat : n = InitialAttempts(r, order)
    BY <1>3, UpstreamAssumption DEF InitialAttempts, ReserveCount
<1>6. PICK b \in [Endpoints -> AttemptType] : b = att[r]
    BY Facts
<1>7. PICK a \in [Endpoints -> AttemptType] : a = Started(b, order, 0, n)
    BY StartedFacts
<1>8. PICK q \in RequestType : q = [req[r] EXCEPT !.phase = "wait", !.order = order, !.next = n, !.held = held]
    <2>1. [req[r] EXCEPT !.phase = "wait", !.order = order, !.next = n, !.held = held] \in RequestType
        BY <1>0, <1>3 DEF RequestType, Phases
    <2> QED BY <2>1
<1>9. /\ req' = [req EXCEPT ![r] = q] /\ att' = [att EXCEPT ![r] = a] /\ inflight' = Counted(a, att[r])
      /\ layer' = [e \in Endpoints |-> layer[e] + Worse(e \in held)]
    BY <1>0, <1>2, <1>4, <1>5, <1>6, <1>7, <1>8
<1>10. /\ q.phase = "wait" /\ q.order = order /\ q.next = n /\ q.held = held
       /\ q.selected = None /\ ~q.aborted /\ q.winner = None
    BY <1>0, <1>1, <1>8 DEF RequestType
<1> DEFINE P(d) == Picked(order, 0, n, d)
<1>11. \A d \in Endpoints : /\ ~P(d) => a[d] = NewAttempt
                            /\ P(d) => /\ a[d].st = "slot" \/ (a[d].st = "sent" /\ a[d].out = "failed")
                                       /\ a[d].body = "none" /\ ~a[d].cancelled
    BY <1>1, <1>6, <1>7, StartedFacts
<1>12. \A i \in DOMAIN order : order[i] \in Endpoints /\ i \in Nat /\ i > 0
    BY <1>3
<1>13. \A i \in DOMAIN order : P(order[i]) <=> i <= n
    BY <1>3, <1>12 DEF Picked, IsInjective
<1> HIDE DEF P
<1>14. Begins(q, a)
    BY <1>10 DEF Begins
<1>15. Runs(q, a)
    <2>1. ASSUME NEW i \in DOMAIN order PROVE a[order[i]].st = "none" <=> i > n
        BY <1>11, <1>12, <1>13 DEF NewAttempt
    <2> QED BY <1>3, <1>10, <2>1 DEF Runs
<1>16. Waits(r, q, a)
    BY <1>10, <1>11 DEF Waits, NewAttempt
<1>17. Bodies(r, q, a)
    BY <1>10, <1>11 DEF Bodies, NewAttempt
<1>18. Sound(r, q, a)
    BY <1>10, <1>14, <1>15, <1>16, <1>17 DEF Sound, FailsFairly
<1>19. Follow(r, q, a)
    <2>1. \A d \in Endpoints : \/ a[d].st = att[r][d].st
                               \/ a[d].st = "seen" /\ att[r][d].st = "sent"
                               \/ a[d].st \in {"slot", "sent"} /\ att[r][d].st = "none"
        BY <1>1, <1>11 DEF NewAttempt
    <2>2. \A d \in Endpoints : layer'[d] = layer[d] + Worse(Reserves(q, d)) - Worse(Reserves(req[r], d))
        BY <1>1, <1>9, <1>10, Facts DEF Worse, Reserves
    <2>3. layer' \in [Endpoints -> Int]
        BY <1>9, Facts DEF Worse
    <2> QED BY <1>0, <1>9, <2>1, <2>2, <2>3, Acquires
<1> QED BY <1>9, <1>18, <1>19, Moves

-----------------------------------------------------------------------------
(* All steps together. *)

LEMMA StutterKeeps ==
    ASSUME Inv, UNCHANGED <<req, att, inflight, slots, layer>>
    PROVE  Inv'
<1>1. TypeOK'
    BY DEF Inv, TypeOK
<1>2. Counts'
    BY DEF Inv, Counts, Slotted, Flying, Reserving
<1>3. \A r \in Requests : Sound(r, req[r], att[r])'
    BY DEF Inv
<1> QED BY <1>1, <1>2, <1>3 DEF Inv

LEMMA InvInit ==
    ASSUME Init
    PROVE  Inv
<1>0. NewAttempt \in AttemptType
    BY DEF NewAttempt, AttemptType, States, Outcomes
<1>1. NewRequest \in RequestType
    <2>1. None \in MaybeEndpoint /\ <<>> \in Seq(Endpoints) /\ {} \in SUBSET Endpoints /\ 0 \in Nat
        BY DEF MaybeEndpoint
    <2> QED BY <2>1 DEF NewRequest, RequestType, Phases
<1>2. TypeOK
    BY <1>0, <1>1 DEF Init, TypeOK
<1>3. Counts
    <2>1. ASSUME NEW e \in Endpoints PROVE Slotted(e) = {} /\ Flying(e) = {} /\ Reserving(e) = {}
        BY DEF Init, Slotted, Flying, Reserving, HasSlot, IsCounted, Reserves, NewAttempt, NewRequest
    <2>2. Cardinality({}) = 0
        BY FS_EmptySet
    <2>3. ASSUME NEW e \in Endpoints PROVE slots[e] = 0 /\ inflight[e] = 0 /\ layer[e] = 0
        BY DEF Init
    <2>4. 0 <= BlobLimit
        BY UpstreamAssumption
    <2> QED BY <2>1, <2>2, <2>3, <2>4 DEF Counts
<1>4. \A e \in Endpoints : NewAttempt.st = "none" /\ NewAttempt.body = "none"
    BY DEF NewAttempt
<1>5. /\ NewRequest.phase = "idle" /\ NewRequest.order = <<>> /\ NewRequest.held = {}
      /\ NewRequest.selected = None /\ ~NewRequest.aborted /\ NewRequest.winner = None
    BY DEF NewRequest
<1>6. ASSUME NEW r \in Requests PROVE Sound(r, req[r], att[r])
    <2>1. req[r] = NewRequest /\ \A e \in Endpoints : att[r][e] = NewAttempt
        BY DEF Init
    <2>2. DOMAIN req[r].order = {}
        BY <1>5, <2>1
    <2>3. Begins(req[r], att[r]) /\ Waits(r, req[r], att[r]) /\ FailsFairly(req[r], att[r])
        BY <1>5, <2>1 DEF Begins, Waits, FailsFairly
    <2>4. Runs(req[r], att[r])
        BY <2>2 DEF Runs, IsInjective
    <2>5. Bodies(r, req[r], att[r])
        BY <1>4, <1>5, <2>1 DEF Bodies
    <2> QED BY <2>3, <2>4, <2>5 DEF Sound
<1> QED BY <1>2, <1>3, <1>6 DEF Inv

LEMMA ProgressKeeps ==
    ASSUME Inv, Progress
    PROVE  Inv'
<1>1. PICK r \in Requests :
        \/ Exhausted(r) \/ ContextDone(r) \/ Abort(r) \/ CloseBody(r)
        \/ \E e \in Endpoints :
            \/ AcquireRuntime(r, e) \/ AcquireFails(r, e) \/ BlobArrives(r, e)
            \/ SelectResponse(r, e) \/ Win(r, e) \/ Fatal(r, e) \/ Ignore(r, e) \/ Failover(r, e)
            \/ \E out : AttemptFails(r, e, out) \/ ConsumeBlobResponse(r, e, out)
    BY DEF Progress
<1>2. CASE Exhausted(r) \/ ContextDone(r) \/ Abort(r) \/ CloseBody(r)
    BY <1>2, ExhaustedKeeps, ContextDoneKeeps, AbortKeeps, CloseBodyKeeps
<1>3. ASSUME NEW e \in Endpoints,
             \/ AcquireRuntime(r, e) \/ AcquireFails(r, e) \/ BlobArrives(r, e)
             \/ SelectResponse(r, e) \/ Win(r, e) \/ Fatal(r, e) \/ Ignore(r, e) \/ Failover(r, e)
             \/ \E out : AttemptFails(r, e, out) \/ ConsumeBlobResponse(r, e, out)
      PROVE  Inv'
    BY <1>3, AcquireRuntimeKeeps, AcquireFailsKeeps, BlobArrivesKeeps, SelectResponseKeeps, WinKeeps, FatalKeeps,
       IgnoreKeeps, FailoverKeeps, AttemptFailsKeeps, ConsumeBlobResponseKeeps
<1> QED BY <1>1, <1>2, <1>3

LEMMA InvNext ==
    ASSUME Inv, [Next]_vars
    PROVE  Inv'
<1>1. CASE Progress
    BY <1>1, ProgressKeeps
<1>2. ASSUME NEW r \in Requests, Select(r) \/ Cancel(r) PROVE Inv'
    BY <1>2, SelectKeeps, CancelKeeps
<1>3. ASSUME NEW e \in Endpoints, Expire(e) PROVE Inv'
    BY <1>3, StutterKeeps DEF Expire
<1>4. CASE UNCHANGED vars
    BY <1>4, StutterKeeps DEF vars
<1> QED BY <1>1, <1>2, <1>3, <1>4 DEF Next, Finished

(* The inductive invariant: the bookkeeping of each request, and the counters *)
(* of each endpoint.                                                          *)
THEOREM InvHolds == Spec => []Inv
BY InvInit, InvNext, PTL DEF Spec

(* On every path out of an attempt and of a request (acquired or not, failed, *)
(* refused, selected, cancelled, given up, closed) the slots, in-flight       *)
(* counts and layer reservations are those of the attempts and selections     *)
(* that hold them, and no endpoint has more than BlobLimit slots taken.       *)
THEOREM SlotsStayExact == Spec => []SlotsExact
<1>1. Inv => SlotsExact
    BY DEF Inv, Counts, SlotsExact, Slotted, Flying, Reserving, HasSlot, IsCounted, Reserves
<1> QED BY <1>1, InvHolds, PTL

(* A caller that was given a body reads it from a live attempt while every    *)
(* other body is closed or about to be, and a request whose context is live   *)
(* fails only on a final error or after every endpoint it selected failed.    *)
THEOREM OutcomesEarned == Spec => []OutcomeEarned
<1>1. ASSUME Inv PROVE WinnerAlive
    <2>1. ASSUME NEW r \in Requests, req[r].phase = "read"
          PROVE  /\ att[r][req[r].winner].body = "open" /\ ~att[r][req[r].winner].cancelled
                 /\ req[r].selected = req[r].winner
                 /\ \A e \in Endpoints \ {req[r].winner} : att[r][e].body = "open" => att[r][e].st = "got"
        BY <1>1, <2>1, Facts DEF Sound, Bodies
    <2> QED BY <2>1 DEF WinnerAlive
<1>2. ASSUME Inv PROVE FailsOnlyWhenAllFailed
    BY <1>2 DEF Inv, Sound, FailsFairly, FailsOnlyWhenAllFailed
<1>3. Inv => OutcomeEarned
    BY <1>1, <1>2 DEF OutcomeEarned
<1> QED BY <1>3, InvHolds, PTL
-----------------------------------------------------------------------------
(* The health records of an endpoint. *)

Record == [fails : Nat, cool : BOOLEAN]
MaybeRecord == Record \cup {H!None}
Records == [H!Scopes -> MaybeRecord]
UpdateType == [pc : {"idle", "snapshot", "enqueue", "hot"}, ep : MaybeRecord, repo : MaybeRecord]

HealthType ==
    /\ states \in [H!Scopes -> Record] /\ upd \in [Updaters -> UpdateType]
    /\ pending \in Records /\ batch \in [Flushers -> Records] /\ sql \in Records /\ hot \in Records
    /\ failed \in BOOLEAN /\ fate \in [H!Scopes -> {"none", "queued", "stored", "dropped"}]

(* An updater that has something to hand over has it. *)
Carries ==
    \A u \in Updaters : /\ upd[u].pc = "snapshot" => upd[u].repo # H!None
                        /\ upd[u].pc \in {"enqueue", "hot"} => upd[u].ep # H!None \/ upd[u].repo # H!None

(* Until the endpoint itself has failed no record of it is cooling down, also *)
(* none in the hands of an updater or a flush.                                *)
Unblamed ==
    ~failed => /\ ~states["endpoint"].cool /\ ~pending["endpoint"].cool
               /\ ~sql["endpoint"].cool /\ ~hot["endpoint"].cool
               /\ \A u \in Updaters : ~upd[u].ep.cool
               /\ \A f \in Flushers : ~batch[f]["endpoint"].cool

HealthInv == HealthType /\ Carries /\ Unblamed /\ H!NothingForgotten

LEMMA Scoped == "endpoint" \in H!Scopes /\ "repo" \in H!Scopes
BY DEF H!Scopes

LEMMA NoRecord == H!None \notin Record /\ ~H!None.cool /\ H!None \in MaybeRecord
BY DEF H!None, Record, MaybeRecord

LEMMA FailureRecorded ==
    ASSUME Threshold \in Nat, NEW st \in Record
    PROVE  H!RecordFailureLocked(st) \in Record
<1>1. PICK n \in Nat : n = IF st.fails < Threshold THEN st.fails + 1 ELSE Threshold
    BY DEF Record
<1>2. PICK b \in BOOLEAN : b = (st.cool \/ st.fails + 1 >= Threshold)
    OBVIOUS
<1> QED BY <1>1, <1>2 DEF H!RecordFailureLocked, Record
(* What an updater that does nothing holds. *)
LEMMA IdleUpdater ==
    H!Idle \in UpdateType /\ H!Idle.pc = "idle" /\ H!Idle.ep = H!None /\ H!Idle.repo = H!None
<1>1. H!None \in MaybeRecord
    BY DEF MaybeRecord
<1> QED BY <1>1 DEF H!Idle, UpdateType

(* A request records in the tracker: blame says whether the endpoint failed.  *)
LEMMA RecordsRequest ==
    ASSUME HealthInv, NEW u \in Updaters, NEW st \in [H!Scopes -> Record], H!RecordRequest(u, st),
           failed' \in BOOLEAN, failed => failed', ~failed' => ~st["endpoint"].cool
    PROVE  HealthInv'
<1>1. st["endpoint"] \in Record /\ st["repo"] \in Record
    BY Scoped
<1>2. PICK snap \in Record : snap = H!CombinedSnapshotLocked(st)
    BY <1>1 DEF H!CombinedSnapshotLocked, Record
<1>3. snap \in MaybeRecord /\ H!None \in MaybeRecord /\ snap # H!None
    BY NoRecord DEF MaybeRecord
<1>4. PICK w \in UpdateType : w = [H!Idle EXCEPT !.pc = "snapshot", !.repo = snap]
    BY <1>3, IdleUpdater DEF UpdateType
<1>5. upd' = [upd EXCEPT ![u] = w]
    BY <1>2, <1>4 DEF H!RecordRequest
<1>6. upd' \in [Updaters -> UpdateType] /\ upd'[u] = w /\ \A v \in Updaters : v # u => upd'[v] = upd[v]
    BY <1>5 DEF HealthInv, HealthType
<1>7. w.pc = "snapshot" /\ w.ep = H!None /\ w.repo = snap
    BY <1>4, IdleUpdater DEF UpdateType
<1>8. states' = st /\ UNCHANGED <<pending, batch, sql, hot, fate>>
    BY DEF H!RecordRequest
<1>9. HealthType'
    BY <1>6, <1>8 DEF HealthInv, HealthType
<1>10. Carries'
    BY <1>3, <1>6, <1>7 DEF HealthInv, Carries
<1>11. Unblamed'
    BY <1>6, <1>7, <1>8, NoRecord DEF HealthInv, Unblamed
<1>12. H!NothingForgotten'
    BY <1>8 DEF HealthInv, H!NothingForgotten, H!Waiting
<1> QED BY <1>9, <1>10, <1>11, <1>12 DEF HealthInv

LEMMA UpdateKeeps ==
    ASSUME Threshold \in Nat, HealthInv, NEW u \in Updaters, H!Update(u)
    PROVE  HealthInv'
<1>0. states \in [H!Scopes -> Record] /\ failed \in BOOLEAN /\ H!NewState \in Record /\ ~H!NewState.cool
    BY DEF HealthInv, HealthType, H!NewState, Record
<1>00. (~failed => ~states["endpoint"].cool)
    BY DEF HealthInv, Unblamed
<1>1. CASE H!RecordRequestSuccess(u)
    <2>1. PICK st \in [H!Scopes -> Record] : st = [s \in H!Scopes |-> H!RecordSuccessLocked(states[s])]
        BY <1>0 DEF H!RecordSuccessLocked
    <2>2. ~st["endpoint"].cool
        BY <1>0, <2>1, Scoped DEF H!RecordSuccessLocked
    <2> QED BY <1>0, <1>1, <2>1, <2>2, RecordsRequest DEF H!RecordRequestSuccess
<1>2. CASE H!RecordRequestFailure(u)
    <2>1. PICK st \in [H!Scopes -> Record] : st = [s \in H!Scopes |-> H!RecordFailureLocked(states[s])]
        BY <1>0, FailureRecorded
    <2> QED BY <1>2, <2>1, RecordsRequest DEF H!RecordRequestFailure
<1>3. CASE H!RecordRepositoryRequestFailure(u)
    <2>1. states["repo"] \in Record
        BY <1>0, Scoped
    <2>2. PICK new \in Record : new = H!RecordFailureLocked(states["repo"])
        BY <2>1, FailureRecorded
    <2>3. PICK st \in [H!Scopes -> Record] : st = [states EXCEPT !["repo"] = new]
        BY <1>0
    <2>4. st["endpoint"] = states["endpoint"]
        BY <1>0, <2>3, Scoped
    <2>5. H!RecordRequest(u, st)
        BY <1>3, <2>2, <2>3 DEF H!RecordRepositoryRequestFailure
    <2> QED BY <1>0, <1>00, <1>3, <2>4, <2>5, RecordsRequest DEF H!RecordRepositoryRequestFailure
<1>4. CASE H!RecordContentInconsistent(u)
    BY <1>0, <1>00, <1>4, RecordsRequest DEF H!RecordContentInconsistent
<1>5. CASE \E ok \in BOOLEAN : H!RecordProbe(u, ok)
    <2>1. PICK ok \in BOOLEAN : H!RecordProbe(u, ok)
        BY <1>5
    <2>2. states["endpoint"] \in Record
        BY <1>0, Scoped
    <2>3. PICK new \in Record : new = IF ok THEN H!RecordSuccessLocked(states["endpoint"])
                                      ELSE H!RecordFailureLocked(states["endpoint"])
        BY <1>0, <2>2, FailureRecorded DEF H!RecordSuccessLocked
    <2>4. ok => ~new.cool
        BY <1>0, <2>3 DEF H!RecordSuccessLocked
    <2>5. new \in MaybeRecord /\ H!None \in MaybeRecord /\ new # H!None
        BY NoRecord DEF MaybeRecord
    <2>6. PICK w \in UpdateType : w = [H!Idle EXCEPT !.pc = "enqueue", !.ep = new]
        BY <2>5, IdleUpdater DEF UpdateType
    <2>7. upd' = [upd EXCEPT ![u] = w] /\ states' = [states EXCEPT !["endpoint"] = new]
          /\ failed' = (failed \/ ~ok) /\ UNCHANGED <<pending, batch, sql, hot, fate>>
        BY <2>1, <2>3, <2>6 DEF H!RecordProbe
    <2>8. upd' \in [Updaters -> UpdateType] /\ upd'[u] = w /\ \A v \in Updaters : v # u => upd'[v] = upd[v]
        BY <2>7 DEF HealthInv, HealthType
    <2>9. w.pc = "enqueue" /\ w.ep = new
        BY <2>6, IdleUpdater DEF UpdateType
    <2>10. states' \in [H!Scopes -> Record] /\ states'["endpoint"] = new
        BY <1>0, <2>7, Scoped
    <2>11. HealthType'
        BY <2>7, <2>8, <2>10 DEF HealthInv, HealthType
    <2>12. Carries'
        BY <2>5, <2>8, <2>9 DEF HealthInv, Carries
    <2>13. Unblamed'
        BY <2>4, <2>7, <2>8, <2>9, <2>10 DEF HealthInv, Unblamed
    <2>14. H!NothingForgotten'
        BY <2>7 DEF HealthInv, H!NothingForgotten, H!Waiting
    <2> QED BY <2>11, <2>12, <2>13, <2>14 DEF HealthInv
<1> QED BY <1>1, <1>2, <1>3, <1>4, <1>5 DEF H!Update

(* What an updater hands over next. *)
LEMMA HandedOver ==
    ASSUME HealthInv, NEW u \in Updaters, upd[u].pc \in {"enqueue", "hot"}
    PROVE  /\ H!HandedRecord(u) \in MaybeRecord /\ H!HandedRecord(u) # H!None /\ H!Handed(u) \in H!Scopes
           /\ ~failed /\ H!Handed(u) = "endpoint" => ~H!HandedRecord(u).cool
<1>1. upd[u].ep \in MaybeRecord /\ upd[u].repo \in MaybeRecord
    BY DEF HealthInv, HealthType, UpdateType
<1>2. upd[u].ep # H!None \/ upd[u].repo # H!None
    BY DEF HealthInv, Carries
<1>3. ~failed => ~upd[u].ep.cool
    BY DEF HealthInv, Unblamed
<1>4. CASE upd[u].ep # H!None
    BY <1>1, <1>3, <1>4, Scoped DEF H!HandedRecord, H!Handed
<1>5. CASE upd[u].ep = H!None
    BY <1>1, <1>2, <1>5, Scoped DEF H!HandedRecord, H!Handed
<1> QED BY <1>4, <1>5

LEMMA HandOverKeeps ==
    ASSUME HealthInv, NEW u \in Updaters, H!HandOver(u)
    PROVE  HealthInv'
<1>0. upd[u] \in UpdateType /\ states["endpoint"] \in Record /\ states["endpoint"] \in MaybeRecord
    BY Scoped DEF HealthInv, HealthType, MaybeRecord
<1>1. CASE H!Snapshot(u)
    <2>1. PICK w \in UpdateType : w = [upd[u] EXCEPT !.pc = "enqueue", !.ep = states["endpoint"]]
        BY <1>0 DEF UpdateType
    <2>2. w.pc = "enqueue" /\ w.ep = states["endpoint"]
        BY <1>0, <2>1 DEF UpdateType
    <2>3. upd' = [upd EXCEPT ![u] = w] /\ UNCHANGED <<states, pending, batch, sql, hot, fate, failed>>
        BY <1>1, <2>1 DEF H!Snapshot, HealthInv, HealthType
    <2>4. upd' \in [Updaters -> UpdateType] /\ upd'[u] = w /\ \A v \in Updaters : v # u => upd'[v] = upd[v]
        BY <2>3 DEF HealthInv, HealthType
    <2>5. HealthType'
        BY <2>3, <2>4 DEF HealthInv, HealthType
    <2>6. Carries'
        BY <1>0, <2>2, <2>4, NoRecord DEF HealthInv, Carries
    <2>7. Unblamed'
        BY <2>2, <2>3, <2>4 DEF HealthInv, Unblamed
    <2>8. H!NothingForgotten'
        BY <2>3 DEF HealthInv, H!NothingForgotten, H!Waiting
    <2> QED BY <2>5, <2>6, <2>7, <2>8 DEF HealthInv
<1>2. CASE H!Enqueue(u)
    <2>1. PICK r \in MaybeRecord : r = H!HandedRecord(u) /\ r # H!None
        BY <1>2, HandedOver DEF H!Enqueue
    <2>2. PICK h \in H!Scopes : h = H!Handed(u) /\ (~failed /\ h = "endpoint" => ~r.cool)
        BY <1>2, <2>1, HandedOver DEF H!Enqueue
    <2>3. PICK w \in UpdateType : w = [upd[u] EXCEPT !.pc = "hot"]
        BY <1>0 DEF UpdateType
    <2>4. w.pc = "hot" /\ w.ep = upd[u].ep /\ w.repo = upd[u].repo
        BY <1>0, <2>3 DEF UpdateType
    <2>5. upd' = [upd EXCEPT ![u] = w] /\ pending' = [pending EXCEPT ![h] = r]
          /\ fate' = [fate EXCEPT ![h] = "queued"] /\ UNCHANGED <<states, batch, sql, hot, failed>>
        BY <1>2, <2>1, <2>2, <2>3 DEF H!Enqueue, HealthInv, HealthType
    <2>6. upd' \in [Updaters -> UpdateType] /\ upd'[u] = w /\ \A v \in Updaters : v # u => upd'[v] = upd[v]
        BY <2>5 DEF HealthInv, HealthType
    <2>7. pending' \in Records /\ pending'[h] = r /\ \A s \in H!Scopes : s # h => pending'[s] = pending[s]
        BY <2>5 DEF HealthInv, HealthType, Records
    <2>8. fate' \in [H!Scopes -> {"none", "queued", "stored", "dropped"}]
          /\ \A s \in H!Scopes : s # h => fate'[s] = fate[s]
        BY <2>5 DEF HealthInv, HealthType
    <2>9. HealthType'
        BY <2>5, <2>6, <2>7, <2>8 DEF HealthInv, HealthType
    <2>10. Carries'
        BY <1>2, <2>4, <2>6 DEF HealthInv, Carries, H!Enqueue
    <2>11. Unblamed'
        BY <2>2, <2>4, <2>5, <2>6, <2>7, Scoped DEF HealthInv, Unblamed
    <2>12. H!NothingForgotten'
        BY <2>1, <2>5, <2>7, <2>8 DEF HealthInv, H!NothingForgotten, H!Waiting
    <2> QED BY <2>9, <2>10, <2>11, <2>12 DEF HealthInv
<1>3. CASE \E ok \in BOOLEAN : H!PutHot(u, ok)
    <2>1. PICK ok \in BOOLEAN : H!PutHot(u, ok)
        BY <1>3
    <2>2. PICK r \in MaybeRecord : r = H!HandedRecord(u) /\ r # H!None
        BY <2>1, HandedOver DEF H!PutHot
    <2>3. PICK h \in H!Scopes : h = H!Handed(u) /\ (~failed /\ h = "endpoint" => ~r.cool)
        BY <2>1, <2>2, HandedOver DEF H!PutHot
    <2>4. hot' = hot \/ hot' = [hot EXCEPT ![h] = r]
        BY <2>1, <2>2, <2>3 DEF H!PutHot
    <2>5. hot' \in Records /\ (hot'["endpoint"] = hot["endpoint"] \/ (hot'["endpoint"] = r /\ h = "endpoint"))
        BY <2>4, Scoped DEF HealthInv, HealthType, Records
    <2>6. PICK w \in UpdateType : /\ upd' = [upd EXCEPT ![u] = w] /\ w.ep = H!None
                                  /\ w.pc = "idle" \/ (w.pc = "enqueue" /\ w.repo # H!None)
        <3>1. CASE upd[u].ep # H!None /\ upd[u].repo # H!None
            <4>1. PICK w \in UpdateType : w = [upd[u] EXCEPT !.pc = "enqueue", !.ep = H!None]
                BY <1>0, NoRecord DEF UpdateType
            <4>2. w.pc = "enqueue" /\ w.ep = H!None /\ w.repo # H!None
                BY <1>0, <3>1, <4>1 DEF UpdateType
            <4>3. upd' = [upd EXCEPT ![u] = w]
                BY <2>1, <3>1, <4>1 DEF H!PutHot, HealthInv, HealthType
            <4> QED BY <4>2, <4>3
        <3>2. CASE ~(upd[u].ep # H!None /\ upd[u].repo # H!None)
            <4>1. PICK w \in UpdateType : w = H!Idle
                BY NoRecord DEF UpdateType, H!Idle
            <4>2. w.pc = "idle" /\ w.ep = H!None
                BY <4>1 DEF H!Idle
            <4>3. upd' = [upd EXCEPT ![u] = w]
                BY <2>1, <3>2, <4>1 DEF H!PutHot
            <4> QED BY <4>2, <4>3
        <3> QED BY <3>1, <3>2
    <2>7. upd' \in [Updaters -> UpdateType] /\ upd'[u] = w /\ \A v \in Updaters : v # u => upd'[v] = upd[v]
        BY <2>6 DEF HealthInv, HealthType
    <2>8. UNCHANGED <<states, pending, batch, sql, fate, failed>>
        BY <2>1 DEF H!PutHot
    <2>9. HealthType'
        BY <2>5, <2>7, <2>8 DEF HealthInv, HealthType
    <2>10. Carries'
        BY <2>6, <2>7 DEF HealthInv, Carries
    <2>11. Unblamed'
        BY <2>3, <2>5, <2>6, <2>7, <2>8, NoRecord DEF HealthInv, Unblamed
    <2>12. H!NothingForgotten'
        BY <2>8 DEF HealthInv, H!NothingForgotten, H!Waiting
    <2> QED BY <2>9, <2>10, <2>11, <2>12 DEF HealthInv
<1> QED BY <1>1, <1>2, <1>3 DEF H!HandOver
-----------------------------------------------------------------------------
(* Flushes *)

LEMMA DrainKeeps ==
    ASSUME HealthInv, NEW f \in Flushers, H!Drain(f)
    PROVE  HealthInv'
<1>1. batch' = [batch EXCEPT ![f] = pending] /\ pending' = [s \in H!Scopes |-> H!None]
      /\ UNCHANGED <<states, upd, sql, hot, fate, failed>>
    BY DEF H!Drain
<1>2. batch' \in [Flushers -> Records] /\ batch'[f] = pending /\ \A g \in Flushers : g # f => batch'[g] = batch[g]
    BY <1>1 DEF HealthInv, HealthType
<1>3. pending' \in Records /\ pending'["endpoint"] = H!None
    BY <1>1, NoRecord, Scoped DEF Records
<1>4. HealthType'
    BY <1>1, <1>2, <1>3 DEF HealthInv, HealthType
<1>5. Carries'
    BY <1>1 DEF HealthInv, Carries
<1>6. Unblamed'
    BY <1>1, <1>2, <1>3, NoRecord DEF HealthInv, Unblamed
<1>7. H!NothingForgotten'
    <2>1. ASSUME NEW s \in H!Scopes, fate[s] = "queued" PROVE \E g \in Flushers : batch'[g][s] # H!None
        <3>1. CASE pending[s] # H!None
            BY <1>2, <3>1
        <3>2. CASE pending[s] = H!None
            <4>1. PICK g \in Flushers : batch[g][s] # H!None
                BY <2>1, <3>2 DEF HealthInv, H!NothingForgotten, H!Waiting
            <4>2. g # f
                BY <4>1 DEF H!Drain, H!NothingIn
            <4> QED BY <1>2, <4>1, <4>2
        <3> QED BY <3>1, <3>2
    <2> QED BY <1>1, <2>1 DEF H!NothingForgotten, H!Waiting
<1> QED BY <1>4, <1>5, <1>6, <1>7 DEF HealthInv

(* A record goes back to the buffer unless a newer one is there. *)
LEMMA RequeuedBack ==
    ASSUME HealthInv, NEW f \in Flushers, NEW s \in H!Scopes, batch[f][s] # H!None
    PROVE  /\ H!Requeued(f, s) \in Records /\ H!Requeued(f, s)[s] # H!None
           /\ \A t \in H!Scopes : pending[t] # H!None \/ t # s => H!Requeued(f, s)[t] = pending[t]
           /\ ~failed => ~H!Requeued(f, s)["endpoint"].cool
<1>1. pending \in Records /\ batch[f][s] \in MaybeRecord
    BY DEF HealthInv, HealthType, Records
<1>2. ~failed => ~pending["endpoint"].cool /\ ~batch[f]["endpoint"].cool
    BY DEF HealthInv, Unblamed
<1>3. CASE pending[s] = H!None
    <2>1. PICK b \in MaybeRecord : b = batch[f][s]
        BY <1>1
    <2>2. H!Requeued(f, s) = [pending EXCEPT ![s] = b]
        BY <1>3, <2>1 DEF H!Requeued
    <2>3. [pending EXCEPT ![s] = b] \in Records /\ [pending EXCEPT ![s] = b][s] = b
          /\ \A t \in H!Scopes : t # s => [pending EXCEPT ![s] = b][t] = pending[t]
        BY <1>1 DEF Records
    <2>4. ~failed => ~[pending EXCEPT ![s] = b]["endpoint"].cool
        <3>1. CASE s = "endpoint"
            BY <1>2, <2>1, <2>3, <3>1
        <3>2. CASE s # "endpoint"
            BY <1>2, <2>3, <3>2, Scoped
        <3> QED BY <3>1, <3>2
    <2> QED BY <1>3, <2>1, <2>2, <2>3, <2>4
<1>4. CASE pending[s] # H!None
    BY <1>1, <1>2, <1>4 DEF H!Requeued
<1> QED BY <1>3, <1>4

LEMMA PersistKeeps ==
    ASSUME HealthInv, NEW f \in Flushers, NEW s \in H!Scopes, H!Persist(f, s) \/ H!PersistFails(f, s)
    PROVE  HealthInv'
<1>0. batch[f][s] # H!None /\ batch[f] \in Records /\ batch[f][s] \in MaybeRecord
    BY DEF HealthInv, HealthType, Records, H!Persist, H!PersistFails
<1>1. PICK b \in Records : b = [batch[f] EXCEPT ![s] = H!None]
    BY <1>0, NoRecord DEF Records
<1>2. b[s] = H!None /\ \A t \in H!Scopes : t # s => b[t] = batch[f][t]
    BY <1>0, <1>1 DEF Records
<1>3. batch' = [batch EXCEPT ![f] = b]
    BY <1>1 DEF H!Persist, H!PersistFails, HealthInv, HealthType
<1>4. batch' \in [Flushers -> Records] /\ batch'[f] = b /\ \A g \in Flushers : g # f => batch'[g] = batch[g]
    BY <1>3 DEF HealthInv, HealthType
<1>5. \A g \in Flushers : batch'[g]["endpoint"] = batch[g]["endpoint"] \/ batch'[g]["endpoint"] = H!None
    BY <1>2, <1>4, Scoped
<1>6. \A t \in H!Scopes : t # s => \A g \in Flushers : batch'[g][t] = batch[g][t]
    BY <1>2, <1>4
<1>7. UNCHANGED <<states, upd, hot, failed>>
    BY DEF H!Persist, H!PersistFails
<1>8. Carries'
    BY <1>7 DEF HealthInv, Carries
<1>9. CASE H!Persist(f, s)
    <2>1. sql' = [sql EXCEPT ![s] = batch[f][s]] /\ fate' = [fate EXCEPT ![s] = "stored"] /\ UNCHANGED pending
        BY <1>9 DEF H!Persist
    <2>2. sql' \in Records /\ sql'[s] = batch[f][s] /\ \A t \in H!Scopes : t # s => sql'[t] = sql[t]
        BY <1>0, <2>1 DEF HealthInv, HealthType, Records
    <2>3. fate' \in [H!Scopes -> {"none", "queued", "stored", "dropped"}] /\ fate'[s] = "stored"
          /\ \A t \in H!Scopes : t # s => fate'[t] = fate[t]
        BY <2>1 DEF HealthInv, HealthType
    <2>4. HealthType'
        BY <1>4, <1>7, <2>1, <2>2, <2>3 DEF HealthInv, HealthType
    <2>5. sql'["endpoint"] = sql["endpoint"] \/ sql'["endpoint"] = batch[f]["endpoint"]
        BY <2>2, Scoped
    <2>6. Unblamed'
        BY <1>5, <1>7, <2>1, <2>5, NoRecord DEF HealthInv, Unblamed
    <2>7. H!NothingForgotten'
        BY <1>6, <2>1, <2>3 DEF HealthInv, H!NothingForgotten, H!Waiting
    <2> QED BY <1>8, <2>4, <2>6, <2>7 DEF HealthInv
<1>10. CASE H!PersistFails(f, s)
    <2>1. pending' = H!Requeued(f, s) /\ UNCHANGED <<sql, fate>>
        BY <1>10 DEF H!PersistFails
    <2>2. /\ pending' \in Records /\ pending'[s] # H!None
          /\ \A t \in H!Scopes : pending[t] # H!None \/ t # s => pending'[t] = pending[t]
          /\ ~failed => ~pending'["endpoint"].cool
        BY <1>0, <2>1, RequeuedBack
    <2>3. HealthType'
        BY <1>4, <1>7, <2>1, <2>2 DEF HealthInv, HealthType
    <2>4. Unblamed'
        BY <1>5, <1>7, <2>1, <2>2, NoRecord DEF HealthInv, Unblamed
    <2>5. H!NothingForgotten'
        BY <1>6, <2>1, <2>2 DEF HealthInv, H!NothingForgotten, H!Waiting
    <2> QED BY <1>8, <2>3, <2>4, <2>5 DEF HealthInv
<1> QED BY <1>9, <1>10

LEMMA FlushTimesOutKeeps ==
    ASSUME HealthInv, NEW f \in Flushers, NEW s \in H!Scopes, H!FlushTimesOut(f, s)
    PROVE  HealthInv'
<1>1. /\ batch[f][s] # H!None /\ pending' = H!Requeued(f, s)
      /\ batch' = [batch EXCEPT ![f] = [t \in H!Scopes |-> H!None]]
      /\ UNCHANGED <<states, upd, sql, hot, failed>>
    BY DEF H!FlushTimesOut
<1>2. /\ pending' \in Records /\ pending'[s] # H!None
      /\ \A t \in H!Scopes : pending[t] # H!None \/ t # s => pending'[t] = pending[t]
      /\ ~failed => ~pending'["endpoint"].cool
    BY <1>1, RequeuedBack
<1>3. PICK b \in Records : b = [t \in H!Scopes |-> H!None]
    BY NoRecord DEF Records
<1>4. batch' \in [Flushers -> Records] /\ batch'[f] = b /\ \A g \in Flushers : g # f => batch'[g] = batch[g]
    BY <1>1, <1>3 DEF HealthInv, HealthType
<1>5. \A t \in H!Scopes : fate'[t] = IF t # s /\ H!Waiting(t) = {f} /\ pending[t] = H!None THEN "dropped" ELSE fate[t]
    BY DEF H!FlushTimesOut
<1>6. fate' \in [H!Scopes -> {"none", "queued", "stored", "dropped"}]
    BY DEF HealthInv, HealthType, H!FlushTimesOut
<1>7. HealthType'
    BY <1>1, <1>2, <1>4, <1>6 DEF HealthInv, HealthType
<1>8. Carries'
    BY <1>1 DEF HealthInv, Carries
<1>9. Unblamed'
    BY <1>1, <1>2, <1>3, <1>4, NoRecord, Scoped DEF HealthInv, Unblamed
<1>10. H!NothingForgotten'
    <2>1. ASSUME NEW t \in H!Scopes, fate'[t] = "queued", pending'[t] = H!None
          PROVE  \E g \in Flushers : batch'[g][t] # H!None
        <3>1. t # s /\ pending[t] = H!None
            BY <1>2, <2>1
        <3>2. H!Waiting(t) # {f} /\ fate[t] = "queued"
            BY <1>5, <2>1, <3>1
        <3>3. H!Waiting(t) # {}
            BY <3>1, <3>2 DEF HealthInv, H!NothingForgotten
        <3>4. PICK g \in H!Waiting(t) : g # f
            BY <3>2, <3>3
        <3> QED BY <1>4, <3>4 DEF H!Waiting
    <2> QED BY <2>1 DEF H!NothingForgotten, H!Waiting
<1> QED BY <1>7, <1>8, <1>9, <1>10 DEF HealthInv

-----------------------------------------------------------------------------
(* Time, expiry and restarts *)

LEMMA CooledRecords ==
    ASSUME NEW b \in Records
    PROVE  /\ H!Cooled(b) \in Records
           /\ \A s \in H!Scopes : ~H!Cooled(b)[s].cool /\ (H!Cooled(b)[s] = H!None <=> b[s] = H!None)
<1>1. ASSUME NEW s \in H!Scopes
      PROVE  LET c == [b[s] EXCEPT !.cool = FALSE] IN c \in MaybeRecord /\ ~c.cool /\ (c = H!None <=> b[s] = H!None)
    <2>1. CASE b[s] \in Record
        <3>1. PICK c \in Record : c = [b[s] EXCEPT !.cool = FALSE]
            BY <2>1 DEF Record
        <3>2. ~c.cool
            BY <2>1, <3>1 DEF Record
        <3> QED BY <2>1, <3>1, <3>2, NoRecord DEF MaybeRecord
    <2>2. CASE b[s] = H!None
        <3>1. [H!None EXCEPT !.cool = FALSE] = H!None
            <4>1. H!None \in [fails : Int, cool : BOOLEAN] /\ ~H!None.cool
                BY DEF H!None
            <4>2. \A r \in [fails : Int, cool : BOOLEAN] : ~r.cool => [r EXCEPT !.cool = FALSE] = r
                OBVIOUS
            <4> QED BY <4>1, <4>2
        <3> QED BY <2>2, <3>1, NoRecord
    <2> QED BY <2>1, <2>2 DEF Records, MaybeRecord
<1> QED BY <1>1 DEF H!Cooled, Records

LEMMA TickKeeps ==
    ASSUME HealthInv, H!Tick
    PROVE  HealthInv'
<1>1. /\ states' = H!Cooled(states) /\ pending' = H!Cooled(pending) /\ sql' = H!Cooled(sql) /\ hot' = H!Cooled(hot)
      /\ batch' = [f \in Flushers |-> H!Cooled(batch[f])] /\ UNCHANGED <<upd, fate, failed>>
    BY DEF H!Tick
<1>2. pending \in Records /\ sql \in Records /\ hot \in Records /\ \A f \in Flushers : batch[f] \in Records
    BY DEF HealthInv, HealthType
<1>3. states' \in [H!Scopes -> Record] /\ ~states'["endpoint"].cool
    <2>1. \A s \in H!Scopes : states[s] \in Record
        BY DEF HealthInv, HealthType
    <2>2. \A s \in H!Scopes : [states[s] EXCEPT !.cool = FALSE] \in Record /\ ~[states[s] EXCEPT !.cool = FALSE].cool
        BY <2>1 DEF Record
    <2> QED BY <1>1, <2>2, Scoped DEF H!Cooled
<1>4. /\ pending' \in Records /\ sql' \in Records /\ hot' \in Records /\ batch' \in [Flushers -> Records]
      /\ ~pending'["endpoint"].cool /\ ~sql'["endpoint"].cool /\ ~hot'["endpoint"].cool
      /\ \A f \in Flushers : ~batch'[f]["endpoint"].cool
    BY <1>1, <1>2, CooledRecords, Scoped
<1>5. HealthType'
    BY <1>1, <1>3, <1>4 DEF HealthInv, HealthType
<1>6. Carries'
    BY <1>1 DEF HealthInv, Carries
<1>7. Unblamed'
    BY <1>1, <1>3, <1>4 DEF HealthInv, Unblamed
<1>8. H!NothingForgotten'
    <2>1. \A s \in H!Scopes : (pending'[s] = H!None <=> pending[s] = H!None)
                              /\ \A f \in Flushers : batch'[f][s] = H!None <=> batch[f][s] = H!None
        BY <1>1, <1>2, CooledRecords
    <2> QED BY <1>1, <2>1 DEF HealthInv, H!NothingForgotten, H!Waiting
<1> QED BY <1>5, <1>6, <1>7, <1>8 DEF HealthInv

LEMMA HotExpiresKeeps ==
    ASSUME HealthInv, NEW s \in H!Scopes, H!HotExpires(s)
    PROVE  HealthInv'
<1>1. hot' = [hot EXCEPT ![s] = H!None] /\ UNCHANGED <<states, upd, pending, batch, sql, fate, failed>>
    BY DEF H!HotExpires
<1>2. hot' \in Records /\ (hot'["endpoint"] = hot["endpoint"] \/ hot'["endpoint"] = H!None)
    BY <1>1, NoRecord, Scoped DEF HealthInv, HealthType, Records
<1>3. HealthType'
    BY <1>1, <1>2 DEF HealthInv, HealthType
<1>4. Carries' /\ Unblamed' /\ H!NothingForgotten'
    BY <1>1, <1>2, NoRecord DEF HealthInv, Carries, Unblamed, H!NothingForgotten, H!Waiting
<1> QED BY <1>3, <1>4 DEF HealthInv

LEMMA RestartKeeps ==
    ASSUME HealthInv, NEW listed \in BOOLEAN, H!Restart(listed)
    PROVE  HealthInv'
<1>1. /\ states' = H!Restored(listed) /\ upd' = [u \in Updaters |-> H!Idle]
      /\ pending' = [s \in H!Scopes |-> H!None] /\ batch' = [f \in Flushers |-> [s \in H!Scopes |-> H!None]]
      /\ fate' = [s \in H!Scopes |-> "none"] /\ UNCHANGED <<sql, hot, failed>>
    BY DEF H!Restart
<1>2. H!NewState \in Record /\ ~H!NewState.cool
    BY DEF H!NewState, Record
<1>3. \A s \in H!Scopes : /\ hot[s] # H!None => hot[s] \in Record
                          /\ sql[s] # H!None => sql[s] \in Record
    BY DEF HealthInv, HealthType, Records, MaybeRecord
<1>4. states' \in [H!Scopes -> Record]
    BY <1>1, <1>2, <1>3 DEF H!Restored
<1>5. states'["endpoint"] \in {hot["endpoint"], sql["endpoint"], H!NewState}
    BY <1>1, Scoped DEF H!Restored
<1>6. H!Idle \in UpdateType /\ H!Idle.pc = "idle" /\ H!Idle.ep = H!None
    BY NoRecord DEF H!Idle, UpdateType
<1>7. upd' \in [Updaters -> UpdateType] /\ \A u \in Updaters : upd'[u] = H!Idle
    BY <1>1, <1>6
<1>8. pending' \in Records /\ pending'["endpoint"] = H!None
      /\ batch' \in [Flushers -> Records] /\ \A f \in Flushers : batch'[f]["endpoint"] = H!None
    BY <1>1, NoRecord, Scoped DEF Records
<1>9. HealthType'
    BY <1>1, <1>4, <1>7, <1>8 DEF HealthInv, HealthType
<1>10. Carries'
    BY <1>6, <1>7 DEF Carries
<1>11. Unblamed'
    BY <1>1, <1>2, <1>5, <1>6, <1>7, <1>8, NoRecord DEF HealthInv, Unblamed
<1>12. H!NothingForgotten'
    BY <1>1 DEF H!NothingForgotten
<1> QED BY <1>9, <1>10, <1>11, <1>12 DEF HealthInv

LEMMA HealthInit ==
    ASSUME H!Init
    PROVE  HealthInv
<1>1. H!NewState \in Record /\ ~H!NewState.cool /\ H!Idle \in UpdateType /\ H!Idle.pc = "idle" /\ H!Idle.ep = H!None
    BY NoRecord DEF H!NewState, Record, H!Idle, UpdateType
<1>2. PICK none \in Records : none = [s \in H!Scopes |-> H!None]
    BY NoRecord DEF Records
<1>3. HealthType
    BY <1>1, <1>2 DEF H!Init, HealthType
<1>4. Carries
    BY <1>1 DEF H!Init, Carries
<1>5. Unblamed
    BY <1>1, NoRecord, Scoped DEF H!Init, Unblamed
<1>6. H!NothingForgotten
    BY DEF H!Init, H!NothingForgotten
<1> QED BY <1>3, <1>4, <1>5, <1>6 DEF HealthInv

LEMMA HealthNext ==
    ASSUME Threshold \in Nat, HealthInv, H!Next \/ UNCHANGED H!vars
    PROVE  HealthInv'
<1>1. CASE UNCHANGED H!vars
    BY <1>1 DEF H!vars, HealthInv, HealthType, Carries, Unblamed, H!NothingForgotten, H!Waiting
<1>2. CASE H!Next
    BY <1>1, <1>2, UpdateKeeps, HandOverKeeps, DrainKeeps, PersistKeeps, FlushTimesOutKeeps, HotExpiresKeeps,
       RestartKeeps, TickKeeps DEF H!Next, H!Finished
<1> QED BY <1>1, <1>2

\* EndpointHealth for any number of updaters and overlapping flushes, through failed writes
\* and restarts: a change is in the buffer or in the hands of a flush until it is written,
\* and the failures of a repository never put the endpoint into cooldown, in the tracker
\* or in a store.
THEOREM HealthStaysKept ==
    ASSUME Threshold \in Nat
    PROVE  H!Spec => []HealthKept
<1>1. HealthInv => HealthKept
    BY DEF HealthKept, HealthInv, Unblamed, H!HealthKept, H!FailureContained
<1>2. H!Init => HealthInv
    BY HealthInit
<1>3. HealthInv /\ [H!Next]_H!vars => HealthInv'
    BY HealthNext
<1> QED BY <1>1, <1>2, <1>3, PTL DEF H!Spec
-----------------------------------------------------------------------------
(* The calls of Client.do and the tokens they share. *)

CallType == [pc : {"idle", "send", "backoff", "answered", "token", "join", "wait", "evidence", "done"},
             round : {"plain", "bearer", "confirm"}, head : BOOLEAN, n : Int, open : Int,
             status : {"none", "ok", "error", "unauthorized", "forbidden", "retry"},
             bearer : BOOLEAN, cancelled : BOOLEAN,
             result : {"none", "response", "transport", "cancelled", "allowlist", "empty", "rejected", "refused", "token"}]
FetchType == [pc : {"off", "look", "fetch", "deliver"}, waiters : SUBSET Calls, ok : BOOLEAN]

TokenType == cached \in BOOLEAN /\ live \in BOOLEAN /\ orphan \in BOOLEAN /\ issued \in Nat /\ lost \in Nat

(* A body is open between an answer and what is made of it, and in the hands  *)
(* of a caller that was given the response.                                   *)
Balanced(q) == q.open = IF q.pc = "answered" \/ (q.pc = "done" /\ q.result = "response") THEN 1 ELSE 0

CallsInv ==
    /\ call \in [Calls -> CallType] /\ flight \in FetchType
    /\ \A c \in Calls : Balanced(call[c])
    /\ \A c \in flight.waiters : call[c].pc = "wait"

(* A fetch, and one that was abandoned, may still bring a token: there is a   *)
(* lost one for it to stand for, or no other.                                 *)
Asking == IF flight.pc = "fetch" THEN 1 ELSE 0
Astray == IF orphan THEN 1 ELSE 0
TokensInv ==
    /\ TokenType
    /\ issued + Astray + Asking <= 1 + lost
    /\ ~R!CacheHit => issued + Astray <= lost

RequestInv == CallsInv /\ TokensInv

Moved(c) == call' = [call EXCEPT ![c] = call'[c]] /\ call'[c] \in CallType /\ Balanced(call'[c])

(* A call moves alone: what is left to show of a step is its record. *)
LEMMA MovesAlone ==
    ASSUME RequestInv, NEW c \in Calls, Moved(c), call[c].pc # "wait", UNCHANGED R!token
    PROVE  RequestInv'
<1>1. flight' = flight /\ c \notin flight.waiters
    BY DEF R!token, RequestInv, CallsInv
<1>2. call \in [Calls -> CallType] /\ \A b \in Calls \ {c} : call'[b] = call[b]
    BY DEF RequestInv, CallsInv, Moved
<1>3. CallsInv'
    <2>1. call' \in [Calls -> CallType] /\ flight' \in FetchType
        BY <1>1, <1>2 DEF RequestInv, CallsInv, Moved
    <2>2. \A b \in Calls : Balanced(call'[b])
        BY <1>2 DEF RequestInv, CallsInv, Moved
    <2>3. \A b \in flight'.waiters : call'[b].pc = "wait"
        <3>1. flight.waiters \subseteq Calls
            BY DEF RequestInv, CallsInv, FetchType
        <3> QED BY <1>1, <1>2, <3>1 DEF RequestInv, CallsInv, Moved
    <2> QED BY <2>1, <2>2, <2>3 DEF CallsInv, Balanced
<1>4. TokensInv'
    BY DEF RequestInv, TokensInv, TokenType, Astray, Asking, R!CacheHit, R!token
<1> QED BY <1>3, <1>4 DEF RequestInv

LEMMA SetMoves ==
    ASSUME RequestInv, NEW c \in Calls, NEW q \in CallType, Balanced(q), R!Set(c, q)
    PROVE  Moved(c)
BY DEF RequestInv, CallsInv, R!Set, Moved

LEMMA CallMoves ==
    ASSUME RequestInv, NEW c \in Calls,
           \/ R!Step(c) /\ ~R!TokenCached(c) /\ ~R!JoinFetch(c) /\ ~R!LeaveFetch(c)
           \/ R!Cancel(c) /\ call[c].pc # "wait"
           \/ \E head \in BOOLEAN : R!Start(c, head)
    PROVE  RequestInv'
<1>0. call[c] \in CallType /\ Balanced(call[c]) /\ call \in [Calls -> CallType]
    BY DEF RequestInv, CallsInv
<1>10. call[c].open + 1 \in Int /\ call[c].open - 1 \in Int /\ call[c].n + 1 \in Int
    BY <1>0 DEF CallType
<1>1. \/ \E s \in {"ok", "error", "unauthorized", "forbidden", "retry"} : R!Respond(c, s)
      \/ \E temporary \in BOOLEAN : R!TransportError(c, temporary)
      \/ R!WaitRetry(c) \/ R!Challenged(c) \/ R!Forbidden(c) \/ R!Confirmed(c) \/ R!Evidence(c)
      \/ R!Rejected(c) \/ R!Answer(c) \/ (R!Cancel(c) /\ call[c].pc # "wait")
      \/ \E head \in BOOLEAN : R!Start(c, head)
    BY DEF R!Step
<1>2. UNCHANGED R!token /\ call[c].pc # "wait"
    BY <1>1 DEF R!Respond, R!TransportError, R!WaitRetry, R!Challenged, R!Forbidden, R!Confirmed, R!Evidence,
                R!Rejected, R!Answer, R!Cancel, R!Start
<1>3. Moved(c)
    <2>1. ASSUME NEW s \in {"ok", "error", "unauthorized", "forbidden", "retry"}, R!Respond(c, s)
          PROVE  Moved(c)
        <3>1. ASSUME R!Set(c, [call[c] EXCEPT !.pc = "backoff", !.n = @ + 1]) PROVE Moved(c)
            <4>1. PICK q \in CallType : q = [call[c] EXCEPT !.pc = "backoff", !.n = @ + 1]
                BY <1>0, <1>10 DEF CallType
            <4>2. Balanced(q)
                BY <1>0, <2>1, <3>1, <4>1 DEF R!Respond, CallType, Balanced
            <4> QED BY <3>1, <4>1, <4>2, SetMoves
        <3>2. ASSUME R!Set(c, [call[c] EXCEPT !.pc = "answered", !.status = s, !.open = @ + 1]) PROVE Moved(c)
            <4>1. PICK q \in CallType : q = [call[c] EXCEPT !.pc = "answered", !.status = s, !.open = @ + 1]
                BY <1>0, <1>10, <3>2 DEF CallType
            <4>2. Balanced(q)
                BY <1>0, <2>1, <3>2, <4>1 DEF R!Respond, CallType, Balanced
            <4> QED BY <3>2, <4>1, <4>2, SetMoves
        <3> QED BY <2>1, <3>1, <3>2 DEF R!Respond
    <2>2. ASSUME NEW temporary \in BOOLEAN, R!TransportError(c, temporary)
          PROVE  Moved(c)
        <3>1. ASSUME R!Set(c, [call[c] EXCEPT !.pc = "backoff", !.n = @ + 1]) PROVE Moved(c)
            <4>1. PICK q \in CallType : q = [call[c] EXCEPT !.pc = "backoff", !.n = @ + 1]
                BY <1>0, <1>10 DEF CallType
            <4>2. Balanced(q)
                BY <1>0, <2>2, <3>1, <4>1 DEF R!TransportError, CallType, Balanced
            <4> QED BY <3>1, <4>1, <4>2, SetMoves
        <3>2. ASSUME R!Set(c, [call[c] EXCEPT !.pc = "evidence", !.status = "none"]) PROVE Moved(c)
            <4>1. PICK q \in CallType : q = [call[c] EXCEPT !.pc = "evidence", !.status = "none"]
                BY <1>0 DEF CallType
            <4>2. Balanced(q)
                BY <1>0, <2>2, <3>2, <4>1 DEF R!TransportError, CallType, Balanced
            <4> QED BY <3>2, <4>1, <4>2, SetMoves
        <3>3. ASSUME R!Set(c, [call[c] EXCEPT !.pc = "done", !.result = "transport"]) PROVE Moved(c)
            <4>1. PICK q \in CallType : q = [call[c] EXCEPT !.pc = "done", !.result = "transport"]
                BY <1>0 DEF CallType
            <4>2. Balanced(q)
                BY <1>0, <2>2, <3>3, <4>1 DEF R!TransportError, CallType, Balanced
            <4> QED BY <3>3, <4>1, <4>2, SetMoves
        <3> QED BY <2>2, <3>1, <3>2, <3>3 DEF R!TransportError
    <2>3. CASE R!WaitRetry(c)
        <3>1. ASSUME R!Set(c, [call[c] EXCEPT !.pc = "send"]) PROVE Moved(c)
            <4>1. PICK q \in CallType : q = [call[c] EXCEPT !.pc = "send"]
                BY <1>0 DEF CallType
            <4>2. Balanced(q)
                BY <1>0, <2>3, <3>1, <4>1 DEF R!WaitRetry, CallType, Balanced
            <4> QED BY <3>1, <4>1, <4>2, SetMoves
        <3>2. ASSUME R!Set(c, [call[c] EXCEPT !.pc = "evidence", !.status = "none"]) PROVE Moved(c)
            <4>1. PICK q \in CallType : q = [call[c] EXCEPT !.pc = "evidence", !.status = "none"]
                BY <1>0 DEF CallType
            <4>2. Balanced(q)
                BY <1>0, <2>3, <3>2, <4>1 DEF R!WaitRetry, CallType, Balanced
            <4> QED BY <3>2, <4>1, <4>2, SetMoves
        <3>3. ASSUME R!Set(c, [call[c] EXCEPT !.pc = "done", !.result = "cancelled"]) PROVE Moved(c)
            <4>1. PICK q \in CallType : q = [call[c] EXCEPT !.pc = "done", !.result = "cancelled"]
                BY <1>0 DEF CallType
            <4>2. Balanced(q)
                BY <1>0, <2>3, <3>3, <4>1 DEF R!WaitRetry, CallType, Balanced
            <4> QED BY <3>3, <4>1, <4>2, SetMoves
        <3> QED BY <2>3, <3>1, <3>2, <3>3 DEF R!WaitRetry
    <2>4. CASE R!Challenged(c)
        <3>1. ASSUME R!Set(c, [call[c] EXCEPT !.pc = "token", !.open = @ - 1]) PROVE Moved(c)
            <4>1. PICK q \in CallType : q = [call[c] EXCEPT !.pc = "token", !.open = @ - 1]
                BY <1>0, <1>10 DEF CallType
            <4>2. Balanced(q)
                BY <1>0, <2>4, <3>1, <4>1 DEF R!Challenged, R!Return, CallType, Balanced
            <4> QED BY <3>1, <4>1, <4>2, SetMoves
        <3>2. ASSUME R!Set(c, [call[c] EXCEPT !.pc = "done", !.result = "response"]) PROVE Moved(c)
            <4>1. PICK q \in CallType : q = [call[c] EXCEPT !.pc = "done", !.result = "response"]
                BY <1>0 DEF CallType
            <4>2. Balanced(q)
                BY <1>0, <2>4, <3>2, <4>1 DEF R!Challenged, R!Return, CallType, Balanced
            <4> QED BY <3>2, <4>1, <4>2, SetMoves
        <3> QED BY <2>4, <3>1, <3>2 DEF R!Challenged, R!Return
    <2>5. CASE R!Forbidden(c)
        <3>1. ASSUME R!Set(c, [call[c] EXCEPT !.pc = "send", !.round = "confirm", !.n = 0, !.open = @ - 1]) PROVE Moved(c)
            <4>0. PICK zero \in Int : zero = 0
                OBVIOUS
            <4>1. PICK q \in CallType : q = [call[c] EXCEPT !.pc = "send", !.round = "confirm", !.n = 0, !.open = @ - 1]
                <5>1. [call[c] EXCEPT !.pc = "send", !.round = "confirm", !.n = zero, !.open = @ - 1] \in CallType
                    BY <1>0, <1>10 DEF CallType
                <5> QED BY <4>0, <5>1
            <4>2. Balanced(q)
                BY <1>0, <2>5, <3>1, <4>1 DEF R!Forbidden, CallType, Balanced
            <4> QED BY <3>1, <4>1, <4>2, SetMoves
        <3>2. ASSUME R!Set(c, [call[c] EXCEPT !.pc = "evidence", !.open = @ - 1]) PROVE Moved(c)
            <4>1. PICK q \in CallType : q = [call[c] EXCEPT !.pc = "evidence", !.open = @ - 1]
                BY <1>0, <1>10 DEF CallType
            <4>2. Balanced(q)
                BY <1>0, <2>5, <3>2, <4>1 DEF R!Forbidden, CallType, Balanced
            <4> QED BY <3>2, <4>1, <4>2, SetMoves
        <3> QED BY <2>5, <3>1, <3>2 DEF R!Forbidden
    <2>6. CASE R!Confirmed(c)
        <3>1. ASSUME R!Set(c, [call[c] EXCEPT !.pc = "evidence", !.open = @ - 1]) PROVE Moved(c)
            <4>1. PICK q \in CallType : q = [call[c] EXCEPT !.pc = "evidence", !.open = @ - 1]
                BY <1>0, <1>10 DEF CallType
            <4>2. Balanced(q)
                BY <1>0, <2>6, <3>1, <4>1 DEF R!Confirmed, CallType, Balanced
            <4> QED BY <3>1, <4>1, <4>2, SetMoves
        <3> QED BY <2>6, <3>1 DEF R!Confirmed
    <2>7. CASE R!Evidence(c)
        <3>1. ASSUME NEW a \in {"allowlist", "empty", "rejected", "cancelled"}, R!Set(c, [call[c] EXCEPT !.pc = "done", !.result = a]) PROVE Moved(c)
            <4>1. PICK q \in CallType : q = [call[c] EXCEPT !.pc = "done", !.result = a]
                BY <1>0, <3>1 DEF CallType
            <4>2. Balanced(q)
                BY <1>0, <2>7, <3>1, <4>1 DEF R!Evidence, R!Return, CallType, Balanced
            <4> QED BY <3>1, <4>1, <4>2, SetMoves
        <3> QED BY <2>7, <3>1 DEF R!Evidence, R!Return
    <2>8. CASE R!Rejected(c)
        <3>1. ASSUME NEW a \in {"refused", "rejected"}, R!Set(c, [call[c] EXCEPT !.pc = "done", !.open = @ - 1, !.result = a]) PROVE Moved(c)
            <4>1. PICK q \in CallType : q = [call[c] EXCEPT !.pc = "done", !.open = @ - 1, !.result = a]
                BY <1>0, <1>10, <3>1 DEF CallType
            <4>2. Balanced(q)
                BY <1>0, <2>8, <3>1, <4>1 DEF R!Rejected, CallType, Balanced
            <4> QED BY <3>1, <4>1, <4>2, SetMoves
        <3> QED BY <2>8, <3>1 DEF R!Rejected
    <2>9. CASE R!Answer(c)
        BY <1>0, <2>9 DEF R!Answer, R!Return, R!Set, Moved, CallType, Balanced
    <2>10. CASE R!Cancel(c)
        BY <1>0, <2>10 DEF R!Cancel, R!Set, Moved, CallType, Balanced
    <2>11. ASSUME NEW head \in BOOLEAN, R!Start(c, head)
           PROVE  Moved(c)
        BY <1>0, <2>11 DEF R!Start, R!Set, Moved, CallType, Balanced
    <2> QED BY <1>1, <2>1, <2>2, <2>3, <2>4, <2>5, <2>6, <2>7, <2>8, <2>9, <2>10, <2>11
<1> QED BY <1>2, <1>3, MovesAlone DEF Moved

(* A caller whose context ends while it waits is still waiting. *)
LEMMA CancelWaits ==
    ASSUME RequestInv, NEW c \in Calls, R!Cancel(c), call[c].pc = "wait"
    PROVE  RequestInv'
<1>0. call[c] \in CallType /\ Balanced(call[c]) /\ flight.waiters \subseteq Calls
    BY DEF RequestInv, CallsInv, FetchType
<1>1. PICK q \in CallType : q = [call[c] EXCEPT !.cancelled = TRUE]
    BY <1>0 DEF CallType
<1>2. q.pc = "wait" /\ Balanced(q)
    BY <1>0, <1>1 DEF CallType, Balanced
<1>3. call' = [call EXCEPT ![c] = q] /\ UNCHANGED R!token
    BY <1>1 DEF R!Cancel, R!Set
<1>4. CallsInv'
    <2>1. call' \in [Calls -> CallType] /\ flight' \in FetchType
        BY <1>3 DEF RequestInv, CallsInv, R!token
    <2>2. (\A b \in Calls : Balanced(call'[b])) /\ \A b \in flight'.waiters : call'[b].pc = "wait"
        BY <1>0, <1>2, <1>3 DEF RequestInv, CallsInv, R!token
    <2> QED BY <2>1, <2>2 DEF CallsInv, Balanced
<1>5. TokensInv'
    BY <1>3 DEF RequestInv, TokensInv, TokenType, Astray, Asking, R!CacheHit, R!token
<1> QED BY <1>4, <1>5 DEF RequestInv
-----------------------------------------------------------------------------
(* Tokens *)

LEMMA BearerSends ==
    ASSUME NEW c \in Calls, call[c] \in CallType, Balanced(call[c]), call[c].pc \in {"token", "wait"}
    PROVE  R!Bearer(c) \in CallType /\ Balanced(R!Bearer(c)) /\ R!Bearer(c).pc = "send"
<1>1. PICK q \in CallType : q = R!Bearer(c)
    <2>1. PICK zero \in Int : zero = 0
        OBVIOUS
    <2>2. [call[c] EXCEPT !.pc = "send", !.round = "bearer", !.n = zero, !.bearer = TRUE] \in CallType
        BY DEF CallType
    <2> QED BY <2>1, <2>2 DEF R!Bearer
<1>2. q.pc = "send" /\ q.open = call[c].open
    BY <1>1 DEF R!Bearer, CallType
<1> QED BY <1>1, <1>2 DEF Balanced

LEMMA TokenCachedKeeps ==
    ASSUME RequestInv, NEW c \in Calls, R!TokenCached(c)
    PROVE  RequestInv'
<1>0. call[c] \in CallType /\ Balanced(call[c]) /\ call \in [Calls -> CallType]
      /\ call[c].pc = "token" /\ flight' = flight /\ c \notin flight.waiters /\ flight.waiters \subseteq Calls
    BY DEF RequestInv, CallsInv, FetchType, R!TokenCached
<1>1. PICK q \in CallType : q = [call[c] EXCEPT !.pc = "join"]
    BY <1>0 DEF CallType
<1>2. Balanced(q)
    BY <1>0, <1>1 DEF CallType, Balanced
<1>3. Moved(c)
    <2>1. CASE R!CacheHit
        BY <1>0, <2>1, BearerSends, SetMoves DEF R!TokenCached
    <2>2. CASE ~R!CacheHit
        BY <1>1, <1>2, <2>2, SetMoves DEF R!TokenCached
    <2> QED BY <2>1, <2>2
<1>4. CallsInv'
    <2>1. call' \in [Calls -> CallType] /\ flight' \in FetchType
        BY <1>0, <1>3 DEF RequestInv, CallsInv, Moved
    <2>2. \A b \in Calls : Balanced(call'[b])
        BY <1>0, <1>3 DEF RequestInv, CallsInv, Moved
    <2>3. \A b \in flight'.waiters : call'[b].pc = "wait"
        BY <1>0, <1>3 DEF RequestInv, CallsInv, Moved
    <2> QED BY <2>1, <2>2, <2>3 DEF CallsInv, Balanced
<1>5. TokensInv'
    BY <1>0 DEF RequestInv, TokensInv, TokenType, Astray, Asking, R!CacheHit, R!TokenCached
<1> QED BY <1>4, <1>5 DEF RequestInv

LEMMA JoinFetchKeeps ==
    ASSUME RequestInv, NEW c \in Calls, R!JoinFetch(c)
    PROVE  RequestInv'
<1>0. call[c] \in CallType /\ Balanced(call[c]) /\ call \in [Calls -> CallType]
      /\ call[c].pc = "join" /\ flight \in FetchType /\ flight.waiters \subseteq Calls
      /\ UNCHANGED <<cached, live, issued, lost, orphan>>
    BY DEF RequestInv, CallsInv, FetchType, R!JoinFetch
<1>1. PICK q \in CallType : q = [call[c] EXCEPT !.pc = "wait"]
    BY <1>0 DEF CallType
<1>2. Balanced(q) /\ q.pc = "wait"
    BY <1>0, <1>1 DEF CallType, Balanced
<1>3. Moved(c) /\ call' = [call EXCEPT ![c] = q]
    BY <1>1, <1>2, SetMoves DEF R!JoinFetch, R!Set
<1>4. flight' \in FetchType /\ flight'.waiters \subseteq flight.waiters \cup {c}
      /\ (flight'.pc = "fetch" => flight.pc = "fetch")
    <2>1. CASE flight.pc = "off"
        <3>1. flight' = [R!NoFetch EXCEPT !.pc = "look", !.waiters = {c}]
            BY <2>1 DEF R!JoinFetch
        <3>2. R!NoFetch \in FetchType
            BY DEF R!NoFetch, FetchType
        <3> QED BY <3>1, <3>2 DEF FetchType
    <2>2. CASE flight.pc # "off"
        <3>1. flight' = [flight EXCEPT !.waiters = @ \cup {c}]
            BY <2>2 DEF R!JoinFetch
        <3>2. flight.waiters \cup {c} \in SUBSET Calls
            BY <1>0
        <3> QED BY <1>0, <3>1, <3>2 DEF FetchType
    <2> QED BY <2>1, <2>2
<1>5. CallsInv'
    <2>1. call' \in [Calls -> CallType] /\ \A b \in Calls : Balanced(call'[b])
        BY <1>0, <1>3 DEF RequestInv, CallsInv, Moved
    <2>2. \A b \in flight'.waiters : call'[b].pc = "wait"
        BY <1>0, <1>2, <1>3, <1>4 DEF RequestInv, CallsInv
    <2> QED BY <1>4, <2>1, <2>2 DEF CallsInv, Balanced
<1>6. TokensInv'
    BY <1>0, <1>4 DEF RequestInv, TokensInv, TokenType, Astray, Asking, R!CacheHit
<1> QED BY <1>5, <1>6 DEF RequestInv

LEMMA LeaveFetchKeeps ==
    ASSUME RequestInv, NEW c \in Calls, R!LeaveFetch(c)
    PROVE  RequestInv'
<1>0. call[c] \in CallType /\ Balanced(call[c]) /\ call \in [Calls -> CallType]
      /\ call[c].pc = "wait" /\ flight \in FetchType /\ flight.waiters \subseteq Calls
      /\ UNCHANGED <<cached, live, issued>>
    BY DEF RequestInv, CallsInv, FetchType, R!LeaveFetch
<1>1. PICK q \in CallType : q = [call[c] EXCEPT !.pc = "done", !.result = "cancelled"]
    BY <1>0 DEF CallType
<1>2. Balanced(q)
    BY <1>0, <1>1 DEF CallType, Balanced
<1>3. Moved(c)
    BY <1>1, <1>2, SetMoves DEF R!LeaveFetch, R!Return
<1>4. R!NoFetch \in FetchType /\ R!NoFetch.waiters = {} /\ R!NoFetch.pc = "off"
    BY DEF R!NoFetch, FetchType
<1>5. flight' \in FetchType /\ flight'.waiters \subseteq flight.waiters \ {c}
    <2>1. CASE flight.waiters = {c}
        BY <1>4, <2>1 DEF R!LeaveFetch
    <2>2. CASE flight.waiters # {c}
        <3>1. flight' = [flight EXCEPT !.waiters = @ \ {c}] /\ flight.waiters \ {c} \in SUBSET Calls
            BY <1>0, <2>2 DEF R!LeaveFetch
        <3> QED BY <1>0, <3>1 DEF FetchType
    <2> QED BY <2>1, <2>2
<1>6. CallsInv'
    <2>1. call' \in [Calls -> CallType] /\ \A b \in Calls : Balanced(call'[b])
        BY <1>0, <1>3 DEF RequestInv, CallsInv, Moved
    <2>2. \A b \in flight'.waiters : call'[b].pc = "wait"
        BY <1>0, <1>3, <1>5 DEF RequestInv, CallsInv, Moved
    <2> QED BY <1>5, <2>1, <2>2 DEF CallsInv, Balanced
<1>7. TokensInv'
    <2>1. CASE flight.waiters = {c}
        BY <1>0, <1>4, <2>1 DEF RequestInv, TokensInv, TokenType, Astray, Asking, R!CacheHit, R!LeaveFetch
    <2>2. CASE flight.waiters # {c}
        <3>1. flight'.pc = flight.pc /\ UNCHANGED <<orphan, lost>>
            BY <1>0, <2>2 DEF R!LeaveFetch, FetchType
        <3> QED BY <1>0, <3>1 DEF RequestInv, TokensInv, TokenType, Astray, Asking, R!CacheHit
    <2> QED BY <2>1, <2>2
<1> QED BY <1>6, <1>7 DEF RequestInv
LEMMA LookAgainKeeps ==
    ASSUME RequestInv, R!LookAgain
    PROVE  RequestInv'
<1>0. flight \in FetchType /\ flight.pc = "look" /\ UNCHANGED <<call, live, issued, lost, orphan>>
      /\ cached' = R!CacheHit
    BY DEF RequestInv, CallsInv, R!LookAgain
<1>1. flight' \in FetchType /\ flight'.waiters = flight.waiters /\ (flight'.pc = "fetch" => ~R!CacheHit)
    BY <1>0 DEF R!LookAgain, FetchType
<1>2. CallsInv'
    BY <1>0, <1>1 DEF RequestInv, CallsInv, Balanced
<1>3. R!CacheHit' = R!CacheHit /\ R!CacheHit \in BOOLEAN
    BY <1>0 DEF R!CacheHit, RequestInv, TokensInv, TokenType
<1>4. TokensInv'
    BY <1>0, <1>1, <1>3 DEF RequestInv, TokensInv, TokenType, Astray, Asking
<1> QED BY <1>2, <1>4 DEF RequestInv

LEMMA FetchTokenKeeps ==
    ASSUME RequestInv, R!FetchToken
    PROVE  RequestInv'
<1>0. flight \in FetchType /\ flight.pc = "fetch" /\ UNCHANGED <<call, orphan>>
    BY DEF RequestInv, CallsInv, R!FetchToken
<1>1. flight' \in FetchType /\ flight'.waiters = flight.waiters /\ flight'.pc = "deliver"
    BY <1>0 DEF R!FetchToken, FetchType
<1>2. CallsInv'
    BY <1>0, <1>1 DEF RequestInv, CallsInv, Balanced
<1>3. TokensInv'
    <2>0. Astray' = Astray /\ Astray \in 0 .. 1 /\ Asking = 1 /\ Asking' = 0
        BY <1>0, <1>1 DEF Astray, Asking
    <2>1. ASSUME NEW fresh \in BOOLEAN, R!Stored(fresh) PROVE TokensInv'
        <3>1. CASE fresh
            <4>1. issued' = issued + 1 /\ lost' = lost /\ cached' = TRUE /\ live' = TRUE
                BY <2>1, <3>1 DEF R!Stored
            <4>2. TokenType' /\ R!CacheHit'
                BY <1>0, <4>1 DEF RequestInv, TokensInv, TokenType, R!CacheHit
            <4> QED BY <2>0, <4>1, <4>2 DEF RequestInv, TokensInv, TokenType
        <3>2. CASE ~fresh
            <4>1. issued' = issued + 1 /\ lost' = lost + 1 /\ UNCHANGED <<cached, live>>
                BY <2>1, <3>2 DEF R!Stored
            <4>2. TokenType' /\ R!CacheHit' = R!CacheHit
                BY <1>0, <4>1 DEF RequestInv, TokensInv, TokenType, R!CacheHit
            <4> QED BY <2>0, <4>1, <4>2 DEF RequestInv, TokensInv, TokenType
        <3> QED BY <3>1, <3>2
    <2>2. CASE UNCHANGED <<cached, live, issued, lost>>
        BY <1>0, <1>1, <2>2 DEF RequestInv, TokensInv, TokenType, Astray, Asking, R!CacheHit
    <2> QED BY <2>1, <2>2 DEF R!FetchToken
<1> QED BY <1>2, <1>3 DEF RequestInv

LEMMA OrphanEndsKeeps ==
    ASSUME RequestInv, R!OrphanEnds
    PROVE  RequestInv'
<1>1. CallsInv'
    BY DEF R!OrphanEnds, RequestInv, CallsInv, Balanced
<1>2. Astray = 1 /\ Astray' = 0 /\ Asking' = Asking /\ Asking \in 0 .. 1
    BY DEF R!OrphanEnds, Astray, Asking
<1>3. TokensInv'
    <2>1. CASE R!Stored(TRUE)
        <3>1. issued' = issued + 1 /\ lost' = lost /\ cached' = TRUE /\ live' = TRUE /\ orphan' = FALSE
            BY <2>1 DEF R!OrphanEnds, R!Stored
        <3>2. R!CacheHit'
            BY <3>1 DEF R!CacheHit
        <3>3. TokenType'
            <4>1. issued' \in Nat /\ lost' \in Nat
                BY <3>1 DEF RequestInv, TokensInv, TokenType
            <4>2. cached' \in BOOLEAN /\ live' \in BOOLEAN /\ orphan' \in BOOLEAN
                BY <3>1, Zenon
            <4> QED BY <4>1, <4>2 DEF TokenType
        <3> QED BY <1>2, <3>1, <3>2, <3>3 DEF RequestInv, TokensInv, TokenType
    <2>2. CASE UNCHANGED <<cached, live, issued, lost>>
        <3>1. TokenType' /\ R!CacheHit' = R!CacheHit
            BY <2>2 DEF R!OrphanEnds, RequestInv, TokensInv, TokenType, R!CacheHit
        <3> QED BY <1>2, <2>2, <3>1 DEF RequestInv, TokensInv, TokenType
    <2> QED BY <2>1, <2>2 DEF R!OrphanEnds
<1> QED BY <1>1, <1>3 DEF RequestInv

LEMMA DeliverKeeps ==
    ASSUME RequestInv, R!Deliver
    PROVE  RequestInv'
<1>0. call \in [Calls -> CallType] /\ flight.pc = "deliver" /\ UNCHANGED <<cached, live, issued, lost, orphan>>
    BY DEF RequestInv, CallsInv, R!Deliver
<1>1. flight' \in FetchType /\ flight'.waiters = {} /\ flight'.pc = "off"
    BY DEF R!Deliver, R!NoFetch, FetchType
<1>2. ASSUME NEW c \in Calls
      PROVE  call'[c] \in CallType /\ Balanced(call'[c])
    <2>1. call[c] \in CallType /\ Balanced(call[c]) /\ (c \in flight.waiters => call[c].pc = "wait")
        BY DEF RequestInv, CallsInv
    <2>2. CASE c \notin flight.waiters
        BY <2>1, <2>2 DEF R!Deliver
    <2>3. CASE c \in flight.waiters /\ flight.ok
        BY <2>1, <2>3, BearerSends DEF R!Deliver
    <2>4. CASE c \in flight.waiters /\ ~flight.ok
        <3>1. PICK q \in CallType : q = [call[c] EXCEPT !.pc = "done", !.result = "token"]
            BY <2>1 DEF CallType
        <3>2. Balanced(q)
            BY <2>1, <2>4, <3>1 DEF CallType, Balanced
        <3> QED BY <2>4, <3>1, <3>2 DEF R!Deliver
    <2> QED BY <2>2, <2>3, <2>4
<1>3. call' \in [Calls -> CallType]
    <2>1. call' = [c \in Calls |-> call'[c]]
        BY DEF R!Deliver
    <2> QED BY <1>2, <2>1
<1>4. CallsInv'
    BY <1>1, <1>2, <1>3 DEF CallsInv, Balanced
<1>5. TokensInv'
    BY <1>0, <1>1 DEF RequestInv, TokensInv, TokenType, Astray, Asking, R!CacheHit
<1> QED BY <1>4, <1>5 DEF RequestInv

LEMMA LoseTokenKeeps ==
    ASSUME RequestInv, R!LoseToken
    PROVE  RequestInv'
<1>1. CallsInv'
    BY DEF R!LoseToken, RequestInv, CallsInv, Balanced
<1>2. Astray' = Astray /\ Asking' = Asking /\ issued' = issued /\ lost' = lost + 1 /\ TokenType'
    <2>1. UNCHANGED <<issued, flight, orphan>> /\ lost' = lost + 1 /\ lost \in Nat
        BY DEF R!LoseToken, RequestInv, TokensInv, TokenType
    <2>2. \/ live' = FALSE /\ cached' = cached
          \/ cached' = FALSE /\ live' = live
        BY DEF R!LoseToken
    <2>3. cached' \in BOOLEAN /\ live' \in BOOLEAN
        BY <2>2 DEF RequestInv, TokensInv, TokenType
    <2> QED BY <2>1, <2>3 DEF RequestInv, TokensInv, TokenType, Astray, Asking
<1>3. Astray \in 0 .. 1 /\ Asking \in 0 .. 1
    BY DEF Astray, Asking
<1>4. TokensInv'
    BY <1>2, <1>3 DEF RequestInv, TokensInv, TokenType
<1> QED BY <1>1, <1>4 DEF RequestInv

LEMMA RequestInit ==
    ASSUME R!Init
    PROVE  RequestInv
<1>1. PICK zero \in Int : zero = 0
    OBVIOUS
<1>2. R!NewCall = [pc |-> "idle", round |-> "plain", head |-> FALSE, n |-> zero, open |-> zero, status |-> "none",
                   bearer |-> FALSE, cancelled |-> FALSE, result |-> "none"]
    BY <1>1 DEF R!NewCall
<1>3. R!NewCall \in CallType /\ R!NewCall.pc = "idle" /\ R!NewCall.open = zero
    BY <1>2 DEF CallType
<1>4. R!NoFetch \in FetchType /\ R!NoFetch.waiters = {} /\ R!NoFetch.pc = "off"
    BY DEF R!NoFetch, FetchType
<1>5. CallsInv
    BY <1>1, <1>3, <1>4 DEF R!Init, CallsInv, Balanced
<1>6. TokensInv
    <2>1. TokenType /\ issued = 0 /\ lost = 0
        BY DEF R!Init, TokenType
    <2>2. Astray = 0 /\ Asking = 0
        BY <1>4 DEF R!Init, Astray, Asking
    <2> QED BY <2>1, <2>2 DEF TokensInv
<1> QED BY <1>5, <1>6 DEF RequestInv

LEMMA RequestNext ==
    ASSUME RequestInv, R!Next \/ UNCHANGED R!vars
    PROVE  RequestInv'
<1>1. CASE UNCHANGED R!vars
    BY <1>1 DEF R!vars, RequestInv, CallsInv, Balanced, TokensInv, TokenType, Astray, Asking, R!CacheHit
<1>2. ASSUME NEW c \in Calls, R!Step(c) PROVE RequestInv'
    BY <1>2, CallMoves, TokenCachedKeeps, JoinFetchKeeps, LeaveFetchKeeps
<1>3. ASSUME NEW c \in Calls, R!Cancel(c) PROVE RequestInv'
    BY <1>3, CallMoves, CancelWaits
<1>4. ASSUME NEW c \in Calls, NEW head \in BOOLEAN, R!Start(c, head) PROVE RequestInv'
    BY <1>4, CallMoves
<1> QED BY <1>1, <1>2, <1>3, <1>4, LookAgainKeeps, FetchTokenKeeps, OrphanEndsKeeps, DeliverKeeps, LoseTokenKeeps
        DEF R!Next, R!Finished

\* Client.do for any number of callers and attempts, through retries, challenges, expiries,
\* evictions and abandoned fetches: a caller is handed one open body with a response and
\* none with an error, and the realm issues a second token only for one that was lost.
THEOREM CallsStayAccounted == R!Spec => []CallsAccounted
<1>1. RequestInv => CallsAccounted
    <2>1. RequestInv => R!NoBodyLeaks
        BY DEF RequestInv, CallsInv, Balanced, R!NoBodyLeaks
    <2>2. RequestInv => R!TokensShared
        BY DEF RequestInv, TokensInv, TokenType, Astray, Asking, R!TokensShared
    <2> QED BY <2>1, <2>2 DEF CallsAccounted, R!CallsAccounted
<1>2. R!Init => RequestInv
    BY RequestInit
<1>3. RequestInv /\ [R!Next]_R!vars => RequestInv'
    BY RequestNext
<1> QED BY <1>1, <1>2, <1>3, PTL DEF R!Spec
=============================================================================
