--------------------------- MODULE RecordsProofs ----------------------------
(* Theorems about what keeps the metadata in order.  First the batched pull   *)
(* writes, for every set of callers, cancellable or not, with and without     *)
(* faults.  Then, from CatalogTypes on, the catalog refreshes that follow     *)
(* committed mutations (CatalogRefresh, as C).                                *)
EXTENDS Records, FiniteSetTheorems, TLAPS

Named == Callers \cup {None}
Outcomes == {"open", "stored", "error"}
CallerType == [pc : {"idle", "begin", "check", "join", "wait", "end", "done"}, state : Named, receipt : Named,
               cancelled : BOOLEAN, flight : Named, result : Outcomes \cup {"none", "cancelled"}]
StateType == [pending : SUBSET Callers, receipt : Named, users : Int, flight : Named]
FlightType == [pc : {"off", "snapshot", "follow", "upsert", "complete", "deliver"}, state : Named,
               waiters : SUBSET Callers, cancelled : BOOLEAN, row : SUBSET Callers, receipt : Named]

Begun(c) == caller[c].pc \notin {"idle", "begin"}
Live(f) == flight[f].pc \in {"upsert", "complete"}

Types ==
    /\ caller \in [Callers -> CallerType]
    /\ state \in [Callers -> StateType]
    /\ current \in Named
    /\ receipt \in [Callers -> Outcomes]
    /\ flight \in [Callers -> FlightType]
    /\ counted \in [Callers -> Nat]
    /\ \A c \in Callers : Begun(c) => caller[c].state \in Callers /\ caller[c].receipt \in Callers
    /\ \A f \in Callers : flight[f].pc # "off" => flight[f].state \in Callers

(* A pull waits in the pending row of its receipt, is in the hands of the     *)
(* flight that took that receipt, or its receipt is closed.                   *)
Placed ==
    /\ \A s, c \in Callers : c \in state[s].pending =>
          Begun(c) /\ caller[c].receipt = state[s].receipt /\ counted[c] = 0
    /\ \A f, c \in Callers : Live(f) /\ c \in flight[f].row =>
          /\ Begun(c) /\ caller[c].receipt = flight[f].receipt
          /\ counted[c] = IF flight[f].pc = "upsert" THEN 0 ELSE 1
    /\ \A c \in Callers : Begun(c) =>
          /\ \A s \in Callers : state[s].receipt = caller[c].receipt => c \in state[s].pending
          /\ \A f \in Callers : Live(f) /\ flight[f].receipt = caller[c].receipt => c \in flight[f].row

(* A receipt that is open for joining or being written belongs to one state   *)
(* or one flight, and is not closed.                                          *)
Receipts ==
    /\ \A s \in Callers : state[s].receipt # None => receipt[state[s].receipt] = "open"
    /\ \A f \in Callers : Live(f) => flight[f].receipt \in Callers /\ receipt[flight[f].receipt] = "open"
    /\ \A s, t \in Callers : state[s].receipt # None /\ state[s].receipt = state[t].receipt => s = t
    /\ \A s, f \in Callers : Live(f) => state[s].receipt # flight[f].receipt
    /\ \A f, h \in Callers : Live(f) /\ Live(h) /\ flight[f].receipt = flight[h].receipt => f = h

(* A receipt is named by a caller that has begun. *)
Fresh ==
    \A g \in Callers : ~Begun(g) =>
       /\ receipt[g] = "open" /\ counted[g] = 0
       /\ \A s \in Callers : state[s].receipt # g
       /\ \A f \in Callers : Live(f) => flight[f].receipt # g
       /\ \A c \in Callers : Begun(c) => caller[c].receipt # g

(* What a closed receipt says is true of every pull that followed it. *)
Counts ==
    \A c \in Callers :
       /\ counted[c] \in {0, 1}
       /\ Begun(c) /\ receipt[caller[c].receipt] = "stored" => counted[c] = 1

Accounts == Placed /\ Receipts /\ Fresh /\ Counts

(* A result is the receipt's, which no longer changes, or a cancellation. *)
Results ==
    \A c \in Callers :
       /\ caller[c].pc \notin {"end", "done"} => caller[c].result = "none"
       /\ caller[c].pc \in {"end", "done"} =>
             \/ caller[c].cancelled /\ caller[c].result = "cancelled"
             \/ caller[c].result = receipt[caller[c].receipt] /\ receipt[caller[c].receipt] # "open"

(* A flight outlives its caller's wait only when that caller has left. *)
Waits ==
    /\ \A f, c \in Callers : c \in flight[f].waiters => caller[c].pc = "wait" /\ caller[c].flight = f
    /\ \A c \in Callers : caller[c].pc = "wait" => caller[c].flight \in Callers
    /\ \A f \in Callers : flight[f].pc # "off" =>
          (caller[f].pc = "wait" /\ caller[f].flight = f) \/ caller[f].pc \in {"end", "done"}

Inv == Types /\ Accounts /\ Results /\ Waits

(* Nobody has called. *)
LEMMA InvInit == Init => Inv
<1> SUFFICES ASSUME Init PROVE Inv
    OBVIOUS
<1>0. \A c \in Callers : /\ caller[c] = NewCaller /\ state[c] = NewState /\ receipt[c] = "open"
                         /\ flight[c] = NoFlight /\ counted[c] = 0
    BY DEF Init
<1>2. \A c \in Callers : /\ ~Begun(c) /\ ~Live(c) /\ flight[c].pc = "off" /\ flight[c].waiters = {}
                         /\ state[c].pending = {} /\ state[c].receipt = None
                         /\ caller[c].pc = "idle" /\ caller[c].result = "none"
    <2>1. NewCaller.pc = "idle" /\ NewCaller.result = "none"
        BY DEF NewCaller
    <2>2. NewState.pending = {} /\ NewState.receipt = None
        BY DEF NewState
    <2>3. NoFlight.pc = "off" /\ NoFlight.waiters = {}
        BY DEF NoFlight
    <2> QED BY <1>0, <2>1, <2>2, <2>3 DEF Begun, Live
<1>1. Types
    <2>1. NewCaller \in CallerType /\ NewState \in StateType /\ NoFlight \in FlightType
        BY DEF NewCaller, NewState, NoFlight, CallerType, StateType, FlightType, Named, Outcomes
    <2> QED BY <1>2, <2>1 DEF Init, Types, Named, Outcomes
<1>3. Accounts
    BY <1>0, <1>2, BatchAssumption DEF Accounts, Placed, Receipts, Fresh, Counts
<1>4. Results /\ Waits
    BY <1>2 DEF Results, Waits
<1> QED BY <1>1, <1>3, <1>4 DEF Inv

(* A step that moves no pull, receipt or count. *)
LEMMA AccountsKept ==
    ASSUME Accounts, receipt' = receipt, counted' = counted,
           \A c \in Callers : caller'[c].receipt = caller[c].receipt /\ (Begun(c)' <=> Begun(c)),
           \A s \in Callers : state'[s].pending = state[s].pending /\ state'[s].receipt = state[s].receipt,
           \A f \in Callers : /\ Live(f)' <=> Live(f)
                              /\ Live(f) => /\ flight'[f].pc = flight[f].pc /\ flight'[f].row = flight[f].row
                                            /\ flight'[f].receipt = flight[f].receipt
    PROVE  Accounts'
<1>1. Placed'
    BY DEF Accounts, Placed
<1>2. Receipts'
    BY DEF Accounts, Receipts
<1>3. Fresh'
    BY DEF Accounts, Fresh
<1>4. Counts'
    BY DEF Accounts, Counts
<1> QED BY <1>1, <1>2, <1>3, <1>4 DEF Accounts

(* Arrive, Cancel, Check and End change where one caller is. *)
LEMMA CallerKeeps ==
    ASSUME Inv, NEW c \in Callers, Arrive(c) \/ Cancel(c) \/ Check(c) \/ End(c)
    PROVE  Inv'
<1>0. receipt' = receipt /\ counted' = counted /\ flight' = flight
    BY DEF Arrive, Cancel, Check, End
<1>1. /\ caller' \in [Callers -> CallerType]
      /\ \A d \in Callers : d # c => caller'[d] = caller[d]
      /\ caller'[c].state = caller[c].state /\ caller'[c].receipt = caller[c].receipt
      /\ caller'[c].flight = caller[c].flight
    <2>1. CASE Arrive(c)
        BY <2>1 DEF Arrive, Inv, Types, CallerType
    <2>2. CASE Cancel(c)
        BY <2>2 DEF Cancel, Inv, Types, CallerType
    <2>3. CASE Check(c)
        <3>1. receipt[caller[c].receipt] \in Outcomes
            BY <2>3 DEF Check, Inv, Types, Begun
        <3> QED BY <2>3, <3>1, ZenonT(40) DEF Check, Inv, Types, CallerType
    <2>4. CASE End(c)
        BY <2>4 DEF End, Inv, Types, CallerType
    <2> QED BY <2>1, <2>2, <2>3, <2>4
<1>2. /\ Begun(c)' <=> Begun(c)
      /\ caller'[c].pc = "wait" <=> caller[c].pc = "wait"
      /\ caller[c].pc \in {"end", "done"} => caller'[c].pc \in {"end", "done"}
    BY DEF Arrive, Cancel, Check, End, Inv, Types, CallerType, Begun
<1>3. \/ /\ caller'[c].pc \in {"end", "done"} <=> caller[c].pc \in {"end", "done"}
         /\ caller'[c].result = caller[c].result /\ (caller[c].cancelled => caller'[c].cancelled)
      \/ /\ caller'[c].pc = "end" /\ caller'[c].result = receipt[caller[c].receipt]
         /\ receipt[caller[c].receipt] # "open"
    <2>1. CASE Arrive(c)
        BY <2>1 DEF Arrive, Inv, Types, CallerType
    <2>2. CASE Cancel(c)
        BY <2>2 DEF Cancel, Inv, Types, CallerType
    <2>3. CASE Check(c)
        BY <2>3 DEF Check, Inv, Types, CallerType
    <2>4. CASE End(c)
        BY <2>4 DEF End, Inv, Types, CallerType
    <2> QED BY <2>1, <2>2, <2>3, <2>4
<1>4. /\ state' \in [Callers -> StateType] /\ current' \in Named
      /\ \A s \in Callers : state'[s].pending = state[s].pending /\ state'[s].receipt = state[s].receipt
    <2>1. CASE UNCHANGED <<state, current>>
        BY <2>1 DEF Inv, Types
    <2>2. CASE End(c)
        <3>1. caller[c].state \in Callers
            BY <2>2 DEF End, Inv, Types, Begun
        <3>2. PICK s \in Callers : s = caller[c].state
            BY <3>1
        <3>3. state' = [state EXCEPT ![s].users = @ - 1]
            BY <2>2, <3>2 DEF End
        <3>4. state \in [Callers -> StateType]
            BY DEF Inv, Types
        <3>5. /\ state' \in [Callers -> StateType]
              /\ \A t \in Callers : state'[t].pending = state[t].pending /\ state'[t].receipt = state[t].receipt
            BY <3>3, <3>4 DEF StateType
        <3>6. current' \in Named
            BY <2>2 DEF End, Inv, Types, Named
        <3> QED BY <3>5, <3>6
    <2> QED BY <2>1, <2>2 DEF Arrive, Cancel, Check
<1>5. Types'
    BY <1>0, <1>1, <1>2, <1>4 DEF Inv, Types, Begun
<1>6. Accounts'
    <2>1. \A d \in Callers : caller'[d].receipt = caller[d].receipt /\ (Begun(d)' <=> Begun(d))
        BY <1>1, <1>2 DEF Begun
    <2> QED BY <1>0, <1>4, <2>1, AccountsKept DEF Inv, Live
<1>7. Results'
    BY <1>0, <1>1, <1>3 DEF Inv, Results
<1>8. Waits'
    BY <1>0, <1>1, <1>2 DEF Inv, Waits
<1> QED BY <1>5, <1>6, <1>7, <1>8 DEF Inv

(* Begin: the pull joins the pending row and follows its receipt, an open one   *)
(* or one that nobody has used.                                                *)
LEMMA BeginKeeps ==
    ASSUME Inv, NEW c \in Callers, Begin(c)
    PROVE  Inv'
<1>0. receipt' = receipt /\ counted' = counted /\ flight' = flight /\ caller[c].pc = "begin" /\ ~Begun(c)
    BY DEF Begin, Begun
<1>1. PICK s \in Callers : s = IF current = None THEN c ELSE current
    BY DEF Inv, Types, Named
<1>2. PICK g \in Callers : g = IF state[s].receipt = None THEN c ELSE state[s].receipt
    BY DEF Inv, Types, StateType, Named
<1>3. /\ current' = s
      /\ state' = [state EXCEPT ![s].users = @ + 1, ![s].pending = @ \cup {c}, ![s].receipt = g]
      /\ caller' = [caller EXCEPT ![c].pc = "check", ![c].state = s, ![c].receipt = g]
    BY <1>1, <1>2 DEF Begin
<1>4. /\ state' \in [Callers -> StateType]
      /\ state'[s].pending = state[s].pending \cup {c} /\ state'[s].receipt = g
      /\ \A t \in Callers : t # s => state'[t] = state[t]
    <2>1. state \in [Callers -> StateType] /\ g \in Named
        BY DEF Inv, Types, Named
    <2>2. state'[s].pending = state[s].pending \cup {c} /\ state'[s].receipt = g
        BY <1>3, <2>1 DEF StateType
    <2>3. \A t \in Callers : t # s => state'[t] = state[t]
        BY <1>3, <2>1
    <2>4. state' \in [Callers -> StateType]
        <3>1. PICK x \in StateType : x = state[s]
            BY <2>1
        <3>2. x.pending \cup {c} \in SUBSET Callers /\ x.users + 1 \in Int
            BY <3>1 DEF StateType
        <3>3. [x EXCEPT !.users = @ + 1, !.pending = @ \cup {c}, !.receipt = g] \in StateType
            BY <2>1, <3>2 DEF StateType
        <3>4. state' = [state EXCEPT ![s] = [x EXCEPT !.users = @ + 1, !.pending = @ \cup {c}, !.receipt = g]]
            BY <1>3, <2>1, <3>1
        <3> QED BY <2>1, <3>3, <3>4
    <2> QED BY <2>2, <2>3, <2>4
<1>5. /\ caller' \in [Callers -> CallerType]
      /\ caller'[c].pc = "check" /\ caller'[c].state = s /\ caller'[c].receipt = g
      /\ caller'[c].result = caller[c].result
      /\ \A d \in Callers : d # c => caller'[d] = caller[d]
    <2>1. caller \in [Callers -> CallerType] /\ g \in Named /\ s \in Named
        BY DEF Inv, Types, Named
    <2> QED BY <1>3, <2>1, ZenonT(40) DEF CallerType
<1>6. Begun(c)' /\ \A d \in Callers : d # c => (Begun(d)' <=> Begun(d))
    BY <1>5 DEF Begun
<1>7. Types'
    <2>1. s \in Named
        BY DEF Named
    <2>2. \A d \in Callers : Begun(d)' => caller'[d].state \in Callers /\ caller'[d].receipt \in Callers
        BY <1>5, <1>6 DEF Inv, Types
    <2> QED BY <1>0, <1>3, <1>4, <1>5, <2>1, <2>2 DEF Inv, Types
<1>8. /\ receipt[g] = "open" /\ counted[c] = 0
      /\ \A t \in Callers : t # s => state[t].receipt # g
      /\ \A f \in Callers : Live(f) => flight[f].receipt # g
      /\ \A d \in Callers : Begun(d) /\ caller[d].receipt = g => d \in state[s].pending
      /\ \A d \in Callers : d \in state[s].pending => caller[d].receipt = g /\ d # c
    <2>1. CASE state[s].receipt = None
        <3>1. g = c
            BY <1>2, <2>1
        <3>2. \A d \in Callers : d \notin state[s].pending
            BY <2>1, BatchAssumption DEF Inv, Accounts, Placed, Types
        <3> QED BY <1>0, <3>1, <3>2 DEF Inv, Accounts, Fresh
    <2>2. CASE state[s].receipt # None
        <3>1. g = state[s].receipt
            BY <1>2, <2>2
        <3> QED BY <1>0, <2>2, <3>1 DEF Inv, Accounts, Fresh, Receipts, Placed
    <2> QED BY <2>1, <2>2
<1>9. \A f \in Callers : Live(f)' <=> Live(f)
    BY <1>0 DEF Live
<1>10. Placed'
    <2>1. \A t, d \in Callers : d \in state'[t].pending =>
             Begun(d)' /\ caller'[d].receipt = state'[t].receipt /\ counted'[d] = 0
        BY <1>0, <1>4, <1>5, <1>6, <1>8 DEF Inv, Accounts, Placed
    <2>2. \A f, d \in Callers : Live(f)' /\ d \in flight'[f].row =>
             /\ Begun(d)' /\ caller'[d].receipt = flight'[f].receipt
             /\ counted'[d] = IF flight'[f].pc = "upsert" THEN 0 ELSE 1
        BY <1>0, <1>5, <1>6, <1>9 DEF Inv, Accounts, Placed
    <2>3. \A d \in Callers : Begun(d)' =>
             /\ \A t \in Callers : state'[t].receipt = caller'[d].receipt => d \in state'[t].pending
             /\ \A f \in Callers : Live(f)' /\ flight'[f].receipt = caller'[d].receipt => d \in flight'[f].row
        BY <1>0, <1>4, <1>5, <1>6, <1>8, <1>9 DEF Inv, Accounts, Placed
    <2> QED BY <2>1, <2>2, <2>3 DEF Placed
<1>11. Receipts'
    BY <1>0, <1>4, <1>8, <1>9 DEF Inv, Accounts, Receipts
<1>12. Fresh'
    <2>1. ASSUME NEW h \in Callers, ~Begun(h)'
          PROVE  /\ receipt[h] = "open" /\ counted[h] = 0 /\ h # g
                 /\ \A t \in Callers : state'[t].receipt # h
                 /\ \A f \in Callers : Live(f) => flight[f].receipt # h
                 /\ \A d \in Callers : Begun(d)' => caller'[d].receipt # h
        <3>1. h # c /\ ~Begun(h)
            BY <1>6, <2>1
        <3>2. h # g
            BY <1>2, <3>1 DEF Inv, Accounts, Fresh
        <3> QED BY <1>4, <1>5, <1>6, <3>1, <3>2 DEF Inv, Accounts, Fresh
    <2> QED BY <1>0, <1>9, <2>1 DEF Fresh
<1>13. Counts'
    BY <1>0, <1>5, <1>6, <1>8 DEF Inv, Accounts, Counts
<1>14. Results' /\ Waits'
    BY <1>0, <1>5 DEF Inv, Results, Waits
<1> QED BY <1>7, <1>10, <1>11, <1>12, <1>13, <1>14 DEF Inv, Accounts

(* Join: a caller starts the flight of its name, which has ended, or waits for  *)
(* the one that runs.                                                          *)
LEMMA JoinKeeps ==
    ASSUME Inv, NEW c \in Callers, Join(c)
    PROVE  Inv'
<1>0. /\ receipt' = receipt /\ counted' = counted /\ current' = current /\ caller[c].pc = "join" /\ Begun(c)
      /\ caller \in [Callers -> CallerType] /\ state \in [Callers -> StateType] /\ flight \in [Callers -> FlightType]
    BY DEF Join, Begun, Inv, Types
<1>1. PICK s \in Callers : s = caller[c].state
    BY <1>0 DEF Inv, Types
<1>2. flight[c].pc = "off"
    BY <1>0 DEF Inv, Waits
<1>3. PICK f \in Callers :
         /\ caller' = [caller EXCEPT ![c].pc = "wait", ![c].flight = f]
         /\ \/ /\ f = c /\ state' = [state EXCEPT ![s].flight = c]
               /\ flight' = [flight EXCEPT ![c] = [NoFlight EXCEPT !.pc = "snapshot", !.state = s, !.waiters = {c}]]
            \/ state' = state /\ flight' = [flight EXCEPT ![f].waiters = @ \cup {c}]
    <2>1. CASE state[s].flight = None
        BY <1>1, <2>1 DEF Join
    <2>2. CASE state[s].flight # None
        <3>1. PICK f \in Callers : f = state[s].flight
            BY <1>0, <2>2 DEF StateType, Named
        <3> QED BY <1>1, <2>2, <3>1 DEF Join
    <2> QED BY <2>1, <2>2
<1>4. /\ caller' \in [Callers -> CallerType]
      /\ caller'[c].pc = "wait" /\ caller'[c].flight = f
      /\ caller'[c].state = caller[c].state /\ caller'[c].receipt = caller[c].receipt
      /\ caller'[c].result = caller[c].result
      /\ \A d \in Callers : d # c => caller'[d] = caller[d]
    <2>1. caller \in [Callers -> CallerType] /\ f \in Named
        BY <1>0 DEF Named
    <2>2. caller' = [caller EXCEPT ![c].pc = "wait", ![c].flight = f]
        BY <1>3
    <2> QED BY <2>1, <2>2 DEF CallerType
<1>5. /\ state' \in [Callers -> StateType]
      /\ \A t \in Callers : state'[t].pending = state[t].pending /\ state'[t].receipt = state[t].receipt
    <2>1. CASE state' = state
        BY <1>0, <2>1
    <2>2. CASE state' = [state EXCEPT ![s].flight = c]
        BY <1>0, <2>2 DEF StateType, Named
    <2> QED BY <1>3, <2>1, <2>2
<1>6. /\ flight' \in [Callers -> FlightType]
      /\ \A h \in Callers : h # f => flight'[h] = flight[h]
      /\ flight'[f].waiters \subseteq flight[f].waiters \cup {c}
      /\ \/ f = c /\ flight'[f].pc = "snapshot" /\ flight'[f].state \in Callers
         \/ /\ flight'[f].pc = flight[f].pc /\ flight'[f].row = flight[f].row
            /\ flight'[f].receipt = flight[f].receipt /\ flight'[f].state = flight[f].state
    <2>1. CASE f = c /\ flight' = [flight EXCEPT ![c] = [NoFlight EXCEPT !.pc = "snapshot", !.state = s, !.waiters = {c}]]
        <3> DEFINE new == [NoFlight EXCEPT !.pc = "snapshot", !.state = s, !.waiters = {c}]
        <3>1. new \in FlightType /\ new.pc = "snapshot" /\ new.state = s /\ new.waiters = {c}
            BY DEF NoFlight, FlightType, Named
        <3> HIDE DEF new
        <3>2. flight' = [flight EXCEPT ![c] = new]
            BY <2>1 DEF new
        <3> QED BY <1>0, <2>1, <3>1, <3>2
    <2>2. CASE flight' = [flight EXCEPT ![f].waiters = @ \cup {c}]
        BY <1>0, <2>2, SMTT(30) DEF FlightType
    <2> QED BY <1>3, <2>1, <2>2
<1>7. \A d \in Callers : caller'[d].receipt = caller[d].receipt /\ (Begun(d)' <=> Begun(d))
    BY <1>0, <1>4 DEF Begun
<1>8. Types'
    <2>1. \A d \in Callers : Begun(d)' => caller'[d].state \in Callers /\ caller'[d].receipt \in Callers
        BY <1>4, <1>7 DEF Inv, Types
    <2>2. \A h \in Callers : flight'[h].pc # "off" => flight'[h].state \in Callers
        BY <1>6 DEF Inv, Types
    <2>3. current' \in Named /\ receipt' \in [Callers -> Outcomes] /\ counted' \in [Callers -> Nat]
        BY <1>0 DEF Inv, Types
    <2> QED BY <1>4, <1>5, <1>6, <2>1, <2>2, <2>3 DEF Types
<1>9. Accounts'
    <2>1. \A h \in Callers :
             /\ Live(h)' <=> Live(h)
             /\ Live(h) => /\ flight'[h].pc = flight[h].pc /\ flight'[h].row = flight[h].row
                           /\ flight'[h].receipt = flight[h].receipt
        BY <1>2, <1>6 DEF Live
    <2>2. Accounts /\ receipt' = receipt /\ counted' = counted
        BY <1>0 DEF Inv
    <2>3. \A t \in Callers : state'[t].pending = state[t].pending /\ state'[t].receipt = state[t].receipt
        BY <1>5
    <2> QED BY <1>7, <2>1, <2>2, <2>3, AccountsKept
<1>10. Results'
    BY <1>0, <1>4 DEF Inv, Results
<1>11. Waits'
    BY <1>0, <1>2, <1>4, <1>6 DEF Inv, Waits
<1> QED BY <1>8, <1>9, <1>10, <1>11 DEF Inv

(* Leave: a cancelled caller gives up its wait. *)
LEMMA LeaveKeeps ==
    ASSUME Inv, NEW c \in Callers, Leave(c)
    PROVE  Inv'
<1>0. /\ receipt' = receipt /\ counted' = counted /\ current' = current /\ caller[c].pc = "wait" /\ Begun(c)
      /\ caller \in [Callers -> CallerType] /\ state \in [Callers -> StateType] /\ flight \in [Callers -> FlightType]
    BY DEF Leave, Begun, Inv, Types
<1>1. PICK s, f \in Callers : s = caller[c].state /\ f = caller[c].flight
    BY <1>0 DEF Inv, Types, Waits
<1>2. /\ caller[c].cancelled
      /\ caller' = [caller EXCEPT ![c].pc = "end", ![c].flight = None, ![c].result = "cancelled"]
      /\ state' = state \/ state' = [state EXCEPT ![s].flight = None]
    BY <1>0, <1>1 DEF Leave, FlightType
<1>3. /\ caller' \in [Callers -> CallerType]
      /\ caller'[c].pc = "end" /\ caller'[c].result = "cancelled" /\ caller'[c].cancelled = caller[c].cancelled
      /\ caller'[c].state = caller[c].state /\ caller'[c].receipt = caller[c].receipt
      /\ \A d \in Callers : d # c => caller'[d] = caller[d]
    <2>1. caller \in [Callers -> CallerType] /\ None \in Named
        BY <1>0 DEF Named
    <2>2. caller' = [caller EXCEPT ![c].pc = "end", ![c].flight = None, ![c].result = "cancelled"]
        BY <1>2
    <2> QED BY <2>1, <2>2, ZenonT(40) DEF CallerType
<1>4. /\ state' \in [Callers -> StateType]
      /\ \A t \in Callers : state'[t].pending = state[t].pending /\ state'[t].receipt = state[t].receipt
    <2>1. CASE state' = state
        BY <1>0, <2>1
    <2>2. CASE state' = [state EXCEPT ![s].flight = None]
        BY <1>0, <2>2 DEF StateType, Named
    <2> QED BY <1>2, <2>1, <2>2
<1>5. /\ flight' \in [Callers -> FlightType]
      /\ flight'[f].waiters = flight[f].waiters \ {c}
      /\ \A h \in Callers : /\ h # f => flight'[h] = flight[h]
                            /\ flight'[h].pc = flight[h].pc /\ flight'[h].row = flight[h].row
                            /\ flight'[h].receipt = flight[h].receipt /\ flight'[h].state = flight[h].state
    <2>1. PICK x \in FlightType : x = flight[f]
        BY <1>0
    <2>2. PICK w \in SUBSET Callers : w = x.waiters \ {c}
        BY DEF FlightType
    <2>3. PICK gone \in BOOLEAN : gone = (x.cancelled \/ w = {})
        OBVIOUS
    <2> DEFINE new == [x EXCEPT !.waiters = w, !.cancelled = gone]
    <2>4. /\ new \in FlightType /\ new.waiters = w /\ new.pc = x.pc
          /\ new.row = x.row /\ new.receipt = x.receipt /\ new.state = x.state
        BY DEF FlightType
    <2>5. flight' = [flight EXCEPT ![f] = new]
        BY <1>0, <1>1, <2>1, <2>2, <2>3 DEF Leave
    <2> HIDE DEF new
    <2> QED BY <1>0, <2>1, <2>2, <2>4, <2>5
<1>6. \A d \in Callers : caller'[d].receipt = caller[d].receipt /\ (Begun(d)' <=> Begun(d))
    BY <1>0, <1>3 DEF Begun
<1>7. Types'
    BY <1>0, <1>3, <1>4, <1>5, <1>6 DEF Inv, Types
<1>8. Accounts'
    BY <1>0, <1>4, <1>5, <1>6, AccountsKept DEF Inv, Live
<1>9. Results'
    BY <1>0, <1>2, <1>3 DEF Inv, Results
<1>10. Waits'
    BY <1>0, <1>1, <1>3, <1>5 DEF Inv, Waits
<1> QED BY <1>7, <1>8, <1>9, <1>10 DEF Inv

(* A step of a flight moves no caller, and closes receipts once. *)
LEMMA FlightMoves ==
    ASSUME Inv, NEW f \in Callers, flight[f].pc # "off", flight'[f].pc # "off", caller' = caller, current' = current,
           flight' \in [Callers -> FlightType], state' \in [Callers -> StateType],
           receipt' \in [Callers -> Outcomes], counted' \in [Callers -> Nat],
           \A h \in Callers : h # f => flight'[h] = flight[h],
           flight'[f].waiters = flight[f].waiters, flight'[f].state = flight[f].state,
           \A g \in Callers : receipt[g] # "open" => receipt'[g] = receipt[g]
    PROVE  Types' /\ Results' /\ Waits'
<1>1. \A c \in Callers : Begun(c)' <=> Begun(c)
    BY DEF Begun
<1>2. Types'
    BY <1>1 DEF Inv, Types
<1>3. Results'
    BY <1>1 DEF Inv, Types, Results, Begun
<1>4. Waits'
    BY DEF Inv, Waits
<1> QED BY <1>2, <1>3, <1>4

(* Snapshot: the flight takes the pending row together with its receipt. *)
LEMMA SnapshotKeeps ==
    ASSUME Inv, NEW f \in Callers, Snapshot(f)
    PROVE  Inv'
<1>0. /\ receipt' = receipt /\ counted' = counted /\ current' = current /\ caller' = caller
      /\ flight[f].pc = "snapshot" /\ ~Live(f)
      /\ state \in [Callers -> StateType] /\ flight \in [Callers -> FlightType]
    BY DEF Snapshot, Live, Inv, Types
<1>1. PICK s \in Callers : s = flight[f].state
    BY <1>0 DEF Inv, Types
<1>2. PICK x \in StateType : x = state[s]
    BY <1>0
<1>3. PICK y \in FlightType : y = flight[f]
    BY <1>0
<1>4. PICK at \in {"follow", "upsert"} : at = IF x.receipt = None THEN "follow" ELSE "upsert"
    OBVIOUS
<1>5. /\ state' \in [Callers -> StateType]
      /\ state'[s].pending = {} /\ state'[s].receipt = None
      /\ \A t \in Callers : t # s => state'[t] = state[t]
    <2> DEFINE new == [x EXCEPT !.pending = {}, !.receipt = None]
    <2>1. new \in StateType /\ new.pending = {} /\ new.receipt = None
        BY DEF StateType, Named
    <2>2. state' = [state EXCEPT ![s] = new]
        BY <1>1, <1>2 DEF Snapshot, Detached
    <2> HIDE DEF new
    <2> QED BY <1>0, <2>1, <2>2
<1>6. /\ flight' \in [Callers -> FlightType]
      /\ flight'[f].pc = at /\ flight'[f].row = x.pending /\ flight'[f].receipt = x.receipt
      /\ flight'[f].waiters = flight[f].waiters /\ flight'[f].state = flight[f].state
      /\ \A h \in Callers : h # f => flight'[h] = flight[h]
    <2> DEFINE new == [y EXCEPT !.pc = at, !.row = x.pending, !.receipt = x.receipt]
    <2>1. /\ new \in FlightType /\ new.pc = at /\ new.row = x.pending /\ new.receipt = x.receipt
          /\ new.waiters = y.waiters /\ new.state = y.state
        BY DEF StateType, FlightType
    <2>2. flight' = [flight EXCEPT ![f] = new]
        BY <1>0, <1>1, <1>2, <1>3, <1>4 DEF Snapshot
    <2> HIDE DEF new
    <2> QED BY <1>0, <1>3, <2>1, <2>2
<1>7. Types' /\ Results' /\ Waits'
    <2>1. receipt' \in [Callers -> Outcomes] /\ counted' \in [Callers -> Nat] /\ flight'[f].pc # "off"
        BY <1>0, <1>6 DEF Inv, Types
    <2> QED BY <1>0, <1>5, <1>6, <2>1, FlightMoves
<1>8. /\ \A c \in Callers : caller'[c].receipt = caller[c].receipt /\ (Begun(c)' <=> Begun(c))
      /\ \A c \in Callers : Begun(c) => caller[c].receipt \in Callers
      /\ \A h \in Callers : h # f => (Live(h)' <=> Live(h))
    BY <1>0, <1>6 DEF Begun, Live, Inv, Types
<1>9. Accounts'
    <2>1. CASE x.receipt = None
        <3>1. \A c \in Callers : c \notin x.pending
            BY <1>2, <1>8, <2>1, BatchAssumption DEF Inv, Accounts, Placed
        <3>2. x.pending = {}
            BY <3>1 DEF StateType
        <3>3. \A t \in Callers : state'[t].pending = state[t].pending /\ state'[t].receipt = state[t].receipt
            BY <1>2, <1>5, <2>1, <3>2
        <3>4. ~Live(f)'
            BY <1>4, <1>6, <2>1 DEF Live
        <3>5. \A h \in Callers :
                 /\ Live(h)' <=> Live(h)
                 /\ Live(h) => /\ flight'[h].pc = flight[h].pc /\ flight'[h].row = flight[h].row
                               /\ flight'[h].receipt = flight[h].receipt
            BY <1>0, <1>6, <1>8, <3>4
        <3>6. Accounts
            BY DEF Inv
        <3> QED BY <1>0, <1>8, <3>3, <3>5, <3>6, AccountsKept
    <2>2. CASE x.receipt # None
        <3>1. /\ at = "upsert" /\ Live(f)' /\ flight'[f].pc = "upsert"
              /\ x.receipt \in Callers /\ x.receipt = state[s].receipt /\ x.pending = state[s].pending
            BY <1>2, <1>4, <1>6, <2>2 DEF Live, StateType, Named
        <3>2. Placed'
            <4>1. \A t, d \in Callers : d \in state'[t].pending =>
                     Begun(d)' /\ caller'[d].receipt = state'[t].receipt /\ counted'[d] = 0
                BY <1>0, <1>5, <1>8 DEF Inv, Accounts, Placed
            <4>2. \A h, d \in Callers : Live(h)' /\ d \in flight'[h].row =>
                     /\ Begun(d)' /\ caller'[d].receipt = flight'[h].receipt
                     /\ counted'[d] = IF flight'[h].pc = "upsert" THEN 0 ELSE 1
                BY <1>0, <1>6, <1>8, <3>1 DEF Inv, Accounts, Placed
            <4>3. \A d \in Callers : Begun(d)' =>
                     /\ \A t \in Callers : state'[t].receipt = caller'[d].receipt => d \in state'[t].pending
                     /\ \A h \in Callers : Live(h)' /\ flight'[h].receipt = caller'[d].receipt => d \in flight'[h].row
                BY <1>5, <1>6, <1>8, <3>1, BatchAssumption DEF Inv, Accounts, Placed
            <4> QED BY <4>1, <4>2, <4>3 DEF Placed
        <3>3. Receipts'
            <4>1. \A t \in Callers : t # s => state[t].receipt # x.receipt
                BY <3>1, <2>2 DEF Inv, Accounts, Receipts
            <4>2. \A h \in Callers : Live(h) => flight[h].receipt # x.receipt
                BY <3>1 DEF Inv, Accounts, Receipts
            <4>3. receipt[x.receipt] = "open"
                BY <3>1, <2>2 DEF Inv, Accounts, Receipts
            <4> QED BY <1>0, <1>5, <1>6, <1>8, <3>1, <4>1, <4>2, <4>3, BatchAssumption DEF Inv, Accounts, Receipts
        <3>4. Fresh'
            BY <1>0, <1>5, <1>6, <1>8, <3>1, BatchAssumption DEF Inv, Accounts, Fresh
        <3>5. Counts'
            BY <1>0, <1>8 DEF Inv, Accounts, Counts
        <3> QED BY <3>2, <3>3, <3>4, <3>5 DEF Accounts
    <2> QED BY <2>1, <2>2
<1> QED BY <1>7, <1>9 DEF Inv

(* Follow: a flight without a row ends when another has closed the receipt. *)
LEMMA FollowKeeps ==
    ASSUME Inv, NEW f \in Callers, Follow(f)
    PROVE  Inv'
<1>0. /\ receipt' = receipt /\ counted' = counted /\ current' = current /\ caller' = caller /\ state' = state
      /\ flight[f].pc = "follow" /\ flight' = [flight EXCEPT ![f].pc = "deliver"]
      /\ state \in [Callers -> StateType] /\ flight \in [Callers -> FlightType]
      /\ receipt \in [Callers -> Outcomes] /\ counted \in [Callers -> Nat]
    BY DEF Follow, Inv, Types
<1>1. /\ flight' \in [Callers -> FlightType] /\ flight'[f].pc = "deliver"
      /\ flight'[f].waiters = flight[f].waiters /\ flight'[f].state = flight[f].state
      /\ \A h \in Callers : h # f => flight'[h] = flight[h]
    BY <1>0 DEF FlightType
<1>2. Types' /\ Results' /\ Waits'
    BY <1>0, <1>1, FlightMoves
<1>3. /\ \A c \in Callers : caller'[c].receipt = caller[c].receipt /\ (Begun(c)' <=> Begun(c))
      /\ \A h \in Callers :
            /\ Live(h)' <=> Live(h)
            /\ Live(h) => /\ flight'[h].pc = flight[h].pc /\ flight'[h].row = flight[h].row
                          /\ flight'[h].receipt = flight[h].receipt
    BY <1>0, <1>1 DEF Begun, Live
<1>4. Accounts'
    BY <1>0, <1>3, AccountsKept DEF Inv
<1> QED BY <1>2, <1>4 DEF Inv

(* The pulls in the row of a flight are in no pending row and in the row of   *)
(* no other flight, and have begun.                                           *)
LEMMA RowsApart ==
    ASSUME Inv, NEW f \in Callers, Live(f), NEW d \in Callers, d \in flight[f].row
    PROVE  /\ Begun(d) /\ caller[d].receipt = flight[f].receipt
           /\ \A t \in Callers : d \notin state[t].pending
           /\ \A h \in Callers : Live(h) /\ d \in flight[h].row => h = f
<1>1. Begun(d) /\ caller[d].receipt = flight[f].receipt
    BY DEF Inv, Accounts, Placed
<1>2. \A t \in Callers : d \notin state[t].pending
    BY <1>1 DEF Inv, Accounts, Placed, Receipts
<1>3. \A h \in Callers : Live(h) /\ d \in flight[h].row => h = f
    BY <1>1 DEF Inv, Accounts, Placed, Receipts
<1> QED BY <1>1, <1>2, <1>3

(* Upsert: the row's pulls are counted, for the first time. *)
LEMMA UpsertKeeps ==
    ASSUME Inv, NEW f \in Callers, Upsert(f)
    PROVE  Inv'
<1>0. /\ receipt' = receipt /\ current' = current /\ caller' = caller /\ state' = state
      /\ flight[f].pc = "upsert" /\ flight' = [flight EXCEPT ![f].pc = "complete"] /\ Live(f)
      /\ state \in [Callers -> StateType] /\ flight \in [Callers -> FlightType]
      /\ receipt \in [Callers -> Outcomes] /\ counted \in [Callers -> Nat]
    BY DEF Upsert, Inv, Types, Live
<1>1. /\ flight' \in [Callers -> FlightType] /\ flight'[f].pc = "complete"
      /\ flight'[f].waiters = flight[f].waiters /\ flight'[f].state = flight[f].state
      /\ flight'[f].row = flight[f].row /\ flight'[f].receipt = flight[f].receipt
      /\ \A h \in Callers : h # f => flight'[h] = flight[h]
    BY <1>0 DEF FlightType
<1>2. /\ counted' \in [Callers -> Nat]
      /\ \A d \in Callers : counted'[d] = IF d \in flight[f].row THEN counted[d] + 1 ELSE counted[d]
    <2>1. counted' = Added(f)
        BY DEF Upsert
    <2> QED BY <1>0, <2>1 DEF Added
<1>3. \A d \in Callers : d \in flight[f].row => counted'[d] = 1
    BY <1>0, <1>2 DEF Inv, Accounts, Placed
<1>4. Types' /\ Results' /\ Waits'
    BY <1>0, <1>1, <1>2, FlightMoves
<1>5. /\ \A c \in Callers : Begun(c)' <=> Begun(c)
      /\ \A h \in Callers : Live(h)' <=> Live(h)
    BY <1>0, <1>1 DEF Begun, Live
<1>6. Placed'
    <2>1. \A t, d \in Callers : d \in state'[t].pending =>
             Begun(d)' /\ caller'[d].receipt = state'[t].receipt /\ counted'[d] = 0
        BY <1>0, <1>2, <1>5, RowsApart DEF Inv, Accounts, Placed
    <2>2. ASSUME NEW h \in Callers, NEW d \in Callers, Live(h)', d \in flight'[h].row
          PROVE  /\ Begun(d)' /\ caller'[d].receipt = flight'[h].receipt
                 /\ counted'[d] = IF flight'[h].pc = "upsert" THEN 0 ELSE 1
        <3>1. CASE h = f
            BY <1>0, <1>1, <1>3, <1>5, <2>2, <3>1, RowsApart
        <3>2. CASE h # f
            <4>1. Live(h) /\ flight'[h] = flight[h] /\ d \in flight[h].row
                BY <1>1, <1>5, <2>2, <3>2
            <4>2. d \notin flight[f].row
                BY <1>0, <3>2, <4>1, RowsApart
            <4> QED BY <1>0, <1>2, <1>5, <4>1, <4>2 DEF Inv, Accounts, Placed
        <3> QED BY <3>1, <3>2
    <2>3. \A d \in Callers : Begun(d)' =>
             /\ \A t \in Callers : state'[t].receipt = caller'[d].receipt => d \in state'[t].pending
             /\ \A h \in Callers : Live(h)' /\ flight'[h].receipt = caller'[d].receipt => d \in flight'[h].row
        BY <1>0, <1>1, <1>5 DEF Inv, Accounts, Placed
    <2> QED BY <2>1, <2>2, <2>3 DEF Placed
<1>7. Receipts'
    BY <1>0, <1>1, <1>5 DEF Inv, Accounts, Receipts
<1>8. Fresh'
    BY <1>0, <1>1, <1>2, <1>5, RowsApart DEF Inv, Accounts, Fresh
<1>9. Counts'
    BY <1>0, <1>2, <1>3, <1>5 DEF Inv, Accounts, Counts
<1> QED BY <1>4, <1>6, <1>7, <1>8, <1>9 DEF Inv, Accounts

(* Close: the receipt of a row is closed with what became of it. *)
LEMMA CloseKeeps ==
    ASSUME Inv, NEW f \in Callers, Live(f), NEW outcome \in {"stored", "error"}, Close(f, outcome),
           caller' = caller, state' = state, current' = current, counted' \in [Callers -> Nat],
           \A d \in Callers : d \notin flight[f].row => counted'[d] = counted[d],
           \A d \in Callers : d \in flight[f].row => counted'[d] \in {0, 1} /\ (outcome = "stored" => counted'[d] = 1)
    PROVE  Inv'
<1>0. /\ flight' = [flight EXCEPT ![f].pc = "deliver"] /\ receipt' = [receipt EXCEPT ![flight[f].receipt] = outcome]
      /\ state \in [Callers -> StateType] /\ flight \in [Callers -> FlightType] /\ receipt \in [Callers -> Outcomes]
    BY DEF Close, Inv, Types
<1>1. /\ flight' \in [Callers -> FlightType] /\ flight'[f].pc = "deliver"
      /\ flight'[f].waiters = flight[f].waiters /\ flight'[f].state = flight[f].state
      /\ \A h \in Callers : h # f => flight'[h] = flight[h]
    BY <1>0 DEF FlightType
<1>2. PICK r \in Callers : r = flight[f].receipt /\ receipt[r] = "open"
    BY DEF Inv, Accounts, Receipts
<1>3. /\ receipt' \in [Callers -> Outcomes] /\ receipt'[r] = outcome
      /\ \A g \in Callers : g # r => receipt'[g] = receipt[g]
    BY <1>0, <1>2 DEF Outcomes
<1>4. Types' /\ Results' /\ Waits'
    <2>1. flight[f].pc # "off" /\ flight'[f].pc # "off"
        BY <1>1 DEF Live
    <2> QED BY <1>0, <1>1, <1>2, <1>3, <2>1, FlightMoves
<1>5. /\ \A c \in Callers : Begun(c)' <=> Begun(c)
      /\ \A h \in Callers : Live(h)' => Live(h) /\ h # f /\ flight'[h] = flight[h]
    BY <1>1 DEF Begun, Live
<1>6. \A t \in Callers : state[t].receipt # r
    BY <1>2 DEF Inv, Accounts, Receipts
<1>7. \A h \in Callers : Live(h) /\ h # f => flight[h].receipt # r
    BY <1>2 DEF Inv, Accounts, Receipts
<1>8. Placed'
    <2>1. \A t, d \in Callers : d \in state'[t].pending =>
             Begun(d)' /\ caller'[d].receipt = state'[t].receipt /\ counted'[d] = 0
        BY <1>5, RowsApart DEF Inv, Accounts, Placed
    <2>2. ASSUME NEW h \in Callers, NEW d \in Callers, Live(h)', d \in flight'[h].row
          PROVE  /\ Begun(d)' /\ caller'[d].receipt = flight'[h].receipt
                 /\ counted'[d] = IF flight'[h].pc = "upsert" THEN 0 ELSE 1
        <3>1. Live(h) /\ h # f /\ flight'[h] = flight[h] /\ d \in flight[h].row
            BY <1>5, <2>2
        <3>2. d \notin flight[f].row
            BY <3>1, RowsApart
        <3> QED BY <1>5, <3>1, <3>2 DEF Inv, Accounts, Placed
    <2>3. \A d \in Callers : Begun(d)' =>
             /\ \A t \in Callers : state'[t].receipt = caller'[d].receipt => d \in state'[t].pending
             /\ \A h \in Callers : Live(h)' /\ flight'[h].receipt = caller'[d].receipt => d \in flight'[h].row
        BY <1>5 DEF Inv, Accounts, Placed
    <2> QED BY <2>1, <2>2, <2>3 DEF Placed
<1>9. Receipts'
    <2>1. \A t \in Callers : state'[t].receipt # None => receipt'[state'[t].receipt] = "open"
        <3>1. \A t \in Callers : state[t].receipt # None => state[t].receipt \in Callers
            BY <1>0 DEF StateType, Named
        <3> QED BY <1>3, <1>6, <3>1 DEF Inv, Accounts, Receipts
    <2>2. \A h \in Callers : Live(h)' => flight'[h].receipt \in Callers /\ receipt'[flight'[h].receipt] = "open"
        BY <1>3, <1>5, <1>7 DEF Inv, Accounts, Receipts
    <2>3. /\ \A t, u \in Callers : state'[t].receipt # None /\ state'[t].receipt = state'[u].receipt => t = u
          /\ \A t, h \in Callers : Live(h)' => state'[t].receipt # flight'[h].receipt
          /\ \A h, k \in Callers : Live(h)' /\ Live(k)' /\ flight'[h].receipt = flight'[k].receipt => h = k
        BY <1>5 DEF Inv, Accounts, Receipts
    <2> QED BY <2>1, <2>2, <2>3 DEF Receipts
<1>10. Fresh'
    <2>1. \A g \in Callers : ~Begun(g) => g # r /\ g \notin flight[f].row
        BY <1>2, RowsApart DEF Inv, Accounts, Fresh
    <2> QED BY <1>3, <1>5, <2>1 DEF Inv, Accounts, Fresh
<1>11. Counts'
    <2>1. \A c \in Callers : counted'[c] \in {0, 1}
        BY DEF Inv, Accounts, Counts
    <2>2. ASSUME NEW c \in Callers, Begun(c), receipt'[caller[c].receipt] = "stored"
          PROVE  counted'[c] = 1
        <3>1. CASE c \in flight[f].row
            <4>1. caller[c].receipt = r
                BY <1>2, <3>1, RowsApart
            <4> QED BY <1>3, <2>2, <3>1, <4>1
        <3>2. CASE c \notin flight[f].row
            <4>1. caller[c].receipt \in Callers /\ caller[c].receipt # r
                BY <1>2, <2>2, <3>2 DEF Inv, Types, Accounts, Placed
            <4>2. receipt[caller[c].receipt] = "stored"
                BY <1>3, <2>2, <4>1
            <4> QED BY <2>2, <3>2, <4>2 DEF Inv, Accounts, Counts
        <3> QED BY <3>1, <3>2
    <2> QED BY <1>5, <2>1, <2>2 DEF Counts
<1> QED BY <1>4, <1>8, <1>9, <1>10, <1>11 DEF Inv, Accounts

(* UpsertFails and Complete. *)
LEMMA ClosingKeeps ==
    ASSUME Inv, NEW f \in Callers, UpsertFails(f) \/ Complete(f)
    PROVE  Inv'
<1>0. /\ caller' = caller /\ state' = state /\ current' = current /\ Live(f)
      /\ counted \in [Callers -> Nat]
    BY DEF UpsertFails, Complete, Live, Inv, Types
<1>1. CASE UpsertFails(f)
    <2>1. Close(f, "error") /\ counted' \in {counted, Added(f)} /\ flight[f].pc = "upsert"
        BY <1>1 DEF UpsertFails
    <2>2. Added(f) \in [Callers -> Nat]
        BY <1>0 DEF Added
    <2>3. \A d \in Callers : d \notin flight[f].row => counted'[d] = counted[d]
        BY <2>1 DEF Added
    <2>4. \A d \in Callers : d \in flight[f].row => counted[d] = 0
        BY <1>0, <2>1 DEF Inv, Accounts, Placed
    <2>5. \A d \in Callers : d \in flight[f].row => counted'[d] \in {0, 1}
        BY <2>1, <2>4 DEF Added
    <2> QED BY <1>0, <2>1, <2>2, <2>3, <2>5, CloseKeeps
<1>2. CASE Complete(f)
    <2>1. PICK outcome \in {"stored", "error"} : Close(f, outcome)
        BY <1>2 DEF Complete
    <2>2. counted' = counted /\ flight[f].pc = "complete"
        BY <1>2 DEF Complete
    <2>3. \A d \in Callers : d \in flight[f].row => counted[d] = 1
        BY <1>0, <2>2 DEF Inv, Accounts, Placed
    <2> QED BY <1>0, <2>1, <2>2, <2>3, CloseKeeps
<1> QED BY <1>1, <1>2

(* Deliver: those that wait look at their receipts again, and the flight ends. *)
LEMMA DeliverKeeps ==
    ASSUME Inv, NEW f \in Callers, Deliver(f)
    PROVE  Inv'
<1>0. /\ receipt' = receipt /\ counted' = counted /\ current' = current /\ flight[f].pc = "deliver" /\ ~Live(f)
      /\ flight' = [flight EXCEPT ![f] = NoFlight]
      /\ caller \in [Callers -> CallerType] /\ state \in [Callers -> StateType] /\ flight \in [Callers -> FlightType]
    BY DEF Deliver, Live, Inv, Types
<1>1. PICK s \in Callers : s = flight[f].state
    BY <1>0 DEF Inv, Types
<1>2. /\ state' \in [Callers -> StateType]
      /\ \A t \in Callers : state'[t].pending = state[t].pending /\ state'[t].receipt = state[t].receipt
    <2>1. PICK x \in StateType : x = state[s]
        BY <1>0
    <2>2. PICK n \in Named : n = IF x.flight = f THEN None ELSE x.flight
        BY DEF StateType, Named
    <2> DEFINE new == [x EXCEPT !.flight = n]
    <2>3. new \in StateType /\ new.pending = x.pending /\ new.receipt = x.receipt
        BY DEF StateType
    <2>4. state' = [state EXCEPT ![s] = new]
        BY <1>0, <1>1, <2>1, <2>2 DEF Deliver
    <2> HIDE DEF new
    <2> QED BY <1>0, <2>1, <2>3, <2>4
<1>3. /\ flight' \in [Callers -> FlightType] /\ flight'[f].pc = "off" /\ flight'[f].waiters = {}
      /\ \A h \in Callers : h # f => flight'[h] = flight[h]
    <2>1. NoFlight \in FlightType /\ NoFlight.pc = "off" /\ NoFlight.waiters = {}
        BY DEF NoFlight, FlightType, Named
    <2> QED BY <1>0, <2>1
<1>4. \A d \in Callers : d \notin flight[f].waiters => caller'[d] = caller[d]
    BY DEF Deliver
<1>5. \A d \in Callers : d \in flight[f].waiters =>
         /\ caller'[d] \in CallerType /\ caller'[d].pc = "check"
         /\ caller'[d].state = caller[d].state /\ caller'[d].receipt = caller[d].receipt
         /\ caller'[d].result = caller[d].result
    <2>1. SUFFICES ASSUME NEW d \in Callers, d \in flight[f].waiters
                   PROVE  /\ caller'[d] \in CallerType /\ caller'[d].pc = "check"
                          /\ caller'[d].state = caller[d].state /\ caller'[d].receipt = caller[d].receipt
                          /\ caller'[d].result = caller[d].result
        OBVIOUS
    <2>2. PICK x \in CallerType : x = caller[d]
        BY <1>0
    <2>3. caller'[d] = [x EXCEPT !.pc = "check", !.flight = None]
        BY <2>1, <2>2 DEF Deliver
    <2>4. None \in Named
        BY DEF Named
    <2> QED BY <2>2, <2>3, <2>4 DEF CallerType
<1>6. caller' \in [Callers -> CallerType]
    <2>1. \A d \in Callers : caller'[d] \in CallerType
        BY <1>0, <1>4, <1>5
    <2>2. caller' = [d \in Callers |-> caller'[d]]
        BY DEF Deliver
    <2> QED BY <2>1, <2>2
<1>7. \A d \in Callers : d \in flight[f].waiters => caller[d].pc = "wait" /\ caller[d].flight = f
    BY DEF Inv, Waits
<1>8. \A d \in Callers : /\ caller'[d].receipt = caller[d].receipt /\ caller'[d].state = caller[d].state
                         /\ Begun(d)' <=> Begun(d)
    BY <1>4, <1>5, <1>7 DEF Begun
<1>9. \A h \in Callers :
         /\ Live(h)' <=> Live(h)
         /\ Live(h) => /\ flight'[h].pc = flight[h].pc /\ flight'[h].row = flight[h].row
                       /\ flight'[h].receipt = flight[h].receipt
    BY <1>0, <1>3 DEF Live
<1>10. Types'
    <2>1. \A d \in Callers : Begun(d)' => caller'[d].state \in Callers /\ caller'[d].receipt \in Callers
        BY <1>8 DEF Inv, Types
    <2>2. \A h \in Callers : flight'[h].pc # "off" => flight'[h].state \in Callers
        BY <1>3 DEF Inv, Types
    <2>3. current' \in Named /\ receipt' \in [Callers -> Outcomes] /\ counted' \in [Callers -> Nat]
        BY <1>0 DEF Inv, Types
    <2> QED BY <1>2, <1>3, <1>6, <2>1, <2>2, <2>3 DEF Types
<1>11. Accounts'
    <2>1. Accounts
        BY DEF Inv
    <2> QED BY <1>0, <1>2, <1>8, <1>9, <2>1, AccountsKept
<1>12. Results'
    BY <1>0, <1>4, <1>5, <1>7 DEF Inv, Results
<1>13. Waits'
    <2>1. \A h, d \in Callers : d \in flight'[h].waiters => caller'[d].pc = "wait" /\ caller'[d].flight = h
        BY <1>3, <1>4, <1>7 DEF Inv, Waits
    <2>2. \A d \in Callers : caller'[d].pc = "wait" => caller'[d].flight \in Callers
        BY <1>4, <1>5 DEF Inv, Waits
    <2>3. \A h \in Callers : flight'[h].pc # "off" =>
             (caller'[h].pc = "wait" /\ caller'[h].flight = h) \/ caller'[h].pc \in {"end", "done"}
        BY <1>3, <1>4, <1>7 DEF Inv, Waits
    <2> QED BY <2>1, <2>2, <2>3 DEF Waits
<1> QED BY <1>10, <1>11, <1>12, <1>13 DEF Inv

-----------------------------------------------------------------------------
(* Every step of callers and flights. *)
LEMMA InvNext == Inv /\ [Next]_vars => Inv'
<1> SUFFICES ASSUME Inv, [Next]_vars PROVE Inv'
    OBVIOUS
<1>1. CASE UNCHANGED vars
    BY <1>1 DEF vars, Inv, Types, Accounts, Placed, Receipts, Fresh, Counts, Results, Waits, Begun, Live
<1>2. ASSUME NEW c \in Callers, Arrive(c) \/ Cancel(c) \/ Calling(c) \/ Flying(c) PROVE Inv'
    BY <1>2, CallerKeeps, BeginKeeps, JoinKeeps, LeaveKeeps, SnapshotKeeps, FollowKeeps, UpsertKeeps,
       ClosingKeeps, DeliverKeeps DEF Calling, Flying
<1> QED BY <1>1, <1>2 DEF Next

(* The invariant gives the property. *)
LEMMA InvExact == Inv => PullsExact
<1> SUFFICES ASSUME Inv PROVE PullsExact
    OBVIOUS
<1>1. \A c \in Callers : caller[c].result = "stored" => counted[c] = 1
    <2> SUFFICES ASSUME NEW c \in Callers, caller[c].result = "stored" PROVE counted[c] = 1
        OBVIOUS
    <2>1. caller[c].pc \in {"end", "done"} /\ receipt[caller[c].receipt] = "stored"
        BY DEF Inv, Results
    <2>2. Begun(c)
        BY <2>1 DEF Begun
    <2> QED BY <2>1, <2>2 DEF Inv, Accounts, Counts
<1>2. \A c \in Callers : counted[c] <= 1
    <2> SUFFICES ASSUME NEW c \in Callers PROVE counted[c] <= 1
        OBVIOUS
    <2>1. counted[c] \in {0, 1}
        BY DEF Inv, Accounts, Counts
    <2>2. counted[c] = 0 \/ counted[c] = 1
        BY <2>1
    <2> QED BY <2>2, SMT
<1>3. CountedOnce
    BY <1>1, <1>2 DEF CountedOnce
<1>4. OwnOutcome
    BY DEF OwnOutcome, Inv, Results
<1> QED BY <1>3, <1>4 DEF PullsExact

(* flushPullWriteBatch, upsertPullRow: for every set of callers, and whatever   *)
(* fails or is cancelled, no pull is counted twice, a call that returns the     *)
(* record is counted in it, and a call whose context is alive returns the       *)
(* outcome of the batch that held its own pull.                                 *)
THEOREM PullsAreExact == Spec => []PullsExact
<1>1. Inv /\ [Next]_vars => Inv'
    BY InvNext
<1> QED BY InvInit, <1>1, InvExact, PTL DEF Spec
-----------------------------------------------------------------------------
(* The catalog refreshes of an alias. *)

Committed == Committers \cup {None}
MutationType == [pc : {"idle", "begin", "join", "wait", "result", "end", "done"}, state : Committed, ticket : Nat,
                 cancelled : BOOLEAN, flight : Committed, covered : Nat, err : BOOLEAN]
RefreshType == [revision : Nat, pending : SUBSET Repositories, users : Int, callbacks : Int,
                gate : Committed, flight : Committed]
BatchType == [pc : {"off", "callback", "acquire", "gate", "snapshot", "refresh", "requeue", "release", "ending",
                    "deliver"},
              state : Committed, waiters : SUBSET Committers, cancelled : BOOLEAN, covered : Nat,
              err : BOOLEAN, taken : SUBSET Repositories, retry : BOOLEAN]

CatalogTypes ==
    /\ mutation \in [Committers -> MutationType]
    /\ refresh \in [Committers -> RefreshType]
    /\ batch \in [Committers -> BatchType]
    /\ newest \in Committed /\ catalogMu \in Committed
    /\ committed \in SUBSET Committers /\ catalog \in [Repositories -> SUBSET Committers]

(* A ticket is taken after the commit and counted by its refresh state. *)
Registered ==
    \A c \in Committers :
       /\ mutation[c].pc \in {"idle", "begin"} <=> mutation[c].state = None
       /\ mutation[c].pc # "idle" => c \in committed
       /\ mutation[c].state # None => mutation[c].ticket <= refresh[mutation[c].state].revision
       /\ mutation[c].pc = "wait" => mutation[c].flight # None

(* A batch that has taken rows holds the gate of its state, and a caller      *)
(* whose flight goes on without it has been cancelled: it starts no other.    *)
Flown ==
    /\ \A f \in Committers :
          /\ batch[f].pc = "off" <=> batch[f].state = None
          /\ batch[f].taken # {} => batch[f].pc \in {"refresh", "requeue"}
          /\ batch[f].pc = "requeue" => batch[f].err
          /\ batch[f].pc \in {"snapshot", "refresh", "requeue"} => refresh[batch[f].state].gate = f
          /\ batch[f].state # None => batch[f].covered <= refresh[batch[f].state].revision
          /\ batch[f].state # None => \/ mutation[f].pc = "wait" /\ mutation[f].flight = f
                                      \/ mutation[f].cancelled /\ mutation[f].pc \in {"result", "end", "done"}
    /\ \A f, c \in Committers : c \in batch[f].waiters =>
          mutation[c].pc = "wait" /\ mutation[c].flight = f /\ mutation[c].state = batch[f].state
    /\ \A s \in Committers : refresh[s].flight # None => batch[refresh[s].flight].state = s

Cleared(s, n) == \A e \in Committers : mutation[e].state = s /\ mutation[e].ticket <= n => C!Reflected(e)

(* What a committed mutation touched is in the catalog, pending or in the     *)
(* hands of a batch; a batch that ended without error has left nothing of the *)
(* tickets it covers behind.                                                  *)
Counted == \A r \in Repositories : catalog[r] \subseteq {c \in committed : r \in Touches[c]}
Followed ==
    \A e \in Committers : mutation[e].state # None =>
       \A r \in Touches[e] : \/ e \in catalog[r] \/ r \in refresh[mutation[e].state].pending
                             \/ \E f \in Committers : batch[f].state = mutation[e].state /\ r \in batch[f].taken
Taking ==
    \A f, e \in Committers :
       batch[f].pc = "refresh" /\ mutation[e].state = batch[f].state /\ mutation[e].ticket <= batch[f].covered =>
          \A r \in Touches[e] : e \in catalog[r] \/ r \in batch[f].taken
BatchCovers ==
    \A f \in Committers : batch[f].pc \in {"release", "ending", "deliver"} /\ ~batch[f].err =>
       Cleared(batch[f].state, batch[f].covered)
CallCovers ==
    \A c \in Committers :
       /\ mutation[c].pc = "result" /\ ~mutation[c].err =>
             /\ mutation[c].covered <= refresh[mutation[c].state].revision
             /\ Cleared(mutation[c].state, mutation[c].covered)
       /\ mutation[c].pc \in {"end", "done"} /\ ~mutation[c].err => Cleared(mutation[c].state, mutation[c].ticket)
Covering == Counted /\ Followed /\ Taking /\ BatchCovers /\ CallCovers

(* The counts of a refresh state are those of the calls and callbacks that    *)
(* use it, and only a state in use is in the map.                             *)
Using(s) == {c \in Committers : mutation[c].state = s /\ mutation[c].pc # "done"}
Running(s) == {f \in Committers : batch[f].state = s /\ batch[f].pc \notin {"off", "callback", "deliver"}}
InUse ==
    /\ \A s \in Committers : /\ refresh[s].users = Cardinality(Using(s))
                             /\ refresh[s].callbacks = Cardinality(Running(s))
    /\ newest # None => Using(newest) # {} \/ Running(newest) # {}
    /\ catalogMu # None => batch[catalogMu].pc \in {"gate", "snapshot", "refresh", "requeue", "release"}

CatalogInv == CatalogTypes /\ Registered /\ Flown /\ Covering /\ InUse

CatalogSetting ==
    IsFiniteSet(Committers) /\ None \notin Committers /\ Touches \in [Committers -> SUBSET Repositories]

(* A step of one batch: what it may do to the row sets, the gate and the      *)
(* catalog.                                                                   *)
BatchStep(f, s, b, t) ==
    /\ batch[f].state = s /\ b.state = s /\ b.pc # "off" /\ b.waiters = batch[f].waiters
    /\ batch' = [batch EXCEPT ![f] = b] /\ refresh' = [refresh EXCEPT ![s] = t]
    /\ t.revision = refresh[s].revision /\ t.flight = refresh[s].flight /\ b.covered <= t.revision
    /\ b.taken # {} => b.pc \in {"refresh", "requeue"}
    /\ b.pc = "requeue" => b.err
    /\ b.pc \in {"snapshot", "refresh", "requeue"} => t.gate = f
    /\ t.gate = refresh[s].gate \/ refresh[s].gate \in {None, f}
    /\ \A r \in refresh[s].pending \cup batch[f].taken :
          r \in t.pending \cup b.taken \/ \A e \in committed : r \in Touches[e] => e \in catalog'[r]
    /\ b.pc = "refresh" =>
          \A e \in Committers : mutation[e].state = s /\ mutation[e].ticket <= b.covered =>
             \A r \in Touches[e] : e \in catalog'[r] \/ r \in b.taken
    /\ b.pc \in {"release", "ending", "deliver"} /\ ~b.err =>
          \A e \in Committers : mutation[e].state = s /\ mutation[e].ticket <= b.covered =>
             \A r \in Touches[e] : e \in catalog'[r]

(* The catalog only grows, by mutations that are committed. *)
CatalogGrows ==
    /\ catalog' \in [Repositories -> SUBSET Committers] /\ Counted'
    /\ \A r \in Repositories : catalog[r] \subseteq catalog'[r]

LEMMA ReflectedStays ==
    ASSUME CatalogSetting, CatalogGrows, NEW e \in Committers, C!Reflected(e)
    PROVE  C!Reflected(e)'
<1>1. Touches[e] \subseteq Repositories
    BY DEF CatalogSetting
<1> QED BY <1>1 DEF CatalogGrows, C!Reflected

LEMMA BatchKeeps ==
    ASSUME CatalogSetting, CatalogInv, CatalogGrows, UNCHANGED <<mutation, committed>>,
           newest' \in Committed, catalogMu' \in Committed,
           NEW f \in Committers, NEW s \in Committers, NEW b \in BatchType, NEW t \in RefreshType, BatchStep(f, s, b, t)
    PROVE  CatalogTypes' /\ Registered' /\ Flown' /\ Covering'
<1>0. /\ mutation \in [Committers -> MutationType] /\ refresh \in [Committers -> RefreshType]
      /\ batch \in [Committers -> BatchType] /\ s # None
    BY DEF CatalogInv, CatalogTypes, CatalogSetting
<1>1. /\ batch' \in [Committers -> BatchType] /\ batch'[f] = b /\ \A g \in Committers : g # f => batch'[g] = batch[g]
      /\ refresh' \in [Committers -> RefreshType] /\ refresh'[s] = t
      /\ \A x \in Committers : x # s => refresh'[x] = refresh[x]
    BY <1>0 DEF BatchStep
<1>2. \A x \in Committers : refresh'[x].revision = refresh[x].revision /\ refresh'[x].flight = refresh[x].flight
    BY <1>1 DEF BatchStep
<1>3. CatalogTypes'
    BY <1>0, <1>1 DEF CatalogInv, CatalogTypes, CatalogGrows
<1>4. Registered'
    <2>1. \A c \in Committers : mutation[c].state \in Committed
        BY <1>0 DEF MutationType
    <2> QED BY <1>2, <2>1 DEF CatalogInv, Registered, Committed
<1>5. \A g \in Committers : batch[g].state \in Committed /\ (batch[g].state # None => batch[g].state \in Committers)
    BY <1>0 DEF BatchType, Committed
<1>6. \A g \in Committers : batch'[g].state = batch[g].state /\ batch'[g].waiters = batch[g].waiters
    BY <1>1 DEF BatchStep
<1>7. Flown'
    <2>1. ASSUME NEW g \in Committers
          PROVE  /\ batch'[g].pc = "off" <=> batch'[g].state = None
                 /\ batch'[g].taken # {} => batch'[g].pc \in {"refresh", "requeue"}
                 /\ batch'[g].pc = "requeue" => batch'[g].err
                 /\ batch'[g].pc \in {"snapshot", "refresh", "requeue"} => refresh'[batch'[g].state].gate = g
                 /\ batch'[g].state # None => batch'[g].covered <= refresh'[batch'[g].state].revision
        <3>1. CASE g = f
            BY <1>0, <1>1, <3>1 DEF BatchStep
        <3>2. CASE g # f
            <4>1. batch'[g] = batch[g]
                BY <1>1, <3>2
            <4>2. batch[g].pc \in {"snapshot", "refresh", "requeue"} =>
                    batch[g].state \in Committers /\ refresh[batch[g].state].gate = g
                BY <1>5 DEF CatalogInv, Flown
            <4>3. batch[g].pc \in {"snapshot", "refresh", "requeue"} => refresh'[batch[g].state].gate = g
                BY <1>1, <3>2, <4>2 DEF BatchStep, CatalogSetting
            <4> QED BY <1>2, <1>5, <4>1, <4>3 DEF CatalogInv, Flown
        <3> QED BY <3>1, <3>2
    <2>2. \A g \in Committers : batch'[g].state # None =>
                \/ mutation[g].pc = "wait" /\ mutation[g].flight = g
                \/ mutation[g].cancelled /\ mutation[g].pc \in {"result", "end", "done"}
        BY <1>6 DEF CatalogInv, Flown
    <2>3. \A g, c \in Committers : c \in batch'[g].waiters =>
                mutation[c].pc = "wait" /\ mutation[c].flight = g /\ mutation[c].state = batch'[g].state
        BY <1>6 DEF CatalogInv, Flown
    <2>4. \A x \in Committers : refresh'[x].flight # None => batch'[refresh'[x].flight].state = x
        <3>1. \A x \in Committers : refresh[x].flight \in Committed
            BY <1>0 DEF RefreshType
        <3> QED BY <1>2, <1>6, <3>1 DEF CatalogInv, Flown, Committed
    <2> QED BY <2>1, <2>2, <2>3, <2>4 DEF Flown
<1>8. Covering'
    <2>1. Counted'
        BY DEF CatalogGrows
    <2>2. Followed'
        <3>1. SUFFICES ASSUME NEW e \in Committers, mutation[e].state # None, NEW r \in Touches[e],
                              e \notin catalog'[r], r \notin refresh'[mutation[e].state].pending
                       PROVE  \E g \in Committers : batch'[g].state = mutation[e].state /\ r \in batch'[g].taken
            BY DEF Followed
        <3>2. r \in Repositories /\ e \in committed /\ mutation[e].state \in Committers
            <4>1. mutation[e].state \in Committed /\ mutation[e].pc # "idle"
                BY <1>0, <3>1 DEF MutationType, CatalogInv, Registered
            <4> QED BY <3>1, <4>1 DEF CatalogSetting, CatalogInv, Registered, Committed
        <3>3. e \notin catalog[r]
            BY <3>1, <3>2 DEF CatalogGrows
        <3>4. r \in refresh[mutation[e].state].pending
                \/ \E g \in Committers : batch[g].state = mutation[e].state /\ r \in batch[g].taken
            BY <3>1, <3>3 DEF CatalogInv, Covering, Followed
        <3>5. CASE r \in refresh[mutation[e].state].pending
            <4>1. mutation[e].state = s
                BY <1>1, <3>1, <3>2, <3>5
            <4>2. r \in t.pending \cup b.taken
                BY <3>1, <3>2, <3>5, <4>1 DEF BatchStep
            <4> QED BY <1>1, <3>1, <4>1, <4>2 DEF BatchStep
        <3>6. ASSUME NEW g \in Committers, batch[g].state = mutation[e].state, r \in batch[g].taken
              PROVE  \E h \in Committers : batch'[h].state = mutation[e].state /\ r \in batch'[h].taken
            <4>1. CASE g # f
                BY <1>1, <3>6, <4>1
            <4>2. CASE g = f
                <5>1. mutation[e].state = s /\ r \in t.pending \cup b.taken
                    BY <3>1, <3>2, <3>6, <4>2 DEF BatchStep
                <5> QED BY <1>1, <3>1, <5>1 DEF BatchStep
            <4> QED BY <4>1, <4>2
        <3> QED BY <3>4, <3>5, <3>6
    <2>3. Taking'
        <3>1. ASSUME NEW g \in Committers, NEW e \in Committers, batch'[g].pc = "refresh",
                     mutation[e].state = batch'[g].state, mutation[e].ticket <= batch'[g].covered, NEW r \in Touches[e]
              PROVE  e \in catalog'[r] \/ r \in batch'[g].taken
            <4>1. CASE g = f
                BY <1>1, <3>1, <4>1 DEF BatchStep
            <4>2. CASE g # f
                <5>1. e \in catalog[r] \/ r \in batch[g].taken
                    BY <1>1, <3>1, <4>2 DEF CatalogInv, Covering, Taking
                <5>2. r \in Repositories
                    BY DEF CatalogSetting
                <5> QED BY <1>1, <4>2, <5>1, <5>2 DEF CatalogGrows
            <4> QED BY <4>1, <4>2
        <3> QED BY <3>1 DEF Taking
    <2>4. BatchCovers'
        <3>1. ASSUME NEW g \in Committers, batch'[g].pc \in {"release", "ending", "deliver"}, ~batch'[g].err
              PROVE  \A e \in Committers : mutation[e].state = batch'[g].state /\ mutation[e].ticket <= batch'[g].covered
                                             => C!Reflected(e)'
            <4>1. CASE g = f
                BY <1>1, <3>1, <4>1 DEF BatchStep, C!Reflected
            <4>2. CASE g # f
                <5>1. Cleared(batch[g].state, batch[g].covered)
                    BY <1>1, <3>1, <4>2 DEF CatalogInv, Covering, BatchCovers
                <5>2. batch'[g] = batch[g]
                    BY <1>1, <4>2
                <5> QED BY <5>1, <5>2, ReflectedStays DEF Cleared
            <4> QED BY <4>1, <4>2
        <3> QED BY <3>1 DEF BatchCovers, Cleared
    <2>5. CallCovers'
        <3>1. \A c \in Committers : mutation[c].pc \in {"result", "end", "done"} => mutation[c].state \in Committers
            BY <1>0 DEF CatalogInv, Registered, MutationType, Committed
        <3> QED BY <1>0, <1>2, <3>1, ReflectedStays DEF CatalogInv, Covering, CallCovers, Cleared
    <2> QED BY <2>1, <2>2, <2>3, <2>4, <2>5 DEF Covering
<1> QED BY <1>3, <1>4, <1>7, <1>8
-----------------------------------------------------------------------------
(* A batch *)

Held == {"gate", "snapshot", "refresh", "requeue", "release"}
Mutex(f, b) == /\ catalogMu' = f => b.pc \in Held
               /\ catalogMu' # f => catalogMu' \in {catalogMu, None}

LEMMA RunningKept ==
    ASSUME CatalogSetting, CatalogInv, UNCHANGED <<mutation, newest>>,
           NEW f \in Committers, NEW s \in Committers, NEW b \in BatchType, NEW t \in RefreshType, BatchStep(f, s, b, t),
           Mutex(f, b), t.users = refresh[s].users, t.callbacks = refresh[s].callbacks,
           batch[f].pc \notin {"off", "callback", "deliver"}, b.pc \notin {"off", "callback", "deliver"}
    PROVE  InUse'
<1>1. /\ refresh \in [Committers -> RefreshType] /\ batch \in [Committers -> BatchType]
      /\ catalogMu \in Committed
    BY DEF CatalogInv, CatalogTypes
<1>2. /\ batch'[f] = b /\ \A g \in Committers : g # f => batch'[g] = batch[g]
      /\ \A x \in Committers : refresh'[x].users = refresh[x].users /\ refresh'[x].callbacks = refresh[x].callbacks
    BY <1>1 DEF BatchStep
<1>3. \A x : Running(x)' = Running(x) /\ Using(x)' = Using(x)
    BY <1>2 DEF Running, Using, BatchStep
<1>4. catalogMu' # None => batch'[catalogMu'].pc \in Held
    BY <1>1, <1>2 DEF Mutex, CatalogInv, InUse, Held, Committed
<1>5. \A x \in Committers : refresh'[x].users = Cardinality(Using(x)') /\ refresh'[x].callbacks = Cardinality(Running(x)')
    BY <1>2, <1>3 DEF CatalogInv, InUse
<1> QED BY <1>3, <1>4, <1>5 DEF CatalogInv, InUse, Held

LEMMA Unmoved ==
    ASSUME CatalogSetting, CatalogInv, catalog' = catalog, committed' = committed
    PROVE  CatalogGrows
BY DEF CatalogInv, CatalogTypes, Covering, CatalogGrows, Counted

(* Of a batch that is under way. *)
LEMMA BatchFacts ==
    ASSUME CatalogSetting, CatalogInv, NEW f \in Committers, batch[f].pc # "off"
    PROVE  /\ batch[f] \in BatchType /\ batch[f].state \in Committers /\ refresh[batch[f].state] \in RefreshType
           /\ batch[f].covered <= refresh[batch[f].state].revision
           /\ refresh = [refresh EXCEPT ![batch[f].state] = refresh[batch[f].state]]
           /\ newest \in Committed /\ catalogMu \in Committed
BY DEF CatalogInv, CatalogTypes, Flown, BatchType, Committed

LEMMA StartCallbackKeeps ==
    ASSUME CatalogSetting, CatalogInv, NEW f \in Committers, C!StartCallback(f)
    PROVE  CatalogInv'
<1>1. PICK s \in Committers : s = batch[f].state /\ refresh[s] \in RefreshType /\ batch[f].covered <= refresh[s].revision
    BY BatchFacts DEF C!StartCallback
<1>2. batch[f] \in BatchType /\ batch[f].pc = "callback" /\ newest \in Committed /\ catalogMu \in Committed
    BY BatchFacts DEF C!StartCallback
<1>3. PICK b \in BatchType : b = [batch[f] EXCEPT !.pc = "acquire"]
    BY <1>2 DEF BatchType
<1>4. /\ b.pc = "acquire" /\ b.state = s /\ b.waiters = batch[f].waiters /\ b.covered = batch[f].covered
      /\ b.taken = batch[f].taken
    BY <1>1, <1>2, <1>3 DEF BatchType
<1>5. refresh[s].callbacks + 1 \in Int
    BY <1>1 DEF RefreshType
<1>6. PICK t \in RefreshType : t = [refresh[s] EXCEPT !.callbacks = @ + 1]
    BY <1>1, <1>5 DEF RefreshType
<1>7. /\ t.revision = refresh[s].revision /\ t.flight = refresh[s].flight /\ t.gate = refresh[s].gate
      /\ t.pending = refresh[s].pending /\ t.users = refresh[s].users /\ t.callbacks = refresh[s].callbacks + 1
    BY <1>1, <1>6 DEF RefreshType
<1>8. /\ batch' = [batch EXCEPT ![f] = b] /\ refresh' = [refresh EXCEPT ![s] = t]
      /\ UNCHANGED <<mutation, newest, catalogMu, committed, catalog>>
    BY <1>1, <1>3, <1>6 DEF C!StartCallback, C!Goto
<1>9. BatchStep(f, s, b, t)
    <2>1. batch[f].taken = {}
        BY <1>2 DEF CatalogInv, Flown
    <2> QED BY <1>1, <1>4, <1>7, <1>8, <2>1 DEF BatchStep
<1>10. CatalogTypes' /\ Registered' /\ Flown' /\ Covering'
    BY <1>2, <1>8, <1>9, BatchKeeps, Unmoved
<1>11. InUse'
    <2>1. /\ refresh \in [Committers -> RefreshType] /\ batch \in [Committers -> BatchType]
        BY DEF CatalogInv, CatalogTypes
    <2>2. batch'[f] = b /\ \A g \in Committers : g # f => batch'[g] = batch[g]
        BY <1>8, <2>1
    <2>3. \A x : Using(x)' = Using(x)
        BY <1>8 DEF Using
    <2>4. Running(s)' = Running(s) \cup {f} /\ f \notin Running(s) /\ \A x : x # s => Running(x)' = Running(x)
        BY <1>1, <1>2, <1>4, <2>2 DEF Running
    <2>5. Cardinality(Running(s) \cup {f}) = Cardinality(Running(s)) + 1
        <3>1. IsFiniteSet(Running(s))
            BY FS_Subset DEF Running, CatalogSetting
        <3> QED BY <2>4, <3>1, FS_AddElement
    <2>6. \A x \in Committers : refresh'[x].users = Cardinality(Using(x)') /\ refresh'[x].callbacks = Cardinality(Running(x)')
        BY <1>7, <1>8, <2>1, <2>3, <2>4, <2>5 DEF CatalogInv, InUse
    <2>7. newest' # None => Using(newest)' # {} \/ Running(newest)' # {}
        <3>1. Using(newest)' = Using(newest)
            BY <1>8 DEF Using
        <3>2. ASSUME NEW g \in Running(newest) PROVE g \in Running(newest)'
            BY <1>2, <1>8, <2>2 DEF Running
        <3> QED BY <1>8, <3>1, <3>2 DEF CatalogInv, InUse
    <2>8. catalogMu' # None => batch'[catalogMu'].pc \in {"gate", "snapshot", "refresh", "requeue", "release"}
        BY <1>2, <1>8, <2>2 DEF CatalogInv, InUse, Committed
    <2> QED BY <2>6, <2>7, <2>8 DEF InUse
<1> QED BY <1>10, <1>11 DEF CatalogInv

LEMMA EndCallbackKeeps ==
    ASSUME CatalogSetting, CatalogInv, NEW f \in Committers, C!EndCallback(f)
    PROVE  CatalogInv'
<1>1. PICK s \in Committers : s = batch[f].state /\ refresh[s] \in RefreshType /\ batch[f].covered <= refresh[s].revision
    BY BatchFacts DEF C!EndCallback
<1>2. batch[f] \in BatchType /\ batch[f].pc = "ending" /\ newest \in Committed /\ catalogMu \in Committed
    BY BatchFacts DEF C!EndCallback
<1>3. PICK b \in BatchType : b = [batch[f] EXCEPT !.pc = "deliver"]
    BY <1>2 DEF BatchType
<1>4. /\ b.pc = "deliver" /\ b.state = s /\ b.waiters = batch[f].waiters /\ b.covered = batch[f].covered
      /\ b.taken = batch[f].taken /\ b.err = batch[f].err
    BY <1>1, <1>2, <1>3 DEF BatchType
<1>5. refresh[s].callbacks - 1 \in Int
    BY <1>1 DEF RefreshType
<1>6. PICK t \in RefreshType : t = [refresh[s] EXCEPT !.callbacks = @ - 1]
    BY <1>1, <1>5 DEF RefreshType
<1>7. /\ t.revision = refresh[s].revision /\ t.flight = refresh[s].flight /\ t.gate = refresh[s].gate
      /\ t.pending = refresh[s].pending /\ t.users = refresh[s].users /\ t.callbacks = refresh[s].callbacks - 1
    BY <1>1, <1>6 DEF RefreshType
<1>8. /\ batch' = [batch EXCEPT ![f] = b] /\ refresh' = [refresh EXCEPT ![s] = t]
      /\ UNCHANGED <<mutation, catalogMu, committed, catalog>> /\ newest' = C!Dropped(s, t)
    BY <1>1, <1>3, <1>6 DEF C!EndCallback, C!Goto
<1>9. BatchStep(f, s, b, t)
    <2>1. batch[f].taken = {}
        BY <1>2 DEF CatalogInv, Flown
    <2>2. ~batch[f].err => Cleared(s, batch[f].covered)
        BY <1>1, <1>2 DEF CatalogInv, Covering, BatchCovers
    <2> QED BY <1>1, <1>4, <1>7, <1>8, <2>1, <2>2 DEF BatchStep, Cleared, C!Reflected
<1>10. CatalogTypes' /\ Registered' /\ Flown' /\ Covering'
    <2>1. newest' \in Committed
        BY <1>2, <1>8 DEF C!Dropped, Committed
    <2> QED BY <1>2, <1>8, <1>9, <2>1, BatchKeeps, Unmoved
<1>11. InUse'
    <2>1. /\ refresh \in [Committers -> RefreshType] /\ batch \in [Committers -> BatchType]
        BY DEF CatalogInv, CatalogTypes
    <2>2. batch'[f] = b /\ \A g \in Committers : g # f => batch'[g] = batch[g]
        BY <1>8, <2>1
    <2>3. \A x : Using(x)' = Using(x)
        BY <1>8 DEF Using
    <2>4. Running(s)' = Running(s) \ {f} /\ f \in Running(s) /\ \A x : x # s => Running(x)' = Running(x)
        BY <1>1, <1>2, <1>4, <2>2 DEF Running
    <2>5. Cardinality(Running(s) \ {f}) = Cardinality(Running(s)) - 1
        <3>1. IsFiniteSet(Running(s))
            BY FS_Subset DEF Running, CatalogSetting
        <3> QED BY <2>4, <3>1, FS_RemoveElement
    <2>6. \A x \in Committers : refresh'[x].users = Cardinality(Using(x)') /\ refresh'[x].callbacks = Cardinality(Running(x)')
        BY <1>7, <1>8, <2>1, <2>3, <2>4, <2>5 DEF CatalogInv, InUse
    <2>7. newest' # None => Using(newest)' # {} \/ Running(newest)' # {}
        <3>1. SUFFICES ASSUME newest' # None PROVE Using(newest)' # {} \/ Running(newest)' # {}
            OBVIOUS
        <3>2. newest' = newest /\ newest # None /\ ~(newest = s /\ t.users = 0 /\ t.callbacks = 0)
            BY <1>8, <3>1 DEF C!Dropped, C!Unused
        <3>3. CASE newest = s
            <4>1. refresh'[s] = t
                BY <1>8, <2>1
            <4>2. ~(Cardinality(Using(s)') = 0 /\ Cardinality(Running(s)') = 0)
                BY <2>6, <3>2, <3>3, <4>1
            <4> QED BY <3>2, <3>3, <4>2, FS_EmptySet DEF Using, Running
        <3>4. CASE newest # s
            <4>1. Using(newest)' = Using(newest)
                BY <1>8, <3>2 DEF Using
            <4>2. ASSUME NEW g \in Running(newest) PROVE g \in Running(newest)'
                BY <1>1, <2>2, <3>2, <3>4 DEF Running
            <4> QED BY <3>2, <4>1, <4>2 DEF CatalogInv, InUse
        <3> QED BY <3>3, <3>4
    <2>8. catalogMu' # None => batch'[catalogMu'].pc \in {"gate", "snapshot", "refresh", "requeue", "release"}
        BY <1>2, <1>8, <2>2 DEF CatalogInv, InUse, Committed
    <2> QED BY <2>6, <2>7, <2>8 DEF InUse
<1> QED BY <1>10, <1>11 DEF CatalogInv
LEMMA BatchMoves ==
    ASSUME CatalogSetting, CatalogInv, CatalogGrows, UNCHANGED <<mutation, newest, committed>>,
           NEW f \in Committers, NEW s \in Committers, NEW b \in BatchType, NEW t \in RefreshType, BatchStep(f, s, b, t),
           Mutex(f, b), t.users = refresh[s].users, t.callbacks = refresh[s].callbacks,
           batch[f].pc \notin {"off", "callback", "deliver"}, b.pc \notin {"off", "callback", "deliver"}
    PROVE  CatalogInv'
<1>1. newest' \in Committed /\ catalogMu' \in Committed
    BY DEF Mutex, CatalogInv, CatalogTypes, Committed
<1>2. CatalogTypes' /\ Registered' /\ Flown' /\ Covering'
    BY <1>1, BatchKeeps
<1>3. InUse'
    BY RunningKept
<1> QED BY <1>2, <1>3 DEF CatalogInv

LEMMA AcquireKeeps ==
    ASSUME CatalogSetting, CatalogInv, NEW f \in Committers, C!Acquire(f)
    PROVE  CatalogInv'
<1>1. PICK s \in Committers : s = batch[f].state /\ refresh[s] \in RefreshType
                              /\ batch[f].covered <= refresh[s].revision /\ refresh = [refresh EXCEPT ![s] = refresh[s]]
    BY BatchFacts DEF C!Acquire
<1>2. batch[f] \in BatchType /\ batch[f].pc = "acquire" /\ catalogMu # f
      /\ UNCHANGED <<mutation, refresh, newest, committed, catalog>>
    BY BatchFacts DEF C!Acquire, CatalogInv, InUse, CatalogSetting
<1>3. batch[f].taken = {}
    BY <1>2 DEF CatalogInv, Flown
<1>4. CASE /\ SQLite => catalogMu = None
           /\ catalogMu' = IF SQLite THEN f ELSE catalogMu
           /\ C!Goto(f, "gate")
    <2>1. PICK b \in BatchType : b = [batch[f] EXCEPT !.pc = "gate"]
        BY <1>2 DEF BatchType
    <2>2. b.pc = "gate" /\ b.state = s /\ b.waiters = batch[f].waiters /\ b.covered = batch[f].covered /\ b.taken = {}
        BY <1>1, <1>2, <1>3, <2>1 DEF BatchType
    <2>3. batch' = [batch EXCEPT ![f] = b]
        BY <1>4, <2>1 DEF C!Goto
    <2>4. BatchStep(f, s, b, refresh[s])
        BY <1>1, <1>2, <1>3, <2>2, <2>3 DEF BatchStep
    <2>5. Mutex(f, b)
        BY <1>4, <2>2 DEF Mutex, Held
    <2> QED BY <1>1, <1>2, <2>2, <2>4, <2>5, BatchMoves, Unmoved
<1>5. CASE SQLite /\ batch[f].cancelled /\ C!Fail(f, "ending") /\ UNCHANGED catalogMu
    <2>1. PICK b \in BatchType : b = [batch[f] EXCEPT !.pc = "ending", !.err = TRUE]
        BY <1>2 DEF BatchType
    <2>2. b.pc = "ending" /\ b.state = s /\ b.waiters = batch[f].waiters /\ b.covered = batch[f].covered /\ b.taken = {}
          /\ b.err
        BY <1>1, <1>2, <1>3, <2>1 DEF BatchType
    <2>3. batch' = [batch EXCEPT ![f] = b]
        BY <1>5, <2>1 DEF C!Fail
    <2>4. BatchStep(f, s, b, refresh[s])
        BY <1>1, <1>2, <1>3, <2>2, <2>3 DEF BatchStep
    <2>5. Mutex(f, b)
        BY <1>2, <1>5 DEF Mutex
    <2> QED BY <1>1, <1>2, <2>2, <2>4, <2>5, BatchMoves, Unmoved
<1> QED BY <1>4, <1>5 DEF C!Acquire

LEMMA AcquireGateKeeps ==
    ASSUME CatalogSetting, CatalogInv, NEW f \in Committers, C!AcquireGate(f)
    PROVE  CatalogInv'
<1>1. PICK s \in Committers : s = batch[f].state /\ refresh[s] \in RefreshType
                              /\ batch[f].covered <= refresh[s].revision /\ refresh = [refresh EXCEPT ![s] = refresh[s]]
    BY BatchFacts DEF C!AcquireGate
<1>2. batch[f] \in BatchType /\ batch[f].pc = "gate" /\ UNCHANGED <<mutation, newest, catalogMu, committed, catalog>>
    BY BatchFacts DEF C!AcquireGate
<1>3. batch[f].taken = {}
    BY <1>2 DEF CatalogInv, Flown
<1>4. CASE refresh[s].gate = None /\ refresh' = [refresh EXCEPT ![s].gate = f] /\ C!Goto(f, "snapshot")
    <2>1. PICK b \in BatchType : b = [batch[f] EXCEPT !.pc = "snapshot"]
        BY <1>2 DEF BatchType
    <2>2. b.pc = "snapshot" /\ b.state = s /\ b.waiters = batch[f].waiters /\ b.covered = batch[f].covered /\ b.taken = {}
        BY <1>1, <1>2, <1>3, <2>1 DEF BatchType
    <2>3. PICK t \in RefreshType : t = [refresh[s] EXCEPT !.gate = f]
        BY <1>1 DEF RefreshType, Committed
    <2>4. /\ t.revision = refresh[s].revision /\ t.flight = refresh[s].flight /\ t.gate = f
          /\ t.pending = refresh[s].pending /\ t.users = refresh[s].users /\ t.callbacks = refresh[s].callbacks
        BY <1>1, <2>3 DEF RefreshType
    <2>5. batch' = [batch EXCEPT ![f] = b] /\ refresh' = [refresh EXCEPT ![s] = t]
        BY <1>4, <2>1, <2>3 DEF C!Goto
    <2>6. BatchStep(f, s, b, t)
        BY <1>1, <1>2, <1>3, <1>4, <2>2, <2>4, <2>5 DEF BatchStep
    <2>7. Mutex(f, b)
        BY <1>2, <2>2 DEF Mutex, Held
    <2> QED BY <1>1, <1>2, <2>2, <2>4, <2>6, <2>7, BatchMoves, Unmoved
<1>5. CASE batch[f].cancelled /\ C!Fail(f, "release") /\ UNCHANGED refresh
    <2>1. PICK b \in BatchType : b = [batch[f] EXCEPT !.pc = "release", !.err = TRUE]
        BY <1>2 DEF BatchType
    <2>2. b.pc = "release" /\ b.state = s /\ b.waiters = batch[f].waiters /\ b.covered = batch[f].covered /\ b.taken = {}
          /\ b.err
        BY <1>1, <1>2, <1>3, <2>1 DEF BatchType
    <2>3. batch' = [batch EXCEPT ![f] = b]
        BY <1>5, <2>1 DEF C!Fail
    <2>4. BatchStep(f, s, b, refresh[s])
        BY <1>1, <1>2, <1>3, <1>5, <2>2, <2>3 DEF BatchStep
    <2>5. Mutex(f, b)
        BY <1>2, <2>2 DEF Mutex, Held
    <2> QED BY <1>1, <1>2, <2>2, <2>4, <2>5, BatchMoves, Unmoved
<1> QED BY <1>1, <1>4, <1>5 DEF C!AcquireGate

(* Nothing of a state is in the hands of another batch while one holds its gate. *)
LEMMA GateAlone ==
    ASSUME CatalogSetting, CatalogInv, NEW f \in Committers, batch[f].pc = "snapshot",
           NEW e \in Committers, mutation[e].state = batch[f].state, NEW r \in Touches[e]
    PROVE  e \in catalog[r] \/ r \in refresh[batch[f].state].pending
<1>1. batch[f].taken = {} /\ batch[f].state # None /\ refresh[batch[f].state].gate = f
    BY DEF CatalogInv, Flown
<1>2. ASSUME NEW g \in Committers, batch[g].state = batch[f].state, r \in batch[g].taken PROVE FALSE
    <2>1. refresh[batch[g].state].gate = g
        BY <1>2 DEF CatalogInv, Flown
    <2> QED BY <1>1, <1>2, <2>1
<1> QED BY <1>1, <1>2 DEF CatalogInv, Covering, Followed

LEMMA TakesPending ==
    ASSUME CatalogSetting, CatalogInv, NEW f \in Committers, C!Snapshot(f)
    PROVE  CatalogInv'
<1>1. PICK s \in Committers : s = batch[f].state /\ refresh[s] \in RefreshType
                              /\ batch[f].covered <= refresh[s].revision /\ refresh = [refresh EXCEPT ![s] = refresh[s]]
    BY BatchFacts DEF C!Snapshot
<1>2. batch[f] \in BatchType /\ batch[f].pc = "snapshot" /\ UNCHANGED <<mutation, newest, catalogMu, committed, catalog>>
    BY BatchFacts DEF C!Snapshot
<1>3. batch[f].taken = {} /\ refresh[s].gate = f
    BY <1>1, <1>2 DEF CatalogInv, Flown
<1>4. CASE batch[f].cancelled /\ ~batch[f].retry
    <2>1. PICK b \in BatchType : b = [batch[f] EXCEPT !.pc = "release", !.err = TRUE]
        BY <1>2 DEF BatchType
    <2>2. b.pc = "release" /\ b.state = s /\ b.waiters = batch[f].waiters /\ b.covered = batch[f].covered /\ b.taken = {}
          /\ b.err
        BY <1>1, <1>2, <1>3, <2>1 DEF BatchType
    <2>3. batch' = [batch EXCEPT ![f] = b] /\ refresh' = refresh
        BY <1>4, <2>1 DEF C!Fail, C!Snapshot
    <2>4. BatchStep(f, s, b, refresh[s])
        BY <1>1, <1>2, <1>3, <2>2, <2>3 DEF BatchStep
    <2>5. Mutex(f, b)
        BY <1>2, <2>2 DEF Mutex, Held
    <2> QED BY <1>1, <1>2, <2>2, <2>4, <2>5, BatchMoves, Unmoved
<1>5. CASE ~(batch[f].cancelled /\ ~batch[f].retry)
    <2>0. refresh[s].pending \in SUBSET Repositories /\ refresh[s].revision \in Nat
        BY <1>1 DEF RefreshType
    <2>1. PICK pc \in {"release", "refresh"} : pc = IF refresh[s].pending = {} THEN "release" ELSE "refresh"
        OBVIOUS
    <2>2. PICK b \in BatchType : b = [batch[f] EXCEPT !.pc = pc, !.covered = refresh[s].revision, !.taken = refresh[s].pending]
        BY <1>2, <2>0 DEF BatchType
    <2>3. b.pc = pc /\ b.state = s /\ b.waiters = batch[f].waiters /\ b.covered = refresh[s].revision
          /\ b.taken = refresh[s].pending
        BY <1>1, <1>2, <2>2 DEF BatchType
    <2>4. PICK t \in RefreshType : t = [refresh[s] EXCEPT !.pending = {}]
        BY <1>1 DEF RefreshType
    <2>5. /\ t.revision = refresh[s].revision /\ t.flight = refresh[s].flight /\ t.gate = f
          /\ t.users = refresh[s].users /\ t.callbacks = refresh[s].callbacks
        BY <1>1, <1>3, <2>4 DEF RefreshType
    <2>6. batch' = [batch EXCEPT ![f] = b] /\ refresh' = [refresh EXCEPT ![s] = t]
        BY <1>1, <1>5, <2>1, <2>2, <2>4 DEF C!Snapshot
    <2>7. \A e \in Committers : mutation[e].state = s =>
             \A r \in Touches[e] : e \in catalog[r] \/ r \in refresh[s].pending
        BY <1>1, <1>2, GateAlone
    <2>8. BatchStep(f, s, b, t)
        BY <1>1, <1>2, <1>3, <2>0, <2>1, <2>3, <2>5, <2>6, <2>7 DEF BatchStep
    <2>9. Mutex(f, b)
        BY <1>2, <2>1, <2>3 DEF Mutex, Held
    <2> QED BY <1>1, <1>2, <2>1, <2>3, <2>5, <2>8, <2>9, BatchMoves, Unmoved
<1> QED BY <1>4, <1>5
(* The rows that a batch has taken are aggregated from what is committed now. *)
LEMMA AggregatedGrows ==
    ASSUME CatalogSetting, CatalogInv, NEW f \in Committers, catalog' = C!Aggregated(f), committed' = committed
    PROVE  /\ CatalogGrows
           /\ \A r \in batch[f].taken, e \in committed : r \in Repositories /\ r \in Touches[e] => e \in catalog'[r]
<1>1. catalog \in [Repositories -> SUBSET Committers] /\ committed \in SUBSET Committers /\ Counted
    BY DEF CatalogInv, CatalogTypes, Covering
<1>2. ASSUME NEW r \in Repositories
      PROVE  /\ catalog'[r] = IF r \in batch[f].taken THEN {c \in committed : r \in Touches[c]} ELSE catalog[r]
             /\ catalog'[r] \in SUBSET Committers /\ catalog[r] \subseteq catalog'[r]
             /\ catalog'[r] \subseteq {c \in committed : r \in Touches[c]}
    BY <1>1 DEF C!Aggregated, Counted
<1>3. catalog' \in [Repositories -> SUBSET Committers]
    BY <1>1 DEF C!Aggregated
<1>4. Counted'
    BY <1>2 DEF Counted
<1> QED BY <1>2, <1>3, <1>4 DEF CatalogGrows

LEMMA RefreshCommitsKeeps ==
    ASSUME CatalogSetting, CatalogInv, NEW f \in Committers, C!RefreshCommits(f)
    PROVE  CatalogInv'
<1>1. PICK s \in Committers : s = batch[f].state /\ refresh[s] \in RefreshType
                              /\ batch[f].covered <= refresh[s].revision /\ refresh = [refresh EXCEPT ![s] = refresh[s]]
    BY BatchFacts DEF C!RefreshCommits
<1>2. batch[f] \in BatchType /\ batch[f].pc = "refresh" /\ UNCHANGED <<mutation, refresh, newest, catalogMu, committed>>
      /\ catalog' = C!Aggregated(f)
    BY BatchFacts DEF C!RefreshCommits
<1>3. batch[f].taken \subseteq Repositories
    BY <1>2 DEF BatchType
<1>4. PICK b \in BatchType : b = [batch[f] EXCEPT !.pc = "release", !.err = FALSE, !.taken = {}]
    BY <1>2 DEF BatchType
<1>5. b.pc = "release" /\ b.state = s /\ b.waiters = batch[f].waiters /\ b.covered = batch[f].covered /\ b.taken = {}
    BY <1>1, <1>2, <1>4 DEF BatchType
<1>6. batch' = [batch EXCEPT ![f] = b]
    BY <1>4 DEF C!RefreshCommits
<1>7. CatalogGrows /\ \A r \in batch[f].taken, e \in committed : r \in Touches[e] => e \in catalog'[r]
    BY <1>2, <1>3, AggregatedGrows
<1>8. \A e \in Committers : mutation[e].state = s /\ mutation[e].ticket <= batch[f].covered =>
         \A r \in Touches[e] : e \in catalog'[r]
    <2>1. SUFFICES ASSUME NEW e \in Committers, mutation[e].state = s, mutation[e].ticket <= batch[f].covered,
                          NEW r \in Touches[e]
                   PROVE  e \in catalog'[r]
        OBVIOUS
    <2>2. e \in catalog[r] \/ r \in batch[f].taken
        BY <1>1, <1>2, <2>1 DEF CatalogInv, Covering, Taking
    <2>3. e \in committed /\ r \in Repositories
        BY <2>1 DEF CatalogSetting, CatalogInv, Registered
    <2> QED BY <1>7, <2>2, <2>3 DEF CatalogGrows
<1>9. BatchStep(f, s, b, refresh[s])
    BY <1>1, <1>2, <1>5, <1>6, <1>7, <1>8 DEF BatchStep
<1>10. Mutex(f, b)
    BY <1>2, <1>5 DEF Mutex, Held
<1> QED BY <1>1, <1>2, <1>5, <1>7, <1>9, <1>10, BatchMoves

LEMMA RefreshFailsKeeps ==
    ASSUME CatalogSetting, CatalogInv, NEW f \in Committers, C!RefreshFails(f)
    PROVE  CatalogInv'
<1>1. PICK s \in Committers : s = batch[f].state /\ refresh[s] \in RefreshType
                              /\ batch[f].covered <= refresh[s].revision /\ refresh = [refresh EXCEPT ![s] = refresh[s]]
    BY BatchFacts DEF C!RefreshFails
<1>2. batch[f] \in BatchType /\ batch[f].pc = "refresh" /\ UNCHANGED <<mutation, refresh, newest, catalogMu, committed>>
    BY BatchFacts DEF C!RefreshFails
<1>3. PICK b \in BatchType : b = [batch[f] EXCEPT !.pc = "requeue", !.err = TRUE]
    BY <1>2 DEF BatchType
<1>4. b.pc = "requeue" /\ b.state = s /\ b.waiters = batch[f].waiters /\ b.covered = batch[f].covered
      /\ b.taken = batch[f].taken /\ b.err
    BY <1>1, <1>2, <1>3 DEF BatchType
<1>5. batch' = [batch EXCEPT ![f] = b] /\ refresh[s].gate = f
    <2>1. batch' = [batch EXCEPT ![f] = b]
        BY <1>3 DEF C!RefreshFails, C!Fail
    <2>2. refresh[s].gate = f
        BY <1>1, <1>2 DEF CatalogInv, Flown
    <2> QED BY <2>1, <2>2
<1>6. CatalogGrows
    BY <1>2, AggregatedGrows, Unmoved DEF C!RefreshFails
<1>7. BatchStep(f, s, b, refresh[s])
    BY <1>1, <1>2, <1>4, <1>5 DEF BatchStep
<1>8. Mutex(f, b)
    BY <1>2, <1>4 DEF Mutex, Held
<1> QED BY <1>1, <1>2, <1>4, <1>6, <1>7, <1>8, BatchMoves

LEMMA RequeueKeeps ==
    ASSUME CatalogSetting, CatalogInv, NEW f \in Committers, C!Requeue(f)
    PROVE  CatalogInv'
<1>1. PICK s \in Committers : s = batch[f].state /\ refresh[s] \in RefreshType
                              /\ batch[f].covered <= refresh[s].revision /\ refresh = [refresh EXCEPT ![s] = refresh[s]]
    BY BatchFacts DEF C!Requeue
<1>2. batch[f] \in BatchType /\ batch[f].pc = "requeue" /\ UNCHANGED <<mutation, newest, catalogMu, committed, catalog>>
    BY BatchFacts DEF C!Requeue
<1>3. PICK pc \in {"release", "snapshot"} : pc = IF batch[f].cancelled \/ batch[f].retry THEN "release" ELSE "snapshot"
    OBVIOUS
<1>4. PICK b \in BatchType : b = [batch[f] EXCEPT !.pc = pc, !.taken = {}, !.retry = TRUE]
    BY <1>2 DEF BatchType
<1>5. b.pc = pc /\ b.state = s /\ b.waiters = batch[f].waiters /\ b.covered = batch[f].covered /\ b.taken = {}
      /\ b.err = batch[f].err
    BY <1>1, <1>2, <1>4 DEF BatchType
<1>6. refresh[s].pending \cup batch[f].taken \in SUBSET Repositories
    BY <1>1, <1>2 DEF RefreshType, BatchType
<1>7. PICK t \in RefreshType : t = [refresh[s] EXCEPT !.pending = @ \cup batch[f].taken]
    BY <1>1, <1>6 DEF RefreshType
<1>8. /\ t.revision = refresh[s].revision /\ t.flight = refresh[s].flight /\ t.gate = refresh[s].gate
      /\ t.pending = refresh[s].pending \cup batch[f].taken
      /\ t.users = refresh[s].users /\ t.callbacks = refresh[s].callbacks
    BY <1>1, <1>7 DEF RefreshType
<1>9. batch' = [batch EXCEPT ![f] = b] /\ refresh' = [refresh EXCEPT ![s] = t]
    BY <1>1, <1>3, <1>4, <1>7 DEF C!Requeue
<1>10. refresh[s].gate = f
    BY <1>1, <1>2 DEF CatalogInv, Flown
<1>11. batch[f].err
    BY <1>2 DEF CatalogInv, Flown
<1>12. BatchStep(f, s, b, t)
    BY <1>1, <1>2, <1>3, <1>5, <1>8, <1>9, <1>10, <1>11 DEF BatchStep
<1>13. Mutex(f, b)
    BY <1>2, <1>3, <1>5 DEF Mutex, Held
<1> QED BY <1>1, <1>2, <1>3, <1>5, <1>8, <1>12, <1>13, BatchMoves, Unmoved

LEMMA ReleaseKeeps ==
    ASSUME CatalogSetting, CatalogInv, NEW f \in Committers, C!Release(f)
    PROVE  CatalogInv'
<1>1. PICK s \in Committers : s = batch[f].state /\ refresh[s] \in RefreshType
                              /\ batch[f].covered <= refresh[s].revision /\ refresh = [refresh EXCEPT ![s] = refresh[s]]
    BY BatchFacts DEF C!Release
<1>2. batch[f] \in BatchType /\ batch[f].pc = "release" /\ UNCHANGED <<mutation, newest, committed, catalog>>
      /\ catalogMu' = IF catalogMu = f THEN None ELSE catalogMu
    BY BatchFacts DEF C!Release
<1>3. PICK b \in BatchType : b = [batch[f] EXCEPT !.pc = "ending"]
    BY <1>2 DEF BatchType
<1>4. b.pc = "ending" /\ b.state = s /\ b.waiters = batch[f].waiters /\ b.covered = batch[f].covered
      /\ b.taken = batch[f].taken /\ b.err = batch[f].err
    BY <1>1, <1>2, <1>3 DEF BatchType
<1>5. PICK gate \in Committed : gate = IF refresh[s].gate = f THEN None ELSE refresh[s].gate
    BY <1>1 DEF RefreshType, Committed
<1>6. PICK t \in RefreshType : t = [refresh[s] EXCEPT !.gate = gate]
    BY <1>1 DEF RefreshType
<1>7. /\ t.revision = refresh[s].revision /\ t.flight = refresh[s].flight /\ t.gate = gate
      /\ t.pending = refresh[s].pending /\ t.users = refresh[s].users /\ t.callbacks = refresh[s].callbacks
    BY <1>1, <1>6 DEF RefreshType
<1>8. batch' = [batch EXCEPT ![f] = b] /\ refresh' = [refresh EXCEPT ![s] = t]
    BY <1>1, <1>3, <1>5, <1>6 DEF C!Release, C!Goto
<1>9. BatchStep(f, s, b, t)
    <2>1. batch[f].taken = {}
        BY <1>2 DEF CatalogInv, Flown
    <2>2. ~batch[f].err => Cleared(s, batch[f].covered)
        BY <1>1, <1>2 DEF CatalogInv, Covering, BatchCovers
    <2> QED BY <1>1, <1>2, <1>4, <1>5, <1>7, <1>8, <2>1, <2>2 DEF BatchStep, Cleared, C!Reflected
<1>10. Mutex(f, b)
    BY <1>2 DEF Mutex, CatalogSetting
<1> QED BY <1>1, <1>2, <1>4, <1>7, <1>9, <1>10, BatchMoves, Unmoved
-----------------------------------------------------------------------------
(* A caller *)

(* A step of one caller that keeps its state and ticket, and the rows, gates  *)
(* and flights of all states.                                                 *)
CallStep(c, q) ==
    /\ mutation' = [mutation EXCEPT ![c] = q]
    /\ q.state = mutation[c].state /\ q.ticket = mutation[c].ticket
    /\ q.pc \in {"idle", "begin"} <=> q.state = None
    /\ q.pc # "idle" => c \in committed'
    /\ q.pc = "wait" => q.flight # None
    /\ mutation[c].pc = "wait" => q.pc = "wait" /\ q.flight = mutation[c].flight
    /\ batch[c].state # None => \/ q.pc = "wait" /\ q.flight = c
                                \/ q.cancelled /\ q.pc \in {"result", "end", "done"}
    /\ q.pc = "result" /\ ~q.err => q.covered <= refresh[q.state].revision /\ Cleared(q.state, q.covered)
    /\ q.pc \in {"end", "done"} /\ ~q.err => Cleared(q.state, q.ticket)

StatesKept ==
    /\ refresh' \in [Committers -> RefreshType]
    /\ \A x \in Committers : /\ refresh'[x].revision = refresh[x].revision /\ refresh'[x].pending = refresh[x].pending
                             /\ refresh'[x].gate = refresh[x].gate /\ refresh'[x].flight = refresh[x].flight

LEMMA CallKeeps ==
    ASSUME CatalogSetting, CatalogInv, NEW c \in Committers, NEW q \in MutationType, CallStep(c, q), StatesKept,
           newest' \in Committed, UNCHANGED <<batch, catalogMu, catalog>>,
           committed' \in SUBSET Committers, committed \subseteq committed'
    PROVE  CatalogTypes' /\ Registered' /\ Flown' /\ Covering'
<1>0. /\ mutation \in [Committers -> MutationType] /\ refresh \in [Committers -> RefreshType]
      /\ batch \in [Committers -> BatchType]
    BY DEF CatalogInv, CatalogTypes
<1>1. mutation' \in [Committers -> MutationType] /\ mutation'[c] = q /\ \A x \in Committers : x # c => mutation'[x] = mutation[x]
    BY <1>0 DEF CallStep
<1>2. \A x \in Committers : mutation'[x].state = mutation[x].state /\ mutation'[x].ticket = mutation[x].ticket
    BY <1>1 DEF CallStep
<1>3. \A x \in Committers : /\ mutation[x].state \in Committed /\ (mutation[x].state # None => mutation[x].state \in Committers)
                            /\ (batch[x].state # None => batch[x].state \in Committers)
    BY <1>0 DEF MutationType, BatchType, Committed
<1>4. CatalogTypes'
    BY <1>0, <1>1 DEF CatalogInv, CatalogTypes, StatesKept
<1>5. Registered'
    <2>1. ASSUME NEW x \in Committers
          PROVE  /\ mutation'[x].pc \in {"idle", "begin"} <=> mutation'[x].state = None
                 /\ mutation'[x].pc # "idle" => x \in committed'
                 /\ mutation'[x].pc = "wait" => mutation'[x].flight # None
        BY <1>1 DEF CallStep, CatalogInv, Registered
    <2>2. \A x \in Committers : mutation'[x].state # None => mutation'[x].ticket <= refresh'[mutation'[x].state].revision
        BY <1>2, <1>3 DEF StatesKept, CatalogInv, Registered
    <2> QED BY <2>1, <2>2 DEF Registered
<1>6. Flown'
    <2>1. ASSUME NEW f \in Committers
          PROVE  /\ batch[f].pc = "off" <=> batch[f].state = None
                 /\ batch[f].taken # {} => batch[f].pc \in {"refresh", "requeue"}
                 /\ batch[f].pc = "requeue" => batch[f].err
                 /\ batch[f].pc \in {"snapshot", "refresh", "requeue"} => refresh'[batch[f].state].gate = f
                 /\ batch[f].state # None => batch[f].covered <= refresh'[batch[f].state].revision
        BY <1>3 DEF StatesKept, CatalogInv, Flown
    <2>2. \A f \in Committers : batch[f].state # None =>
                \/ mutation'[f].pc = "wait" /\ mutation'[f].flight = f
                \/ mutation'[f].cancelled /\ mutation'[f].pc \in {"result", "end", "done"}
        BY <1>1 DEF CallStep, CatalogInv, Flown
    <2>3. \A f, x \in Committers : x \in batch[f].waiters =>
                mutation'[x].pc = "wait" /\ mutation'[x].flight = f /\ mutation'[x].state = batch[f].state
        BY <1>1 DEF CallStep, CatalogInv, Flown
    <2>4. \A s \in Committers : refresh'[s].flight # None => batch[refresh'[s].flight].state = s
        BY DEF StatesKept, CatalogInv, Flown
    <2> QED BY <2>1, <2>2, <2>3, <2>4 DEF Flown
<1>7. Covering'
    <2>1. Counted'
        BY DEF CatalogInv, Covering, Counted
    <2>2. Followed'
        BY <1>2, <1>3 DEF StatesKept, CatalogInv, Covering, Followed
    <2>3. Taking'
        BY <1>2 DEF CatalogInv, Covering, Taking
    <2>4. BatchCovers'
        BY <1>2 DEF CatalogInv, Covering, BatchCovers, Cleared, C!Reflected
    <2>5. CallCovers'
        <3>1. ASSUME NEW x \in Committers
              PROVE  /\ mutation'[x].pc = "result" /\ ~mutation'[x].err =>
                           /\ mutation[x].state \in Committers
                           /\ mutation'[x].covered <= refresh'[mutation[x].state].revision
                           /\ Cleared(mutation[x].state, mutation'[x].covered)
                     /\ mutation'[x].pc \in {"end", "done"} /\ ~mutation'[x].err =>
                           Cleared(mutation[x].state, mutation[x].ticket)
            <4>1. mutation'[x].pc = "result" => mutation[x].state \in Committers
                BY <1>1, <1>3 DEF CallStep, CatalogInv, Registered
            <4>2. CASE x = c
                BY <1>1, <4>1, <4>2 DEF CallStep, StatesKept
            <4>3. CASE x # c
                BY <1>1, <4>1, <4>3 DEF StatesKept, CatalogInv, Covering, CallCovers
            <4> QED BY <4>2, <4>3
        <3> QED BY <1>2, <3>1 DEF CallCovers, Cleared, C!Reflected
    <2> QED BY <2>1, <2>2, <2>3, <2>4, <2>5 DEF Covering
<1> QED BY <1>4, <1>5, <1>6, <1>7

(* A caller that neither begins nor returns leaves the counts alone. *)
LEMMA UsesKept ==
    ASSUME CatalogSetting, CatalogInv, NEW c \in Committers, NEW q \in MutationType, CallStep(c, q),
           q.pc # "done", mutation[c].pc # "done", UNCHANGED <<refresh, batch, newest, catalogMu>>
    PROVE  InUse'
<1>1. /\ mutation'[c] = q /\ \A x \in Committers : x # c => mutation'[x] = mutation[x]
    BY DEF CatalogInv, CatalogTypes, CallStep
<1>2. \A x : Using(x)' = Using(x) /\ Running(x)' = Running(x)
    BY <1>1 DEF Using, Running, CallStep
<1>3. Using(newest)' = Using(newest) /\ Running(newest)' = Running(newest)
    BY <1>1 DEF Using, Running, CallStep
<1> QED BY <1>2, <1>3 DEF CatalogInv, InUse

LEMMA CommitKeeps ==
    ASSUME CatalogSetting, CatalogInv, NEW c \in Committers, C!Commit(c)
    PROVE  CatalogInv'
<1>0. mutation[c] \in MutationType /\ mutation[c].pc = "idle" /\ mutation[c].state = None /\ batch[c].state = None
    BY DEF C!Commit, CatalogInv, CatalogTypes, Registered, Flown
<1>1. PICK q \in MutationType : q = [mutation[c] EXCEPT !.pc = "begin"]
    BY <1>0 DEF MutationType
<1>2. q.pc = "begin" /\ q.state = None /\ q.ticket = mutation[c].ticket
    BY <1>0, <1>1 DEF MutationType
<1>3. CallStep(c, q)
    BY <1>0, <1>1, <1>2 DEF C!Commit, CallStep
<1>4. StatesKept /\ newest' \in Committed /\ committed' \in SUBSET Committers /\ committed \subseteq committed'
      /\ UNCHANGED <<refresh, newest, batch, catalogMu, catalog>>
    BY DEF C!Commit, StatesKept, CatalogInv, CatalogTypes
<1>5. CatalogTypes' /\ Registered' /\ Flown' /\ Covering'
    BY <1>3, <1>4, CallKeeps
<1>6. InUse'
    BY <1>0, <1>2, <1>3, <1>4, UsesKept
<1> QED BY <1>5, <1>6 DEF CatalogInv

LEMMA CallCancelKeeps ==
    ASSUME CatalogSetting, CatalogInv, NEW c \in Committers, C!Cancel(c)
    PROVE  CatalogInv'
<1>0. mutation[c] \in MutationType /\ mutation[c].pc \notin {"idle", "done"}
    BY DEF C!Cancel, CatalogInv, CatalogTypes
<1>1. PICK q \in MutationType : q = [mutation[c] EXCEPT !.cancelled = TRUE]
    BY <1>0 DEF MutationType
<1>2. /\ q.pc = mutation[c].pc /\ q.state = mutation[c].state /\ q.ticket = mutation[c].ticket /\ q.cancelled
      /\ q.flight = mutation[c].flight /\ q.err = mutation[c].err /\ q.covered = mutation[c].covered
    BY <1>0, <1>1 DEF MutationType
<1>3. StatesKept /\ newest' \in Committed /\ committed' \in SUBSET Committers
      /\ UNCHANGED <<refresh, newest, batch, catalogMu, catalog, committed>> /\ mutation' = [mutation EXCEPT ![c] = q]
    BY <1>1 DEF C!Cancel, StatesKept, CatalogInv, CatalogTypes
<1>4. CallStep(c, q)
    <2>1. /\ q.pc \in {"idle", "begin"} <=> q.state = None
          /\ q.pc # "idle" => c \in committed'
          /\ q.pc = "wait" => q.flight # None
        BY <1>2, <1>3 DEF CatalogInv, Registered
    <2>2. batch[c].state # None => \/ q.pc = "wait" /\ q.flight = c
                                   \/ q.cancelled /\ q.pc \in {"result", "end", "done"}
        BY <1>2 DEF CatalogInv, Flown
    <2>3. /\ q.pc = "result" /\ ~q.err => q.covered <= refresh[q.state].revision /\ Cleared(q.state, q.covered)
          /\ q.pc \in {"end", "done"} /\ ~q.err => Cleared(q.state, q.ticket)
        BY <1>2 DEF CatalogInv, Covering, CallCovers
    <2> QED BY <1>2, <1>3, <2>1, <2>2, <2>3 DEF CallStep
<1>5. CatalogTypes' /\ Registered' /\ Flown' /\ Covering'
    BY <1>3, <1>4, CallKeeps
<1>6. InUse'
    BY <1>0, <1>2, <1>3, <1>4, UsesKept
<1> QED BY <1>5, <1>6 DEF CatalogInv

LEMMA ResultKeeps ==
    ASSUME CatalogSetting, CatalogInv, NEW c \in Committers, C!Result(c)
    PROVE  CatalogInv'
<1>0. mutation[c] \in MutationType /\ mutation[c].pc = "result" /\ mutation[c].state # None /\ c \in committed
    BY DEF C!Result, CatalogInv, CatalogTypes, Registered
<1>1. PICK pc \in {"end", "join"} : pc = IF C!Decided(c) THEN "end" ELSE "join"
    OBVIOUS
<1>2. PICK err \in BOOLEAN : err = IF C!Decided(c) THEN ~C!Succeeds(c) ELSE mutation[c].err
    BY <1>0 DEF MutationType, C!Succeeds
<1>3. PICK q \in MutationType : q = [mutation[c] EXCEPT !.pc = pc, !.err = err]
    BY <1>0 DEF MutationType
<1>4. /\ q.pc = pc /\ q.state = mutation[c].state /\ q.ticket = mutation[c].ticket /\ q.cancelled = mutation[c].cancelled
      /\ q.err = err
    BY <1>0, <1>3 DEF MutationType
<1>5. StatesKept /\ newest' \in Committed /\ committed' \in SUBSET Committers
      /\ UNCHANGED <<refresh, newest, batch, catalogMu, catalog, committed>> /\ mutation' = [mutation EXCEPT ![c] = q]
    BY <1>1, <1>2, <1>3 DEF C!Result, StatesKept, CatalogInv, CatalogTypes
<1>6. CallStep(c, q)
    <2>1. batch[c].state # None => mutation[c].cancelled
        BY <1>0 DEF CatalogInv, Flown
    <2>2. batch[c].state # None => q.cancelled /\ q.pc = "end"
        BY <1>1, <1>4, <2>1 DEF C!Decided
    <2>3. q.pc = "end" /\ ~q.err => Cleared(q.state, q.ticket)
        <3>1. SUFFICES ASSUME q.pc = "end", ~q.err PROVE Cleared(q.state, q.ticket)
            OBVIOUS
        <3>2. C!Succeeds(c)
            BY <1>1, <1>2, <1>4, <3>1
        <3>3. mutation[c].covered >= mutation[c].ticket /\ ~mutation[c].err
            BY <3>2 DEF C!Succeeds
        <3>4. Cleared(mutation[c].state, mutation[c].covered)
            BY <1>0, <3>3 DEF CatalogInv, Covering, CallCovers
        <3>5. \A e \in Committers : mutation[e].ticket \in Nat /\ mutation[e].covered \in Nat
            BY DEF CatalogInv, CatalogTypes, MutationType
        <3> QED BY <1>4, <3>3, <3>4, <3>5 DEF Cleared
    <2> QED BY <1>0, <1>1, <1>4, <1>5, <2>2, <2>3 DEF CallStep
<1>7. CatalogTypes' /\ Registered' /\ Flown' /\ Covering'
    BY <1>5, <1>6, CallKeeps
<1>8. InUse'
    BY <1>0, <1>1, <1>4, <1>5, <1>6, UsesKept
<1> QED BY <1>7, <1>8 DEF CatalogInv
LEMMA EndKeeps ==
    ASSUME CatalogSetting, CatalogInv, NEW c \in Committers, C!End(c)
    PROVE  CatalogInv'
<1>0. mutation[c] \in MutationType /\ mutation[c].pc = "end" /\ mutation[c].state # None /\ c \in committed
    BY DEF C!End, CatalogInv, CatalogTypes, Registered
<1>1. PICK s \in Committers : s = mutation[c].state /\ refresh[s] \in RefreshType
    BY <1>0 DEF MutationType, Committed, CatalogInv, CatalogTypes
<1>2. PICK q \in MutationType : q = [mutation[c] EXCEPT !.pc = "done"]
    BY <1>0 DEF MutationType
<1>3. /\ q.pc = "done" /\ q.state = s /\ q.ticket = mutation[c].ticket /\ q.cancelled = mutation[c].cancelled
      /\ q.err = mutation[c].err
    BY <1>0, <1>1, <1>2 DEF MutationType
<1>4. refresh[s].users - 1 \in Int
    BY <1>1 DEF RefreshType
<1>5. PICK t \in RefreshType : t = [refresh[s] EXCEPT !.users = @ - 1]
    BY <1>1, <1>4 DEF RefreshType
<1>6. /\ t.revision = refresh[s].revision /\ t.flight = refresh[s].flight /\ t.gate = refresh[s].gate
      /\ t.pending = refresh[s].pending /\ t.users = refresh[s].users - 1 /\ t.callbacks = refresh[s].callbacks
    BY <1>1, <1>5 DEF RefreshType
<1>7. /\ mutation' = [mutation EXCEPT ![c] = q] /\ refresh' = [refresh EXCEPT ![s] = t]
      /\ UNCHANGED <<batch, catalogMu, committed, catalog>> /\ newest' = C!Dropped(s, t)
    BY <1>1, <1>2, <1>5 DEF C!End
<1>8. /\ refresh \in [Committers -> RefreshType] /\ mutation \in [Committers -> MutationType] /\ newest \in Committed
      /\ committed \in SUBSET Committers
    BY DEF CatalogInv, CatalogTypes
<1>9. CallStep(c, q)
    <2>1. batch[c].state # None => mutation[c].cancelled
        BY <1>0 DEF CatalogInv, Flown
    <2>2. ~q.err => Cleared(q.state, q.ticket)
        BY <1>0, <1>1, <1>3 DEF CatalogInv, Covering, CallCovers
    <2> QED BY <1>0, <1>1, <1>3, <1>7, <2>1, <2>2 DEF CallStep
<1>10. CatalogTypes' /\ Registered' /\ Flown' /\ Covering'
    <2>1. newest' \in Committed
        BY <1>7, <1>8 DEF C!Dropped, Committed
    <2>2. StatesKept
        BY <1>6, <1>7, <1>8 DEF StatesKept
    <2> QED BY <1>7, <1>8, <1>9, <2>1, <2>2, CallKeeps
<1>11. InUse'
    <2>1. mutation'[c] = q /\ \A x \in Committers : x # c => mutation'[x] = mutation[x]
        BY <1>7, <1>8
    <2>2. \A x : Running(x)' = Running(x)
        BY <1>7 DEF Running
    <2>3. Using(s)' = Using(s) \ {c} /\ c \in Using(s) /\ \A x : x # s => Using(x)' = Using(x)
        BY <1>0, <1>1, <1>3, <2>1 DEF Using
    <2>4. Cardinality(Using(s) \ {c}) = Cardinality(Using(s)) - 1
        <3>1. IsFiniteSet(Using(s))
            BY FS_Subset DEF Using, CatalogSetting
        <3> QED BY <2>3, <3>1, FS_RemoveElement
    <2>5. \A x \in Committers : refresh'[x].users = Cardinality(Using(x)') /\ refresh'[x].callbacks = Cardinality(Running(x)')
        BY <1>6, <1>7, <1>8, <2>2, <2>3, <2>4 DEF CatalogInv, InUse
    <2>6. newest' # None => Using(newest)' # {} \/ Running(newest)' # {}
        <3>1. SUFFICES ASSUME newest' # None PROVE Using(newest)' # {} \/ Running(newest)' # {}
            OBVIOUS
        <3>2. newest' = newest /\ newest # None /\ ~(newest = s /\ t.users = 0 /\ t.callbacks = 0)
            BY <1>7, <3>1 DEF C!Dropped, C!Unused
        <3>3. CASE newest = s
            <4>1. refresh'[s] = t
                BY <1>7, <1>8
            <4>2. ~(Cardinality(Using(s)') = 0 /\ Cardinality(Running(s)') = 0)
                BY <2>5, <3>2, <3>3, <4>1
            <4> QED BY <3>2, <3>3, <4>2, FS_EmptySet DEF Using, Running
        <3>4. CASE newest # s
            <4>1. Running(newest)' = Running(newest)
                BY <1>7, <3>2 DEF Running
            <4>2. ASSUME NEW x \in Using(newest) PROVE x \in Using(newest)'
                BY <1>1, <2>1, <3>2, <3>4 DEF Using
            <4> QED BY <3>2, <4>1, <4>2 DEF CatalogInv, InUse
        <3> QED BY <3>3, <3>4
    <2>7. catalogMu' # None => batch'[catalogMu'].pc \in {"gate", "snapshot", "refresh", "requeue", "release"}
        BY <1>7 DEF CatalogInv, InUse
    <2> QED BY <2>5, <2>6, <2>7 DEF InUse
<1> QED BY <1>10, <1>11 DEF CatalogInv

LEMMA TicketTaken ==
    ASSUME CatalogSetting, CatalogInv, NEW c \in Committers, C!Begin(c)
    PROVE  CatalogInv'
<1>0. mutation[c] \in MutationType /\ mutation[c].pc = "begin" /\ mutation[c].state = None /\ c \in committed
      /\ newest \in Committed /\ refresh \in [Committers -> RefreshType] /\ mutation \in [Committers -> MutationType]
      /\ batch \in [Committers -> BatchType]
    BY DEF C!Begin, CatalogInv, CatalogTypes, Registered
<1>1. PICK s \in Committers : s = IF newest = None THEN c ELSE newest
    BY <1>0 DEF Committed
<1>2. PICK n \in Nat : n = refresh[s].revision + 1
    BY <1>0 DEF RefreshType
<1>3. refresh[s].users + 1 \in Int /\ refresh[s].pending \cup Touches[c] \in SUBSET Repositories
    BY <1>0 DEF RefreshType, CatalogSetting
<1>4. PICK t \in RefreshType : t = [refresh[s] EXCEPT !.revision = n, !.users = @ + 1, !.pending = @ \cup Touches[c]]
    BY <1>0, <1>3 DEF RefreshType
<1>5. /\ t.revision = n /\ t.flight = refresh[s].flight /\ t.gate = refresh[s].gate
      /\ t.pending = refresh[s].pending \cup Touches[c] /\ t.users = refresh[s].users + 1
      /\ t.callbacks = refresh[s].callbacks
    BY <1>0, <1>4 DEF RefreshType
<1>6. PICK q \in MutationType : q = [mutation[c] EXCEPT !.pc = "join", !.state = s, !.ticket = n]
    BY <1>0 DEF MutationType, Committed
<1>7. q.pc = "join" /\ q.state = s /\ q.ticket = n
    BY <1>0, <1>6 DEF MutationType
<1>8. /\ mutation' = [mutation EXCEPT ![c] = q] /\ refresh' = [refresh EXCEPT ![s] = t] /\ newest' = s
      /\ UNCHANGED <<batch, catalogMu, committed, catalog>>
    BY <1>1, <1>2, <1>4, <1>6 DEF C!Begin
<1>9. /\ mutation' \in [Committers -> MutationType] /\ mutation'[c] = q
      /\ \A x \in Committers : x # c => mutation'[x] = mutation[x]
      /\ refresh' \in [Committers -> RefreshType] /\ refresh'[s] = t
      /\ \A x \in Committers : x # s => refresh'[x] = refresh[x]
    BY <1>0, <1>8
<1>10. \A x \in Committers : /\ refresh'[x].gate = refresh[x].gate /\ refresh'[x].flight = refresh[x].flight
                             /\ refresh'[x].revision \in Nat /\ refresh[x].revision \in Nat
                             /\ refresh[x].revision <= refresh'[x].revision
                             /\ refresh[x].pending \subseteq refresh'[x].pending
    BY <1>0, <1>2, <1>5, <1>9 DEF RefreshType
<1>11. \A x \in Committers : /\ mutation[x].ticket \in Nat /\ mutation[x].covered \in Nat /\ batch[x].covered \in Nat
                             /\ (mutation[x].state # None => mutation[x].state \in Committers)
                             /\ (batch[x].state # None => batch[x].state \in Committers)
    BY <1>0 DEF MutationType, BatchType, Committed
<1>12. batch[c].state = None
    BY <1>0 DEF CatalogInv, Flown
<1>13. CatalogTypes'
    BY <1>8, <1>9 DEF CatalogInv, CatalogTypes, Committed
<1>14. Registered'
    <2>1. ASSUME NEW x \in Committers
          PROVE  /\ mutation'[x].pc \in {"idle", "begin"} <=> mutation'[x].state = None
                 /\ mutation'[x].pc # "idle" => x \in committed
                 /\ mutation'[x].state # None => mutation'[x].ticket <= refresh'[mutation'[x].state].revision
                 /\ mutation'[x].pc = "wait" => mutation'[x].flight # None
        <3>1. CASE x = c
            BY <1>0, <1>5, <1>7, <1>9, <3>1 DEF CatalogSetting
        <3>2. CASE x # c
            BY <1>9, <1>10, <1>11, <3>2 DEF CatalogInv, Registered
        <3> QED BY <3>1, <3>2
    <2> QED BY <1>8, <2>1 DEF Registered
<1>15. Flown'
    <2>1. ASSUME NEW f \in Committers
          PROVE  /\ batch[f].pc \in {"snapshot", "refresh", "requeue"} => refresh'[batch[f].state].gate = f
                 /\ batch[f].state # None => batch[f].covered <= refresh'[batch[f].state].revision
        BY <1>10, <1>11 DEF CatalogInv, Flown
    <2>2. \A f \in Committers : batch[f].state # None =>
                \/ mutation'[f].pc = "wait" /\ mutation'[f].flight = f
                \/ mutation'[f].cancelled /\ mutation'[f].pc \in {"result", "end", "done"}
        BY <1>9, <1>12 DEF CatalogInv, Flown
    <2>3. \A f, x \in Committers : x \in batch[f].waiters =>
                mutation'[x].pc = "wait" /\ mutation'[x].flight = f /\ mutation'[x].state = batch[f].state
        BY <1>0, <1>9 DEF CatalogInv, Flown
    <2>4. \A x \in Committers : refresh'[x].flight # None => batch[refresh'[x].flight].state = x
        BY <1>10 DEF CatalogInv, Flown
    <2> QED BY <1>8, <2>1, <2>2, <2>3, <2>4 DEF CatalogInv, Flown
<1>16. ASSUME NEW x \in Committers, NEW k \in Nat, k <= refresh[x].revision, Cleared(x, k)
       PROVE  \A e \in Committers : mutation'[e].state = x /\ mutation'[e].ticket <= k => C!Reflected(e)'
    <2>1. ASSUME NEW e \in Committers, mutation'[e].state = x, mutation'[e].ticket <= k PROVE C!Reflected(e)'
        <3>1. CASE e = c
            BY <1>2, <1>7, <1>9, <1>10, <1>16, <2>1, <3>1
        <3>2. CASE e # c
            BY <1>8, <1>9, <1>16, <2>1, <3>2 DEF Cleared, C!Reflected
        <3> QED BY <3>1, <3>2
    <2> QED BY <2>1
<1>17. Covering'
    <2>1. Counted'
        BY <1>8 DEF CatalogInv, Covering, Counted
    <2>2. Followed'
        <3>1. ASSUME NEW e \in Committers, mutation'[e].state # None, NEW r \in Touches[e]
              PROVE  \/ e \in catalog[r] \/ r \in refresh'[mutation'[e].state].pending
                     \/ \E f \in Committers : batch[f].state = mutation'[e].state /\ r \in batch[f].taken
            <4>1. CASE e = c
                BY <1>5, <1>7, <1>9, <4>1
            <4>2. CASE e # c
                BY <1>9, <1>10, <1>11, <3>1, <4>2 DEF CatalogInv, Covering, Followed
            <4> QED BY <4>1, <4>2
        <3> QED BY <1>8, <3>1 DEF Followed
    <2>3. Taking'
        <3>1. ASSUME NEW f \in Committers, NEW e \in Committers, batch[f].pc = "refresh",
                     mutation'[e].state = batch[f].state, mutation'[e].ticket <= batch[f].covered
              PROVE  \A r \in Touches[e] : e \in catalog[r] \/ r \in batch[f].taken
            <4>1. CASE e = c
                <5>1. batch[f].state # None /\ batch[f].state = s
                    BY <1>7, <1>9, <3>1, <4>1 DEF CatalogSetting
                <5>2. batch[f].covered <= refresh[s].revision
                    BY <5>1 DEF CatalogInv, Flown
                <5> QED BY <1>2, <1>7, <1>9, <1>10, <1>11, <3>1, <4>1, <5>2
            <4>2. CASE e # c
                BY <1>9, <3>1, <4>2 DEF CatalogInv, Covering, Taking
            <4> QED BY <4>1, <4>2
        <3> QED BY <1>8, <3>1 DEF Taking
    <2>4. BatchCovers'
        <3>1. ASSUME NEW f \in Committers, batch[f].pc \in {"release", "ending", "deliver"}, ~batch[f].err
              PROVE  \A e \in Committers : mutation'[e].state = batch[f].state /\ mutation'[e].ticket <= batch[f].covered
                                             => C!Reflected(e)'
            <4>1. batch[f].state \in Committers /\ batch[f].covered \in Nat
                  /\ batch[f].covered <= refresh[batch[f].state].revision
                BY <1>11, <3>1 DEF CatalogInv, Flown
            <4>2. Cleared(batch[f].state, batch[f].covered)
                BY <3>1 DEF CatalogInv, Covering, BatchCovers
            <4> QED BY <1>16, <4>1, <4>2
        <3> QED BY <1>8, <3>1 DEF BatchCovers, Cleared
    <2>5. CallCovers'
        <3>1. ASSUME NEW x \in Committers, mutation'[x].pc = "result", ~mutation'[x].err
              PROVE  /\ mutation'[x].covered <= refresh'[mutation'[x].state].revision
                     /\ \A e \in Committers : mutation'[e].state = mutation'[x].state
                                              /\ mutation'[e].ticket <= mutation'[x].covered => C!Reflected(e)'
            <4>1. mutation'[x] = mutation[x]
                BY <1>7, <1>9, <3>1
            <4>2. /\ mutation[x].state \in Committers /\ mutation[x].covered <= refresh[mutation[x].state].revision
                  /\ Cleared(mutation[x].state, mutation[x].covered)
                BY <1>11, <3>1, <4>1 DEF CatalogInv, Covering, CallCovers, Registered
            <4> QED BY <1>10, <1>11, <1>16, <4>1, <4>2
        <3>2. ASSUME NEW x \in Committers, mutation'[x].pc \in {"end", "done"}, ~mutation'[x].err
              PROVE  \A e \in Committers : mutation'[e].state = mutation'[x].state
                                              /\ mutation'[e].ticket <= mutation'[x].ticket => C!Reflected(e)'
            <4>1. mutation'[x] = mutation[x]
                BY <1>7, <1>9, <3>2
            <4>2. /\ mutation[x].state \in Committers /\ mutation[x].ticket <= refresh[mutation[x].state].revision
                  /\ Cleared(mutation[x].state, mutation[x].ticket)
                BY <1>11, <3>2, <4>1 DEF CatalogInv, Covering, CallCovers, Registered
            <4> QED BY <1>11, <1>16, <4>1, <4>2
        <3> QED BY <3>1, <3>2 DEF CallCovers, Cleared
    <2> QED BY <2>1, <2>2, <2>3, <2>4, <2>5 DEF Covering
<1>18. InUse'
    <2>1. \A x : Running(x)' = Running(x)
        BY <1>8 DEF Running
    <2>2. Using(s)' = Using(s) \cup {c} /\ c \notin Using(s) /\ \A x \in Committers : x # s => Using(x)' = Using(x)
        BY <1>0, <1>7, <1>9 DEF Using, CatalogSetting
    <2>3. Cardinality(Using(s) \cup {c}) = Cardinality(Using(s)) + 1
        <3>1. IsFiniteSet(Using(s))
            BY FS_Subset DEF Using, CatalogSetting
        <3> QED BY <2>2, <3>1, FS_AddElement
    <2>4. \A x \in Committers : refresh'[x].users = Cardinality(Using(x)') /\ refresh'[x].callbacks = Cardinality(Running(x)')
        BY <1>5, <1>9, <2>1, <2>2, <2>3 DEF CatalogInv, InUse
    <2>5. Using(newest)' # {}
        BY <1>7, <1>8, <1>9 DEF Using
    <2>6. catalogMu' # None => batch'[catalogMu'].pc \in {"gate", "snapshot", "refresh", "requeue", "release"}
        BY <1>8 DEF CatalogInv, InUse
    <2> QED BY <2>4, <2>5, <2>6 DEF InUse
<1> QED BY <1>13, <1>14, <1>15, <1>17, <1>18 DEF CatalogInv
LEMMA IdleBatch ==
    /\ C!NoFlight \in BatchType /\ C!NoFlight.pc = "off" /\ C!NoFlight.state = None /\ C!NoFlight.waiters = {}
    /\ C!NoFlight.taken = {} /\ C!NoFlight.covered = 0
<1>1. PICK zero \in Nat : zero = 0
    OBVIOUS
<1>2. C!NoFlight = [pc |-> "off", state |-> None, waiters |-> {}, cancelled |-> FALSE,
                    covered |-> zero, err |-> FALSE, taken |-> {}, retry |-> FALSE]
    BY <1>1 DEF C!NoFlight
<1> QED BY <1>1, <1>2 DEF BatchType, Committed

(* Callers join, leave and are served: what is taken, covered and held stays  *)
(* with the batches, and tickets with the callers.                            *)
GroupStep ==
    /\ mutation' \in [Committers -> MutationType] /\ refresh' \in [Committers -> RefreshType]
    /\ batch' \in [Committers -> BatchType] /\ UNCHANGED <<newest, catalogMu, committed, catalog>>
    /\ \A x \in Committers :
          /\ mutation'[x].state = mutation[x].state /\ mutation'[x].ticket = mutation[x].ticket
          /\ mutation'[x] # mutation[x] => mutation[x].pc \in {"join", "wait"} /\ mutation'[x].pc \in {"wait", "result"}
          /\ mutation'[x].pc = "wait" => mutation'[x].flight # None
          /\ mutation'[x] # mutation[x] /\ mutation'[x].pc = "result" /\ ~mutation'[x].err =>
                mutation'[x].covered <= refresh[mutation[x].state].revision /\ Cleared(mutation[x].state, mutation'[x].covered)
          /\ refresh'[x].revision = refresh[x].revision /\ refresh'[x].pending = refresh[x].pending
          /\ refresh'[x].gate = refresh[x].gate
          /\ refresh'[x].users = refresh[x].users /\ refresh'[x].callbacks = refresh[x].callbacks
          /\ batch'[x].pc = batch[x].pc \/ {batch[x].pc, batch'[x].pc} \subseteq {"off", "callback", "deliver"}
          /\ batch'[x].pc \in {"off", "callback"} \/ batch'[x].pc = batch[x].pc
          /\ batch'[x].pc = "off" <=> batch'[x].state = None
          /\ batch'[x].taken = batch[x].taken /\ (batch[x].taken # {} => batch'[x].state = batch[x].state)
          /\ batch'[x].covered = 0 \/ (batch'[x].covered = batch[x].covered /\ batch'[x].state = batch[x].state)
          /\ batch'[x].pc \notin {"off", "callback"} =>
                /\ batch'[x].state = batch[x].state /\ batch'[x].err = batch[x].err
                /\ batch'[x].covered = batch[x].covered

LEMMA GroupKeeps ==
    ASSUME CatalogSetting, CatalogInv, GroupStep
    PROVE  CatalogTypes' /\ Registered' /\ Covering' /\ InUse'
<1>0. /\ mutation \in [Committers -> MutationType] /\ refresh \in [Committers -> RefreshType]
      /\ batch \in [Committers -> BatchType] /\ catalogMu \in Committed
    BY DEF CatalogInv, CatalogTypes
<1>1. CatalogTypes'
    BY DEF GroupStep, CatalogInv, CatalogTypes
<1>2. \A x \in Committers : /\ mutation[x].state # None => mutation[x].state \in Committers
                            /\ batch[x].state # None => batch[x].state \in Committers
    BY <1>0 DEF MutationType, BatchType, Committed
<1>3. Registered'
    <2>1. ASSUME NEW x \in Committers
          PROVE  /\ mutation'[x].pc \in {"idle", "begin"} <=> mutation'[x].state = None
                 /\ mutation'[x].pc # "idle" => x \in committed
                 /\ mutation'[x].state # None => mutation'[x].ticket <= refresh'[mutation'[x].state].revision
                 /\ mutation'[x].pc = "wait" => mutation'[x].flight # None
        <3>1. mutation[x].pc \in {"idle", "begin"} <=> mutation'[x].pc \in {"idle", "begin"}
            BY DEF GroupStep
        <3>2. mutation[x].state # None => mutation[x].ticket <= refresh'[mutation[x].state].revision
            BY <1>2 DEF GroupStep, CatalogInv, Registered
        <3>3. mutation'[x].pc # "idle" => mutation[x].pc # "idle"
            BY DEF GroupStep
        <3> QED BY <3>1, <3>2, <3>3 DEF GroupStep, CatalogInv, Registered
    <2> QED BY <2>1 DEF Registered, GroupStep
<1>4. Covering'
    <2>1. Counted'
        BY DEF GroupStep, CatalogInv, Covering, Counted
    <2>2. Followed'
        <3>1. ASSUME NEW e \in Committers, mutation[e].state # None, NEW r \in Touches[e]
              PROVE  \/ e \in catalog[r] \/ r \in refresh'[mutation[e].state].pending
                     \/ \E f \in Committers : batch'[f].state = mutation[e].state /\ r \in batch'[f].taken
            <4>1. \/ e \in catalog[r] \/ r \in refresh[mutation[e].state].pending
                  \/ \E f \in Committers : batch[f].state = mutation[e].state /\ r \in batch[f].taken
                BY <3>1 DEF CatalogInv, Covering, Followed
            <4>2. \A f \in Committers : r \in batch[f].taken => r \in batch'[f].taken /\ batch'[f].state = batch[f].state
                BY DEF GroupStep
            <4> QED BY <1>2, <3>1, <4>1, <4>2 DEF GroupStep
        <3> QED BY <3>1 DEF Followed, GroupStep
    <2>3. Taking'
        <3>1. ASSUME NEW f \in Committers, NEW e \in Committers, batch'[f].pc = "refresh",
                     mutation'[e].state = batch'[f].state, mutation'[e].ticket <= batch'[f].covered
              PROVE  \A r \in Touches[e] : e \in catalog'[r] \/ r \in batch'[f].taken
            <4>1. batch[f].pc = "refresh" /\ batch'[f].state = batch[f].state /\ batch'[f].covered = batch[f].covered
                BY <3>1 DEF GroupStep
            <4> QED BY <3>1, <4>1 DEF GroupStep, CatalogInv, Covering, Taking
        <3> QED BY <3>1 DEF Taking
    <2>4. BatchCovers'
        <3>1. ASSUME NEW f \in Committers, batch'[f].pc \in {"release", "ending", "deliver"}, ~batch'[f].err
              PROVE  \A e \in Committers : mutation'[e].state = batch'[f].state /\ mutation'[e].ticket <= batch'[f].covered
                                             => C!Reflected(e)'
            <4>1. /\ batch[f].pc \in {"release", "ending", "deliver"} /\ ~batch[f].err
                  /\ batch'[f].state = batch[f].state /\ batch'[f].covered = batch[f].covered
                BY <3>1 DEF GroupStep
            <4>2. Cleared(batch[f].state, batch[f].covered)
                BY <4>1 DEF CatalogInv, Covering, BatchCovers
            <4> QED BY <4>1, <4>2 DEF GroupStep, Cleared, C!Reflected
        <3> QED BY <3>1 DEF BatchCovers, Cleared
    <2>5. CallCovers'
        <3>1. ASSUME NEW x \in Committers, mutation'[x].pc = "result", ~mutation'[x].err
              PROVE  /\ mutation'[x].covered <= refresh'[mutation'[x].state].revision
                     /\ \A e \in Committers : mutation'[e].state = mutation'[x].state
                                              /\ mutation'[e].ticket <= mutation'[x].covered => C!Reflected(e)'
            <4>1. /\ mutation'[x].covered <= refresh[mutation[x].state].revision
                  /\ Cleared(mutation[x].state, mutation'[x].covered)
                BY <3>1 DEF GroupStep, CatalogInv, Covering, CallCovers
            <4>2. mutation[x].state \in Committers
                BY <1>2, <3>1 DEF GroupStep, CatalogInv, Registered
            <4> QED BY <4>1, <4>2 DEF GroupStep, Cleared, C!Reflected
        <3>2. ASSUME NEW x \in Committers, mutation'[x].pc \in {"end", "done"}, ~mutation'[x].err
              PROVE  \A e \in Committers : mutation'[e].state = mutation'[x].state
                                              /\ mutation'[e].ticket <= mutation'[x].ticket => C!Reflected(e)'
            <4>1. mutation'[x] = mutation[x]
                BY <3>2 DEF GroupStep
            <4>2. Cleared(mutation[x].state, mutation[x].ticket)
                BY <3>2, <4>1 DEF CatalogInv, Covering, CallCovers
            <4> QED BY <4>1, <4>2 DEF GroupStep, Cleared, C!Reflected
        <3> QED BY <3>1, <3>2 DEF CallCovers, Cleared
    <2> QED BY <2>1, <2>2, <2>3, <2>4, <2>5 DEF Covering
<1>5. InUse'
    <2>1. \A x \in Committers : mutation'[x].pc # "done" <=> mutation[x].pc # "done"
        BY DEF GroupStep
    <2>2. \A x : Using(x)' = Using(x)
        BY <2>1 DEF Using, GroupStep
    <2>3. \A f \in Committers : /\ batch'[f].pc \notin {"off", "callback", "deliver"} <=> batch[f].pc \notin {"off", "callback", "deliver"}
                                /\ batch'[f].pc \notin {"off", "callback", "deliver"} => batch'[f].state = batch[f].state
        BY DEF GroupStep
    <2>4. \A x : Running(x)' = Running(x)
        BY <2>3 DEF Running
    <2>5. Using(newest)' = Using(newest) /\ Running(newest)' = Running(newest)
        BY <2>1, <2>3 DEF Using, Running, GroupStep
    <2>6. \A x \in Committers : refresh'[x].users = Cardinality(Using(x)') /\ refresh'[x].callbacks = Cardinality(Running(x)')
        BY <2>2, <2>4 DEF GroupStep, CatalogInv, InUse
    <2>7. catalogMu' # None => batch'[catalogMu'].pc \in {"gate", "snapshot", "refresh", "requeue", "release"}
        <3>1. catalogMu # None => catalogMu \in Committers /\ batch[catalogMu].pc \in Held
            BY <1>0 DEF CatalogInv, InUse, Held, Committed
        <3> QED BY <3>1 DEF GroupStep, Held
    <2> QED BY <2>5, <2>6, <2>7 DEF GroupStep, CatalogInv, InUse
<1> QED BY <1>1, <1>3, <1>4, <1>5
LEMMA JoinsBatch ==
    ASSUME CatalogSetting, CatalogInv, NEW c \in Committers, C!Join(c)
    PROVE  CatalogInv'
<1>0. /\ mutation \in [Committers -> MutationType] /\ refresh \in [Committers -> RefreshType]
      /\ batch \in [Committers -> BatchType] /\ mutation[c].pc = "join" /\ mutation[c].state # None
      /\ UNCHANGED <<newest, catalogMu, committed, catalog>>
    BY DEF C!Join, CatalogInv, CatalogTypes, Registered
<1>1. PICK s \in Committers : s = mutation[c].state
    BY <1>0 DEF MutationType, Committed
<1>2. batch[c].pc = "off" /\ batch[c].state = None /\ batch[c].taken = {} /\ \A f \in Committers : c \notin batch[f].waiters
    BY <1>0 DEF CatalogInv, Flown
<1>3. PICK f \in Committers : f = IF refresh[s].flight = None THEN c ELSE refresh[s].flight
    BY <1>0 DEF RefreshType, Committed
<1>4. PICK q \in MutationType : q = [mutation[c] EXCEPT !.pc = "wait", !.flight = f]
    BY <1>0 DEF MutationType, Committed
<1>5. q.pc = "wait" /\ q.flight = f /\ q.state = s /\ q.ticket = mutation[c].ticket
    BY <1>0, <1>1, <1>4 DEF MutationType
<1>6. mutation' = [mutation EXCEPT ![c] = q]
    BY <1>1, <1>3, <1>4 DEF C!Join
<1>7. /\ mutation' \in [Committers -> MutationType] /\ mutation'[c] = q
      /\ \A x \in Committers : x # c => mutation'[x] = mutation[x]
    BY <1>0, <1>6
<1>8. CASE refresh[s].flight = None
    <2>1. f = c
        BY <1>3, <1>8
    <2>2. PICK b \in BatchType : b = [C!NoFlight EXCEPT !.pc = "callback", !.state = s, !.waiters = {c}]
        BY IdleBatch DEF BatchType, Committed
    <2>3. b.pc = "callback" /\ b.state = s /\ b.waiters = {c} /\ b.taken = {} /\ b.covered = 0
        BY <2>2, IdleBatch DEF BatchType
    <2>4. PICK t \in RefreshType : t = [refresh[s] EXCEPT !.flight = c]
        BY <1>0 DEF RefreshType, Committed
    <2>5. /\ t.revision = refresh[s].revision /\ t.flight = c /\ t.gate = refresh[s].gate
          /\ t.pending = refresh[s].pending /\ t.users = refresh[s].users /\ t.callbacks = refresh[s].callbacks
        BY <1>0, <2>4 DEF RefreshType
    <2>6. batch' = [batch EXCEPT ![c] = b] /\ refresh' = [refresh EXCEPT ![s] = t]
        BY <1>1, <1>8, <2>2, <2>4 DEF C!Join
    <2>7. /\ batch' \in [Committers -> BatchType] /\ batch'[c] = b /\ \A x \in Committers : x # c => batch'[x] = batch[x]
          /\ refresh' \in [Committers -> RefreshType] /\ refresh'[s] = t
          /\ \A x \in Committers : x # s => refresh'[x] = refresh[x]
        BY <1>0, <2>6
    <2>8. GroupStep
        <3>1. ASSUME NEW x \in Committers
              PROVE  /\ mutation'[x].state = mutation[x].state /\ mutation'[x].ticket = mutation[x].ticket
                     /\ mutation'[x] # mutation[x] => mutation[x].pc = "join" /\ mutation'[x].pc = "wait"
                     /\ mutation'[x].pc = "wait" => mutation'[x].flight # None
            BY <1>0, <1>1, <1>5, <1>7 DEF CatalogSetting, CatalogInv, Registered
        <3>2. ASSUME NEW x \in Committers
              PROVE  /\ batch'[x].pc = batch[x].pc \/ (batch[x].pc = "off" /\ batch'[x].pc = "callback")
                     /\ batch'[x].pc = "off" <=> batch'[x].state = None
                     /\ batch'[x].taken = batch[x].taken
                     /\ batch'[x] = batch[x] \/ (batch'[x].covered = 0 /\ batch'[x].pc = "callback" /\ batch'[x].taken = {})
            <4>1. CASE x = c
                BY <1>2, <2>3, <2>7, <4>1 DEF CatalogSetting
            <4>2. CASE x # c
                <5>1. batch'[x] = batch[x]
                    BY <2>7, <4>2
                <5>2. batch[x].pc = "off" <=> batch[x].state = None
                    BY DEF CatalogInv, Flown
                <5> QED BY <5>1, <5>2
            <4> QED BY <4>1, <4>2
        <3> QED BY <1>0, <1>7, <2>5, <2>7, <3>1, <3>2 DEF GroupStep
    <2>9. Flown'
        <3>1. ASSUME NEW g \in Committers
              PROVE  /\ batch'[g].pc = "off" <=> batch'[g].state = None
                     /\ batch'[g].taken # {} => batch'[g].pc \in {"refresh", "requeue"}
                     /\ batch'[g].pc = "requeue" => batch'[g].err
                     /\ batch'[g].pc \in {"snapshot", "refresh", "requeue"} => refresh'[batch'[g].state].gate = g
                     /\ batch'[g].state # None => batch'[g].covered <= refresh'[batch'[g].state].revision
                     /\ batch'[g].state # None => \/ mutation'[g].pc = "wait" /\ mutation'[g].flight = g
                                                  \/ mutation'[g].cancelled /\ mutation'[g].pc \in {"result", "end", "done"}
            <4>1. CASE g = c
                <5>1. t.revision \in Nat
                    BY DEF RefreshType
                <5> QED BY <1>5, <1>7, <2>1, <2>3, <2>7, <4>1, <5>1 DEF CatalogSetting
            <4>2. CASE g # c
                <5>1. batch[g].state \in Committed
                    BY <1>0 DEF BatchType
                <5>2. \A x \in Committers : refresh'[x].gate = refresh[x].gate /\ refresh'[x].revision = refresh[x].revision
                    BY <2>5, <2>7
                <5> QED BY <1>7, <2>7, <4>2, <5>1, <5>2 DEF CatalogInv, Flown, Committed
            <4> QED BY <4>1, <4>2
        <3>2. \A g, x \in Committers : x \in batch'[g].waiters =>
                    mutation'[x].pc = "wait" /\ mutation'[x].flight = g /\ mutation'[x].state = batch'[g].state
            BY <1>2, <1>5, <1>7, <2>1, <2>3, <2>7 DEF CatalogInv, Flown
        <3>3. \A x \in Committers : refresh'[x].flight # None => batch'[refresh'[x].flight].state = x
            <4>1. \A x \in Committers : refresh[x].flight # None => refresh[x].flight \in Committers /\ refresh[x].flight # c
                BY <1>0, <1>2 DEF RefreshType, Committed, CatalogInv, Flown, CatalogSetting
            <4> QED BY <2>3, <2>5, <2>7, <4>1 DEF CatalogInv, Flown
        <3> QED BY <3>1, <3>2, <3>3 DEF Flown
    <2> QED BY <2>8, <2>9, GroupKeeps DEF CatalogInv
<1>9. CASE refresh[s].flight # None
    <2>1. f = refresh[s].flight /\ batch[f].state = s
        BY <1>3, <1>9 DEF CatalogInv, Flown
    <2>2. batch[f].waiters \cup {c} \in SUBSET Committers
        BY <1>0 DEF BatchType
    <2>3. PICK b \in BatchType : b = [batch[f] EXCEPT !.waiters = @ \cup {c}]
        <3>1. batch[f] \in BatchType
            BY <1>0
        <3>2. PICK joined \in SUBSET Committers : joined = batch[f].waiters \cup {c}
            BY <2>2
        <3>3. [batch[f] EXCEPT !.waiters = joined] \in BatchType
            BY <3>1 DEF BatchType
        <3> QED BY <3>2, <3>3
    <2>4. /\ b.waiters = batch[f].waiters \cup {c} /\ b.pc = batch[f].pc /\ b.state = batch[f].state
          /\ b.cancelled = batch[f].cancelled /\ b.covered = batch[f].covered /\ b.err = batch[f].err
          /\ b.taken = batch[f].taken /\ b.retry = batch[f].retry
        BY <1>0, <2>3 DEF BatchType
    <2>5. batch' = [batch EXCEPT ![f] = b] /\ refresh' = refresh
        BY <1>1, <1>9, <2>1, <2>3 DEF C!Join
    <2>6. batch' \in [Committers -> BatchType] /\ batch'[f] = b /\ \A x \in Committers : x # f => batch'[x] = batch[x]
        BY <1>0, <2>5
    <2>7. \A x \in Committers :
             /\ batch'[x].pc = batch[x].pc /\ batch'[x].state = batch[x].state /\ batch'[x].covered = batch[x].covered
             /\ batch'[x].err = batch[x].err /\ batch'[x].taken = batch[x].taken
        BY <2>4, <2>6
    <2>8. GroupStep
        <3>1. ASSUME NEW x \in Committers
              PROVE  /\ mutation'[x].state = mutation[x].state /\ mutation'[x].ticket = mutation[x].ticket
                     /\ mutation'[x] # mutation[x] => mutation[x].pc = "join" /\ mutation'[x].pc = "wait"
                     /\ mutation'[x].pc = "wait" => mutation'[x].flight # None
            BY <1>0, <1>1, <1>5, <1>7 DEF CatalogSetting, CatalogInv, Registered
        <3>2. \A x \in Committers : batch'[x].pc = "off" <=> batch'[x].state = None
            BY <2>7 DEF CatalogInv, Flown
        <3> QED BY <1>0, <1>7, <2>5, <2>6, <2>7, <3>1, <3>2 DEF GroupStep
    <2>9. Flown'
        <3>1. ASSUME NEW g \in Committers
              PROVE  batch'[g].state # None => \/ mutation'[g].pc = "wait" /\ mutation'[g].flight = g
                                               \/ mutation'[g].cancelled /\ mutation'[g].pc \in {"result", "end", "done"}
            BY <1>2, <1>7, <2>7 DEF CatalogInv, Flown
        <3>2. \A g, x \in Committers : x \in batch'[g].waiters =>
                    mutation'[x].pc = "wait" /\ mutation'[x].flight = g /\ mutation'[x].state = batch'[g].state
            BY <1>2, <1>5, <1>7, <2>1, <2>4, <2>6 DEF CatalogInv, Flown
        <3>3. \A x \in Committers : refresh[x].flight # None => refresh[x].flight \in Committers
            BY <1>0 DEF RefreshType, Committed
        <3> QED BY <2>5, <2>7, <3>1, <3>2, <3>3 DEF CatalogInv, Flown
    <2> QED BY <2>8, <2>9, GroupKeeps DEF CatalogInv
<1> QED BY <1>8, <1>9

LEMMA LeavesBatch ==
    ASSUME CatalogSetting, CatalogInv, NEW c \in Committers, C!Leave(c)
    PROVE  CatalogInv'
<1>0. /\ mutation \in [Committers -> MutationType] /\ refresh \in [Committers -> RefreshType]
      /\ batch \in [Committers -> BatchType] /\ mutation[c].pc = "wait" /\ mutation[c].cancelled
      /\ mutation[c].flight # None /\ mutation[c].state # None
      /\ UNCHANGED <<newest, catalogMu, committed, catalog>>
    BY DEF C!Leave, CatalogInv, CatalogTypes, Registered
<1>1. PICK s \in Committers, f \in Committers : s = mutation[c].state /\ f = mutation[c].flight
    BY <1>0 DEF MutationType, Committed
<1>2. PICK q \in MutationType : q = [mutation[c] EXCEPT !.pc = "result", !.flight = None, !.covered = 0, !.err = TRUE]
    <2>1. PICK zero \in Nat : zero = 0
        OBVIOUS
    <2>2. [mutation[c] EXCEPT !.pc = "result", !.flight = None, !.covered = zero, !.err = TRUE] \in MutationType
        BY <1>0 DEF MutationType, Committed
    <2> QED BY <2>1, <2>2
<1>3. q.pc = "result" /\ q.err /\ q.cancelled /\ q.state = s /\ q.ticket = mutation[c].ticket
    BY <1>0, <1>1, <1>2 DEF MutationType
<1>4. PICK left \in SUBSET Committers : left = batch[f].waiters \ {c}
    BY <1>0 DEF BatchType
<1>5. PICK cancelled \in BOOLEAN : cancelled = (batch[f].cancelled \/ left = {})
    OBVIOUS
<1>6. PICK b \in BatchType : b = [batch[f] EXCEPT !.waiters = left, !.cancelled = cancelled]
    <2>1. batch[f] \in BatchType
        BY <1>0
    <2> QED BY <2>1 DEF BatchType
<1>7. /\ b.waiters = batch[f].waiters \ {c} /\ b.pc = batch[f].pc /\ b.state = batch[f].state
      /\ b.covered = batch[f].covered /\ b.err = batch[f].err /\ b.taken = batch[f].taken /\ b.retry = batch[f].retry
    BY <1>0, <1>4, <1>6 DEF BatchType
<1>8. mutation' = [mutation EXCEPT ![c] = q] /\ batch' = [batch EXCEPT ![f] = b]
    BY <1>1, <1>2, <1>4, <1>5, <1>6 DEF C!Leave
<1>9. /\ mutation' \in [Committers -> MutationType] /\ mutation'[c] = q
      /\ \A x \in Committers : x # c => mutation'[x] = mutation[x]
      /\ batch' \in [Committers -> BatchType] /\ batch'[f] = b /\ \A x \in Committers : x # f => batch'[x] = batch[x]
    BY <1>0, <1>8
<1>10. \A x \in Committers :
          /\ batch'[x].pc = batch[x].pc /\ batch'[x].state = batch[x].state /\ batch'[x].covered = batch[x].covered
          /\ batch'[x].err = batch[x].err /\ batch'[x].taken = batch[x].taken
    BY <1>7, <1>9
<1>11. PICK t \in RefreshType : t = [refresh[s] EXCEPT !.flight = None]
    BY <1>0 DEF RefreshType, Committed
<1>12. /\ t.revision = refresh[s].revision /\ t.flight = None /\ t.gate = refresh[s].gate
       /\ t.pending = refresh[s].pending /\ t.users = refresh[s].users /\ t.callbacks = refresh[s].callbacks
    BY <1>0, <1>11 DEF RefreshType
<1>13. /\ refresh' \in [Committers -> RefreshType]
       /\ \A x \in Committers : /\ refresh'[x].revision = refresh[x].revision /\ refresh'[x].pending = refresh[x].pending
                                /\ refresh'[x].gate = refresh[x].gate /\ refresh'[x].users = refresh[x].users
                                /\ refresh'[x].callbacks = refresh[x].callbacks
                                /\ refresh'[x].flight \in {refresh[x].flight, None}
    <2>1. CASE refresh' = refresh
        BY <1>0, <2>1
    <2>2. CASE refresh' = [refresh EXCEPT ![s].flight = None]
        <3>1. refresh' = [refresh EXCEPT ![s] = t]
            BY <1>11, <2>2
        <3> QED BY <1>0, <1>12, <3>1
    <2> QED BY <1>1, <2>1, <2>2 DEF C!Leave
<1>14. GroupStep
    <2>1. ASSUME NEW x \in Committers
          PROVE  /\ mutation'[x].state = mutation[x].state /\ mutation'[x].ticket = mutation[x].ticket
                 /\ mutation'[x] # mutation[x] => mutation[x].pc = "wait" /\ mutation'[x].pc = "result" /\ mutation'[x].err
                 /\ mutation'[x].pc = "wait" => mutation'[x].flight # None
        BY <1>0, <1>1, <1>3, <1>9 DEF CatalogInv, Registered
    <2>2. \A x \in Committers : batch'[x].pc = "off" <=> batch'[x].state = None
        BY <1>10 DEF CatalogInv, Flown
    <2> QED BY <1>0, <1>9, <1>10, <1>13, <2>1, <2>2 DEF GroupStep
<1>15. Flown'
    <2>1. ASSUME NEW g \in Committers
          PROVE  batch'[g].state # None => \/ mutation'[g].pc = "wait" /\ mutation'[g].flight = g
                                           \/ mutation'[g].cancelled /\ mutation'[g].pc \in {"result", "end", "done"}
        BY <1>3, <1>9, <1>10 DEF CatalogInv, Flown
    <2>2. \A g, x \in Committers : x \in batch'[g].waiters =>
                mutation'[x].pc = "wait" /\ mutation'[x].flight = g /\ mutation'[x].state = batch'[g].state
        <3>1. ASSUME NEW g \in Committers, NEW x \in Committers, x \in batch'[g].waiters
              PROVE  x \in batch[g].waiters /\ x # c
            BY <1>1, <1>7, <1>9, <3>1 DEF CatalogInv, Flown
        <3> QED BY <1>9, <1>10, <3>1 DEF CatalogInv, Flown
    <2>3. \A x \in Committers : (refresh[x].flight # None => refresh[x].flight \in Committers)
                                /\ (batch[x].state # None => batch[x].state \in Committers)
        BY <1>0 DEF RefreshType, BatchType, Committed
    <2>4. \A x \in Committers : refresh'[x].flight # None => batch'[refresh'[x].flight].state = x
        BY <1>10, <1>13, <2>3 DEF CatalogInv, Flown
    <2>5. ASSUME NEW g \in Committers
          PROVE  /\ batch'[g].pc = "off" <=> batch'[g].state = None
                 /\ batch'[g].taken # {} => batch'[g].pc \in {"refresh", "requeue"}
                 /\ batch'[g].pc = "requeue" => batch'[g].err
                 /\ batch'[g].pc \in {"snapshot", "refresh", "requeue"} => refresh'[batch'[g].state].gate = g
                 /\ batch'[g].state # None => batch'[g].covered <= refresh'[batch'[g].state].revision
        BY <1>10, <1>13, <2>3 DEF CatalogInv, Flown
    <2> QED BY <2>1, <2>2, <2>4, <2>5 DEF Flown
<1> QED BY <1>14, <1>15, GroupKeeps DEF CatalogInv
LEMMA DeliversBatch ==
    ASSUME CatalogSetting, CatalogInv, NEW f \in Committers, C!Deliver(f)
    PROVE  CatalogInv'
<1>0. /\ mutation \in [Committers -> MutationType] /\ refresh \in [Committers -> RefreshType]
      /\ batch \in [Committers -> BatchType] /\ batch[f].pc = "deliver" /\ batch[f] \in BatchType
      /\ UNCHANGED <<newest, catalogMu, committed, catalog>>
    BY DEF C!Deliver, CatalogInv, CatalogTypes
<1>1. PICK s \in Committers : s = batch[f].state /\ batch[f].covered <= refresh[s].revision
    BY <1>0, BatchFacts
<1>2. batch[f].taken = {} /\ (~batch[f].err => Cleared(s, batch[f].covered)) /\ batch[f].covered \in Nat /\ batch[f].err \in BOOLEAN
    BY <1>0, <1>1 DEF CatalogInv, Flown, Covering, BatchCovers, BatchType
<1>3. ASSUME NEW x \in Committers, x \in batch[f].waiters
      PROVE  /\ mutation[x].pc = "wait" /\ mutation[x].state = s /\ mutation[x].flight = f
             /\ mutation'[x] \in MutationType /\ mutation'[x].pc = "result" /\ mutation'[x].state = s
             /\ mutation'[x].ticket = mutation[x].ticket /\ mutation'[x].cancelled = mutation[x].cancelled
             /\ mutation'[x].covered = batch[f].covered /\ mutation'[x].err = batch[f].err
    <2>1. mutation[x].pc = "wait" /\ mutation[x].state = s /\ mutation[x].flight = f /\ mutation[x] \in MutationType
        BY <1>0, <1>1, <1>3 DEF CatalogInv, Flown
    <2>2. PICK q \in MutationType : q = [mutation[x] EXCEPT !.pc = "result", !.flight = None,
                                                           !.covered = batch[f].covered, !.err = batch[f].err]
        BY <1>2, <2>1 DEF MutationType, Committed
    <2>3. mutation'[x] = q
        BY <1>3, <2>2 DEF C!Deliver
    <2> QED BY <2>1, <2>2, <2>3 DEF MutationType
<1>4. \A x \in Committers : x \notin batch[f].waiters => mutation'[x] = mutation[x]
    BY DEF C!Deliver
<1>5. mutation' \in [Committers -> MutationType]
    <2>1. mutation' = [x \in Committers |-> mutation'[x]]
        BY DEF C!Deliver
    <2> QED BY <1>0, <1>3, <1>4, <2>1
<1>6. /\ batch' \in [Committers -> BatchType] /\ batch'[f] = C!NoFlight
      /\ \A x \in Committers : x # f => batch'[x] = batch[x]
    BY <1>0, IdleBatch DEF C!Deliver
<1>7. PICK own \in Committed : own = IF refresh[s].flight = f THEN None ELSE refresh[s].flight
    BY <1>0 DEF RefreshType, Committed
<1>8. PICK t \in RefreshType : t = [refresh[s] EXCEPT !.flight = own]
    BY <1>0 DEF RefreshType
<1>9. /\ t.revision = refresh[s].revision /\ t.flight = own /\ t.gate = refresh[s].gate
      /\ t.pending = refresh[s].pending /\ t.users = refresh[s].users /\ t.callbacks = refresh[s].callbacks
    BY <1>0, <1>8 DEF RefreshType
<1>10. refresh' = [refresh EXCEPT ![s] = t]
    BY <1>1, <1>7, <1>8 DEF C!Deliver
<1>11. /\ refresh' \in [Committers -> RefreshType] /\ refresh'[s] = t /\ \A x \in Committers : x # s => refresh'[x] = refresh[x]
    BY <1>0, <1>10
<1>12. \A x \in Committers : /\ refresh'[x].revision = refresh[x].revision /\ refresh'[x].pending = refresh[x].pending
                             /\ refresh'[x].gate = refresh[x].gate /\ refresh'[x].users = refresh[x].users
                             /\ refresh'[x].callbacks = refresh[x].callbacks
    BY <1>9, <1>11
<1>13. GroupStep
    <2>1. ASSUME NEW x \in Committers
          PROVE  /\ mutation'[x].state = mutation[x].state /\ mutation'[x].ticket = mutation[x].ticket
                 /\ mutation'[x] # mutation[x] => mutation[x].pc = "wait" /\ mutation'[x].pc = "result"
                 /\ mutation'[x].pc = "wait" => mutation'[x].flight # None
                 /\ mutation'[x] # mutation[x] /\ ~mutation'[x].err =>
                       /\ mutation'[x].covered <= refresh[mutation[x].state].revision
                       /\ Cleared(mutation[x].state, mutation'[x].covered)
        <3>1. CASE x \in batch[f].waiters
            BY <1>1, <1>2, <1>3, <3>1
        <3>2. CASE x \notin batch[f].waiters
            BY <1>4, <3>2 DEF CatalogInv, Registered
        <3> QED BY <3>1, <3>2
    <2>2. ASSUME NEW x \in Committers
          PROVE  /\ batch'[x].pc = batch[x].pc \/ (batch[x].pc = "deliver" /\ batch'[x].pc = "off")
                 /\ batch'[x].pc = "off" <=> batch'[x].state = None
                 /\ batch'[x].taken = batch[x].taken
                 /\ batch'[x] = batch[x] \/ (batch'[x].covered = 0 /\ batch'[x].pc = "off" /\ batch'[x].taken = {})
        <3>1. CASE x = f
            BY <1>0, <1>2, <1>6, <3>1, IdleBatch
        <3>2. CASE x # f
            <4>1. batch'[x] = batch[x]
                BY <1>6, <3>2
            <4>2. batch[x].pc = "off" <=> batch[x].state = None
                BY DEF CatalogInv, Flown
            <4> QED BY <4>1, <4>2
        <3> QED BY <3>1, <3>2
    <2> QED BY <1>0, <1>5, <1>6, <1>11, <1>12, <2>1, <2>2 DEF GroupStep
<1>14. Flown'
    <2>0. \A x \in Committers : (refresh[x].flight # None => refresh[x].flight \in Committers)
                                /\ (batch[x].state # None => batch[x].state \in Committers)
        BY <1>0 DEF RefreshType, BatchType, Committed
    <2>1. ASSUME NEW g \in Committers
          PROVE  /\ batch'[g].pc = "off" <=> batch'[g].state = None
                 /\ batch'[g].taken # {} => batch'[g].pc \in {"refresh", "requeue"}
                 /\ batch'[g].pc = "requeue" => batch'[g].err
                 /\ batch'[g].pc \in {"snapshot", "refresh", "requeue"} => refresh'[batch'[g].state].gate = g
                 /\ batch'[g].state # None => batch'[g].covered <= refresh'[batch'[g].state].revision
                 /\ batch'[g].state # None => \/ mutation'[g].pc = "wait" /\ mutation'[g].flight = g
                                              \/ mutation'[g].cancelled /\ mutation'[g].pc \in {"result", "end", "done"}
        <3>1. CASE g = f
            BY <1>6, <3>1, IdleBatch
        <3>2. CASE g # f
            <4>1. batch'[g] = batch[g]
                BY <1>6, <3>2
            <4>2. batch[g].state # None => g \notin batch[f].waiters
                BY <1>3, <3>2 DEF CatalogInv, Flown
            <4>3. batch[g].state # None => mutation'[g] = mutation[g]
                BY <1>4, <4>2
            <4> QED BY <1>12, <2>0, <4>1, <4>3 DEF CatalogInv, Flown
        <3> QED BY <3>1, <3>2
    <2>2. ASSUME NEW g \in Committers, NEW x \in Committers, x \in batch'[g].waiters
          PROVE  mutation'[x].pc = "wait" /\ mutation'[x].flight = g /\ mutation'[x].state = batch'[g].state
        <3>1. g # f /\ batch'[g] = batch[g]
            BY <1>6, <2>2, IdleBatch
        <3>2. mutation[x].pc = "wait" /\ mutation[x].flight = g /\ mutation[x].state = batch[g].state
            BY <2>2, <3>1 DEF CatalogInv, Flown
        <3>3. x \notin batch[f].waiters
            BY <1>3, <3>1, <3>2
        <3> QED BY <1>4, <3>1, <3>2, <3>3
    <2>3. ASSUME NEW x \in Committers, refresh'[x].flight # None
          PROVE  batch'[refresh'[x].flight].state = x
        <3>1. refresh'[x].flight = refresh[x].flight /\ refresh[x].flight # f
            <4>1. CASE x = s
                BY <1>7, <1>9, <1>11, <2>3, <4>1
            <4>2. CASE x # s
                BY <1>1, <1>11, <2>3, <4>2 DEF CatalogInv, Flown
            <4> QED BY <4>1, <4>2
        <3> QED BY <1>6, <2>0, <2>3, <3>1 DEF CatalogInv, Flown
    <2> QED BY <2>1, <2>2, <2>3 DEF Flown
<1> QED BY <1>13, <1>14, GroupKeeps DEF CatalogInv

LEMMA CatalogInit ==
    ASSUME CatalogSetting, C!Init
    PROVE  CatalogInv
<1>1. PICK zero \in Nat : zero = 0
    OBVIOUS
<1>2. /\ C!NewCaller = [pc |-> "idle", state |-> None, ticket |-> zero, cancelled |-> FALSE,
                        flight |-> None, covered |-> zero, err |-> FALSE]
      /\ C!NewState = [revision |-> zero, pending |-> {}, users |-> zero, callbacks |-> zero, gate |-> None, flight |-> None]
    BY <1>1 DEF C!NewCaller, C!NewState
<1>3. /\ C!NewCaller \in MutationType /\ C!NewCaller.pc = "idle" /\ C!NewCaller.state = None
      /\ C!NewState \in RefreshType /\ C!NewState.flight = None /\ C!NewState.users = 0 /\ C!NewState.callbacks = 0
    BY <1>1, <1>2 DEF MutationType, RefreshType, Committed
<1>4. /\ mutation = [c \in Committers |-> C!NewCaller] /\ refresh = [s \in Committers |-> C!NewState]
      /\ newest = None /\ batch = [f \in Committers |-> C!NoFlight] /\ catalogMu = None
      /\ committed = {} /\ catalog = [r \in Repositories |-> {}]
    BY DEF C!Init
<1>5. CatalogTypes
    BY <1>3, <1>4, IdleBatch DEF CatalogTypes, Committed
<1>6. Registered
    BY <1>3, <1>4 DEF Registered
<1>7. Flown
    BY <1>3, <1>4, IdleBatch DEF Flown
<1>8. Covering
    <2>1. Counted
        BY <1>4 DEF Counted
    <2>2. Followed
        BY <1>3, <1>4 DEF Followed
    <2>3. Taking
        BY <1>4, IdleBatch DEF Taking
    <2>4. BatchCovers
        BY <1>4, IdleBatch DEF BatchCovers
    <2>5. CallCovers
        BY <1>3, <1>4 DEF CallCovers
    <2> QED BY <2>1, <2>2, <2>3, <2>4, <2>5 DEF Covering
<1>9. InUse
    <2>1. ASSUME NEW s \in Committers PROVE Using(s) = {} /\ Running(s) = {}
        BY <1>3, <1>4, IdleBatch DEF Using, Running, CatalogSetting
    <2> QED BY <1>3, <1>4, <2>1, FS_EmptySet DEF InUse
<1> QED BY <1>5, <1>6, <1>7, <1>8, <1>9 DEF CatalogInv

LEMMA CatalogNext ==
    ASSUME CatalogSetting, CatalogInv, C!Next \/ UNCHANGED C!vars
    PROVE  CatalogInv'
<1>1. CASE UNCHANGED C!vars
    <2>1. UNCHANGED <<mutation, refresh, newest, batch, catalogMu, committed, catalog>>
        BY <1>1 DEF C!vars
    <2>2. CatalogTypes' /\ Registered' /\ Flown'
        BY <2>1 DEF CatalogInv, CatalogTypes, Registered, Flown
    <2>3. Covering'
        BY <2>1 DEF CatalogInv, Covering, Counted, Followed, Taking, BatchCovers, CallCovers, Cleared, C!Reflected
    <2>4. InUse'
        BY <2>1 DEF CatalogInv, InUse, Using, Running
    <2> QED BY <2>2, <2>3, <2>4 DEF CatalogInv
<1>2. ASSUME NEW c \in Committers, C!Calling(c) PROVE CatalogInv'
    BY <1>2, TicketTaken, JoinsBatch, LeavesBatch, ResultKeeps, EndKeeps DEF C!Calling
<1>3. ASSUME NEW f \in Committers, C!Flying(f) PROVE CatalogInv'
    BY <1>3, StartCallbackKeeps, AcquireKeeps, AcquireGateKeeps, TakesPending, RefreshCommitsKeeps, RefreshFailsKeeps,
       RequeueKeeps, ReleaseKeeps, EndCallbackKeeps, DeliversBatch DEF C!Flying
<1> QED BY <1>1, <1>2, <1>3, CommitKeeps, CallCancelKeeps DEF C!Next

\* README.md:40, "Each caller waits for a batch covering its committed mutation", for any
\* number of callers and repositories, with batches that fail, commit although their answer
\* is lost or are cancelled, and with or without the SQLite semaphore: a call that returns
\* without error is counted in the catalog together with every earlier ticket of its state,
\* and when all have returned no coordination state stays behind.
THEOREM RefreshesCover ==
    ASSUME CatalogSetting
    PROVE  C!Spec => []RefreshCovers
<1>1. CatalogInv => RefreshCovers
    <2>1. SUFFICES ASSUME CatalogInv PROVE RefreshCovers
        OBVIOUS
    <2>2. C!SuccessCovers
        BY <2>1 DEF CatalogInv, Covering, CallCovers, Cleared, C!SuccessCovers, C!Succeeded
    <2>3. C!StateRemoved
        <3>1. SUFFICES ASSUME C!Quiet PROVE newest = None /\ catalogMu = None
            BY DEF C!StateRemoved
        <3>2. newest \in Committed /\ catalogMu \in Committed
            BY <2>1 DEF CatalogInv, CatalogTypes
        <3>3. ASSUME newest # None PROVE FALSE
            <4>1. newest \in Committers
                BY <3>2, <3>3 DEF Committed
            <4>2. Running(newest) = {}
                BY <3>1 DEF C!Quiet, Running
            <4>3. Using(newest) = {}
                BY <2>1, <3>1, <4>1 DEF C!Quiet, Using, CatalogInv, Registered, CatalogSetting
            <4> QED BY <2>1, <3>3, <4>2, <4>3 DEF CatalogInv, InUse
        <3>4. catalogMu = None
            BY <2>1, <3>1, <3>2 DEF C!Quiet, CatalogInv, InUse, Committed
        <3> QED BY <3>3, <3>4
    <2> QED BY <2>2, <2>3 DEF RefreshCovers, C!RefreshCovers
<1>2. C!Init => CatalogInv
    BY CatalogInit
<1>3. CatalogInv /\ [C!Next]_C!vars => CatalogInv'
    BY CatalogNext
<1> QED BY <1>1, <1>2, <1>3, PTL DEF C!Spec
=============================================================================
