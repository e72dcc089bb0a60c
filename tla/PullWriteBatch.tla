--------------------------- MODULE PullWriteBatch ---------------------------
(* Batched writes of one pull record (internal/store/meta/pull_write_batch.go, *)
(* sql_pull_repository.go).                                                    *)
(*                                                                             *)
(* A caller adds its pull to the pending row of the batch state and follows    *)
(* the receipt of that generation; flights of singleflightx take the pending   *)
(* row with its receipt and persist it.  A state is named by the caller that   *)
(* created it, a receipt by the first caller that follows it and a flight by   *)
(* the caller that started it.                                                 *)
EXTENDS Naturals

CONSTANTS
    Callers,      \* pulls of the same reference
    Cancellable,  \* callers whose context may end
    Faulty,       \* TRUE: the upsert, the catalog refresh or the read after it may fail
    None

ASSUME BatchAssumption == Cancellable \subseteq Callers /\ Faulty \in BOOLEAN /\ None \notin Callers

VARIABLES
    caller,    \* a call of recordPullBatch
    state,     \* pullWriteBatchState, by creator
    current,   \* pullWriteBatches[key]
    receipt,   \* pullWriteMutation: the outcome, "open" until done is closed
    flight,    \* a run of flushPullWriteBatch
    counted    \* how often the row in the table has counted a pull

vars == <<caller, state, current, receipt, flight, counted>>

NewCaller == [pc |-> "idle", state |-> None, receipt |-> None, cancelled |-> FALSE, flight |-> None, result |-> "none"]
NewState == [pending |-> {}, receipt |-> None, users |-> 0, flight |-> None]
NoFlight == [pc |-> "off", state |-> None, waiters |-> {}, cancelled |-> FALSE, row |-> {}, receipt |-> None]

Init ==
    /\ caller = [c \in Callers |-> NewCaller]
    /\ state = [s \in Callers |-> NewState]
    /\ current = None
    /\ receipt = [g \in Callers |-> "open"]
    /\ flight = [f \in Callers |-> NoFlight]
    /\ counted = [c \in Callers |-> 0]

-----------------------------------------------------------------------------
(* A caller. *)

\* requireMetadataContext comes first: a context that ended before is refused.
Arrive(c) ==
    /\ caller[c].pc = "idle"
    /\ caller' = [caller EXCEPT ![c].pc = "begin"]
    /\ UNCHANGED <<state, current, receipt, flight, counted>>

Cancel(c) ==
    /\ c \in Cancellable /\ ~caller[c].cancelled /\ caller[c].pc \notin {"idle", "done"}
    /\ caller' = [caller EXCEPT ![c].cancelled = TRUE]
    /\ UNCHANGED <<state, current, receipt, flight, counted>>

\* beginPullWriteBatch: the pull is merged into the pending row, one receipt per generation.
Begin(c) ==
    LET s == IF current = None THEN c ELSE current
        g == IF state[s].receipt = None THEN c ELSE state[s].receipt IN
    /\ caller[c].pc = "begin"
    /\ current' = s
    /\ state' = [state EXCEPT ![s].users = @ + 1, ![s].pending = @ \cup {c}, ![s].receipt = g]
    /\ caller' = [caller EXCEPT ![c].pc = "check", ![c].state = s, ![c].receipt = g]
    /\ UNCHANGED <<receipt, flight, counted>>

\* completedPullMutation
Check(c) ==
    LET outcome == receipt[caller[c].receipt] IN
    /\ caller[c].pc = "check"
    /\ caller' = IF outcome = "open" THEN [caller EXCEPT ![c].pc = "join"]
                 ELSE [caller EXCEPT ![c].pc = "end", ![c].result = outcome]
    /\ UNCHANGED <<state, current, receipt, flight, counted>>

\* DoContext joins the flight of the group or starts one.
Join(c) ==
    LET s == caller[c].state IN
    /\ caller[c].pc = "join"
    /\ IF state[s].flight = None
       THEN /\ flight' = [flight EXCEPT ![c] = [NoFlight EXCEPT !.pc = "snapshot", !.state = s, !.waiters = {c}]]
            /\ state' = [state EXCEPT ![s].flight = c]
            /\ caller' = [caller EXCEPT ![c].pc = "wait", ![c].flight = c]
       ELSE /\ flight' = [flight EXCEPT ![state[s].flight].waiters = @ \cup {c}]
            /\ caller' = [caller EXCEPT ![c].pc = "wait", ![c].flight = state[s].flight]
            /\ UNCHANGED state
    /\ UNCHANGED <<current, receipt, counted>>

\* A caller whose context ends leaves its flight; the context of a flight that all have
\* left ends too, and the group forgets it at once or when its callback returns.
Leave(c) ==
    LET f == caller[c].flight
        s == caller[c].state
        left == flight[f].waiters \ {c} IN
    /\ caller[c].pc = "wait" /\ caller[c].cancelled
    /\ caller' = [caller EXCEPT ![c].pc = "end", ![c].flight = None, ![c].result = "cancelled"]
    /\ flight' = [flight EXCEPT ![f].waiters = left, ![f].cancelled = @ \/ left = {}]
    /\ \/ UNCHANGED state
       \/ left = {} /\ state[s].flight = f /\ state' = [state EXCEPT ![s].flight = None]
    /\ UNCHANGED <<current, receipt, counted>>

\* endPullWriteBatch
End(c) ==
    LET s == caller[c].state IN
    /\ caller[c].pc = "end"
    /\ state' = [state EXCEPT ![s].users = @ - 1]
    /\ current' = IF state[s].users = 1 /\ current = s THEN None ELSE current
    /\ caller' = [caller EXCEPT ![c].pc = "done"]
    /\ UNCHANGED <<receipt, flight, counted>>

-----------------------------------------------------------------------------
(* A flight: flushPullWriteBatch. *)

MutantSnapshotKeepsRow(s) == [state[s] EXCEPT !.receipt = None]
\* snapshotPullWriteBatch takes the pending row together with its receipt.
Detached(s) == [state[s] EXCEPT !.pending = {}, !.receipt = None]

Snapshot(f) ==
    LET s == flight[f].state IN
    /\ flight[f].pc = "snapshot"
    /\ flight' = [flight EXCEPT ![f].pc = IF state[s].receipt = None THEN "follow" ELSE "upsert",
                                ![f].row = state[s].pending, ![f].receipt = state[s].receipt]
    /\ state' = [state EXCEPT ![s] = Detached(s)]
    /\ UNCHANGED <<caller, current, receipt, counted>>

\* Nothing is pending: wait for the receipt of the caller that started the flight.
Follow(f) ==
    /\ flight[f].pc = "follow"
    /\ receipt[caller[f].receipt] # "open" \/ flight[f].cancelled
    /\ flight' = [flight EXCEPT ![f].pc = "deliver"]
    /\ UNCHANGED <<caller, state, current, receipt, counted>>

Added(f) == [c \in Callers |-> IF c \in flight[f].row THEN counted[c] + 1 ELSE counted[c]]

\* upsertPullRow: one statement adds the counts.
Upsert(f) ==
    /\ flight[f].pc = "upsert"
    /\ counted' = Added(f)
    /\ flight' = [flight EXCEPT ![f].pc = "complete"]
    /\ UNCHANGED <<caller, state, current, receipt>>

Close(f, outcome) ==
    /\ receipt' = [receipt EXCEPT ![flight[f].receipt] = outcome]
    /\ flight' = [flight EXCEPT ![f].pc = "deliver"]

\* The statement fails, or takes effect although its answer is lost.
UpsertFails(f) ==
    /\ flight[f].pc = "upsert" /\ (Faulty \/ flight[f].cancelled)
    /\ counted' \in {counted, Added(f)}
    /\ Close(f, "error")
    /\ UNCHANGED <<caller, state, current>>

\* persistPullWriteBatch goes on with a context of its own: catalog refresh and read.
Complete(f) ==
    /\ flight[f].pc = "complete"
    /\ \/ Close(f, "stored")
       \/ Faulty /\ Close(f, "error")
    /\ UNCHANGED <<caller, state, current, counted>>

\* The group lets those that still wait look at their receipts and forgets the flight.
Deliver(f) ==
    LET s == flight[f].state IN
    /\ flight[f].pc = "deliver"
    /\ caller' = [c \in Callers |->
                    IF c \in flight[f].waiters THEN [caller[c] EXCEPT !.pc = "check", !.flight = None] ELSE caller[c]]
    /\ state' = [state EXCEPT ![s].flight = IF @ = f THEN None ELSE @]
    /\ flight' = [flight EXCEPT ![f] = NoFlight]
    /\ UNCHANGED <<current, receipt, counted>>

-----------------------------------------------------------------------------
Calling(c) == Begin(c) \/ Check(c) \/ Join(c) \/ Leave(c) \/ End(c)
Flying(f) == Snapshot(f) \/ Follow(f) \/ Upsert(f) \/ UpsertFails(f) \/ Complete(f) \/ Deliver(f)

Next == \E c \in Callers : Arrive(c) \/ Cancel(c) \/ Calling(c) \/ Flying(c)

Spec == Init /\ [][Next]_vars

\* Goroutines run and statements end.
Fairness == \A c \in Callers : WF_vars(Calling(c)) /\ WF_vars(Flying(c))
FairSpec == Spec /\ Fairness

-----------------------------------------------------------------------------
(* Properties *)

\* A pull is never counted twice, whatever is retried, joined, cancelled or lost, and a
\* call that returns the record is counted in it.
CountedOnce ==
    \A c \in Callers :
        /\ counted[c] <= 1
        /\ caller[c].result = "stored" => counted[c] = 1

\* flushPullWriteBatch: "Wait for its exact receipt; never flush an empty row": a call whose
\* own context is alive returns the outcome of the batch that held its pull, never the
\* cancellation of another call.
OwnOutcome ==
    \A c \in Callers :
        caller[c].pc \in {"end", "done"} /\ ~caller[c].cancelled => caller[c].result = receipt[caller[c].receipt]

\* Both: what a caller's answer says of its pull is true.
PullsExact == CountedOnce /\ OwnOutcome

\* Every call returns: also one whose pull an abandoned flight took and is still writing.
AllReturned == \A c \in Callers : caller[c].pc \in {"idle", "done"}
=============================================================================
