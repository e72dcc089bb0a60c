--------------------------- MODULE CatalogRefresh ---------------------------
(* Batched refresh of the catalog rows of one upstream alias                  *)
(* (internal/store/meta/catalog_refresh_batch.go, sql_catalog_refresh.go,     *)
(* catalog_refresh_transaction.go).                                           *)
(*                                                                            *)
(* A caller that committed a mutation takes a ticket in the refresh state of  *)
(* the alias and joins flights of singleflightx until one that covers its     *)
(* ticket has ended.  A refresh state is named by the caller that created it, *)
(* a flight by the caller that started it: a caller starts one at a time, and *)
(* leaves it before its end only when its own context ends.                   *)
EXTENDS Naturals

CONSTANTS
    Callers,      \* committed mutations
    Repositories,
    Touches,      \* the repositories that a mutation changes
    Cancellable,  \* callers whose context may end
    Faulty,       \* TRUE: a refresh transaction may fail
    SQLite,       \* TRUE: catalogMu admits one refresh at a time
    None

VARIABLES
    caller,     \* a call: its place, refresh state, ticket, context and the batch result it got
    state,      \* catalogRefreshState, by creator
    current,    \* catalogRefreshes[alias]
    flight,     \* a run of runRepositoryCatalogRefresh
    catalogMu,  \* the flight that holds the SQLite semaphore
    committed,  \* mutations in the base tables
    catalog     \* by repository: the mutations its catalog row, and the upstream's, count

vars == <<caller, state, current, flight, catalogMu, committed, catalog>>

NewCaller == [pc |-> "idle", state |-> None, ticket |-> 0, cancelled |-> FALSE,
              flight |-> None, covered |-> 0, err |-> FALSE]
NewState == [revision |-> 0, pending |-> {}, users |-> 0, callbacks |-> 0, gate |-> None, flight |-> None]
NoFlight == [pc |-> "off", state |-> None, waiters |-> {}, cancelled |-> FALSE,
             covered |-> 0, err |-> FALSE, taken |-> {}, retry |-> FALSE]

Init ==
    /\ caller = [c \in Callers |-> NewCaller]
    /\ state = [s \in Callers |-> NewState]
    /\ current = None
    /\ flight = [f \in Callers |-> NoFlight]
    /\ catalogMu = None
    /\ committed = {}
    /\ catalog = [r \in Repositories |-> {}]

-----------------------------------------------------------------------------
(* A caller. *)

\* The mutation commits before the caller registers.
Commit(c) ==
    /\ caller[c].pc = "idle"
    /\ committed' = committed \cup {c}
    /\ caller' = [caller EXCEPT ![c].pc = "begin"]
    /\ UNCHANGED <<state, current, flight, catalogMu, catalog>>

Cancel(c) ==
    /\ c \in Cancellable /\ ~caller[c].cancelled /\ caller[c].pc \notin {"idle", "done"}
    /\ caller' = [caller EXCEPT ![c].cancelled = TRUE]
    /\ UNCHANGED <<state, current, flight, catalogMu, committed, catalog>>

\* beginRepositoryCatalogRefresh
Begin(c) ==
    LET s == IF current = None THEN c ELSE current
        ticket == state[s].revision + 1 IN
    /\ caller[c].pc = "begin"
    /\ current' = s
    /\ state' = [state EXCEPT ![s].revision = ticket, ![s].users = @ + 1,
                              ![s].pending = @ \cup Touches[c]]
    /\ caller' = [caller EXCEPT ![c].pc = "join", ![c].state = s, ![c].ticket = ticket]
    /\ UNCHANGED <<flight, catalogMu, committed, catalog>>

\* DoContext joins the flight of the group or starts one.
Join(c) ==
    LET s == caller[c].state IN
    /\ caller[c].pc = "join"
    /\ IF state[s].flight = None
       THEN /\ flight' = [flight EXCEPT ![c] = [NoFlight EXCEPT !.pc = "callback", !.state = s, !.waiters = {c}]]
            /\ state' = [state EXCEPT ![s].flight = c]
            /\ caller' = [caller EXCEPT ![c].pc = "wait", ![c].flight = c]
       ELSE /\ flight' = [flight EXCEPT ![state[s].flight].waiters = @ \cup {c}]
            /\ caller' = [caller EXCEPT ![c].pc = "wait", ![c].flight = state[s].flight]
            /\ UNCHANGED state
    /\ UNCHANGED <<current, catalogMu, committed, catalog>>

\* A caller whose context ends leaves its flight; the context of a flight that all have
\* left ends too, and the group forgets it at once or when its callback returns.
Leave(c) ==
    LET f == caller[c].flight
        s == caller[c].state
        left == flight[f].waiters \ {c} IN
    /\ caller[c].pc = "wait" /\ caller[c].cancelled
    /\ caller' = [caller EXCEPT ![c].pc = "result", ![c].flight = None, ![c].covered = 0, ![c].err = TRUE]
    /\ flight' = [flight EXCEPT ![f].waiters = left, ![f].cancelled = @ \/ left = {}]
    /\ \/ UNCHANGED state
       \/ left = {} /\ state[s].flight = f /\ state' = [state EXCEPT ![s].flight = None]
    /\ UNCHANGED <<current, catalogMu, committed, catalog>>

\* repositoryCatalogBatchResult: a batch that covers the ticket decides, with its error
\* or without; so does the end of the caller's own context.
Decided(c) == caller[c].covered >= caller[c].ticket \/ caller[c].cancelled

Succeeds(c) == caller[c].covered >= caller[c].ticket /\ ~caller[c].err

Result(c) ==
    /\ caller[c].pc = "result"
    /\ caller' = [caller EXCEPT ![c].pc = IF Decided(c) THEN "end" ELSE "join",
                                ![c].err = IF Decided(c) THEN ~Succeeds(c) ELSE @]
    /\ UNCHANGED <<state, current, flight, catalogMu, committed, catalog>>

\* The map keeps a state while callers or callbacks use it.
Unused(st) == st.users = 0 /\ st.callbacks = 0
Dropped(s, st) == IF Unused(st) /\ current = s THEN None ELSE current

\* endCatalogRefresh
End(c) ==
    LET s == caller[c].state
        st == [state[s] EXCEPT !.users = @ - 1] IN
    /\ caller[c].pc = "end"
    /\ state' = [state EXCEPT ![s] = st]
    /\ current' = Dropped(s, st)
    /\ caller' = [caller EXCEPT ![c].pc = "done"]
    /\ UNCHANGED <<flight, catalogMu, committed, catalog>>

-----------------------------------------------------------------------------
(* A flight. *)

Goto(f, pc) == flight' = [flight EXCEPT ![f].pc = pc]
Fail(f, pc) == flight' = [flight EXCEPT ![f].pc = pc, ![f].err = TRUE]

\* beginCatalogRefreshCallback
StartCallback(f) ==
    /\ flight[f].pc = "callback"
    /\ state' = [state EXCEPT ![flight[f].state].callbacks = @ + 1]
    /\ Goto(f, "acquire")
    /\ UNCHANGED <<caller, current, catalogMu, committed, catalog>>

\* acquireCatalogRefresh
Acquire(f) ==
    /\ flight[f].pc = "acquire"
    /\ \/ /\ SQLite => catalogMu = None
          /\ catalogMu' = IF SQLite THEN f ELSE catalogMu
          /\ Goto(f, "gate")
       \/ SQLite /\ flight[f].cancelled /\ Fail(f, "ending") /\ UNCHANGED catalogMu
    /\ UNCHANGED <<caller, state, current, committed, catalog>>

\* batchGate: one batch of a refresh state at a time.
AcquireGate(f) ==
    LET s == flight[f].state IN
    /\ flight[f].pc = "gate"
    /\ \/ state[s].gate = None /\ state' = [state EXCEPT ![s].gate = f] /\ Goto(f, "snapshot")
       \/ flight[f].cancelled /\ Fail(f, "release") /\ UNCHANGED state
    /\ UNCHANGED <<caller, current, catalogMu, committed, catalog>>

\* catalogRepositoryRefreshSnapshot, after a last look at the context.
Snapshot(f) ==
    LET s == flight[f].state IN
    /\ flight[f].pc = "snapshot"
    /\ IF flight[f].cancelled /\ ~flight[f].retry
       THEN Fail(f, "release") /\ UNCHANGED state
       ELSE /\ flight' = [flight EXCEPT ![f].pc = IF state[s].pending = {} THEN "release" ELSE "refresh",
                                        ![f].covered = state[s].revision,
                                        ![f].taken = state[s].pending]
            /\ state' = [state EXCEPT ![s].pending = {}]
    /\ UNCHANGED <<caller, current, catalogMu, committed, catalog>>

\* refreshRepositoryMetadataTx: the rows of the repositories are aggregated anew from the
\* base tables, under the lock of the upstream row.
Aggregated(f) ==
    [r \in Repositories |-> IF r \in flight[f].taken THEN {c \in committed : r \in Touches[c]} ELSE catalog[r]]

RefreshCommits(f) ==
    /\ flight[f].pc = "refresh"
    /\ catalog' = Aggregated(f)
    /\ flight' = [flight EXCEPT ![f].pc = "release", ![f].err = FALSE, ![f].taken = {}]
    /\ UNCHANGED <<caller, state, current, catalogMu, committed>>

\* The transaction is rolled back, or commits although its answer is lost.
RefreshFails(f) ==
    /\ flight[f].pc = "refresh" /\ (Faulty \/ flight[f].cancelled)
    /\ catalog' \in {catalog, Aggregated(f)}
    /\ Fail(f, "requeue")
    /\ UNCHANGED <<caller, state, current, catalogMu, committed>>

MutantRequeueOnce(f) ==
    LET s == flight[f].state IN
    /\ flight[f].pc = "requeue"
    /\ state' = IF flight[f].retry THEN state ELSE [state EXCEPT ![s].pending = @ \cup flight[f].taken]
    /\ flight' = [flight EXCEPT ![f].pc = IF flight[f].cancelled \/ flight[f].retry THEN "release" ELSE "snapshot",
                                ![f].taken = {}, ![f].retry = TRUE]
    /\ UNCHANGED <<caller, current, catalogMu, committed, catalog>>

\* requeueCatalogRepositoryRefresh; a first failure is tried again with what is pending now.
Requeue(f) ==
    LET s == flight[f].state IN
    /\ flight[f].pc = "requeue"
    /\ state' = [state EXCEPT ![s].pending = @ \cup flight[f].taken]
    /\ flight' = [flight EXCEPT ![f].pc = IF flight[f].cancelled \/ flight[f].retry THEN "release" ELSE "snapshot",
                                ![f].taken = {}, ![f].retry = TRUE]
    /\ UNCHANGED <<caller, current, catalogMu, committed, catalog>>

MutantReleaseOnSuccess(f) ==
    LET s == flight[f].state IN
    /\ flight[f].pc = "release"
    /\ state' = [state EXCEPT ![s].gate = IF @ = f /\ ~flight[f].err THEN None ELSE @]
    /\ catalogMu' = IF catalogMu = f THEN None ELSE catalogMu
    /\ Goto(f, "ending")
    /\ UNCHANGED <<caller, current, committed, catalog>>

\* The deferred releases of the gate and of catalogMu.
Release(f) ==
    LET s == flight[f].state IN
    /\ flight[f].pc = "release"
    /\ state' = [state EXCEPT ![s].gate = IF @ = f THEN None ELSE @]
    /\ catalogMu' = IF catalogMu = f THEN None ELSE catalogMu
    /\ Goto(f, "ending")
    /\ UNCHANGED <<caller, current, committed, catalog>>

\* endCatalogRefreshCallback
EndCallback(f) ==
    LET s == flight[f].state
        st == [state[s] EXCEPT !.callbacks = @ - 1] IN
    /\ flight[f].pc = "ending"
    /\ state' = [state EXCEPT ![s] = st]
    /\ current' = Dropped(s, st)
    /\ Goto(f, "deliver")
    /\ UNCHANGED <<caller, catalogMu, committed, catalog>>

\* The group hands the result to those that still wait and forgets the flight.
Deliver(f) ==
    LET s == flight[f].state IN
    /\ flight[f].pc = "deliver"
    /\ caller' = [c \in Callers |->
                    IF c \in flight[f].waiters
                    THEN [caller[c] EXCEPT !.pc = "result", !.flight = None,
                                           !.covered = flight[f].covered, !.err = flight[f].err]
                    ELSE caller[c]]
    /\ state' = [state EXCEPT ![s].flight = IF @ = f THEN None ELSE @]
    /\ flight' = [flight EXCEPT ![f] = NoFlight]
    /\ UNCHANGED <<current, catalogMu, committed, catalog>>

-----------------------------------------------------------------------------
Calling(c) == Begin(c) \/ Join(c) \/ Leave(c) \/ Result(c) \/ End(c)
Flying(f) ==
    \/ StartCallback(f) \/ Acquire(f) \/ AcquireGate(f) \/ Snapshot(f) \/ RefreshCommits(f)
    \/ RefreshFails(f) \/ Requeue(f) \/ Release(f) \/ EndCallback(f) \/ Deliver(f)

Next == \E c \in Callers : Commit(c) \/ Cancel(c) \/ Calling(c) \/ Flying(c)

Spec == Init /\ [][Next]_vars

\* Goroutines run, transactions end, and the semaphores that a flight waits for serve
\* their waiters in order.
Fairness ==
    \A c \in Callers :
        WF_vars(Calling(c)) /\ SF_vars(Flying(c))

FairSpec == Spec /\ Fairness

-----------------------------------------------------------------------------
(* Properties *)

Reflected(c) == \A r \in Touches[c] : c \in catalog[r]
Succeeded(c) == caller[c].pc \in {"end", "done"} /\ ~caller[c].err

\* README.md:40, "Each caller waits for a batch covering its committed mutation": when a
\* call returns without error the catalog rows count its mutation, and those of every
\* earlier ticket of the same refresh state, also the ones whose own batch failed.
SuccessCovers ==
    \A c, e \in Callers :
        Succeeded(c) /\ caller[e].state = caller[c].state /\ caller[e].ticket <= caller[c].ticket
            => Reflected(e)

\* README.md:40, "Coordination state is removed after active callers and refresh callbacks
\* finish": nothing is left once all callers and flights have ended.
Quiet == \A c \in Callers : caller[c].pc \in {"idle", "done"} /\ flight[c].pc = "off"
StateRemoved == Quiet => current = None /\ catalogMu = None

RefreshCovers == SuccessCovers /\ StateRemoved

\* Every call returns, although batches fail, contexts end and semaphores are shared.
AllReturned == \A c \in Callers : caller[c].pc \in {"idle", "done"}
=============================================================================
