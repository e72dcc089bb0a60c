------------------------------ MODULE MCFills -------------------------------
(* TLC's instances of the three ways to fill something once for many callers: *)
(* artifactcache with its leases, "live" (renewals in time, a process that    *)
(* may crash) or "faulty" (a backend that fails, late renewals, two callers), *)
(* "maven", the fill pool of the Maven proxy, and "flight", a shared fill of  *)
(* the object disk cache.  A behaviour is of one part; the variables of the   *)
(* other modules keep their first value.                                      *)
EXTENDS Fills, TLC

CONSTANTS c1, c2, c3, i1, i2
VARIABLE part

pool == <<stored, active, closed, task, file, client>>
shared == <<fill, getter, producer, closer, shut, rootOpen, body>>

F == INSTANCE ArtifactFill WITH
        Cancellable <- {c1, c2}, Prompt <- FALSE, Faulty <- TRUE, Crashable <- {i1}

\* Two calls at one process and one at another.
SharedProcess == (c1 :> i1) @@ (c2 :> i1) @@ (c3 :> i2)

MCInit ==
    /\ part \in {"live", "faulty", "maven", "flight"}
    /\ Init /\ D!Init
    /\ M!Init /\ (part # "maven" => stored = {})

Faults == part = "faulty" /\ F!Next /\ caller'[c3].pc = "idle"

MCNext ==
    \/ part = "live" /\ Next /\ UNCHANGED <<part, pool, shared>>
    \/ Faults /\ UNCHANGED <<part, pool, shared>>
    \/ part = "maven" /\ M!Next /\ UNCHANGED <<part, vars, shared>>
    \/ part = "flight" /\ D!Next /\ UNCHANGED <<part, vars, pool>>

\* The fairness of the three modules.
MCFairness ==
    /\ \A c \in Callers :
          /\ WF_vars(part = "live" /\ (Begin(c) \/ Waiting(c) \/ Owning(c)))
          /\ WF_vars(part = "live" /\ Renewing(c))
    /\ WF_vars(part = "live" /\ Tick)
    /\ WF_pool(part = "maven" /\ M!Progress)
    /\ \A c \in Getters : WF_shared(part = "flight" /\ D!CallerReturns(c))
    /\ WF_shared(part = "flight" /\ D!FinishStep)
    /\ WF_shared(part = "flight" /\ fill.cancelled /\ D!ProducerWait)
    /\ WF_shared(part = "flight" /\ D!ProducerStep)
    /\ WF_shared(part = "flight" /\ D!CloserReturns)

MCSpec == MCInit /\ [][MCNext]_<<part, vars, pool, shared>> /\ MCFairness

-----------------------------------------------------------------------------
\* Every call returns, or its process crashed; every client of the Maven pool gets its
\* answer or its error, and its tasks, workers and files are gone; Close of the disk
\* cache returns, and a fill that all readers have left is cancelled and cleaned up.
FillsReturn ==
    []<>(/\ part = "live" => \A c \in Callers : caller[c].pc \in {"idle", "done", "dead"}
         /\ part = "maven" => M!AllOver
         /\ part = "flight" => D!Returned)
=============================================================================
