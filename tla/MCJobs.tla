------------------------------- MODULE MCJobs -------------------------------
(* TLC's instances of the background work: "scheduler", the runtime that      *)
(* starts and stops it; "prefetch", container prefetch of one repository by   *)
(* one job, and "overlap", two of its jobs beside each other with nothing to  *)
(* fetch; "dependency", prefetch of packages; and "intents", the refreshes    *)
(* that cache hits queue.  A behaviour is of one part; the variables of the   *)
(* others keep their first value.                                             *)
EXTENDS Jobs

CONSTANTS j1, j2, r1, Parts
VARIABLE part

prefetch == <<now, run, work, active, pending, admin, latest, started, last, until>>
dependency == <<depNow, depRun, depTask, depLatest, depStarted, depStored, depUntil>>
intents == <<time, row, created, pull, drain, drains, refreshed>>

\* One tag line that clients pulled, a newer and a much newer tag of it, a newer tag of
\* another flavour, and one without a version.
T(version, segments, suffix) ==
    [prefix |-> "", version |-> version, segments |-> segments, suffix |-> suffix]
Old == T(<<1, 1, 0>>, 2, 0)
MCPullLists == {{[tag |-> Old, count |-> 2, age |-> "day"]}}
MCTagLists ==
    {{Old, T(<<1, 2, 0>>, 2, 0), T(<<2, 0, 0>>, 3, 0), T(<<1, 3, 0>>, 2, 1), T(<<0, 0, 0>>, 0, 0)}}

\* Two versions of a package, and one of a package another ecosystem pulled.
Pulled(r, f, own) == [alias |-> "a", repository |-> r, reference |-> f, own |-> own]
MCDepPulls == {Pulled("x", "1", TRUE), Pulled("x", "2", TRUE), Pulled("y", "1", FALSE)}

MCInit ==
    /\ part \in Parts
    /\ Init /\ (part # "scheduler" => config.enabled /\ config.clean)
    /\ P!Init /\ D!Init
    /\ I!Init /\ (part # "intents" => \A p \in Pulls : pull[p].key = CHOOSE k \in Keys : TRUE)

Alone == run'[j2].pc = "idle"
Empty == now' = 1 /\ \A j \in PrefetchJobs : run'[j].todo = {}

MCNext ==
    \/ part = "scheduler" /\ Next /\ UNCHANGED <<part, prefetch, dependency, intents>>
    \/ part = "prefetch" /\ P!Next /\ Alone /\ UNCHANGED <<part, vars, dependency, intents>>
    \/ part = "overlap" /\ P!Next /\ Empty /\ UNCHANGED <<part, vars, dependency, intents>>
    \/ part = "dependency" /\ D!Next /\ UNCHANGED <<part, vars, prefetch, intents>>
    \/ part = "intents" /\ I!Next /\ UNCHANGED <<part, vars, prefetch, dependency>>

MCFairness ==
    /\ WF_vars(part = "scheduler" /\ Progress)
    /\ WF_prefetch(part = "prefetch" /\ P!Runs(j1) /\ Alone)
    /\ WF_prefetch(part = "overlap" /\ P!Runs(j1) /\ Empty)
    /\ WF_prefetch(part = "overlap" /\ P!Runs(j2) /\ Empty)

MCSpec == MCInit /\ [][MCNext]_<<part, vars, prefetch, dependency, intents>> /\ MCFairness

-----------------------------------------------------------------------------
\* depprefetch/run.go:206, "failure backoff until ...": a candidate that failed is not
\* fetched again before its backoff is over.
BackoffHonoured == D!BackoffHonoured

\* Every prefetch run ends, whatever fails and whenever it is cancelled; Stop returns, and
\* a synchronisation that began to run is settled.
JobsEnd == <>[]((part = "scheduler" => Settled) /\ (part \in {"prefetch", "overlap"} => P!AllIdle))
=============================================================================
