-------------------------------- MODULE Jobs --------------------------------
(* The background work, its parts side by side over variables of their own:   *)
(* the runtime that starts and stops it (SchedulerRuntime), container         *)
(* prefetch (Prefetch, as P), the prefetch of packages (DependencyPrefetch,   *)
(* as D) and the refreshes that cache hits queue (RefreshIntents, as I).      *)
EXTENDS SchedulerRuntime

CONSTANTS
    PrefetchJobs, Repositories, PullLists, TagLists, MaxCandidates, MaxVersionDistance,
    MaxRepositories, MaxTasks, MaxBytes, MaxSize, MaxChildren, ManifestOnly,
    FailureBackoff, RetryWindow, MaxRuns, MaxOverlap, MaxRequests, MaxTime
VARIABLES now, run, work, active, pending, admin, latest, started, last, until
P == INSTANCE Prefetch WITH task <- work, Jobs <- PrefetchJobs

CONSTANTS
    DepJobs, DepPulls, DepRecords, DepTasks, DepRepositories, DepBackoff, DepWindow, DepRuns, DepTime
VARIABLES depNow, depRun, depTask, depLatest, depStarted, depStored, depUntil
D == INSTANCE DependencyPrefetch WITH
        now <- depNow, run <- depRun, task <- depTask, latest <- depLatest, started <- depStarted,
        stored <- depStored, until <- depUntil,
        Jobs <- DepJobs, Pulls <- DepPulls, MaxRecords <- DepRecords, MaxTasks <- DepTasks,
        MaxRepositories <- DepRepositories, FailureBackoff <- DepBackoff, RetryWindow <- DepWindow,
        MaxRuns <- DepRuns, MaxTime <- DepTime

CONSTANTS Pulls, Nodes, Keys, Window, IntentTime, MaxDrains
VARIABLES time, row, created, pull, drain, drains, refreshed
I == INSTANCE RefreshIntents WITH now <- time, MaxTime <- IntentTime

\* The prefetch run that registered last can be cancelled for as long as it works, the
\* tasks of a run keep to its budgets, what a run of dependency prefetch reports as
\* prefetched is in the store, and an intent is refreshed at most once, by one instance
\* (control.go:66-93, policy.go:60-84, depprefetch/run.go:146-157, RefreshIntents).
RunsAccounted == P!RunsContained /\ D!CountsAreStored /\ I!RefreshedOnce

\* A prefetch starts only for a newer tag of the same flavour whose backoff is over.
StartsAreDue == P!StartsAreDue
=============================================================================
