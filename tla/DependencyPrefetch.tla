------------------------- MODULE DependencyPrefetch -------------------------
(***************************************************************************)
(* The prefetcher that the package ecosystems share (depprefetch, behind   *)
(* depruntime and each ecosystem's runtime adapter): a run fetches again   *)
(* what clients pulled recently, skipping a candidate whose last stored    *)
(* outcome is a failure still in backoff or a recent success.  The tasks   *)
(* of a run are settled: a failing one stops no other.  The prefetch and   *)
(* the manifest_refresh job of an ecosystem share the service.             *)
(***************************************************************************)
EXTENDS Integers, FiniteSets

CONSTANTS
    Jobs,             \* the jobs of one ecosystem that call Service.Prefetch
    Pulls,            \* pull records: [alias, repository, reference, own]
    MaxRecords, MaxTasks, MaxRepositories,    \* limits of a run, 0 for none (the last two)
    FailureBackoff,   \* failure_backoff in ticks, 0 when off
    RetryWindow,      \* retry_window in ticks, 0 when off
    MaxRuns,          \* bound: runs of all jobs
    MaxTime           \* bound: ticks

Never == 0

VARIABLES
    now,       \* the clock
    run,       \* per job: its run and the counters of its report
    task,      \* per job and candidate: its task
    latest,    \* LatestPrefetchOutcome of the candidates stored so far
    started,   \* runs so far
    stored,    \* history: successes the run of a job has stored
    until      \* history: until when a failed candidate is to be left alone

vars == <<now, run, task, latest, started, stored, until>>

NewRun  == [pc |-> "idle", at |-> Never, ended |-> FALSE, prefetched |-> 0]
Idle    == [at |-> "none", attempt |-> 0, out |-> "none"]

Init ==
    /\ now = 1 /\ started = 0
    /\ run = [j \in Jobs |-> NewRun]
    /\ task = [j \in Jobs |-> [c \in Pulls |-> Idle]]
    /\ stored = [j \in Jobs |-> 0]
    /\ latest = << >> /\ until = << >>

Tick == now < MaxTime /\ now' = now + 1 /\ UNCHANGED <<run, task, latest, started, stored, until>>

Least(a, b) == IF a < b THEN a ELSE b
Put(f, k, v) == [x \in DOMAIN f \cup {k} |-> IF x = k THEN v ELSE f[x]]

-----------------------------------------------------------------------------
(* Candidates: the recent pulls of this ecosystem, up to the limits.       *)

\* rawAlias: a record of another ecosystem has another prefix.
candidate(p) == p.own

candidateLimit == IF MaxTasks > 0 THEN Least(MaxRecords, MaxTasks) ELSE MaxRecords

groupKeys(S) == {<<p.alias, p.repository>> : p \in S}

\* The sets the walk over the records, most recent first, may end with: it
\* stops at the limit and passes over records of one repository too many.
candidates(records) ==
    LET own == {p \in records : candidate(p)}
        Fits(S) == /\ Cardinality(S) <= candidateLimit
                   /\ MaxRepositories > 0 => Cardinality(groupKeys(S)) <= MaxRepositories
        Full(S) == Cardinality(S) = candidateLimit \/ \A p \in own \ S : ~Fits(S \cup {p})
    IN  {S \in SUBSET own : Fits(S) /\ Full(S)}

Start(j) ==
    /\ run[j].pc = "idle" /\ started < MaxRuns
    /\ started' = started + 1
    /\ run' = [run EXCEPT ![j] = [NewRun EXCEPT !.pc = "pulls", !.at = now]]
    /\ stored' = [stored EXCEPT ![j] = 0]
    /\ UNCHANGED <<now, task, latest, until>>

\* The job's context ends when the process shuts down.
EndContext(j) ==
    /\ run[j].pc # "idle" /\ ~run[j].ended
    /\ run' = [run EXCEPT ![j].ended = TRUE]
    /\ UNCHANGED <<now, task, latest, started, stored, until>>

ReadPulls(j) ==
    /\ run[j].pc = "pulls"
    /\ \/ /\ ~run[j].ended
          /\ \E records \in SUBSET Pulls : \E S \in candidates(records) :
               task' = [task EXCEPT ![j] = [c \in Pulls |->
                           IF c \in S THEN [Idle EXCEPT !.at = "plan"] ELSE Idle]]
          /\ run' = [run EXCEPT ![j].pc = "tasks"]
       \/ /\ run' = [run EXCEPT ![j].pc = "finish"] /\ UNCHANGED task
    /\ UNCHANGED <<now, latest, started, stored, until>>

-----------------------------------------------------------------------------
(* The task of one candidate.                                              *)

At(j, c, at) == task[j][c].at = at
Step(j, c, rec) == task' = [task EXCEPT ![j][c] = rec]
MaxAttempt == IF RetryWindow > 0 THEN RetryWindow ELSE MaxTime

Attempt(c) ==
    IF c \in DOMAIN latest THEN Least(latest[c].attempt + 1, MaxAttempt) ELSE 1

backoffSkip(j, c) ==
    /\ c \in DOMAIN latest
    /\ IF latest[c].status = "success"
       THEN RetryWindow > 0 /\ latest[c].finished + RetryWindow > run[j].at
       ELSE latest[c].retryAt > run[j].at

plan(j, c) ==
    /\ At(j, c, "plan")
    /\ \/ Step(j, c, [task[j][c] EXCEPT !.at = "over", !.out = "failed"])
       \/ /\ ~run[j].ended
          /\ Step(j, c, [task[j][c] EXCEPT !.attempt = Attempt(c),
                             !.at = IF backoffSkip(j, c) THEN "skip" ELSE "fetch"])
    /\ UNCHANGED <<now, run, latest, started, stored, until>>

\* recordOutcome: an ended context or a store error stores nothing.
recordOutcome(j, c, status, retryAt) ==
    /\ ~run[j].ended
    /\ latest' = Put(latest, c, [status |-> status, attempt |-> task[j][c].attempt,
                                 retryAt |-> retryAt, finished |-> now])

\* The outcome of a skip carries no time for the next try.
recordSkippedCandidate(j, c) ==
    /\ At(j, c, "skip")
    /\ recordOutcome(j, c, "skipped", Never) \/ UNCHANGED latest
    /\ Step(j, c, [task[j][c] EXCEPT !.at = "over", !.out = "skipped"])
    /\ UNCHANGED <<now, run, started, stored, until>>

\* service.refresh and PrefetchResult: an error, or a response that is drained
\* when it was a miss, whatever its status.
fetch(j, c) ==
    /\ At(j, c, "fetch")
    /\ \E out \in IF run[j].ended THEN {"failed"} ELSE {"failed", "success"} :
         Step(j, c, [task[j][c] EXCEPT !.at = "record", !.out = out])
    /\ UNCHANGED <<now, run, latest, started, stored, until>>

nextRetryAt(j, attempt) ==
    LET delay == FailureBackoff * attempt
    IN  IF FailureBackoff = 0 THEN Never
        ELSE run[j].at + (IF RetryWindow > 0 THEN Least(delay, RetryWindow) ELSE delay)

Overlaps(j) == \E i \in Jobs \ {j} : run[i].pc # "idle"

recordFailedCandidate(j, c) ==
    LET retryAt == nextRetryAt(j, task[j][c].attempt)
    IN  /\ At(j, c, "record") /\ task[j][c].out = "failed"
        /\ \/ /\ recordOutcome(j, c, "failed", retryAt)
              /\ until' = Put(until, c, IF Overlaps(j) THEN Never ELSE retryAt)
           \/ UNCHANGED <<latest, until>>
        /\ Step(j, c, [task[j][c] EXCEPT !.at = "over"])
        /\ UNCHANGED <<now, run, started, stored>>

\* A success counts once its outcome is stored.
recordSuccessCandidate(j, c) ==
    /\ At(j, c, "record") /\ task[j][c].out = "success"
    /\ \/ /\ recordOutcome(j, c, "success", Never)
          /\ stored' = [stored EXCEPT ![j] = @ + 1]
          /\ until' = Put(until, c, Never)
          /\ Step(j, c, [task[j][c] EXCEPT !.at = "count"])
       \/ /\ Step(j, c, [task[j][c] EXCEPT !.at = "over", !.out = "failed"])
          /\ UNCHANGED <<latest, stored, until>>
    /\ UNCHANGED <<now, run, started>>

addPrefetched(j, c) ==
    /\ At(j, c, "count")
    /\ run' = [run EXCEPT ![j].prefetched = @ + 1]
    /\ Step(j, c, [task[j][c] EXCEPT !.at = "over"])
    /\ UNCHANGED <<now, latest, started, stored, until>>

\* RunAllSettled waits for every task, or returns early on an ended context;
\* the report is applied then, and a task still running is left behind.
RunAllSettled(j) ==
    /\ run[j].pc = "tasks"
    /\ run[j].ended \/ \A c \in Pulls : task[j][c].at \in {"none", "over"}
    /\ run' = [run EXCEPT ![j].pc = "finish"]
    /\ task' = [task EXCEPT ![j] = [c \in Pulls |-> Idle]]
    /\ UNCHANGED <<now, latest, started, stored, until>>

finishRun(j) ==
    /\ run[j].pc = "finish"
    /\ run' = [run EXCEPT ![j] = NewRun]
    /\ stored' = [stored EXCEPT ![j] = 0]
    /\ UNCHANGED <<now, task, latest, started, until>>

Runs(j) ==
    \/ ReadPulls(j) \/ RunAllSettled(j) \/ finishRun(j)
    \/ \E c \in Pulls : \/ plan(j, c) \/ recordSkippedCandidate(j, c) \/ fetch(j, c)
                        \/ recordFailedCandidate(j, c) \/ recordSuccessCandidate(j, c)
                        \/ addPrefetched(j, c)

Next == Tick \/ \E j \in Jobs : Start(j) \/ EndContext(j) \/ Runs(j)

Fairness == \A j \in Jobs : WF_vars(Runs(j))
Spec == Init /\ [][Next]_vars /\ Fairness

-----------------------------------------------------------------------------
(***************************************************************************)
(* What a run reports as prefetched is in the store: a run that was not    *)
(* cut short reports exactly the successes it stored, one that was never   *)
(* more (run.go:146-157).                                                  *)
(***************************************************************************)
CountsAreStored ==
    \A j \in Jobs :
        /\ run[j].prefetched <= stored[j]
        /\ run[j].pc = "finish" /\ ~run[j].ended => run[j].prefetched = stored[j]

(***************************************************************************)
(* A candidate is left alone until the time its last failure stored: the   *)
(* stored reason of every skip says so ("failure backoff until ...",       *)
(* run.go:206).  Runs that overlap are left out.                           *)
(***************************************************************************)
BackoffHonoured ==
    [][\A j \in Jobs, c \in Pulls :
          At(j, c, "plan") /\ task'[j][c].at = "fetch" /\ c \in DOMAIN until
              => until[c] <= now]_vars
=============================================================================
