------------------------------ MODULE Prefetch ------------------------------
(***************************************************************************)
(* The container prefetch service (container/prefetch) as its two          *)
(* scheduled jobs, prefetch and manifest_refresh, run it: the controls an  *)
(* administrator leaves for the next run or fires at the active one, the   *)
(* plan of each repository's candidates against the stored outcomes, the   *)
(* tasks of the worker pool with the run's task and byte budgets, and the  *)
(* outcomes they store.  Each job runs at most once at a time, but the two *)
(* share one service, so two runs may overlap.                             *)
(*                                                                         *)
(* The report's counters and the run's own row are left out: no step reads *)
(* them.  A task the pool still runs when its run has returned holds an    *)
(* ended context and stores nothing more; it is dropped with the run.      *)
(***************************************************************************)
EXTENDS PrefetchCandidates

CONSTANTS
    Jobs,             \* the jobs that call Service.Run
    Repositories,     \* repositories with pull records
    PullLists,        \* what the pull records of a repository may be
    TagLists,         \* what an upstream may list for a repository
    MaxRepositories,  \* max_repositories, 0 for no limit
    MaxTasks,         \* max_tasks, 0 for no limit
    MaxBytes,         \* max_bytes, 0 for no limit
    MaxSize,          \* bound: bytes of one image
    MaxChildren,      \* bound: usable manifests of an index
    ManifestOnly,     \* opts.ManifestOnly
    FailureBackoff,   \* failure_backoff in ticks, 0 when off
    RetryWindow,      \* retry_window in ticks, 0 when off
    MaxRuns,          \* bound: runs of all jobs
    MaxOverlap,       \* bound: of these, how many may start beside another
    MaxRequests,      \* bound: stored requests per control
    MaxTime           \* bound: ticks

Nobody == "nobody"
Never  == 0        \* the zero time; the clock starts at 1
Controls == {"retry", "cancel"}

VARIABLES
    now,       \* the clock
    run,       \* per job: its run
    task,      \* per job: the tasks of the repository it is at
    active,    \* activeRunID and activeRunCancel
    pending,   \* stored controls not consumed yet, by request number
    admin,     \* CancelPrefetch has found no active run and is storing
    latest,    \* LatestPrefetchOutcome of every candidate stored so far
    started,   \* runs so far
    last,      \* history: the run that registered last
    until      \* history: until when a failed candidate is to be left alone

vars == <<now, run, task, active, pending, admin, latest, started, last, until>>
store == <<active, pending, admin, last, until>>
clock == <<now, started>>

NewRun == [pc |-> "idle", at |-> Never, row |-> 0, retry |-> FALSE, ended |-> FALSE,
           todo |-> {}, visited |-> 0, repo |-> Nobody, pulls |-> {}, plan |-> {},
           failed |-> FALSE, tasks |-> 0, bytes |-> 0]
NewTask(attempt) ==
    [at |-> "manifest", attempt |-> attempt, children |-> 0, out |-> "none"]
NoTasks == << >>

Init ==
    /\ now = 1 /\ started = 0
    /\ run = [j \in Jobs |-> NewRun] /\ task = [j \in Jobs |-> NoTasks]
    /\ active = Nobody /\ last = Nobody /\ admin = FALSE
    /\ pending = [a \in Controls |-> [stored |-> 0, open |-> {}]]
    /\ latest = << >> /\ until = << >>

Tick ==
    /\ now < MaxTime /\ now' = now + 1
    /\ UNCHANGED <<run, task, active, pending, admin, last, latest, started, until>>

Working == {"pulls", "groups", "tags", "plan", "tasks"}
Set(j, rec) == run' = [run EXCEPT ![j] = rec]
Move(j, pc) == Set(j, [run[j] EXCEPT !.pc = pc])

-----------------------------------------------------------------------------
(* Controls.                                                               *)

RequestPrefetchControl(a) ==
    /\ pending[a].stored < MaxRequests
    /\ pending' = [pending EXCEPT ![a] =
           [stored |-> @.stored + 1, open |-> @.open \cup {@.stored + 1}]]

\* An active run is cancelled; otherwise the request is stored, in a second
\* step: a run that registers in between does not see it.
CancelPrefetch ==
    /\ ~admin
    /\ \/ /\ active # Nobody
          /\ Set(active, [run[active] EXCEPT !.ended = TRUE])
          /\ UNCHANGED admin
       \/ /\ active = Nobody /\ pending["cancel"].stored < MaxRequests
          /\ admin' = TRUE /\ UNCHANGED run
    /\ UNCHANGED <<task, active, pending, last, latest, until, now, started>>

StoreCancel ==
    /\ admin /\ admin' = FALSE
    /\ RequestPrefetchControl("cancel")
    /\ UNCHANGED <<run, task, active, last, latest, until, now, started>>

RetryPrefetch ==
    /\ RequestPrefetchControl("retry")
    /\ UNCHANGED <<run, task, active, admin, last, latest, until, now, started>>

-----------------------------------------------------------------------------
(* Service.Run.                                                            *)

\* Two runs at once plan and store past each other.
Overlaps(j) == \E i \in Jobs \ {j} : run[i].pc # "idle"

Start(j) ==
    /\ run[j].pc = "idle" /\ started < MaxRuns
    /\ Overlaps(j) => started < MaxOverlap
    /\ started' = started + 1
    /\ Set(j, [NewRun EXCEPT !.pc = "retry", !.at = now])
    /\ UNCHANGED <<now, task, active, pending, admin, last, latest, until>>

\* ConsumePrefetchControl reads the oldest open request and marks it consumed
\* by its number, in two statements.
FindControl(j, a) ==
    /\ run[j].pc = a /\ run[j].row = 0
    /\ LET open == pending[a].open
       IN  IF open # {}
           THEN Set(j, [run[j] EXCEPT !.row = CHOOSE n \in open : \A m \in open : n <= m])
           ELSE Move(j, IF a = "retry" THEN "cancel" ELSE "register")
    /\ UNCHANGED <<task, active, pending, admin, last, latest, until, now, started>>

ConsumeControl(j, a) ==
    /\ run[j].pc = a /\ run[j].row # 0
    /\ pending' = [pending EXCEPT ![a].open = @ \ {run[j].row}]
    /\ Set(j, IF a = "retry" THEN [run[j] EXCEPT !.pc = "cancel", !.row = 0, !.retry = TRUE]
                             ELSE [run[j] EXCEPT !.pc = "finish", !.row = 0])
    /\ UNCHANGED <<task, active, admin, last, latest, until, now, started>>

ControlFails(j) ==
    /\ run[j].pc \in Controls
    /\ Set(j, [run[j] EXCEPT !.pc = "finish", !.row = 0, !.failed = TRUE])
    /\ UNCHANGED <<task, active, pending, admin, last, latest, until, now, started>>

setActiveCancel(j) ==
    /\ run[j].pc = "register" /\ active' = j /\ last' = j
    /\ Move(j, "pulls")
    /\ UNCHANGED <<task, pending, admin, latest, until, now, started>>

\* ReadPrefetchPulls, the filter and the grouping: the repositories worth a
\* visit, or a failed read.
ReadPulls(j) ==
    /\ run[j].pc = "pulls"
    /\ \/ \E repos \in SUBSET Repositories :
            /\ ~run[j].ended
            /\ Set(j, [run[j] EXCEPT !.pc = "groups", !.todo = repos])
       \/ Set(j, [run[j] EXCEPT !.pc = "finish", !.failed = TRUE])
    /\ UNCHANGED <<task, latest, store, clock>>

\* The loop of prefetchGroups: the context is looked at before each group.
prefetchGroups(j) ==
    /\ run[j].pc = "groups"
    /\ LET limit == MaxRepositories > 0 /\ run[j].visited >= MaxRepositories
       IN  IF run[j].todo = {} THEN Move(j, "finish")
           ELSE IF run[j].ended THEN Set(j, [run[j] EXCEPT !.pc = "finish", !.failed = TRUE])
           ELSE IF limit THEN Move(j, "finish")
           ELSE \E r \in run[j].todo : Set(j, [run[j] EXCEPT
                    !.pc = "tags", !.repo = r, !.todo = @ \ {r}, !.visited = @ + 1])
    /\ UNCHANGED <<task, latest, store, clock>>

\* availableTags and GenerateCandidates.  A failed listing, that of an ended
\* context included, only skips the repository.
availableTags(j) ==
    /\ run[j].pc = "tags"
    /\ \/ Move(j, "groups")
       \/ \E pulls \in PullLists, tags \in TagLists :
            \E plan \in GenerateCandidates(pulls, tags) :
              /\ ~run[j].ended
              /\ Set(j, [run[j] EXCEPT !.pc = "plan", !.pulls = pulls, !.plan = plan])
    /\ UNCHANGED <<task, latest, store, clock>>

-----------------------------------------------------------------------------
(* The plan of a candidate (policy.go).                                    *)

Put(f, k, v) == [x \in DOMAIN f \cup {k} |-> IF x = k THEN v ELSE f[x]]

Outcome(status, attempt, retryAt, finished) ==
    [status |-> status, attempt |-> attempt, retryAt |-> retryAt, finished |-> finished]

\* Beyond the window more attempts no longer lengthen the delay; without one the
\* delay grows past the bound of the clock.
MaxAttempt == IF FailureBackoff = 0 THEN 1 ELSE IF RetryWindow > 0 THEN RetryWindow ELSE MaxTime

nextCandidateAttempt(k) ==
    IF k \in DOMAIN latest THEN Smaller(latest[k].attempt + 1, MaxAttempt) ELSE 1

nextRetryAt(j, attempt) ==
    LET delay == FailureBackoff * attempt
    IN  IF FailureBackoff = 0 THEN Never
        ELSE run[j].at + (IF RetryWindow > 0 THEN Smaller(delay, RetryWindow) ELSE delay)

failedBackoffSkip(j, prior) == prior.retryAt > run[j].at
successfulBackoffSkip(j, prior) == RetryWindow > 0 /\ prior.finished + RetryWindow > run[j].at

backoffSkip(j, k) ==
    /\ k \in DOMAIN latest /\ ~run[j].retry
    /\ IF latest[k].status = "success" THEN successfulBackoffSkip(j, latest[k])
                                       ELSE failedBackoffSkip(j, latest[k])

\* recordSkipped keeps the time of the failure the skip is about.
MutantSkipped(j, k) == Outcome("skipped", nextCandidateAttempt(k), Never, run[j].at)
recordSkipped(j, k) ==
    Outcome("skipped", nextCandidateAttempt(k),
            IF backoffSkip(j, k) /\ latest[k].status # "success" THEN latest[k].retryAt ELSE Never,
            run[j].at)

reserveTask(j) == MaxTasks = 0 \/ run[j].tasks < MaxTasks

\* Overlapping runs may overwrite the time of a failure, a retry lifts it.
Forget(j, k) == IF Overlaps(j) \/ run[j].retry THEN Put(until, k, Never) ELSE until

\* Storing may fail, and fails when the context has ended: nothing is stored.
recordOutcome(j, k, ended, outcome) ==
    \/ ~ended /\ latest' = Put(latest, k, outcome)
    \/ UNCHANGED latest

planCandidate(j, t) ==
    LET k == <<run[j].repo, t>>
        left == [run[j] EXCEPT !.plan = @ \ {t}]
    IN  /\ run[j].pc = "plan" /\ t \in run[j].plan
        /\ \/ /\ Set(j, left) /\ UNCHANGED <<task, latest, until>>   \* the outcome could not be read
           \/ /\ ~run[j].ended /\ (backoffSkip(j, k) \/ ~reserveTask(j))
              /\ Set(j, left) /\ UNCHANGED task
              /\ recordOutcome(j, k, FALSE, recordSkipped(j, k))
              /\ until' = Forget(j, k)
           \/ /\ ~run[j].ended /\ ~backoffSkip(j, k) /\ reserveTask(j)
              /\ Set(j, [left EXCEPT !.tasks = @ + 1])
              /\ task' = [task EXCEPT ![j] = Put(@, t, NewTask(nextCandidateAttempt(k)))]
              /\ until' = Forget(j, k)
              /\ UNCHANGED latest
        /\ UNCHANGED <<active, pending, admin, last, clock>>

RunAll(j) ==
    /\ run[j].pc = "plan" /\ run[j].plan = {}
    /\ Set(j, [run[j] EXCEPT !.pc = "tasks", !.pulls = {}])
    /\ UNCHANGED <<task, latest, store, clock>>

-----------------------------------------------------------------------------
(* One task: the manifest, then the blobs of an image or of the images an  *)
(* index names.                                                            *)

\* A task that returns a context error cancels the others (WithCancelOnError).
GroupEnded(j) ==
    run[j].ended \/ \E t \in DOMAIN task[j] : task[j][t].at = "over" /\ task[j][t].out = "canceled"

At(j, t, at) ==
    run[j].pc = "tasks" /\ t \in DOMAIN task[j] /\ task[j][t].at = at
Step(j, t, rec) == task' = [task EXCEPT ![j][t] = rec]
Ends(j, t, out) == Step(j, t, [task[j][t] EXCEPT !.at = "record", !.children = 0, !.out = out])
NoStore == UNCHANGED <<latest, store, clock>>

\* A fetch fails, runs into a time limit (a context error as well) or meets
\* its ended context.
FetchFails(j, t) == Ends(j, t, "failed") \/ Ends(j, t, "canceled")

prefetchCandidate(j, t) ==
    /\ At(j, t, "manifest")
    /\ \/ FetchFails(j, t)
       \/ /\ ~GroupEnded(j)
          /\ \/ Ends(j, t, "success")      \* no manifest of an image, or ManifestOnly
             \/ /\ ~ManifestOnly /\ Step(j, t, [task[j][t] EXCEPT !.at = "image"])
             \/ \E n \in 0..MaxChildren :
                  Step(j, t, [task[j][t] EXCEPT !.at = "index", !.children = n])
    /\ UNCHANGED run /\ NoStore

\* prefetchIndexManifests: the children one after the other.
prefetchIndexManifests(j, t) ==
    /\ At(j, t, "index")
    /\ IF task[j][t].children = 0 THEN Ends(j, t, "success")
       ELSE \/ FetchFails(j, t)
            \/ /\ ~GroupEnded(j)
               /\ Step(j, t, [task[j][t] EXCEPT !.children = @ - 1,
                                  !.at = IF ManifestOnly THEN "index" ELSE "image"])
    /\ UNCHANGED run /\ NoStore

\* reserveBytes takes the planned bytes of an image or refuses it.
reserveBytes(j, size) ==
    MaxBytes = 0 \/ size = 0 \/ run[j].bytes + size <= MaxBytes

prefetchImageManifestBlobs(j, t) ==
    /\ At(j, t, "image")
    /\ \/ Ends(j, t, "failed") /\ UNCHANGED run
       \/ \E size \in 0..MaxSize :
            IF reserveBytes(j, size)
            THEN /\ Set(j, [run[j] EXCEPT !.bytes = IF MaxBytes = 0 THEN 0 ELSE @ + size])
                 /\ Step(j, t, [task[j][t] EXCEPT !.at = "blobs"])
            ELSE Ends(j, t, "budget") /\ UNCHANGED run
    /\ NoStore

prefetchBlobDescriptors(j, t) ==
    /\ At(j, t, "blobs")
    /\ \/ FetchFails(j, t)
       \/ /\ ~GroupEnded(j)
          /\ IF task[j][t].children = 0 THEN Ends(j, t, "success")
             ELSE Step(j, t, [task[j][t] EXCEPT !.at = "index"])
    /\ UNCHANGED run /\ NoStore

\* failureOutcome: a budget or a context error is a skip without a time.
failureOutcome(j, tk) ==
    CASE tk.out = "success" -> Outcome("success", tk.attempt, Never, now)
      [] tk.out = "failed"  -> Outcome("failed", tk.attempt, nextRetryAt(j, tk.attempt), now)
      [] OTHER              -> Outcome("skipped", tk.attempt, Never, now)

finishPrefetchTask(j, t) ==
    LET k == <<run[j].repo, t>>
        outcome == failureOutcome(j, task[j][t])
    IN  /\ At(j, t, "record")
        /\ recordOutcome(j, k, GroupEnded(j), outcome)
        /\ Step(j, t, [task[j][t] EXCEPT !.at = "over"])
        /\ until' = IF Overlaps(j) \/ outcome.status = "success" THEN Put(until, k, Never)
                    ELSE IF latest' # latest /\ outcome.status = "failed"
                    THEN Put(until, k, outcome.retryAt) ELSE until
        /\ UNCHANGED <<run, active, pending, admin, last, clock>>

\* RunAll returns when every task has, or as soon as the context has ended;
\* which of the two it notices first is open when both hold.
RunAllReturns(j) ==
    LET over == \A t \in DOMAIN task[j] : task[j][t].at = "over"
        erred == \E t \in DOMAIN task[j] : task[j][t].at = "over" /\ task[j][t].out = "canceled"
    IN  /\ run[j].pc = "tasks"
        /\ \/ over /\ ~erred /\ Move(j, "groups")
           \/ /\ GroupEnded(j) /\ DOMAIN task[j] # {}
              /\ Set(j, [run[j] EXCEPT !.pc = "finish", !.failed = TRUE])
        /\ task' = [task EXCEPT ![j] = NoTasks]
        /\ UNCHANGED <<latest, store, clock>>

\* finishRunRecord; a cancel that arrives from here on reaches a finished run.
finishRunRecord(j) ==
    /\ run[j].pc = "finish"
    /\ Move(j, "clear")
    /\ UNCHANGED <<task, latest, store, clock>>

MutantClear(j) ==
    /\ run[j].pc = "clear" /\ active' = Nobody
    /\ Set(j, NewRun)
    /\ UNCHANGED <<task, pending, admin, last, latest, until, clock>>
clearActiveCancel(j) ==
    /\ run[j].pc = "clear"
    /\ active' = IF active = j THEN Nobody ELSE active
    /\ Set(j, NewRun)
    /\ UNCHANGED <<task, pending, admin, last, latest, until, clock>>

-----------------------------------------------------------------------------
Runs(j) ==
    \/ \E a \in Controls : FindControl(j, a) \/ ConsumeControl(j, a)
    \/ ControlFails(j) \/ setActiveCancel(j)
    \/ ReadPulls(j) \/ prefetchGroups(j) \/ availableTags(j) \/ RunAll(j)
    \/ \E t \in run[j].plan : planCandidate(j, t)
    \/ \E t \in DOMAIN task[j] :
          \/ prefetchCandidate(j, t) \/ prefetchIndexManifests(j, t)
          \/ prefetchImageManifestBlobs(j, t) \/ prefetchBlobDescriptors(j, t)
          \/ finishPrefetchTask(j, t)
    \/ RunAllReturns(j) \/ finishRunRecord(j) \/ clearActiveCancel(j)

Next ==
    \/ Tick \/ CancelPrefetch \/ StoreCancel \/ RetryPrefetch
    \/ \E j \in Jobs : Start(j) \/ Runs(j)

\* Every fetch has a time limit, and the goroutines of a run are scheduled.
Fairness == \A j \in Jobs : WF_vars(Runs(j))
Spec == Init /\ [][Next]_vars /\ Fairness

-----------------------------------------------------------------------------
\* The controls and the run that is registered for cancelling.
TypeOK ==
    /\ now \in 1..MaxTime /\ started \in 0..MaxRuns
    /\ active \in Jobs \cup {Nobody} /\ admin \in BOOLEAN
    /\ \A j \in Jobs : run[j].tasks \in Nat /\ run[j].bytes \in Nat
    /\ \A a \in Controls : pending[a].open \subseteq 1..MaxRequests

(***************************************************************************)
(* A run starts a task only for a tag that is newer than one a client      *)
(* pulled, in the same flavour, and that has not failed within its backoff *)
(* (policy.go:119-151, candidate_tags.go:81): the time a failure stored    *)
(* must survive the skips that later runs store on top of it.  A retry     *)
(* request lifts it; runs that overlap may overwrite it.                   *)
(***************************************************************************)
StartsAreDue ==
    [][\A j \in Jobs : \A t \in DOMAIN task'[j] \ DOMAIN task[j] :
          LET k == <<run[j].repo, t>>
          IN  /\ k \in DOMAIN until => run[j].retry \/ until[k] <= now
              /\ \E r \in run[j].pulls : /\ r.tag # t /\ r.tag.suffix = t.suffix
                                         /\ versionDistance(r.tag, t) > 0]_vars

(***************************************************************************)
(* The run that registered last can be cancelled for as long as it works   *)
(* (control.go:66-93), also when an older run of the other job ends beside *)
(* it, and its tasks together keep to its budgets (policy.go:60-84): the   *)
(* images of an index reserve on top of one another.                       *)
(***************************************************************************)
RunsContained ==
    /\ last # Nobody /\ run[last].pc \in Working => active = last
    /\ \A j \in Jobs : /\ MaxTasks > 0 => run[j].tasks <= MaxTasks
                       /\ MaxBytes > 0 => run[j].bytes <= MaxBytes

(***************************************************************************)
(* Every run ends, whatever fails and whenever it is cancelled: a job is   *)
(* a singleton, so a run that never returned would be the last.            *)
(***************************************************************************)
AllIdle == \A j \in Jobs : run[j].pc = "idle"
=============================================================================
