------------------------- MODULE SchedulerRuntime -------------------------
(***************************************************************************)
(* The scheduler's life in one process: Start builds a gocron scheduler    *)
(* and registers the recurring jobs, administrators submit cleanup, probe  *)
(* and synchronisation tasks at any moment, and Stop shuts the scheduler   *)
(* down and waits for the background tasks.                                *)
(*                                                                         *)
(* r.scheduler and r.cleanupJob are plain fields: a caller tests one and   *)
(* then uses it, and Stop may clear it in between, so the test and the use *)
(* are two steps.  gocron itself is external: an immediate job that was    *)
(* accepted runs at most once, a recurring job runs one instance at a      *)
(* time, nothing starts once the scheduler shuts down, and a shutdown      *)
(* that returns without an error has waited for what was running.          *)
(***************************************************************************)
EXTENDS Naturals, FiniteSets

CONSTANTS Cleanups,   \* administrators' TriggerCleanup calls
          Probes,     \* administrators' TriggerProbe calls
          Syncs,      \* administrators' SubmitSync calls, each its own job
          Specs       \* recurring jobs other than the shared cleanup

VARIABLES
  config,     \* [enabled |-> Scheduler.Enabled, clean |-> r.cleanup # nil]
  start,      \* where Start is
  stops,      \* Stop by the failed Start and Stop by the application
  sched,      \* r.scheduler # nil
  gocron,     \* the scheduler object: "none", "idle", "on", "closing", "closed"
  jobs,       \* recurring jobs registered with gocron
  cleanupJob, \* r.cleanupJob # nil
  stopping,   \* backgroundStopping
  drained,    \* backgroundDone is closed
  call,       \* each administrator's call
  task,       \* what the scheduler executes for each call or recurring job
  home,       \* where a task runs: on gocron or as a background goroutine
  gate,       \* the tasks holding cleanupGate, a channel of capacity one
  status      \* SyncJob.Status

vars == <<config, start, stops, sched, gocron, jobs, cleanupJob, stopping,
          drained, call, task, home, gate, status>>

SharedCleanup == "regimux.cache.cleanup"
Callers == Cleanups \cup Probes \cup Syncs
Recurring == Specs \cup {SharedCleanup}
Tasks == Callers \cup Recurring
Stoppers == {"start", "app"}

\* Recurring jobs are named by their specification, calls by the job they create.
ASSUME SchedulerAssumption == Callers \cap Recurring = {}

Terminal == {"succeeded", "failed"}
Active == {"begin", "cleaning", "work"}

TypeOK ==
  /\ config \in [enabled : BOOLEAN, clean : BOOLEAN]
  /\ start \in {"new", "register", "ended", "failed"}
  /\ stops \in [Stoppers -> {"no", "shutdown", "wait", "done", "error"}]
  /\ sched \in BOOLEAN /\ cleanupJob \in BOOLEAN
  /\ gocron \in {"none", "idle", "on", "closing", "closed"}
  /\ jobs \subseteq Recurring /\ gate \subseteq Tasks
  /\ stopping \in BOOLEAN /\ drained \in BOOLEAN
  /\ call \in [Callers -> {"new", "run now", "submit", "register", "returned", "refused", "panic"}]
  /\ task \in [Tasks -> {"none", "queued", "ended"} \cup Active]
  /\ home \in [Tasks -> {"gocron", "background"}]
  /\ status \in [Syncs -> {"none", "queued", "running"} \cup Terminal]

Init ==
  /\ config \in [enabled : BOOLEAN, clean : BOOLEAN]
  /\ start = "new" /\ stops = [s \in Stoppers |-> "no"]
  /\ sched = FALSE /\ gocron = "none" /\ jobs = {} /\ cleanupJob = FALSE
  /\ stopping = FALSE /\ drained = FALSE /\ gate = {}
  /\ call = [c \in Callers |-> "new"]
  /\ task = [t \in Tasks |-> "none"]
  /\ home = [t \in Tasks |-> "gocron"]
  /\ status = [s \in Syncs |-> "none"]

-----------------------------------------------------------------------------
(* Start.  A disabled scheduler still serves manual tasks when there is a  *)
(* cleanup service; a Redis locker that cannot be reached fails the start. *)

startManualScheduler ==
  /\ start = "new" /\ ~ config.enabled
  /\ start' = "ended"
  /\ sched' = config.clean
  /\ gocron' = IF config.clean THEN "on" ELSE "none"
  /\ UNCHANGED <<config, stops, jobs, cleanupJob, stopping, drained, call, task, home, gate, status>>

schedulerOptions ==
  /\ start = "new" /\ (config.enabled \/ config.clean)
  /\ start' = "failed"
  /\ UNCHANGED <<config, stops, sched, gocron, jobs, cleanupJob, stopping, drained, call, task, home, gate, status>>

NewScheduler ==
  /\ start = "new" /\ config.enabled
  /\ start' = "register" /\ sched' = TRUE /\ gocron' = "idle"
  /\ UNCHANGED <<config, stops, jobs, cleanupJob, stopping, drained, call, task, home, gate, status>>

\* registerEcosystemJobs, registerCleanupJob and registerRefreshJob, one job at a time.
registerJobSpec(j) ==
  /\ start = "register" /\ j \notin jobs
  /\ j = SharedCleanup => config.clean
  /\ jobs' = jobs \cup {j}
  /\ cleanupJob' = (cleanupJob \/ j = SharedCleanup)
  /\ UNCHANGED <<config, start, stops, sched, gocron, stopping, drained, call, task, home, gate, status>>

\* A registration fails: Start ends with Stop on its own context.
RegisterFails ==
  /\ start = "register"
  /\ start' = "failed"
  /\ stops' = [stops EXCEPT !["start"] = "shutdown"]
  /\ stopping' = TRUE
  /\ UNCHANGED <<config, sched, gocron, jobs, cleanupJob, drained, call, task, home, gate, status>>

StartScheduler ==
  /\ start = "register"
  /\ start' = "ended" /\ gocron' = "on"
  /\ UNCHANGED <<config, stops, sched, jobs, cleanupJob, stopping, drained, call, task, home, gate, status>>

-----------------------------------------------------------------------------
(* An administrator's call.                                                *)

Move(c, pc) == call' = [call EXCEPT ![c] = pc]

\* TriggerCleanup reads r.cleanupJob; the other calls read r.scheduler.
TriggerCleanup(c) ==
  /\ c \in Cleanups /\ call[c] = "new"
  /\ Move(c, IF cleanupJob THEN "run now" ELSE "submit")
  /\ UNCHANGED <<config, start, stops, sched, gocron, jobs, cleanupJob, stopping, drained, task, home, gate, status>>

\* RunNow on the field read again: nil is a panic; gocron queues the recurring
\* job unless an instance of it is there already, and fails once it shuts down.
RunNow(c) ==
  /\ call[c] = "run now"
  /\ \/ /\ ~ cleanupJob /\ Move(c, "panic") /\ UNCHANGED task
     \/ /\ cleanupJob /\ gocron \in {"idle", "on"}
        /\ Move(c, "returned")
        /\ task' = IF gocron = "on" /\ task[SharedCleanup] \in {"none", "ended"}
                   THEN [task EXCEPT ![SharedCleanup] = "queued"] ELSE task
     \/ /\ cleanupJob /\ gocron \in {"closing", "closed"}
        /\ Move(c, "refused") /\ UNCHANGED task
  /\ UNCHANGED <<config, start, stops, sched, gocron, jobs, cleanupJob, stopping, drained, home, gate, status>>

\* The probe target is found among the runtime's upstreams or the call fails.
findProbeTarget(c) ==
  /\ c \in Probes /\ call[c] = "new"
  /\ \E pc \in {"submit", "refused"} : Move(c, pc)
  /\ UNCHANGED <<config, start, stops, sched, gocron, jobs, cleanupJob, stopping, drained, task, home, gate, status>>

\* CreateSyncJob validates the target, then keeps the job as queued.
CreateSyncJob(c) ==
  /\ c \in Syncs /\ call[c] = "new"
  /\ \/ Move(c, "refused") /\ UNCHANGED status
     \/ Move(c, "submit") /\ status' = [status EXCEPT ![c] = "queued"]
  /\ UNCHANGED <<config, start, stops, sched, gocron, jobs, cleanupJob, stopping, drained, task, home, gate>>

\* The task becomes a goroutine counted by the WaitGroup, under the mutex
\* that also guards the stopping flag.
MutantStartBackground(c) ==
  /\ task' = [task EXCEPT ![c] = "begin"]
  /\ home' = [home EXCEPT ![c] = "background"]
  /\ Move(c, "returned")
startBackground(c) ==
  \/ /\ stopping /\ Move(c, "refused") /\ UNCHANGED <<task, home>>
  \/ /\ ~ stopping
     /\ task' = [task EXCEPT ![c] = "begin"]
     /\ home' = [home EXCEPT ![c] = "background"]
     /\ Move(c, "returned")

\* r.scheduler is nil: cleanup and probe run in the background.
runBackground(c) ==
  /\ c \in Cleanups \cup Probes /\ call[c] = "submit" /\ ~ sched
  /\ startBackground(c)
  /\ UNCHANGED <<config, start, stops, sched, gocron, jobs, cleanupJob, stopping, drained, gate, status>>

\* r.scheduler is nil: a synchronisation is marked failed instead.
MarkSyncJobFailed(c) ==
  /\ c \in Syncs /\ call[c] = "submit" /\ ~ sched
  /\ status' = [status EXCEPT ![c] = "failed"]
  /\ Move(c, "refused")
  /\ UNCHANGED <<config, start, stops, sched, gocron, jobs, cleanupJob, stopping, drained, task, home, gate>>

\* r.scheduler is not nil: it is read again for NewJob.
runAsync(c) ==
  /\ call[c] = "submit" /\ sched
  /\ Move(c, "register")
  /\ UNCHANGED <<config, start, stops, sched, gocron, jobs, cleanupJob, stopping, drained, task, home, gate, status>>

\* r.scheduler was not nil when it was tested: gocron takes the job, or refuses
\* it (shutting down, or any error), or the field was cleared and NewJob on it panics.
registerImmediateJob(c) ==
  /\ call[c] = "register"
  /\ \/ /\ sched /\ gocron \in {"idle", "on"}
        /\ task' = [task EXCEPT ![c] = "queued"]
        /\ Move(c, "returned") /\ UNCHANGED status
     \/ /\ sched
        /\ Move(c, "refused")
        /\ status' = IF c \in Syncs THEN [status EXCEPT ![c] = "failed"] ELSE status
        /\ UNCHANGED task
     \/ /\ ~ sched
        /\ Move(c, "panic") /\ UNCHANGED <<task, status>>
  /\ UNCHANGED <<config, start, stops, sched, gocron, jobs, cleanupJob, stopping, drained, home, gate>>

-----------------------------------------------------------------------------
(* Tasks.                                                                  *)

\* gocron starts an accepted job, or a recurring one that is due.
Launch(t) ==
  /\ gocron = "on"
  /\ \/ task[t] = "queued"
     \/ t \in jobs /\ task[t] = "none"
  /\ task' = [task EXCEPT ![t] = "begin"]
  /\ UNCHANGED <<config, start, stops, sched, gocron, jobs, cleanupJob, stopping, drained, call, home, gate, status>>

IsCleanup(t) == t \in Cleanups \cup {SharedCleanup}

Finish(t) == task' = [task EXCEPT ![t] = "ended"]

\* The shared cleanup takes the gate or reports that one is running already.
runSharedCleanup(t) ==
  \/ gate = {} /\ task' = [task EXCEPT ![t] = "cleaning"] /\ gate' = {t}
  \/ gate # {} /\ Finish(t) /\ UNCHANGED gate

\* Without a shared cleanup service every ecosystem's cleaner runs in turn.
runCleanup(t) ==
  /\ IsCleanup(t) /\ task[t] = "begin"
  /\ \/ config.clean /\ runSharedCleanup(t)
     \/ ~ config.clean /\ task' = [task EXCEPT ![t] = "work"] /\ UNCHANGED gate
     \/ Finish(t) /\ UNCHANGED gate                    \* the context has ended
  /\ UNCHANGED <<config, start, stops, sched, gocron, jobs, cleanupJob, stopping, drained, call, home, status>>

\* The pass ends, with a report or an error; the gate is given back.
CleanupEnds(t) ==
  /\ task[t] = "cleaning"
  /\ Finish(t) /\ gate' = gate \ {t}
  /\ UNCHANGED <<config, start, stops, sched, gocron, jobs, cleanupJob, stopping, drained, call, home, status>>

\* A recurring job or a probe waits for its jitter, then runs; a canceled wait ends it.
runJobSpec(t) ==
  /\ t \in Specs \cup Probes /\ task[t] = "begin"
  /\ task' = [task EXCEPT ![t] = "work"] \/ Finish(t)
  /\ UNCHANGED <<config, start, stops, sched, gocron, jobs, cleanupJob, stopping, drained, call, home, gate, status>>

\* RunSyncJob: a context that has ended leaves the job queued.
RunSyncJob(t) ==
  /\ t \in Syncs /\ task[t] = "begin"
  /\ \/ Finish(t) /\ gocron # "on" /\ UNCHANGED status
     \/ /\ task' = [task EXCEPT ![t] = "work"]
        /\ status' = [status EXCEPT ![t] = "running"]
  /\ UNCHANGED <<config, start, stops, sched, gocron, jobs, cleanupJob, stopping, drained, call, home, gate>>

\* The work ends: the synchronisation within its timeout, the rest by its own ends.
MutantWorkEnds(t) ==
  /\ task[t] = "work" /\ Finish(t)
  /\ UNCHANGED <<config, start, stops, sched, gocron, jobs, cleanupJob, stopping, drained, call, home, gate, status>>
WorkEnds(t) ==
  /\ task[t] = "work" /\ Finish(t)
  /\ IF t \in Syncs THEN \E s \in Terminal : status' = [status EXCEPT ![t] = s]
     ELSE UNCHANGED status
  /\ UNCHANGED <<config, start, stops, sched, gocron, jobs, cleanupJob, stopping, drained, call, home, gate>>

-----------------------------------------------------------------------------
(* Stop.                                                                   *)

beginBackgroundStop(s) ==
  /\ s = "app" /\ start \in {"ended", "failed"} /\ stops[s] = "no"
  /\ stops["start"] \notin {"shutdown", "wait"}
  /\ stopping' = TRUE
  /\ stops' = [stops EXCEPT ![s] = "shutdown"]
  /\ UNCHANGED <<config, start, sched, gocron, jobs, cleanupJob, drained, call, task, home, gate, status>>

\* The goroutine that waits for the WaitGroup closes backgroundDone.
CloseDone ==
  /\ stopping /\ ~ drained
  /\ \A t \in Tasks : home[t] = "background" => task[t] \notin Active
  /\ drained' = TRUE
  /\ UNCHANGED <<config, start, stops, sched, gocron, jobs, cleanupJob, stopping, call, task, home, gate, status>>

\* ShutdownWithContext begins: gocron starts nothing any more.
ShutdownBegins(s) ==
  /\ stops[s] = "shutdown" /\ sched /\ gocron \in {"idle", "on"}
  /\ gocron' = "closing"
  /\ UNCHANGED <<config, start, stops, sched, jobs, cleanupJob, stopping, drained, call, task, home, gate, status>>

Held == \E t \in Tasks : home[t] = "gocron" /\ task[t] \in Active

\* It returns: everything has ended, or an error after the timeout.  The fields
\* are cleared either way; Stop then waits for the background.
ShutdownReturns(s) ==
  /\ stops[s] = "shutdown"
  /\ sched => gocron = "closing"
  /\ \/ ~ (sched /\ Held) /\ stops' = [stops EXCEPT ![s] = "wait"]
     \/ sched /\ stops' = [stops EXCEPT ![s] = "error"]
  /\ sched' = FALSE /\ cleanupJob' = FALSE
  /\ gocron' = IF sched THEN "closed" ELSE gocron
  /\ UNCHANGED <<config, start, jobs, stopping, drained, call, task, home, gate, status>>

waitForBackground(s) ==
  /\ stops[s] = "wait"
  /\ drained /\ stops' = [stops EXCEPT ![s] = "done"]
  /\ UNCHANGED <<config, start, sched, gocron, jobs, cleanupJob, stopping, drained, call, task, home, gate, status>>

\* The caller's context ends first.
WaitEnds(s) ==
  /\ stops[s] = "wait"
  /\ stops' = [stops EXCEPT ![s] = "error"]
  /\ UNCHANGED <<config, start, sched, gocron, jobs, cleanupJob, stopping, drained, call, task, home, gate, status>>

-----------------------------------------------------------------------------
Quiet ==
  /\ \A s \in Stoppers : stops[s] \notin {"shutdown", "wait"}
  /\ \A t \in Tasks : task[t] \notin Active

Idle == Quiet /\ stops["app"] # "no" /\ UNCHANGED vars

Progress ==
  \/ startManualScheduler \/ NewScheduler \/ StartScheduler \/ CloseDone
  \/ \E c \in Callers : RunNow(c) \/ runBackground(c) \/ MarkSyncJobFailed(c) \/ runAsync(c) \/ registerImmediateJob(c)
  \/ \E t \in Tasks : Launch(t) \/ runCleanup(t) \/ CleanupEnds(t) \/ runJobSpec(t) \/ RunSyncJob(t) \/ WorkEnds(t)
  \/ \E s \in Stoppers : ShutdownBegins(s) \/ ShutdownReturns(s) \/ waitForBackground(s)

Next ==
  \/ Progress \/ Idle \/ schedulerOptions \/ RegisterFails
  \/ \E j \in Recurring : registerJobSpec(j)
  \/ \E c \in Callers : TriggerCleanup(c) \/ findProbeTarget(c) \/ CreateSyncJob(c)
  \/ \E s \in Stoppers : beginBackgroundStop(s) \/ WaitEnds(s)

Spec == Init /\ [][Next]_vars /\ WF_vars(Progress)

-----------------------------------------------------------------------------
\* Stop that returned no error left nothing behind: no task of the scheduler
\* runs, on gocron or in the background, and none can start any more.
StopIsFinal ==
  \A s \in Stoppers : stops[s] = "done" => \A t \in Tasks : task[t] \notin Active

\* One shared cleanup at a time, whoever started it: the nightly job, RunNow,
\* an immediate job or a background task.
CleanupAlone == Cardinality({t \in Tasks : task[t] = "cleaning"}) <= 1

\* Both: what Stop and RunNow may count on.
TasksContained == StopIsFinal /\ CleanupAlone

\* A synchronisation job that began to run is settled in the end, and Stop returns.
Settled ==
  /\ \A c \in Syncs : status[c] # "running"
  /\ \A s \in Stoppers : stops[s] \in {"no", "done", "error"}
=============================================================================
