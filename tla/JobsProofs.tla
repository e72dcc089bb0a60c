----------------------------- MODULE JobsProofs -----------------------------
(* The background work for every number of jobs, calls, pulls and instances:  *)
(* what a Stop without error of the scheduler leaves behind and the cleanup   *)
(* gate, then the runs of container prefetch, of dependency prefetch and the  *)
(* refresh intents.                                                           *)
EXTENDS Jobs, FiniteSetTheorems, TLAPS

Still(where) == \A t \in Tasks : home[t] = where => task[t] \notin Active

(* Start and Stop: a scheduler that runs was started, and one that is gone    *)
(* was never started or was shut down by the application's Stop.              *)
Lifecycle ==
    /\ \A s \in Stoppers : stops[s] # "no" => start \in {"ended", "failed"} /\ stopping
    /\ stops["start"] # "no" => start = "failed"
    /\ sched <=> gocron \in {"idle", "on", "closing"}
    /\ start = "new" => gocron = "none"
    /\ start = "register" => gocron = "idle"
    /\ gocron = "on" => start = "ended"
    /\ start = "ended" /\ gocron = "closed" => stops["app"] \in {"wait", "done", "error"}

(* Calls and tasks: a call has a task only once it has returned, and a        *)
(* background task never goes through gocron's queue.                         *)
Homes ==
    /\ jobs \subseteq Recurring
    /\ \A c \in Callers : call[c] # "returned" => task[c] = "none"
    /\ \A t \in Tasks : home[t] = "background" => t \in Callers /\ task[t] \notin {"none", "queued"}

(* What the steps of Stop have established.                                   *)
Stopped ==
    /\ start # "ended" \/ gocron = "none" => Still("gocron")
    /\ \A s \in Stoppers : stops[s] \in {"wait", "done"} => ~sched /\ Still("gocron")
    /\ drained => stopping /\ Still("background")
    /\ \A s \in Stoppers : stops[s] = "done" => drained

(* The gate names the task that cleans.                                       *)
Gated ==
    /\ \A t \in Tasks : task[t] = "cleaning" <=> t \in gate
    /\ \A t, u \in gate : t = u

Calls == {"new", "run now", "submit", "register", "returned", "refused", "panic"}
States == {"none", "queued", "ended"} \cup Active

Inv == TypeOK /\ Lifecycle /\ Homes /\ Stopped /\ Gated

(* Nothing runs before Start. *)
LEMMA InvInit == Init => Inv
<1> SUFFICES ASSUME Init PROVE Inv
    OBVIOUS
<1> USE DEF Init
<1>1. TypeOK
    BY DEF TypeOK, Stoppers, Active, Terminal
<1>2. Lifecycle
    BY DEF Lifecycle, Stoppers
<1>3. Homes
    BY DEF Homes, Tasks
<1>4. Stopped
    BY DEF Stopped, Still, Stoppers, Tasks, Active
<1>5. Gated
    BY DEF Gated, Tasks
<1> QED BY <1>1, <1>2, <1>3, <1>4, <1>5 DEF Inv

(* Steps that move no task. *)
LEMMA StartKeeps ==
    ASSUME Inv, startManualScheduler \/ schedulerOptions \/ NewScheduler \/ RegisterFails \/ StartScheduler
                \/ \E j \in Recurring : registerJobSpec(j)
    PROVE  Inv'
<1>0. UNCHANGED <<call, task, home, gate, status, drained, config>>
    BY DEF startManualScheduler, schedulerOptions, NewScheduler, RegisterFails, StartScheduler, registerJobSpec
<1>1. TypeOK'
    BY DEF Inv, TypeOK, Stoppers, startManualScheduler, schedulerOptions, NewScheduler, RegisterFails,
           StartScheduler, registerJobSpec
<1>2. Lifecycle'
    <2> USE DEF Inv, TypeOK, Lifecycle, Stoppers
    <2>1. CASE startManualScheduler
        <3>1. start = "new" /\ start' = "ended" /\ stops' = stops /\ stopping' = stopping
            BY <2>1 DEF startManualScheduler
        <3>2. (sched' /\ gocron' = "on") \/ (~sched' /\ gocron' = "none")
            BY <2>1 DEF startManualScheduler
        <3> QED BY <3>1, <3>2
    <2>2. CASE schedulerOptions
        BY <2>2 DEF schedulerOptions
    <2>3. CASE NewScheduler
        BY <2>3 DEF NewScheduler
    <2>4. CASE RegisterFails
        BY <2>4 DEF RegisterFails
    <2>5. CASE StartScheduler
        BY <2>5 DEF StartScheduler
    <2>6. CASE \E j \in Recurring : registerJobSpec(j)
        <3>1. UNCHANGED <<start, stops, sched, gocron, stopping>>
            BY <2>6 DEF registerJobSpec
        <3> QED BY <3>1
    <2> QED BY <2>1, <2>2, <2>3, <2>4, <2>5, <2>6
<1>3. Homes'
    BY <1>0, <1>1 DEF Inv, TypeOK, Homes
<1>4. Stopped'
    <2>1. Still("gocron")' = Still("gocron") /\ Still("background")' = Still("background")
        BY <1>0 DEF Still
    <2>2. /\ start' # "ended" \/ gocron' = "none" => start # "ended"
          /\ sched' => sched \/ start = "new"
          /\ stopping => stopping'
          /\ \A s \in Stoppers : stops'[s] \in {"wait", "done"} => stops'[s] = stops[s]
        <3>1. CASE RegisterFails
            BY <3>1 DEF RegisterFails, Inv, TypeOK, Stoppers
        <3>2. CASE ~RegisterFails
            <4>1. /\ stops' = stops /\ stopping' = stopping
                  /\ start \in {"new", "register"}
                  /\ sched' = sched \/ start = "new"
                BY <3>2 DEF startManualScheduler, schedulerOptions, NewScheduler, StartScheduler, registerJobSpec
            <4> QED BY <4>1
        <3> QED BY <3>1, <3>2
    <2> QED BY <1>0, <2>1, <2>2 DEF Inv, Stopped, Lifecycle
<1>5. Gated'
    BY <1>0 DEF Inv, Gated
<1> QED BY <1>1, <1>2, <1>3, <1>4, <1>5 DEF Inv

(* Steps of a call that give nothing to run. *)
LEMMA CallKeeps ==
    ASSUME Inv, NEW c \in Callers,
           TriggerCleanup(c) \/ findProbeTarget(c) \/ CreateSyncJob(c) \/ MarkSyncJobFailed(c) \/ runAsync(c)
    PROVE  Inv'
<1>0. UNCHANGED <<config, start, stops, sched, gocron, jobs, cleanupJob, stopping, drained, task, home, gate>>
    BY DEF TriggerCleanup, findProbeTarget, CreateSyncJob, MarkSyncJobFailed, runAsync
<1>1. call[c] # "returned" /\ \E pc \in {"run now", "submit", "register", "refused"} : Move(c, pc)
    BY DEF TriggerCleanup, findProbeTarget, CreateSyncJob, MarkSyncJobFailed, runAsync
<1>2. status' \in [Syncs -> {"none", "queued", "running"} \cup Terminal]
    BY DEF Inv, TypeOK, Terminal, TriggerCleanup, findProbeTarget, CreateSyncJob, MarkSyncJobFailed, runAsync
<1>3. TypeOK'
    <2>1. call' \in [Callers -> Calls]
        BY <1>1 DEF Inv, TypeOK, Move, Calls
    <2> QED BY <1>0, <1>2, <2>1 DEF Inv, TypeOK, Calls
<1>4. Homes'
    BY <1>0, <1>1 DEF Inv, TypeOK, Homes, Move
<1>5. Lifecycle' /\ Stopped' /\ Gated'
    BY <1>0 DEF Inv, Lifecycle, Stopped, Still, Gated
<1> QED BY <1>3, <1>4, <1>5 DEF Inv

(* A task that was not running is queued or refused. *)
LEMMA QueueKeeps ==
    ASSUME Inv, NEW c \in Callers, RunNow(c) \/ registerImmediateJob(c)
    PROVE  Inv'
<1>0. UNCHANGED <<config, start, stops, sched, gocron, jobs, cleanupJob, stopping, drained, home, gate>>
    BY DEF RunNow, registerImmediateJob
<1>1. call[c] # "returned" /\ \E pc \in {"returned", "refused", "panic"} : Move(c, pc)
    BY DEF RunNow, registerImmediateJob
<1>2. /\ task' \in [Tasks -> States]
      /\ \A t \in Tasks : \/ task'[t] = task[t]
                          \/ /\ task'[t] = "queued" /\ task[t] \in {"none", "ended"} /\ home[t] = "gocron"
                             /\ t \in Callers => t = c /\ call'[c] = "returned"
    <2>0. task \in [Tasks -> States]
        BY DEF Inv, TypeOK, States
    <2>1. CASE RunNow(c)
        <3>1. SharedCleanup \in Tasks /\ SharedCleanup \notin Callers
            BY SchedulerAssumption DEF Tasks, Recurring
        <3>2. home[SharedCleanup] = "gocron"
            BY <3>1 DEF Inv, TypeOK, Homes
        <3>3. CASE task' = task
            BY <2>0, <3>3
        <3>4. CASE task[SharedCleanup] \in {"none", "ended"} /\ task' = [task EXCEPT ![SharedCleanup] = "queued"]
            BY <2>0, <3>1, <3>2, <3>4 DEF States
        <3> QED BY <2>1, <3>3, <3>4 DEF RunNow
    <2>2. CASE registerImmediateJob(c)
        <3>1. c \in Tasks /\ task[c] = "none" /\ home[c] = "gocron"
            BY <1>1 DEF Tasks, Inv, TypeOK, Homes
        <3>2. CASE task' = task
            BY <2>0, <3>2
        <3>3. CASE task' = [task EXCEPT ![c] = "queued"] /\ Move(c, "returned")
            <4>1. call'[c] = "returned"
                BY <3>3 DEF Move, Inv, TypeOK
            <4> QED BY <2>0, <3>1, <3>3, <4>1 DEF States
        <3> QED BY <2>2, <3>2, <3>3 DEF registerImmediateJob
    <2> QED BY <2>1, <2>2
<1>3. status' \in [Syncs -> {"none", "queued", "running"} \cup Terminal]
    BY DEF Inv, TypeOK, Terminal, RunNow, registerImmediateJob
<1>4. TypeOK'
    <2>1. call' \in [Callers -> Calls]
        BY <1>1 DEF Inv, TypeOK, Move, Calls
    <2> QED BY <1>0, <1>2, <1>3, <2>1 DEF Inv, TypeOK, Calls, States
<1>5. Homes'
    <2>1. \A d \in Callers : d \in Tasks /\ (d # c => call'[d] = call[d])
        BY <1>1 DEF Inv, TypeOK, Tasks, Move
    <2> QED BY <1>0, <1>1, <1>2, <2>1 DEF Inv, Homes
<1>6. Lifecycle'
    BY <1>0 DEF Inv, Lifecycle
<1>7. \A t \in Tasks : /\ task'[t] \in Active => task[t] \in Active
                       /\ task'[t] = "cleaning" <=> task[t] = "cleaning"
    BY <1>2 DEF Active
<1>8. Stopped' /\ Gated'
    BY <1>0, <1>7 DEF Inv, Stopped, Still, Gated
<1> QED BY <1>4, <1>5, <1>6, <1>8 DEF Inv

(* A background task starts, or is refused once Stop has begun. *)
LEMMA BackgroundKeeps ==
    ASSUME Inv, NEW c \in Callers, runBackground(c)
    PROVE  Inv'
<1>0. UNCHANGED <<config, start, stops, sched, gocron, jobs, cleanupJob, stopping, drained, gate, status>>
    BY DEF runBackground
<1>1. c \in Tasks /\ call[c] = "submit" /\ task[c] = "none"
    BY DEF runBackground, Inv, Homes, Tasks
<1>2. CASE stopping /\ Move(c, "refused") /\ UNCHANGED <<task, home>>
    <2>1. call' \in [Callers -> Calls] /\ \A d \in Callers : call'[d] = "returned" <=> call[d] = "returned"
        BY <1>1, <1>2 DEF Inv, TypeOK, Move, Calls
    <2>2. TypeOK'
        BY <1>0, <1>2, <2>1 DEF Inv, TypeOK, Calls
    <2>3. Homes'
        BY <1>0, <1>2, <2>1 DEF Inv, Homes
    <2>4. Lifecycle' /\ Stopped' /\ Gated'
        BY <1>0, <1>2 DEF Inv, Lifecycle, Stopped, Still, Gated
    <2> QED BY <2>2, <2>3, <2>4 DEF Inv
<1>3. CASE /\ ~stopping /\ Move(c, "returned")
           /\ task' = [task EXCEPT ![c] = "begin"] /\ home' = [home EXCEPT ![c] = "background"]
    <2>1. call' \in [Callers -> Calls] /\ call'[c] = "returned" /\ \A d \in Callers : d # c => call'[d] = call[d]
        BY <1>3 DEF Inv, TypeOK, Move, Calls
    <2>2. /\ task' \in [Tasks -> States] /\ home' \in [Tasks -> {"gocron", "background"}]
          /\ task'[c] = "begin" /\ home'[c] = "background"
          /\ \A t \in Tasks : t # c => task'[t] = task[t] /\ home'[t] = home[t]
        BY <1>1, <1>3 DEF Inv, TypeOK, States, Active
    <2>3. TypeOK'
        BY <1>0, <2>1, <2>2 DEF Inv, TypeOK, Calls, States
    <2>4. Homes'
        BY <1>0, <2>1, <2>2 DEF Inv, Homes, Tasks
    <2>5. Lifecycle'
        BY <1>0 DEF Inv, Lifecycle
    <2>6. Stopped'
        <3>1. Still("gocron") => Still("gocron")'
            BY <2>2 DEF Still
        <3> QED BY <1>0, <1>3, <3>1 DEF Inv, Stopped, Lifecycle
    <2>7. Gated'
        BY <1>0, <1>1, <2>2 DEF Inv, Gated
    <2> QED BY <2>3, <2>4, <2>5, <2>6, <2>7 DEF Inv
<1> QED BY <1>2, <1>3 DEF runBackground, startBackground

(* gocron starts a task, which needs a scheduler that runs. *)
LEMMA LaunchKeeps ==
    ASSUME Inv, NEW t \in Tasks, Launch(t)
    PROVE  Inv'
<1>0. UNCHANGED <<config, start, stops, sched, gocron, jobs, cleanupJob, stopping, drained, call, home, gate, status>>
    BY DEF Launch
<1>1. gocron = "on" /\ task[t] \in {"none", "queued"} /\ task' = [task EXCEPT ![t] = "begin"]
    BY DEF Launch
<1>2. home[t] = "gocron"
    BY <1>1 DEF Inv, TypeOK, Homes
<1>3. t \in Callers => call[t] = "returned"
    BY SchedulerAssumption DEF Launch, Inv, Homes
<1>4. /\ task' \in [Tasks -> States] /\ task'[t] = "begin"
      /\ \A u \in Tasks : u # t => task'[u] = task[u]
    BY <1>1 DEF Inv, TypeOK, States, Active
<1>5. TypeOK'
    BY <1>0, <1>4 DEF Inv, TypeOK, States
<1>6. Homes'
    BY <1>0, <1>2, <1>3, <1>4 DEF Inv, Homes, Tasks
<1>7. Lifecycle'
    BY <1>0 DEF Inv, Lifecycle
<1>8. Stopped'
    <2>1. start = "ended" /\ sched
        BY <1>1 DEF Inv, Lifecycle
    <2>2. Still("background") => Still("background")'
        BY <1>0, <1>2, <1>4 DEF Still
    <2> QED BY <1>0, <1>1, <2>1, <2>2 DEF Inv, Stopped
<1>9. Gated'
    BY <1>0, <1>1, <1>4 DEF Inv, Gated
<1> QED BY <1>5, <1>6, <1>7, <1>8, <1>9 DEF Inv

(* A running task goes on or ends. *)
LEMMA TaskKeeps ==
    ASSUME Inv, NEW t \in Tasks, runCleanup(t) \/ CleanupEnds(t) \/ runJobSpec(t) \/ RunSyncJob(t) \/ WorkEnds(t)
    PROVE  Inv'
<1>0. UNCHANGED <<config, start, stops, sched, gocron, jobs, cleanupJob, stopping, drained, call, home>>
    BY DEF runCleanup, CleanupEnds, runJobSpec, RunSyncJob, WorkEnds
<1>1. /\ task[t] \in Active
      /\ \/ task[t] = "begin" /\ gate = {} /\ gate' = {t} /\ task' = [task EXCEPT ![t] = "cleaning"]
         \/ task[t] = "cleaning" /\ gate' = gate \ {t} /\ task' = [task EXCEPT ![t] = "ended"]
         \/ /\ task[t] # "cleaning" /\ gate' = gate
            /\ task' = [task EXCEPT ![t] = "work"] \/ task' = [task EXCEPT ![t] = "ended"]
    BY DEF runCleanup, runSharedCleanup, CleanupEnds, runJobSpec, RunSyncJob, WorkEnds, Finish, Active
<1>2. /\ task' \in [Tasks -> States] /\ task'[t] \in {"cleaning", "work", "ended"}
      /\ \A u \in Tasks : u # t => task'[u] = task[u]
    BY <1>1 DEF Inv, TypeOK, States, Active
<1>3. status' \in [Syncs -> {"none", "queued", "running"} \cup Terminal]
    BY DEF Inv, TypeOK, Terminal, runCleanup, CleanupEnds, runJobSpec, RunSyncJob, WorkEnds
<1>4. TypeOK'
    BY <1>0, <1>1, <1>2, <1>3, ZenonT(40) DEF Inv, TypeOK, States
<1>5. Homes'
    BY <1>0, <1>1, <1>2 DEF Inv, Homes, Tasks, Active
<1>6. Lifecycle'
    BY <1>0 DEF Inv, Lifecycle
<1>7. Stopped'
    <2>1. \A where \in {"gocron", "background"} : Still(where) => Still(where)'
        BY <1>0, <1>1, <1>2 DEF Still
    <2> QED BY <1>0, <2>1 DEF Inv, Stopped
<1>8. Gated'
    <2>1. CASE task[t] = "begin" /\ gate = {} /\ gate' = {t} /\ task' = [task EXCEPT ![t] = "cleaning"]
        BY <1>2, <2>1 DEF Inv, TypeOK, Gated
    <2>2. CASE task[t] = "cleaning" /\ gate' = gate \ {t} /\ task' = [task EXCEPT ![t] = "ended"]
        <3>1. task'[t] = "ended"
            BY <2>2 DEF Inv, TypeOK
        <3>2. \A u \in Tasks : u \in gate' <=> u \in gate /\ u # t
            BY <2>2
        <3> QED BY <1>2, <2>2, <3>1, <3>2 DEF Inv, Gated
    <2>3. CASE /\ task[t] # "cleaning" /\ gate' = gate
               /\ task' = [task EXCEPT ![t] = "work"] \/ task' = [task EXCEPT ![t] = "ended"]
        <3>1. task'[t] \in {"work", "ended"}
            BY <2>3 DEF Inv, TypeOK
        <3> QED BY <1>2, <2>3, <3>1 DEF Inv, Gated
    <2> QED BY <1>1, <2>1, <2>2, <2>3
<1> QED BY <1>4, <1>5, <1>6, <1>7, <1>8 DEF Inv

(* The steps of Stop. *)
LEMMA StopKeeps ==
    ASSUME Inv, \/ CloseDone
                \/ \E s \in Stoppers : \/ beginBackgroundStop(s) \/ ShutdownBegins(s) \/ ShutdownReturns(s)
                                      \/ waitForBackground(s) \/ WaitEnds(s)
    PROVE  Inv'
<1>0. UNCHANGED <<config, start, jobs, call, task, home, gate, status>>
    BY DEF CloseDone, beginBackgroundStop, ShutdownBegins, ShutdownReturns, waitForBackground, WaitEnds
<1>1. Homes' /\ Gated'
    BY <1>0 DEF Inv, Homes, Gated
<1>2. \A where \in {"gocron", "background"} : Still(where)' = Still(where)
    BY <1>0 DEF Still
<1>3. CASE CloseDone
    <2>1. /\ UNCHANGED <<stops, sched, gocron, cleanupJob, stopping>> /\ drained' = TRUE
          /\ stopping /\ Still("background")
        BY <1>3 DEF CloseDone, Still
    <2>2. TypeOK'
        BY <1>0, <2>1 DEF Inv, TypeOK
    <2>3. Lifecycle' /\ Stopped'
        BY <1>0, <1>2, <2>1 DEF Inv, Lifecycle, Stopped
    <2> QED BY <1>1, <2>2, <2>3 DEF Inv
<1>4. ASSUME NEW s \in Stoppers, beginBackgroundStop(s) PROVE Inv'
    <2>1. /\ UNCHANGED <<sched, gocron, cleanupJob, drained>> /\ stopping' = TRUE
          /\ s = "app" /\ start \in {"ended", "failed"} /\ stops[s] = "no"
          /\ stops' = [stops EXCEPT !["app"] = "shutdown"]
        BY <1>4 DEF beginBackgroundStop
    <2>2. TypeOK'
        BY <1>0, <2>1 DEF Inv, TypeOK, Stoppers
    <2>3. stops'["app"] = "shutdown" /\ stops'["start"] = stops["start"]
        BY <2>1 DEF Inv, TypeOK, Stoppers
    <2>4. Lifecycle'
        BY <1>0, <2>1, <2>3 DEF Inv, Lifecycle, Stoppers
    <2>5. Stopped'
        BY <1>0, <1>2, <2>1, <2>3 DEF Inv, Stopped, Stoppers
    <2> QED BY <1>1, <2>2, <2>4, <2>5 DEF Inv
<1>5. ASSUME NEW s \in Stoppers, ShutdownBegins(s) PROVE Inv'
    <2>1. /\ UNCHANGED <<stops, sched, cleanupJob, stopping, drained>>
          /\ sched /\ gocron \in {"idle", "on"} /\ gocron' = "closing" /\ stops[s] = "shutdown"
        BY <1>5 DEF ShutdownBegins
    <2>2. start \in {"ended", "failed"}
        BY <2>1 DEF Inv, Lifecycle
    <2>3. TypeOK'
        BY <1>0, <2>1 DEF Inv, TypeOK
    <2>4. Lifecycle'
        BY <1>0, <2>1, <2>2 DEF Inv, Lifecycle
    <2>5. Stopped'
        BY <1>0, <1>2, <2>1 DEF Inv, Stopped
    <2> QED BY <1>1, <2>3, <2>4, <2>5 DEF Inv
<1>6. ASSUME NEW s \in Stoppers, ShutdownReturns(s) PROVE Inv'
    <2>1. /\ UNCHANGED <<stopping, drained>> /\ stops[s] = "shutdown" /\ sched' = FALSE /\ cleanupJob' = FALSE
          /\ (sched /\ gocron = "closing" /\ gocron' = "closed") \/ (~sched /\ gocron' = gocron)
          /\ \/ stops' = [stops EXCEPT ![s] = "wait"] /\ ~(sched /\ Held)
             \/ stops' = [stops EXCEPT ![s] = "error"]
        BY <1>6 DEF ShutdownReturns
    <2>2. /\ stops' \in [Stoppers -> {"no", "shutdown", "wait", "done", "error"}]
          /\ stops'[s] = "error" \/ (stops'[s] = "wait" /\ ~(sched /\ Held))
          /\ \A u \in Stoppers : u # s => stops'[u] = stops[u]
        BY <2>1 DEF Inv, TypeOK
    <2>3. start \in {"ended", "failed"} /\ stopping /\ (s = "start" => start = "failed")
        BY <2>1 DEF Inv, Lifecycle
    <2>4. gocron' \in {"none", "closed"}
        BY <2>1 DEF Inv, TypeOK, Lifecycle
    <2>5. TypeOK'
        BY <1>0, <2>1, <2>2, <2>4 DEF Inv, TypeOK
    <2>6. Lifecycle'
        <3>1. start = "ended" => s = "app"
            BY <2>3 DEF Stoppers
        <3> QED BY <1>0, <2>1, <2>2, <2>3, <2>4, <3>1 DEF Inv, Lifecycle, Stoppers
    <2>7. stops'[s] = "wait" => Still("gocron")
        <3>1. CASE sched
            BY <2>2, <3>1 DEF Held, Still
        <3>2. CASE ~sched
            <4>1. gocron = "none" \/ (gocron = "closed" /\ start # "ended")
                <5>1. gocron \in {"none", "closed"}
                    BY <3>2 DEF Inv, TypeOK, Lifecycle
                <5>2. start = "ended" /\ gocron = "closed" => FALSE
                    BY <2>1, <2>3 DEF Inv, Lifecycle, Stoppers
                <5> QED BY <5>1, <5>2
            <4> QED BY <4>1 DEF Inv, Stopped
        <3> QED BY <3>1, <3>2
    <2>8. Stopped'
        <3>1. start' # "ended" \/ gocron' = "none" => Still("gocron")
            BY <1>0, <2>1 DEF Inv, Stopped
        <3>2. \A u \in Stoppers : stops'[u] \in {"wait", "done"} => Still("gocron")
            BY <2>2, <2>7 DEF Inv, Stopped
        <3>3. \A u \in Stoppers : stops'[u] = "done" => drained
            BY <2>2 DEF Inv, Stopped
        <3> QED BY <1>2, <2>1, <3>1, <3>2, <3>3 DEF Inv, Stopped
    <2> QED BY <1>1, <2>5, <2>6, <2>8 DEF Inv
<1>7. ASSUME NEW s \in Stoppers, waitForBackground(s) \/ WaitEnds(s) PROVE Inv'
    <2>1. /\ UNCHANGED <<sched, gocron, cleanupJob, stopping, drained>> /\ stops[s] = "wait"
          /\ \/ drained /\ stops' = [stops EXCEPT ![s] = "done"]
             \/ stops' = [stops EXCEPT ![s] = "error"]
        BY <1>7 DEF waitForBackground, WaitEnds
    <2>2. /\ stops' \in [Stoppers -> {"no", "shutdown", "wait", "done", "error"}]
          /\ stops'[s] = "error" \/ (stops'[s] = "done" /\ drained)
          /\ \A u \in Stoppers : u # s => stops'[u] = stops[u]
        BY <2>1 DEF Inv, TypeOK
    <2>3. TypeOK'
        BY <1>0, <2>1, <2>2 DEF Inv, TypeOK
    <2>4. Lifecycle'
        BY <1>0, <2>1, <2>2 DEF Inv, Lifecycle, Stoppers
    <2>5. Stopped'
        <3>1. \A u \in Stoppers : /\ stops'[u] \in {"wait", "done"} => stops[u] \in {"wait", "done"}
                                 /\ stops'[u] = "done" => drained
            BY <2>1, <2>2 DEF Inv, Stopped
        <3>2. (Still("gocron") => Still("gocron")') /\ (Still("background") => Still("background")')
            BY <1>2
        <3>3. \A u \in Stoppers : stops'[u] \in {"wait", "done"} => ~sched' /\ Still("gocron")'
            BY <2>1, <3>1, <3>2 DEF Inv, Stopped
        <3>4. start' # "ended" \/ gocron' = "none" => Still("gocron")'
            BY <1>0, <2>1, <3>2 DEF Inv, Stopped
        <3>5. drained' => stopping' /\ Still("background")'
            BY <2>1, <3>2 DEF Inv, Stopped
        <3>6. \A u \in Stoppers : stops'[u] = "done" => drained'
            BY <2>1, <2>3, <3>1 DEF Inv, TypeOK
        <3> QED BY <3>3, <3>4, <3>5, <3>6 DEF Stopped
    <2> QED BY <1>1, <2>3, <2>4, <2>5 DEF Inv
<1> QED BY <1>3, <1>4, <1>5, <1>6, <1>7

(* Every behaviour keeps the invariant. *)
LEMMA Invariance == Spec => []Inv
<1>1. Inv /\ [Next]_vars => Inv'
    <2> SUFFICES ASSUME Inv, [Next]_vars PROVE Inv'
        OBVIOUS
    <2>1. CASE UNCHANGED vars
        <3> USE <2>1 DEF vars, Inv
        <3>1. TypeOK' /\ Lifecycle' /\ Homes' /\ Gated'
            BY ZenonT(40) DEF TypeOK, Lifecycle, Homes, Gated
        <3>2. Stopped'
            BY DEF Stopped, Still
        <3> QED BY <3>1, <3>2
    <2>2. CASE Next
        BY <2>1, <2>2, StartKeeps, CallKeeps, QueueKeeps, BackgroundKeeps, LaunchKeeps, TaskKeeps, StopKeeps
        DEF Next, Progress, Idle
    <2> QED BY <2>1, <2>2
<1> QED BY InvInit, <1>1, PTL DEF Spec

(* Types of the scheduler's state, for every set of calls and recurring jobs.  *)
THEOREM SchedulerTypeCorrect == Spec => []TypeOK
<1>1. Inv => TypeOK
    BY DEF Inv
<1> QED BY Invariance, <1>1, PTL

(* A Stop that returned without error left no task running, on gocron or in     *)
(* the background, and none starts afterwards; and however the shared cleanup   *)
(* is started, one pass runs at a time (Runtime.Stop, startBackground,          *)
(* runSharedCleanup).                                                           *)
THEOREM TasksAreContained == Spec => []TasksContained
<1>1. Inv => StopIsFinal
    <2> SUFFICES ASSUME Inv, NEW s \in Stoppers, stops[s] = "done", NEW t \in Tasks PROVE task[t] \notin Active
        BY DEF StopIsFinal
    <2>1. Still("gocron") /\ Still("background")
        BY DEF Inv, Stopped
    <2>2. home[t] \in {"gocron", "background"}
        BY DEF Inv, TypeOK
    <2> QED BY <2>1, <2>2 DEF Still
<1>2. Inv => CleanupAlone
    <2> SUFFICES ASSUME Inv PROVE Cardinality({t \in Tasks : task[t] = "cleaning"}) <= 1
        BY DEF CleanupAlone
    <2>1. {t \in Tasks : task[t] = "cleaning"} = gate
        BY DEF Inv, TypeOK, Gated
    <2>2. CASE gate = {}
        BY <2>1, <2>2, FS_EmptySet
    <2>3. CASE gate # {}
        <3>1. PICK t \in gate : TRUE
            BY <2>3
        <3>2. gate = {t}
            BY <3>1 DEF Inv, Gated
        <3> QED BY <2>1, <3>2, FS_Singleton
    <2> QED BY <2>2, <2>3
<1> QED BY Invariance, <1>1, <1>2, PTL DEF TasksContained

-----------------------------------------------------------------------------
(* Container prefetch: the run that can be cancelled, the budgets, the backoff. *)

(* Limits and times are natural numbers, and no job is the mark for none.       *)
PrefetchSetting ==
    /\ P!Nobody \notin PrefetchJobs
    /\ MaxTasks \in Nat /\ MaxBytes \in Nat /\ MaxSize \in Nat
    /\ FailureBackoff \in Nat /\ RetryWindow \in Nat /\ MaxTime \in Nat

RunFields == {"pc", "at", "row", "retry", "ended", "todo", "visited", "repo", "pulls", "plan",
              "failed", "tasks", "bytes"}
TaskFields == {"at", "attempt", "children", "out"}

\* One of the pulled tags is an older one of the same flavour.
Newer(pulls, t) ==
    \E r \in pulls : r.tag # t /\ r.tag.suffix = t.suffix /\ P!versionDistance(r.tag, t) > 0

\* A run keeps to its budgets, began before now and plans newer tags only.
RunKept(r) ==
    /\ DOMAIN r = RunFields
    /\ r.tasks \in Nat /\ (MaxTasks > 0 => r.tasks <= MaxTasks)
    /\ r.bytes \in Nat /\ (MaxBytes > 0 => r.bytes <= MaxBytes)
    /\ r.at \in Nat /\ r.at <= now
    /\ r.pc = "plan" => \A t \in r.plan : Newer(r.pulls, t)

RunsKept == now \in Nat /\ DOMAIN run = PrefetchJobs /\ \A j \in PrefetchJobs : RunKept(run[j])

\* The run that registered last is the one that can be cancelled while it works.
Registered ==
    /\ active \in PrefetchJobs \cup {P!Nobody} /\ last \in PrefetchJobs \cup {P!Nobody}
    /\ last # P!Nobody /\ run[last].pc \in P!Working => active = last

\* A candidate that is not to be left alone at this time.
BackoffOver(k) == k \in DOMAIN until => until[k] <= now

\* Tasks exist while their run plans or waits for them, and none is for a candidate in
\* backoff until its own outcome is stored.
WorkOf(j) ==
    /\ DOMAIN work[j] # {} => run[j].pc \in {"plan", "tasks"}
    /\ \A t \in DOMAIN work[j] :
          /\ DOMAIN work[j][t] = TaskFields /\ work[j][t].attempt \in Nat
          /\ work[j][t].at # "over" => BackoffOver(<<run[j].repo, t>>)
WorkKept == DOMAIN work = PrefetchJobs /\ \A j \in PrefetchJobs : WorkOf(j)

\* The stored outcome of a candidate in backoff still has the time of its failure.
Remembered(k) ==
    until[k] > now => k \in DOMAIN latest /\ latest[k].status # "success" /\ latest[k].retryAt >= until[k]
OutcomesKept ==
    /\ \A k \in DOMAIN latest : latest[k].attempt \in Nat /\ latest[k].retryAt \in Nat
    /\ \A k \in DOMAIN until : until[k] \in Nat /\ Remembered(k)

PrefetchInv == RunsKept /\ Registered /\ WorkKept /\ OutcomesKept

(* Before the first run there is nothing to keep. *)
LEMMA PrefetchInit == ASSUME PrefetchSetting, P!Init PROVE PrefetchInv
<1> USE DEF P!Init, P!NewRun, P!NoTasks, P!Never
<1>1. RunsKept BY DEF RunsKept, RunKept, RunFields, PrefetchSetting
<1>2. Registered BY DEF Registered
<1>3. WorkKept
    <2>1. DOMAIN << >> = {} OBVIOUS
    <2> QED BY <2>1 DEF WorkKept, WorkOf
<1>4. OutcomesKept
    <2>1. DOMAIN << >> = {} OBVIOUS
    <2> QED BY <2>1 DEF OutcomesKept
<1> QED BY <1>1, <1>2, <1>3, <1>4 DEF PrefetchInv

(* A step that changes one run alone. *)
LEMMA RunMoves ==
    ASSUME PrefetchInv, NEW j \in PrefetchJobs, NEW rec,
           run' = [run EXCEPT ![j] = rec], RunKept(rec),
           UNCHANGED <<now, work, latest, until>>,
           DOMAIN work[j] # {} => rec.pc \in {"plan", "tasks"} /\ rec.repo = run[j].repo
    PROVE RunsKept' /\ WorkKept' /\ OutcomesKept'
<1> USE DEF PrefetchInv
<1>1. run'[j] = rec /\ \A i \in PrefetchJobs \ {j} : run'[i] = run[i]
    BY DEF RunsKept
<1>2. RunsKept'
    <2>1. DOMAIN run' = PrefetchJobs BY DEF RunsKept
    <2>2. \A i \in PrefetchJobs : RunKept(run'[i]) BY <1>1 DEF RunsKept
    <2> QED BY <2>1, <2>2 DEF RunsKept, RunKept
<1>3. WorkKept'
    <2>1. \A i \in PrefetchJobs : WorkOf(i)' BY <1>1 DEF WorkKept, WorkOf, BackoffOver
    <2> QED BY <2>1 DEF WorkKept
<1>4. OutcomesKept' BY DEF OutcomesKept, Remembered
<1> QED BY <1>2, <1>3, <1>4

(* ... and keeps what is registered, when no run begins to work. *)
LEMMA RunMovesQuietly ==
    ASSUME PrefetchSetting, PrefetchInv, NEW j \in PrefetchJobs, NEW rec,
           run' = [run EXCEPT ![j] = rec], RunKept(rec),
           UNCHANGED <<now, work, latest, until, active, last>>,
           DOMAIN work[j] # {} => rec.pc \in {"plan", "tasks"} /\ rec.repo = run[j].repo,
           rec.pc \in P!Working => run[j].pc \in P!Working
    PROVE PrefetchInv'
<1>1. RunsKept' /\ WorkKept' /\ OutcomesKept' BY RunMoves
<1>2. Registered' BY DEF PrefetchInv, Registered, RunsKept, PrefetchSetting
<1> QED BY <1>1, <1>2 DEF PrefetchInv

\* What a changed run must still have.
LEMMA RunChanged ==
    ASSUME PrefetchInv, NEW j \in PrefetchJobs, NEW rec, DOMAIN rec = RunFields,
           rec.tasks = run[j].tasks, rec.bytes = run[j].bytes, rec.at = run[j].at,
           rec.pc = "plan" => (\A t \in rec.plan : Newer(rec.pulls, t))
    PROVE RunKept(rec)
BY DEF PrefetchInv, RunsKept, RunKept

(* The clock. *)
LEMMA TickKeeps == ASSUME PrefetchInv, P!Tick PROVE PrefetchInv'
<1> USE DEF P!Tick, PrefetchInv
<1>1. now \in Nat /\ now' = now + 1 BY DEF RunsKept
<1>2. RunsKept' BY <1>1 DEF RunsKept, RunKept
<1>3. Registered' BY DEF Registered
<1>4. OutcomesKept' BY <1>1 DEF OutcomesKept, Remembered
<1>5. WorkKept' BY <1>1 DEF WorkKept, WorkOf, BackoffOver, OutcomesKept
<1> QED BY <1>2, <1>3, <1>4, <1>5

(* The administrator's controls. *)
LEMMA ControlsKeep ==
    ASSUME PrefetchSetting, PrefetchInv, P!CancelPrefetch \/ P!StoreCancel \/ P!RetryPrefetch
    PROVE PrefetchInv'
<1>1. CASE run' = run
    <2>1. UNCHANGED <<now, run, work, active, latest, last, until>>
        BY <1>1 DEF P!CancelPrefetch, P!StoreCancel, P!RetryPrefetch
    <2> QED BY <2>1 DEF PrefetchInv, RunsKept, RunKept, Registered, WorkKept, WorkOf, BackoffOver, OutcomesKept, Remembered
<1>2. CASE run' # run
    <2>1. P!CancelPrefetch /\ active # P!Nobody /\ run' = [run EXCEPT ![active] = [run[active] EXCEPT !.ended = TRUE]]
        BY <1>2 DEF P!CancelPrefetch, P!StoreCancel, P!RetryPrefetch, P!Set
    <2>2. active \in PrefetchJobs BY <2>1 DEF PrefetchInv, Registered
    <2> DEFINE rec == [run[active] EXCEPT !.ended = TRUE]
    <2>3. RunKept(run[active]) BY <2>2 DEF PrefetchInv, RunsKept
    <2>4. DOMAIN rec = RunFields /\ rec.pc = run[active].pc /\ rec.repo = run[active].repo
              /\ rec.tasks = run[active].tasks /\ rec.bytes = run[active].bytes /\ rec.at = run[active].at
              /\ rec.plan = run[active].plan /\ rec.pulls = run[active].pulls
        BY <2>3 DEF RunKept, RunFields
    <2>5. RunKept(rec) BY <2>2, <2>3, <2>4, RunChanged DEF RunKept
    <2>6. UNCHANGED <<now, work, latest, until, active, last>> BY <2>1 DEF P!CancelPrefetch
    <2>7. DOMAIN work[active] # {} => rec.pc \in {"plan", "tasks"}
        BY <2>2, <2>4 DEF PrefetchInv, WorkKept, WorkOf
    <2> HIDE DEF rec
    <2> QED BY <2>1, <2>2, <2>4, <2>5, <2>6, <2>7, RunMovesQuietly DEF rec
<1> QED BY <1>1, <1>2

(* A step of a run that has no tasks, up to its registration and after its end. *)
LEMMA StepKeeps ==
    ASSUME PrefetchSetting, PrefetchInv, NEW j \in PrefetchJobs, NEW rec,
           run[j].pc \notin {"plan", "tasks"},
           run' = [run EXCEPT ![j] = rec], DOMAIN rec = RunFields,
           rec.tasks = run[j].tasks, rec.bytes = run[j].bytes, rec.at = run[j].at, rec.pc # "plan",
           UNCHANGED <<now, work, latest, until, active, last>>,
           rec.pc \in P!Working => run[j].pc \in P!Working
    PROVE PrefetchInv'
<1>1. RunKept(rec) BY RunChanged
<1>2. DOMAIN work[j] = {} BY DEF PrefetchInv, WorkKept, WorkOf
<1> QED BY <1>1, <1>2, RunMovesQuietly

LEMMA StartKeepsRuns == ASSUME PrefetchSetting, PrefetchInv, NEW j \in PrefetchJobs, P!Start(j) PROVE PrefetchInv'
<1> DEFINE rec == [P!NewRun EXCEPT !.pc = "retry", !.at = now]
<1>1. run' = [run EXCEPT ![j] = rec] BY DEF P!Start, P!Set
<1>2. RunKept(rec) /\ rec.pc = "retry"
    BY DEF PrefetchInv, RunsKept, RunKept, RunFields, P!NewRun, PrefetchSetting
<1>3. DOMAIN work[j] = {} BY DEF P!Start, PrefetchInv, WorkKept, WorkOf
<1>4. UNCHANGED <<now, work, latest, until, active, last>> BY DEF P!Start
<1>5. rec.pc \notin P!Working BY <1>2 DEF P!Working
<1> HIDE DEF rec
<1> QED BY <1>1, <1>2, <1>3, <1>4, <1>5, RunMovesQuietly

LEMMA ControlStepKeeps ==
    ASSUME PrefetchSetting, PrefetchInv, NEW j \in PrefetchJobs, NEW a \in P!Controls,
           P!FindControl(j, a) \/ P!ConsumeControl(j, a) \/ P!ControlFails(j)
    PROVE PrefetchInv'
<1> DEFINE Changed(rec) ==
        /\ run' = [run EXCEPT ![j] = rec] /\ DOMAIN rec = RunFields
        /\ rec.tasks = run[j].tasks /\ rec.bytes = run[j].bytes /\ rec.at = run[j].at
        /\ rec.pc \in {"retry", "cancel", "register", "finish"}
<1>0. DOMAIN run[j] = RunFields BY DEF PrefetchInv, RunsKept, RunKept
<1>1. run[j].pc \in {"retry", "cancel"}
    BY DEF P!FindControl, P!ConsumeControl, P!ControlFails, P!Controls
<1>2. UNCHANGED <<now, work, latest, until, active, last>>
    BY DEF P!FindControl, P!ConsumeControl, P!ControlFails
<1>3. \E rec : Changed(rec)
    <2>1. CASE P!FindControl(j, a)
        <3>1. PICK rec \in {[run[j] EXCEPT !.row = CHOOSE n \in pending[a].open : \A m \in pending[a].open : n <= m],
                            [run[j] EXCEPT !.pc = IF a = "retry" THEN "cancel" ELSE "register"]} :
                 run' = [run EXCEPT ![j] = rec]
            BY <2>1 DEF P!FindControl, P!Set, P!Move
        <3>2. Changed(rec) BY <1>0, <1>1, <3>1 DEF RunFields
        <3> QED BY <3>2
    <2>2. CASE P!ConsumeControl(j, a)
        <3>1. PICK rec \in {[run[j] EXCEPT !.pc = "cancel", !.row = 0, !.retry = TRUE],
                            [run[j] EXCEPT !.pc = "finish", !.row = 0]} : run' = [run EXCEPT ![j] = rec]
            BY <2>2 DEF P!ConsumeControl, P!Set
        <3>2. Changed(rec) BY <1>0, <3>1 DEF RunFields
        <3> QED BY <3>2
    <2>3. CASE P!ControlFails(j)
        <3>1. Changed([run[j] EXCEPT !.pc = "finish", !.row = 0, !.failed = TRUE])
            BY <1>0, <2>3 DEF P!ControlFails, P!Set, RunFields
        <3> QED BY <3>1
    <2> QED BY <2>1, <2>2, <2>3
<1>4. PICK rec : Changed(rec) BY <1>3
<1>5. rec.pc \notin P!Working /\ rec.pc # "plan" BY <1>4 DEF P!Working
<1> QED BY <1>1, <1>2, <1>4, <1>5, StepKeeps

LEMMA RegisterKeeps ==
    ASSUME PrefetchSetting, PrefetchInv, NEW j \in PrefetchJobs, P!setActiveCancel(j) PROVE PrefetchInv'
<1> DEFINE rec == [run[j] EXCEPT !.pc = "pulls"]
<1>1. run' = [run EXCEPT ![j] = rec] /\ run[j].pc = "register" BY DEF P!setActiveCancel, P!Move, P!Set
<1>2. DOMAIN rec = RunFields /\ rec.tasks = run[j].tasks /\ rec.bytes = run[j].bytes /\ rec.at = run[j].at
          /\ rec.pc = "pulls"
    BY DEF PrefetchInv, RunsKept, RunKept, RunFields
<1> HIDE DEF rec
<1>3. RunKept(rec) BY <1>2, RunChanged
<1>4. DOMAIN work[j] = {} BY <1>1 DEF PrefetchInv, WorkKept, WorkOf
<1>5. RunsKept' /\ WorkKept' /\ OutcomesKept'
    <2>1. UNCHANGED <<now, work, latest, until>> BY DEF P!setActiveCancel
    <2> QED BY <1>1, <1>3, <1>4, <2>1, RunMoves
<1>6. Registered' BY DEF P!setActiveCancel, Registered
<1> QED BY <1>5, <1>6 DEF PrefetchInv

(* The loop over the repositories. *)
LEMMA LoopKeeps ==
    ASSUME PrefetchSetting, PrefetchInv, NEW j \in PrefetchJobs,
           P!ReadPulls(j) \/ P!prefetchGroups(j) \/ P!finishRunRecord(j)
    PROVE PrefetchInv'
<1> DEFINE Changed(rec) ==
        /\ run' = [run EXCEPT ![j] = rec] /\ DOMAIN rec = RunFields
        /\ rec.tasks = run[j].tasks /\ rec.bytes = run[j].bytes /\ rec.at = run[j].at
        /\ rec.pc # "plan" /\ (rec.pc \in P!Working => run[j].pc \in P!Working)
<1>0. DOMAIN run[j] = RunFields BY DEF PrefetchInv, RunsKept, RunKept
<1>1. run[j].pc \in {"pulls", "groups", "finish"}
    BY DEF P!ReadPulls, P!prefetchGroups, P!finishRunRecord
<1>2. UNCHANGED <<now, work, latest, until, active, last>>
    BY DEF P!ReadPulls, P!prefetchGroups, P!finishRunRecord, P!store, P!clock
<1>3. \E rec : Changed(rec)
    <2>1. CASE P!ReadPulls(j)
        <3>1. CASE run' = [run EXCEPT ![j] = [run[j] EXCEPT !.pc = "finish", !.failed = TRUE]]
            <4>1. Changed([run[j] EXCEPT !.pc = "finish", !.failed = TRUE]) BY <1>0, <3>1 DEF RunFields, P!Working
            <4> QED BY <4>1
        <3>2. CASE \E repos \in SUBSET Repositories : run' = [run EXCEPT ![j] = [run[j] EXCEPT !.pc = "groups", !.todo = repos]]
            <4>1. PICK repos \in SUBSET Repositories : run' = [run EXCEPT ![j] = [run[j] EXCEPT !.pc = "groups", !.todo = repos]]
                BY <3>2
            <4>2. run[j].pc = "pulls" BY <2>1 DEF P!ReadPulls
            <4>3. Changed([run[j] EXCEPT !.pc = "groups", !.todo = repos]) BY <1>0, <4>1, <4>2 DEF RunFields, P!Working
            <4> QED BY <4>3
        <3> QED BY <2>1, <3>1, <3>2 DEF P!ReadPulls, P!Set
    <2>2. CASE P!prefetchGroups(j)
        <3>1. CASE \E r \in run[j].todo : run' = [run EXCEPT ![j] = [run[j] EXCEPT
                    !.pc = "tags", !.repo = r, !.todo = @ \ {r}, !.visited = @ + 1]]
            <4>1. PICK r \in run[j].todo : run' = [run EXCEPT ![j] = [run[j] EXCEPT
                    !.pc = "tags", !.repo = r, !.todo = @ \ {r}, !.visited = @ + 1]]
                BY <3>1
            <4>2. run[j].pc = "groups" BY <2>2 DEF P!prefetchGroups
            <4> DEFINE rec == [run[j] EXCEPT !.pc = "tags", !.repo = r, !.todo = @ \ {r}, !.visited = @ + 1]
            <4>3. Changed(rec) BY <1>0, <4>1, <4>2 DEF RunFields, P!Working
            <4> QED BY <4>3
        <3>2. CASE \E rec \in {[run[j] EXCEPT !.pc = "finish"], [run[j] EXCEPT !.pc = "finish", !.failed = TRUE]} :
                      run' = [run EXCEPT ![j] = rec]
            <4>1. PICK rec \in {[run[j] EXCEPT !.pc = "finish"], [run[j] EXCEPT !.pc = "finish", !.failed = TRUE]} :
                      run' = [run EXCEPT ![j] = rec]
                BY <3>2
            <4>2. Changed(rec) BY <1>0, <4>1 DEF RunFields, P!Working
            <4> QED BY <4>2
        <3> QED BY <2>2, <3>1, <3>2 DEF P!prefetchGroups, P!Set, P!Move
    <2>3. CASE P!finishRunRecord(j)
        <3>1. Changed([run[j] EXCEPT !.pc = "clear"])
            BY <1>0, <2>3 DEF P!finishRunRecord, P!Set, P!Move, RunFields, P!Working
        <3> QED BY <3>1
    <2> QED BY <2>1, <2>2, <2>3
<1>4. PICK rec : Changed(rec) BY <1>3
<1> QED BY <1>1, <1>2, <1>4, StepKeeps

(* A candidate is newer than a tag that was pulled. *)
LEMMA CandidatesAreNewer ==
    ASSUME NEW pulls, NEW tags, NEW plan \in P!GenerateCandidates(pulls, tags), NEW t \in plan,
           PrefetchSetting
    PROVE Newer(pulls, t)
<1>1. plan \subseteq P!accumulateCandidates(pulls, tags)
    BY DEF P!GenerateCandidates, P!sortedCandidates
<1>2. P!Sources(pulls, t) # {} BY <1>1 DEF P!accumulateCandidates
<1>3. PICK r \in pulls : P!isCompatibleCandidate(r.tag, t) BY <1>2 DEF P!Sources
<1>4. P!versionDistance(r.tag, t) > 0
    <2> HIDE DEF P!versionDistance
    <2> QED BY <1>3 DEF P!isCompatibleCandidate
<1> QED BY <1>3, <1>4 DEF Newer, P!isCompatibleCandidate

LEMMA TagsKeep ==
    ASSUME PrefetchSetting, PrefetchInv, NEW j \in PrefetchJobs, P!availableTags(j) PROVE PrefetchInv'
<1>0. DOMAIN run[j] = RunFields BY DEF PrefetchInv, RunsKept, RunKept
<1>1. run[j].pc = "tags" /\ UNCHANGED <<now, work, latest, until, active, last>>
    BY DEF P!availableTags, P!store, P!clock
<1>2. CASE run' = [run EXCEPT ![j] = [run[j] EXCEPT !.pc = "groups"]]
    <2> DEFINE rec == [run[j] EXCEPT !.pc = "groups"]
    <2>1. DOMAIN rec = RunFields /\ rec.tasks = run[j].tasks /\ rec.bytes = run[j].bytes /\ rec.at = run[j].at
              /\ rec.pc = "groups"
        BY <1>0 DEF RunFields
    <2>2. run[j].pc \in P!Working BY <1>1 DEF P!Working
    <2> HIDE DEF rec
    <2> QED BY <1>1, <1>2, <2>1, <2>2, StepKeeps DEF rec
<1>3. CASE \E pulls \in PullLists, tags \in TagLists : \E plan \in P!GenerateCandidates(pulls, tags) :
              run' = [run EXCEPT ![j] = [run[j] EXCEPT !.pc = "plan", !.pulls = pulls, !.plan = plan]]
    <2>1. PICK pulls \in PullLists, tags \in TagLists : \E plan \in P!GenerateCandidates(pulls, tags) :
              run' = [run EXCEPT ![j] = [run[j] EXCEPT !.pc = "plan", !.pulls = pulls, !.plan = plan]]
        BY <1>3
    <2>2. PICK plan \in P!GenerateCandidates(pulls, tags) :
              run' = [run EXCEPT ![j] = [run[j] EXCEPT !.pc = "plan", !.pulls = pulls, !.plan = plan]]
        BY <2>1
    <2> DEFINE rec == [run[j] EXCEPT !.pc = "plan", !.pulls = pulls, !.plan = plan]
    <2>3. \A t \in plan : Newer(pulls, t) BY CandidatesAreNewer
    <2>4. DOMAIN rec = RunFields /\ rec.tasks = run[j].tasks /\ rec.bytes = run[j].bytes /\ rec.at = run[j].at
              /\ rec.pc = "plan" /\ rec.pulls = pulls /\ rec.plan = plan
        BY <1>0 DEF RunFields
    <2> HIDE DEF rec
    <2>5. RunKept(rec) BY <2>3, <2>4, RunChanged
    <2>6. DOMAIN work[j] = {} BY <1>1 DEF PrefetchInv, WorkKept, WorkOf
    <2>7. run[j].pc \in P!Working BY <1>1 DEF P!Working
    <2>8. run' = [run EXCEPT ![j] = rec] BY <2>2 DEF rec
    <2> QED BY <1>1, <2>5, <2>6, <2>7, <2>8, RunMovesQuietly
<1> QED BY <1>2, <1>3 DEF P!availableTags, P!Set, P!Move

LEMMA RunAllKeeps ==
    ASSUME PrefetchSetting, PrefetchInv, NEW j \in PrefetchJobs, P!RunAll(j) PROVE PrefetchInv'
<1> DEFINE rec == [run[j] EXCEPT !.pc = "tasks", !.pulls = {}]
<1>1. DOMAIN rec = RunFields /\ rec.tasks = run[j].tasks /\ rec.bytes = run[j].bytes /\ rec.at = run[j].at
          /\ rec.pc = "tasks" /\ rec.repo = run[j].repo
    BY DEF PrefetchInv, RunsKept, RunKept, RunFields
<1>2. run' = [run EXCEPT ![j] = rec] /\ UNCHANGED <<now, work, latest, until, active, last>>
    BY DEF P!RunAll, P!Set, P!store, P!clock
<1>3. run[j].pc \in P!Working BY DEF P!RunAll, P!Working
<1> HIDE DEF rec
<1>4. RunKept(rec) BY <1>1, RunChanged
<1> QED BY <1>1, <1>2, <1>3, <1>4, RunMovesQuietly

LEMMA ClearKeeps ==
    ASSUME PrefetchSetting, PrefetchInv, NEW j \in PrefetchJobs, P!clearActiveCancel(j) PROVE PrefetchInv'
<1> DEFINE rec == P!NewRun
<1>1. RunKept(rec) /\ rec.pc = "idle"
    BY DEF PrefetchInv, RunsKept, RunKept, RunFields, P!NewRun, P!Never, PrefetchSetting
<1>2. run' = [run EXCEPT ![j] = rec] /\ UNCHANGED <<now, work, latest, until, last>> /\ run[j].pc = "clear"
          /\ active' = IF active = j THEN P!Nobody ELSE active
    BY DEF P!clearActiveCancel, P!Set, P!clock
<1> HIDE DEF rec
<1>3. DOMAIN work[j] = {} BY <1>2 DEF PrefetchInv, WorkKept, WorkOf
<1>4. RunsKept' /\ WorkKept' /\ OutcomesKept' BY <1>1, <1>2, <1>3, RunMoves
<1>5. Registered'
    BY <1>1, <1>2 DEF PrefetchInv, Registered, RunsKept, PrefetchSetting, P!Working
<1> QED BY <1>4, <1>5 DEF PrefetchInv

(* The plan. *)
LEMMA DueWhenPlanned ==
    ASSUME PrefetchInv, NEW j \in PrefetchJobs, NEW k, k \in DOMAIN until, until[k] > now, ~run[j].retry
    PROVE P!backoffSkip(j, k) /\ k \in DOMAIN latest /\ latest[k].status # "success" /\ latest[k].retryAt >= until[k]
<1>1. k \in DOMAIN latest /\ latest[k].status # "success" /\ latest[k].retryAt >= until[k]
    BY DEF PrefetchInv, OutcomesKept, Remembered
<1>2. latest[k].retryAt \in Nat /\ until[k] \in Nat BY <1>1 DEF PrefetchInv, OutcomesKept
<1>3. now \in Nat /\ run[j].at \in Nat /\ run[j].at <= now BY DEF PrefetchInv, RunsKept, RunKept
<1>4. latest[k].retryAt > run[j].at BY <1>1, <1>2, <1>3
<1> QED BY <1>1, <1>4 DEF P!backoffSkip, P!failedBackoffSkip

LEMMA AttemptType ==
    ASSUME PrefetchSetting, PrefetchInv, NEW k PROVE P!nextCandidateAttempt(k) \in Nat
BY DEF PrefetchSetting, PrefetchInv, OutcomesKept, P!nextCandidateAttempt, P!MaxAttempt, P!Smaller

\* A run that has planned one candidate less, with a task more or not.
LEMMA LeftRun ==
    ASSUME PrefetchInv, NEW j \in PrefetchJobs, NEW t, run[j].pc = "plan",
           NEW left, left = [run[j] EXCEPT !.plan = @ \ {t}]
    PROVE RunKept(left) /\ left.pc = "plan" /\ left.repo = run[j].repo /\ left.tasks = run[j].tasks
<1>1. RunKept(run[j]) BY DEF PrefetchInv, RunsKept
<1>2. DOMAIN left = RunFields /\ left.pc = "plan" /\ left.repo = run[j].repo /\ left.pulls = run[j].pulls
          /\ left.plan = run[j].plan \ {t} /\ left.bytes = run[j].bytes /\ left.at = run[j].at
          /\ left.tasks = run[j].tasks
    BY <1>1 DEF RunKept, RunFields
<1> QED BY <1>1, <1>2 DEF RunKept

LEMMA ReservedRun ==
    ASSUME PrefetchSetting, NEW left, RunKept(left), MaxTasks = 0 \/ left.tasks < MaxTasks,
           NEW rec, rec = [left EXCEPT !.tasks = @ + 1]
    PROVE RunKept(rec) /\ rec.pc = left.pc /\ rec.repo = left.repo
<1>1. DOMAIN rec = RunFields /\ rec.pc = left.pc /\ rec.repo = left.repo /\ rec.pulls = left.pulls
          /\ rec.plan = left.plan /\ rec.bytes = left.bytes /\ rec.at = left.at /\ rec.tasks = left.tasks + 1
    BY DEF RunKept, RunFields
<1> QED BY <1>1 DEF RunKept, PrefetchSetting

LEMMA PlanKeeps ==
    ASSUME PrefetchSetting, PrefetchInv, NEW j \in PrefetchJobs, NEW t, P!planCandidate(j, t)
    PROVE PrefetchInv'
<1> DEFINE k == <<run[j].repo, t>>
<1> DEFINE left == [run[j] EXCEPT !.plan = @ \ {t}]
<1>1. run[j].pc = "plan" /\ UNCHANGED <<now, active, last>> BY DEF P!planCandidate, P!clock
<1>2. run[j].pc \in P!Working BY <1>1 DEF P!Working
<1>3. CASE run' = [run EXCEPT ![j] = left] /\ UNCHANGED <<work, latest, until>>
    <2>0. left = [run[j] EXCEPT !.plan = @ \ {t}] OBVIOUS
    <2> HIDE DEF left
    <2>1. RunKept(left) /\ left.pc = "plan" /\ left.repo = run[j].repo
        BY <1>1, <2>0, LeftRun
    <2> QED BY <1>1, <1>2, <1>3, <2>1, RunMovesQuietly
<1>4. CASE /\ run' = [run EXCEPT ![j] = left] /\ UNCHANGED work
           /\ P!recordOutcome(j, k, FALSE, P!recordSkipped(j, k))
           /\ until' = P!Forget(j, k)
    <2>0. left = [run[j] EXCEPT !.plan = @ \ {t}] OBVIOUS
    <2> HIDE DEF left
    <2>1. RunKept(left) /\ left.pc = "plan" /\ left.repo = run[j].repo
        BY <1>1, <2>0, LeftRun
    <2> HIDE DEF k
    <2>2. run'[j] = left /\ DOMAIN run' = PrefetchJobs /\ \A i \in PrefetchJobs \ {j} : run'[i] = run[i]
        BY <1>4 DEF PrefetchInv, RunsKept
    <2>3. RunsKept' BY <1>1, <2>1, <2>2 DEF PrefetchInv, RunsKept, RunKept
    <2>4. Registered' BY <1>1, <1>2, <2>2 DEF PrefetchInv, Registered, PrefetchSetting
    <2>5. now \in Nat BY DEF PrefetchInv, RunsKept
    <2>6. \A x \in DOMAIN until' : until'[x] = 0 \/ (x \in DOMAIN until /\ until'[x] = until[x])
        BY <1>4 DEF P!Forget, P!Put, P!Never
    <2>7. WorkKept'
        <3>1. \A x : BackoffOver(x) => BackoffOver(x)' BY <1>1, <2>5, <2>6 DEF BackoffOver
        <3>2. \A i \in PrefetchJobs : run'[i].pc = run[i].pc /\ run'[i].repo = run[i].repo BY <1>1, <2>1, <2>2
        <3> QED BY <1>4, <3>1, <3>2 DEF PrefetchInv, WorkKept, WorkOf
    <2>8. OutcomesKept'
        <3> DEFINE o == P!recordSkipped(j, k)
        <3>1. P!nextCandidateAttempt(k) \in Nat BY AttemptType
        <3>2. o.attempt \in Nat /\ o.retryAt \in Nat /\ o.status = "skipped"
              /\ (P!backoffSkip(j, k) /\ latest[k].status # "success" => o.retryAt = latest[k].retryAt)
            <4>1. P!backoffSkip(j, k) => k \in DOMAIN latest BY DEF P!backoffSkip
            <4> QED BY <3>1, <4>1 DEF P!recordSkipped, P!Outcome, P!Never, PrefetchInv, OutcomesKept
        <3>3. latest' = P!Put(latest, k, o) \/ latest' = latest BY <1>4 DEF P!recordOutcome
        <3> HIDE DEF o
        <3>4. \A x \in DOMAIN latest' : latest'[x].attempt \in Nat /\ latest'[x].retryAt \in Nat
            BY <3>2, <3>3 DEF P!Put, PrefetchInv, OutcomesKept
        <3>5. \A x \in DOMAIN until' : until'[x] \in Nat BY <2>6 DEF PrefetchInv, OutcomesKept
        <3>6. ASSUME NEW x \in DOMAIN until', until'[x] > now
              PROVE x \in DOMAIN latest' /\ latest'[x].status # "success" /\ latest'[x].retryAt >= until'[x]
            <4>1. x \in DOMAIN until /\ until'[x] = until[x] BY <2>5, <2>6, <3>6
            <4>2. x \in DOMAIN latest /\ latest[x].status # "success" /\ latest[x].retryAt >= until[x]
                BY <3>6, <4>1 DEF PrefetchInv, OutcomesKept, Remembered
            <4>3. CASE x # k \/ latest' = latest BY <3>3, <4>1, <4>2, <4>3 DEF P!Put
            <4>4. CASE x = k /\ latest' # latest
                <5>1. ~run[j].retry BY <1>4, <2>5, <3>6, <4>4 DEF P!Forget, P!Put, P!Never
                <5>2. o.retryAt = latest[k].retryAt BY <3>2, <3>6, <4>1, <4>2, <4>4, <5>1, DueWhenPlanned
                <5>3. k \in DOMAIN latest' /\ latest'[k] = o BY <3>3, <4>4 DEF P!Put
                <5> QED BY <3>2, <4>1, <4>2, <4>4, <5>2, <5>3
            <4> QED BY <4>3, <4>4
        <3> QED BY <1>1, <3>4, <3>5, <3>6 DEF OutcomesKept, Remembered
    <2> QED BY <2>3, <2>4, <2>7, <2>8 DEF PrefetchInv
<1>5. CASE /\ ~P!backoffSkip(j, k) /\ P!reserveTask(j)
           /\ run' = [run EXCEPT ![j] = [left EXCEPT !.tasks = @ + 1]]
           /\ work' = [work EXCEPT ![j] = P!Put(@, t, P!NewTask(P!nextCandidateAttempt(k)))]
           /\ until' = P!Forget(j, k)
           /\ UNCHANGED latest
    <2> DEFINE rec == [left EXCEPT !.tasks = @ + 1]
    <2>0. left = [run[j] EXCEPT !.plan = @ \ {t}] OBVIOUS
    <2>2. run' = [run EXCEPT ![j] = rec] BY <1>5
    <2> HIDE DEF left
    <2>1. RunKept(rec) /\ rec.pc = "plan" /\ rec.repo = run[j].repo
        <3>1. RunKept(left) /\ left.pc = "plan" /\ left.repo = run[j].repo /\ left.tasks = run[j].tasks
            BY <1>1, <2>0, LeftRun
        <3>2. MaxTasks = 0 \/ left.tasks < MaxTasks BY <1>5, <3>1 DEF P!reserveTask
        <3>3. rec = [left EXCEPT !.tasks = @ + 1] OBVIOUS
        <3> HIDE DEF rec
        <3> QED BY <3>1, <3>2, <3>3, ReservedRun
    <2> HIDE DEF rec
    <2>3. run'[j] = rec /\ DOMAIN run' = PrefetchJobs /\ \A i \in PrefetchJobs \ {j} : run'[i] = run[i]
        BY <2>2 DEF PrefetchInv, RunsKept
    <2>4. RunsKept' BY <1>1, <2>1, <2>3 DEF PrefetchInv, RunsKept, RunKept
    <2>5. Registered' BY <1>1, <1>2, <2>3 DEF PrefetchInv, Registered, PrefetchSetting
    <2>6. now \in Nat BY DEF PrefetchInv, RunsKept
    <2>7. \A x \in DOMAIN until' : until'[x] = 0 \/ (x \in DOMAIN until /\ until'[x] = until[x])
        BY <1>5 DEF P!Forget, P!Put, P!Never
    <2>8. OutcomesKept' BY <1>1, <1>5, <2>6, <2>7 DEF PrefetchInv, OutcomesKept, Remembered
    <2>9. WorkKept'
        <3>1. \A x : BackoffOver(x) => BackoffOver(x)' BY <1>1, <2>6, <2>7 DEF BackoffOver
        <3>2. \A i \in PrefetchJobs : run'[i].pc = run[i].pc /\ run'[i].repo = run[i].repo BY <1>1, <2>1, <2>3
        <3>3. BackoffOver(k)'
            <4> SUFFICES ASSUME k \in DOMAIN until', until'[k] > now PROVE FALSE
                <5>1. k \in DOMAIN until' => until'[k] \in Nat BY <2>7 DEF PrefetchInv, OutcomesKept
                <5>2. run'[j].repo = run[j].repo BY <3>2
                <5> QED BY <1>1, <2>6, <5>1, <5>2 DEF BackoffOver
            <4> HIDE DEF k
            <4>1. k \in DOMAIN until /\ until[k] > now /\ ~run[j].retry
                BY <1>5, <2>6 DEF P!Forget, P!Put, P!Never
            <4> QED BY <1>5, <4>1, DueWhenPlanned
        <3> DEFINE nt == P!NewTask(P!nextCandidateAttempt(k))
        <3>4. DOMAIN nt = TaskFields /\ nt.attempt \in Nat BY AttemptType DEF P!NewTask, TaskFields
        <3>5. work'[j] = P!Put(work[j], t, nt) /\ DOMAIN work' = PrefetchJobs
              /\ \A i \in PrefetchJobs \ {j} : work'[i] = work[i]
            BY <1>5 DEF PrefetchInv, WorkKept
        <3> HIDE DEF nt, left
        <3>6. \A i \in PrefetchJobs \ {j} : WorkOf(i)'
            BY <3>1, <3>2, <3>5 DEF PrefetchInv, WorkKept, WorkOf
        <3>7. WorkOf(j)'
            <4>1. run'[j].pc = "plan" BY <2>1, <2>3
            <4>2. ASSUME NEW u \in DOMAIN work'[j]
                  PROVE DOMAIN work'[j][u] = TaskFields /\ work'[j][u].attempt \in Nat
                        /\ (work'[j][u].at # "over" => BackoffOver(<<run[j].repo, u>>)')
                <5>1. CASE u = t BY <3>3, <3>4, <3>5, <4>2, <5>1 DEF P!Put
                <5>2. CASE u # t
                    <6>1. u \in DOMAIN work[j] /\ work'[j][u] = work[j][u] BY <3>5, <4>2, <5>2 DEF P!Put
                    <6> QED BY <3>1, <6>1, <3>2 DEF PrefetchInv, WorkKept, WorkOf
                <5> QED BY <5>1, <5>2
            <4> QED BY <3>2, <4>1, <4>2 DEF WorkOf, BackoffOver
        <3> QED BY <3>5, <3>6, <3>7 DEF WorkKept
    <2> QED BY <2>4, <2>5, <2>8, <2>9 DEF PrefetchInv
<1> QED BY <1>3, <1>4, <1>5 DEF P!planCandidate, P!Set

(* The tasks. *)
LEMMA WorkMoves ==
    ASSUME PrefetchInv, NEW j \in PrefetchJobs, NEW t \in DOMAIN work[j], NEW new,
           work' = [work EXCEPT ![j][t] = new], DOMAIN new = TaskFields, new.attempt \in Nat,
           \A i \in PrefetchJobs : run'[i].pc = run[i].pc /\ run'[i].repo = run[i].repo,
           new.at # "over" => BackoffOver(<<run[j].repo, t>>)',
           \A i \in PrefetchJobs : \A u \in DOMAIN work[i] :
               (i # j \/ u # t) /\ work[i][u].at # "over" => BackoffOver(<<run[i].repo, u>>)'
    PROVE WorkKept'
<1>1. DOMAIN work' = PrefetchJobs BY DEF PrefetchInv, WorkKept
<1>2. \A i \in PrefetchJobs \ {j} : work'[i] = work[i] BY DEF PrefetchInv, WorkKept
<1>3. DOMAIN work'[j] = DOMAIN work[j] /\ work'[j][t] = new /\ \A u \in DOMAIN work[j] \ {t} : work'[j][u] = work[j][u]
    BY DEF PrefetchInv, WorkKept
<1>4. ASSUME NEW i \in PrefetchJobs \ {j} PROVE WorkOf(i)'
    <2>1. WorkOf(i) BY DEF PrefetchInv, WorkKept
    <2>2. work'[i] = work[i] /\ run'[i].repo = run[i].repo /\ run'[i].pc = run[i].pc BY <1>2
    <2>3. \A u \in DOMAIN work[i] : work[i][u].at # "over" => BackoffOver(<<run[i].repo, u>>)' OBVIOUS
    <2> QED BY <2>1, <2>2, <2>3 DEF WorkOf, BackoffOver
<1>5. WorkOf(j)'
    <2>1. WorkOf(j) BY DEF PrefetchInv, WorkKept
    <2>2. run'[j].repo = run[j].repo /\ run'[j].pc = run[j].pc OBVIOUS
    <2>3. DOMAIN work'[j] # {} => run'[j].pc \in {"plan", "tasks"} BY <1>3, <2>1, <2>2 DEF WorkOf
    <2>4. \A u \in DOMAIN work'[j] : DOMAIN work'[j][u] = TaskFields /\ work'[j][u].attempt \in Nat
        BY <1>3, <2>1 DEF WorkOf
    <2>5. \A u \in DOMAIN work'[j] : work'[j][u].at # "over" => BackoffOver(<<run[j].repo, u>>)' BY <1>3
    <2> QED BY <2>2, <2>3, <2>4, <2>5 DEF WorkOf, BackoffOver
<1> QED BY <1>1, <1>4, <1>5 DEF WorkKept

\* Steps before the outcome is stored.
LEMMA TaskMoves ==
    ASSUME PrefetchInv, NEW j \in PrefetchJobs, NEW t \in DOMAIN work[j], work[j][t].at # "over", NEW new,
           work' = [work EXCEPT ![j][t] = new], DOMAIN new = TaskFields, new.attempt = work[j][t].attempt,
           UNCHANGED <<now, run, active, latest, last, until>>
    PROVE PrefetchInv'
<1>1. \A i \in PrefetchJobs : \A u \in DOMAIN work[i] : work[i][u].at # "over" => BackoffOver(<<run[i].repo, u>>)'
    BY DEF PrefetchInv, WorkKept, WorkOf, BackoffOver
<1>2. new.attempt \in Nat BY DEF PrefetchInv, WorkKept, WorkOf
<1>3. WorkKept' BY <1>1, <1>2, WorkMoves
<1>4. RunsKept' BY DEF PrefetchInv, RunsKept, RunKept
<1>5. Registered' BY DEF PrefetchInv, Registered
<1>6. OutcomesKept' BY DEF PrefetchInv, OutcomesKept, Remembered
<1> QED BY <1>3, <1>4, <1>5, <1>6 DEF PrefetchInv

LEMMA FetchKeeps ==
    ASSUME PrefetchInv, NEW j \in PrefetchJobs, NEW t \in DOMAIN work[j],
           P!prefetchCandidate(j, t) \/ P!prefetchIndexManifests(j, t) \/ P!prefetchBlobDescriptors(j, t)
           \/ (P!prefetchImageManifestBlobs(j, t) /\ UNCHANGED run)
    PROVE PrefetchInv'
<1>1. work[j][t].at # "over"
    BY DEF P!prefetchCandidate, P!prefetchIndexManifests, P!prefetchBlobDescriptors, P!prefetchImageManifestBlobs, P!At
<1>2. UNCHANGED <<now, run, active, latest, last, until>>
    BY DEF P!prefetchCandidate, P!prefetchIndexManifests, P!prefetchBlobDescriptors, P!prefetchImageManifestBlobs,
           P!NoStore, P!store, P!clock
<1>3. DOMAIN work[j][t] = TaskFields BY DEF PrefetchInv, WorkKept, WorkOf
<1> DEFINE Ended(out) == [work[j][t] EXCEPT !.at = "record", !.children = 0, !.out = out]
<1> DEFINE Moved(at) == [work[j][t] EXCEPT !.at = at]
<1> DEFINE Counted(at, n) == [work[j][t] EXCEPT !.at = at, !.children = n]
<1> DEFINE Next1(at) == [work[j][t] EXCEPT !.children = @ - 1, !.at = at]
<1> DEFINE Good(new) == DOMAIN new = TaskFields /\ new.attempt = work[j][t].attempt
<1>4. /\ \A out : Good(Ended(out)) /\ Good(Moved(out)) /\ Good(Next1(out))
      /\ \A at, n : Good(Counted(at, n))
    BY <1>3 DEF TaskFields
<1> DEFINE To(new) == work' = [work EXCEPT ![j][t] = new]
<1>5. (\E x : To(Ended(x)) \/ To(Moved(x)) \/ To(Next1(x))) \/ (\E x, n : To(Counted(x, n)))
    <2>1. CASE P!prefetchCandidate(j, t)
        BY <2>1 DEF P!prefetchCandidate, P!FetchFails, P!Ends, P!Step
    <2>2. CASE P!prefetchIndexManifests(j, t)
        BY <2>2 DEF P!prefetchIndexManifests, P!FetchFails, P!Ends, P!Step
    <2>3. CASE P!prefetchBlobDescriptors(j, t)
        BY <2>3 DEF P!prefetchBlobDescriptors, P!FetchFails, P!Ends, P!Step
    <2>4. CASE P!prefetchImageManifestBlobs(j, t)
        BY <2>4 DEF P!prefetchImageManifestBlobs, P!Ends, P!Step
    <2> QED BY <2>1, <2>2, <2>3, <2>4
<1>6. PICK new : To(new) /\ Good(new)
    <2> HIDE DEF Ended, Moved, Counted, Next1, Good, To
    <2> QED BY <1>4, <1>5
<1> QED BY <1>1, <1>2, <1>6, TaskMoves

\* An image reserves its bytes.
LEMMA ReserveKeeps ==
    ASSUME PrefetchSetting, PrefetchInv, NEW j \in PrefetchJobs, NEW t \in DOMAIN work[j],
           P!prefetchImageManifestBlobs(j, t), run' # run
    PROVE PrefetchInv'
<1>1. PICK size \in 0..MaxSize :
          /\ P!reserveBytes(j, size)
          /\ run' = [run EXCEPT ![j] = [run[j] EXCEPT !.bytes = IF MaxBytes = 0 THEN 0 ELSE @ + size]]
          /\ work' = [work EXCEPT ![j][t] = [work[j][t] EXCEPT !.at = "blobs"]]
    BY DEF P!prefetchImageManifestBlobs, P!Set, P!Step
<1>2. UNCHANGED <<now, active, latest, last, until>>
    BY DEF P!prefetchImageManifestBlobs, P!NoStore, P!store, P!clock
<1> DEFINE rec == [run[j] EXCEPT !.bytes = IF MaxBytes = 0 THEN 0 ELSE @ + size]
<1>3. RunKept(run[j]) BY DEF PrefetchInv, RunsKept
<1>4. DOMAIN rec = RunFields /\ rec.pc = run[j].pc /\ rec.repo = run[j].repo /\ rec.pulls = run[j].pulls
          /\ rec.plan = run[j].plan /\ rec.tasks = run[j].tasks /\ rec.at = run[j].at
          /\ rec.bytes = IF MaxBytes = 0 THEN 0 ELSE run[j].bytes + size
    BY <1>3 DEF RunKept, RunFields
<1>5. run' = [run EXCEPT ![j] = rec] BY <1>1
<1> HIDE DEF rec
<1>6. RunKept(rec)
    <2>1. size \in Nat /\ MaxBytes \in Nat BY DEF PrefetchSetting
    <2>2. rec.bytes \in Nat /\ (MaxBytes > 0 => rec.bytes <= MaxBytes)
        BY <1>1, <1>3, <1>4, <2>1 DEF P!reserveBytes, RunKept
    <2> QED BY <1>3, <1>4, <2>2 DEF RunKept
<1>7. run'[j] = rec /\ DOMAIN run' = PrefetchJobs /\ \A i \in PrefetchJobs \ {j} : run'[i] = run[i]
    BY <1>5 DEF PrefetchInv, RunsKept
<1>8. \A i \in PrefetchJobs : run'[i].pc = run[i].pc /\ run'[i].repo = run[i].repo BY <1>4, <1>7
<1>9. RunsKept' BY <1>2, <1>6, <1>7 DEF PrefetchInv, RunsKept, RunKept
<1>10. Registered' BY <1>2, <1>8 DEF PrefetchInv, Registered, PrefetchSetting
<1>11. OutcomesKept' BY <1>2 DEF PrefetchInv, OutcomesKept, Remembered
<1>12. WorkKept'
    <2> DEFINE new == [work[j][t] EXCEPT !.at = "blobs"]
    <2>1. \A i \in PrefetchJobs : \A u \in DOMAIN work[i] : work[i][u].at # "over" => BackoffOver(<<run[i].repo, u>>)'
        BY <1>2, <1>8 DEF PrefetchInv, WorkKept, WorkOf, BackoffOver
    <2>2. work[j][t].at # "over" BY DEF P!prefetchImageManifestBlobs, P!At
    <2>3. DOMAIN new = TaskFields /\ new.attempt \in Nat BY DEF PrefetchInv, WorkKept, WorkOf, TaskFields
    <2>4. work' = [work EXCEPT ![j][t] = new] BY <1>1
    <2> HIDE DEF new
    <2> QED BY <1>8, <2>1, <2>2, <2>3, <2>4, WorkMoves
<1> QED BY <1>9, <1>10, <1>11, <1>12 DEF PrefetchInv

\* The outcome is stored, or is not, and the time of a failure with it.
LEMMA FinishKeeps ==
    ASSUME PrefetchSetting, PrefetchInv, NEW j \in PrefetchJobs, NEW t \in DOMAIN work[j],
           P!finishPrefetchTask(j, t)
    PROVE PrefetchInv'
<1> DEFINE k == <<run[j].repo, t>>
<1> DEFINE o == P!failureOutcome(j, work[j][t])
<1> DEFINE new == [work[j][t] EXCEPT !.at = "over"]
<1>1. /\ run[j].pc = "tasks" /\ work[j][t].at = "record"
      /\ P!recordOutcome(j, k, P!GroupEnded(j), o)
      /\ work' = [work EXCEPT ![j][t] = new]
      /\ until' = IF P!Overlaps(j) \/ o.status = "success" THEN P!Put(until, k, P!Never)
                  ELSE IF latest' # latest /\ o.status = "failed" THEN P!Put(until, k, o.retryAt) ELSE until
      /\ UNCHANGED <<run, active, last, now>>
    BY DEF P!finishPrefetchTask, P!At, P!Step, P!clock
<1>2. latest' = P!Put(latest, k, o) \/ latest' = latest BY <1>1 DEF P!recordOutcome
<1>3. DOMAIN work[j][t] = TaskFields /\ work[j][t].attempt \in Nat /\ BackoffOver(k)
    BY <1>1 DEF PrefetchInv, WorkKept, WorkOf
<1>4. now \in Nat /\ run[j].at \in Nat BY DEF PrefetchInv, RunsKept, RunKept
<1>5. o.attempt \in Nat /\ o.retryAt \in Nat
    <2>1. P!nextRetryAt(j, work[j][t].attempt) \in Nat
        <3>1. FailureBackoff * work[j][t].attempt \in Nat BY <1>3 DEF PrefetchSetting
        <3> QED BY <1>4, <3>1 DEF P!nextRetryAt, P!Never, P!Smaller, PrefetchSetting
    <2> QED BY <1>3, <2>1 DEF P!failureOutcome, P!Outcome, P!Never
<1>6. DOMAIN new = TaskFields /\ new.attempt \in Nat /\ new.at = "over" BY <1>3 DEF TaskFields
<1> HIDE DEF o, new, k
<1>7. \A x \in DOMAIN until' : \/ x \in DOMAIN until /\ until'[x] = until[x]
                               \/ x = k /\ until'[x] = 0
                               \/ /\ x = k /\ until'[x] = o.retryAt
                                  /\ latest' # latest /\ o.status = "failed" /\ ~P!Overlaps(j)
    BY <1>1 DEF P!Put, P!Never
<1>8. RunsKept' BY <1>1 DEF PrefetchInv, RunsKept, RunKept
<1>9. Registered' BY <1>1 DEF PrefetchInv, Registered
<1>10. OutcomesKept'
    <2>1. \A x \in DOMAIN latest' : latest'[x].attempt \in Nat /\ latest'[x].retryAt \in Nat
        BY <1>2, <1>5 DEF P!Put, PrefetchInv, OutcomesKept
    <2>2. \A x \in DOMAIN until' : until'[x] \in Nat BY <1>5, <1>7 DEF PrefetchInv, OutcomesKept
    <2>3. ASSUME NEW x \in DOMAIN until', until'[x] > now
          PROVE x \in DOMAIN latest' /\ latest'[x].status # "success" /\ latest'[x].retryAt >= until'[x]
        <3>1. CASE x # k
            <4>1. x \in DOMAIN until /\ until'[x] = until[x] BY <1>7, <2>3, <3>1
            <4>2. x \in DOMAIN latest /\ latest[x].status # "success" /\ latest[x].retryAt >= until[x]
                BY <2>3, <4>1 DEF PrefetchInv, OutcomesKept, Remembered
            <4> QED BY <1>2, <3>1, <4>1, <4>2 DEF P!Put
        <3>2. CASE x = k
            <4>1. ~(k \in DOMAIN until /\ until'[k] = until[k])
                <5> SUFFICES ASSUME k \in DOMAIN until, until'[k] = until[k] PROVE FALSE OBVIOUS
                <5>1. until[k] <= now /\ until[k] \in Nat BY <1>3 DEF BackoffOver, PrefetchInv, OutcomesKept
                <5> QED BY <1>4, <2>3, <3>2, <5>1
            <4>2. until'[k] = o.retryAt /\ latest' # latest /\ o.status = "failed"
                BY <1>4, <1>7, <2>3, <3>2, <4>1
            <4>3. k \in DOMAIN latest' /\ latest'[k] = o BY <1>2, <4>2 DEF P!Put
            <4> QED BY <1>5, <3>2, <4>2, <4>3
        <3> QED BY <3>1, <3>2
    <2> QED BY <1>1, <2>1, <2>2, <2>3 DEF OutcomesKept, Remembered
<1>11. WorkKept'
    <2>1. ASSUME NEW i \in PrefetchJobs, NEW u \in DOMAIN work[i], i # j \/ u # t, work[i][u].at # "over"
          PROVE BackoffOver(<<run[i].repo, u>>)'
        <3> DEFINE x == <<run[i].repo, u>>
        <3>1. BackoffOver(x) BY <2>1 DEF PrefetchInv, WorkKept, WorkOf
        <3>2. run[i].pc \in {"plan", "tasks"} BY DEF PrefetchInv, WorkKept, WorkOf
        <3>3. x = k => P!Overlaps(j) BY <2>1, <3>2 DEF k, P!Overlaps
        <3>4. x \in DOMAIN until' => until'[x] <= now
            <4> HIDE DEF x
            <4> QED BY <1>4, <1>7, <3>1, <3>3 DEF BackoffOver
        <3> QED BY <1>1, <3>4 DEF BackoffOver
    <2>2. \A i \in PrefetchJobs : run'[i].pc = run[i].pc /\ run'[i].repo = run[i].repo BY <1>1
    <2> QED BY <1>1, <1>6, <2>1, <2>2, WorkMoves
<1> QED BY <1>8, <1>9, <1>10, <1>11 DEF PrefetchInv

\* The tasks of a repository are over, or given up.
LEMMA ReturnKeeps ==
    ASSUME PrefetchSetting, PrefetchInv, NEW j \in PrefetchJobs, P!RunAllReturns(j) PROVE PrefetchInv'
<1>1. /\ run[j].pc = "tasks"
      /\ work' = [work EXCEPT ![j] = P!NoTasks]
      /\ UNCHANGED <<now, latest, until, active, last>>
    BY DEF P!RunAllReturns, P!store, P!clock
<1>2. DOMAIN run[j] = RunFields BY DEF PrefetchInv, RunsKept, RunKept
<1>3. PICK rec \in {[run[j] EXCEPT !.pc = "groups"], [run[j] EXCEPT !.pc = "finish", !.failed = TRUE]} :
          run' = [run EXCEPT ![j] = rec]
    BY DEF P!RunAllReturns, P!Set, P!Move
<1>4. DOMAIN rec = RunFields /\ rec.tasks = run[j].tasks /\ rec.bytes = run[j].bytes /\ rec.at = run[j].at
          /\ rec.pc \in {"groups", "finish"}
    BY <1>2 DEF RunFields
<1>5. RunKept(rec) BY <1>4, RunChanged
<1>6. run'[j] = rec /\ DOMAIN run' = PrefetchJobs /\ \A i \in PrefetchJobs \ {j} : run'[i] = run[i]
    BY <1>3 DEF PrefetchInv, RunsKept
<1>7. RunsKept' BY <1>1, <1>5, <1>6 DEF PrefetchInv, RunsKept, RunKept
<1>8. Registered'
    <2>1. run[j].pc \in P!Working BY <1>1 DEF P!Working
    <2> QED BY <1>1, <1>6, <2>1 DEF PrefetchInv, Registered, PrefetchSetting
<1>9. OutcomesKept' BY <1>1 DEF PrefetchInv, OutcomesKept, Remembered
<1>10. WorkKept'
    <2>1. DOMAIN work' = PrefetchJobs /\ work'[j] = << >> /\ \A i \in PrefetchJobs \ {j} : work'[i] = work[i]
        BY <1>1 DEF PrefetchInv, WorkKept, P!NoTasks
    <2>2. DOMAIN work'[j] = {} BY <2>1
    <2>3. WorkOf(j)' BY <2>2 DEF WorkOf
    <2>4. \A i \in PrefetchJobs \ {j} : WorkOf(i)'
        BY <1>1, <1>6, <2>1 DEF PrefetchInv, WorkKept, WorkOf, BackoffOver
    <2> QED BY <2>1, <2>3, <2>4 DEF WorkKept
<1> QED BY <1>7, <1>8, <1>9, <1>10 DEF PrefetchInv

LEMMA PrefetchStep == ASSUME PrefetchSetting, PrefetchInv, [P!Next]_(P!vars) PROVE PrefetchInv'
<1>1. CASE UNCHANGED P!vars
    BY <1>1 DEF P!vars, PrefetchInv, RunsKept, RunKept, Registered, WorkKept, WorkOf, BackoffOver, OutcomesKept, Remembered
<1>2. CASE P!Tick BY <1>2, TickKeeps
<1>3. CASE P!CancelPrefetch \/ P!StoreCancel \/ P!RetryPrefetch BY <1>3, ControlsKeep
<1>4. ASSUME NEW j \in PrefetchJobs, P!Start(j) \/ P!Runs(j) PROVE PrefetchInv'
    <2>1. CASE P!Start(j) BY <2>1, StartKeepsRuns
    <2>2. CASE \E a \in P!Controls : P!FindControl(j, a) \/ P!ConsumeControl(j, a) BY <2>2, ControlStepKeeps
    <2>3. CASE P!ControlFails(j)
        <3>1. "retry" \in P!Controls BY DEF P!Controls
        <3> QED BY <2>3, <3>1, ControlStepKeeps
    <2>4. CASE P!setActiveCancel(j) BY <2>4, RegisterKeeps
    <2>5. CASE P!ReadPulls(j) \/ P!prefetchGroups(j) \/ P!finishRunRecord(j) BY <2>5, LoopKeeps
    <2>6. CASE P!availableTags(j) BY <2>6, TagsKeep
    <2>7. CASE P!RunAll(j) BY <2>7, RunAllKeeps
    <2>8. CASE \E t \in run[j].plan : P!planCandidate(j, t) BY <2>8, PlanKeeps
    <2>9. ASSUME NEW t \in DOMAIN work[j],
                 P!prefetchCandidate(j, t) \/ P!prefetchIndexManifests(j, t)
                 \/ P!prefetchImageManifestBlobs(j, t) \/ P!prefetchBlobDescriptors(j, t)
          PROVE PrefetchInv'
        <3>1. CASE P!prefetchImageManifestBlobs(j, t) /\ run' # run BY <3>1, ReserveKeeps
        <3>2. CASE P!prefetchImageManifestBlobs(j, t) /\ UNCHANGED run BY <3>2, FetchKeeps
        <3>3. CASE P!prefetchCandidate(j, t) \/ P!prefetchIndexManifests(j, t) \/ P!prefetchBlobDescriptors(j, t)
            BY <3>3, FetchKeeps
        <3> QED BY <2>9, <3>1, <3>2, <3>3
    <2>10. CASE \E t \in DOMAIN work[j] : P!finishPrefetchTask(j, t) BY <2>10, FinishKeeps
    <2>11. CASE P!RunAllReturns(j) BY <2>11, ReturnKeeps
    <2>12. CASE P!clearActiveCancel(j) BY <2>12, ClearKeeps
    <2> QED BY <1>4, <2>1, <2>2, <2>3, <2>4, <2>5, <2>6, <2>7, <2>8, <2>9, <2>10, <2>11, <2>12 DEF P!Runs
<1> QED BY <1>1, <1>2, <1>3, <1>4 DEF P!Next

(* What the invariant says of the runs. *)
LEMMA PrefetchContained == ASSUME PrefetchSetting, PrefetchInv PROVE P!RunsContained
BY DEF PrefetchInv, RunsKept, RunKept, Registered, P!RunsContained

(* A new task is due. *)
LEMMA StartIsDue ==
    ASSUME PrefetchSetting, PrefetchInv, [P!Next]_(P!vars),
           NEW j \in PrefetchJobs, NEW t \in DOMAIN work'[j] \ DOMAIN work[j]
    PROVE LET k == <<run[j].repo, t>>
          IN  /\ k \in DOMAIN until => run[j].retry \/ until[k] <= now
              /\ Newer(run[j].pulls, t)
<1>0. DOMAIN work = PrefetchJobs BY DEF PrefetchInv, WorkKept
<1>1. work' # work OBVIOUS
<1>2. PICK i \in PrefetchJobs : P!Runs(i)
    BY <1>1 DEF P!Next, P!vars, P!Tick, P!CancelPrefetch, P!StoreCancel, P!RetryPrefetch, P!Start
<1>3. ASSUME NEW u \in DOMAIN work[i], NEW new, work' = [work EXCEPT ![i][u] = new] PROVE FALSE
    <2>1. DOMAIN work'[j] = DOMAIN work[j] BY <1>0, <1>3
    <2> QED BY <2>1
<1>4. ~P!RunAllReturns(i)
    <2> SUFFICES ASSUME work' = [work EXCEPT ![i] = << >>] PROVE FALSE BY DEF P!RunAllReturns, P!NoTasks
    <2>1. DOMAIN << >> = {} OBVIOUS
    <2> QED BY <1>0, <2>1
<1>5. PICK u \in run[i].plan : P!planCandidate(i, u)
    <2>1. ~(\E v \in DOMAIN work[i] : P!prefetchCandidate(i, v) \/ P!prefetchIndexManifests(i, v))
        BY <1>3 DEF P!prefetchCandidate, P!prefetchIndexManifests, P!FetchFails, P!Ends, P!Step
    <2>2. ~(\E v \in DOMAIN work[i] : P!prefetchImageManifestBlobs(i, v) \/ P!prefetchBlobDescriptors(i, v)
                                     \/ P!finishPrefetchTask(i, v))
        BY <1>3 DEF P!prefetchImageManifestBlobs, P!prefetchBlobDescriptors, P!finishPrefetchTask, P!FetchFails, P!Ends, P!Step
    <2>3. ~(\E a \in P!Controls : P!FindControl(i, a) \/ P!ConsumeControl(i, a)) /\ ~P!ControlFails(i)
          /\ ~P!setActiveCancel(i) /\ ~P!ReadPulls(i) /\ ~P!prefetchGroups(i) /\ ~P!availableTags(i) /\ ~P!RunAll(i)
          /\ ~P!finishRunRecord(i) /\ ~P!clearActiveCancel(i)
        BY <1>1 DEF P!FindControl, P!ConsumeControl, P!ControlFails, P!setActiveCancel, P!ReadPulls,
                    P!prefetchGroups, P!availableTags, P!RunAll, P!finishRunRecord, P!clearActiveCancel
    <2> QED BY <1>2, <1>4, <2>1, <2>2, <2>3 DEF P!Runs
<1>6. /\ run[i].pc = "plan" /\ ~P!backoffSkip(i, <<run[i].repo, u>>)
      /\ \E new : work' = [work EXCEPT ![i] = P!Put(@, u, new)]
    BY <1>1, <1>5 DEF P!planCandidate
<1>7. i = j /\ u = t BY <1>0, <1>6 DEF P!Put
<1>8. Newer(run[j].pulls, t) BY <1>5, <1>6, <1>7 DEF PrefetchInv, RunsKept, RunKept
<1>9. ASSUME NEW k, k = <<run[j].repo, t>>, k \in DOMAIN until, ~run[j].retry PROVE until[k] <= now
    <2>1. until[k] \in Nat /\ now \in Nat BY <1>9 DEF PrefetchInv, OutcomesKept, RunsKept
    <2>2. ~(until[k] > now) BY <1>6, <1>7, <1>9, DueWhenPlanned
    <2> QED BY <2>1, <2>2
<1> QED BY <1>8, <1>9

(* A prefetch starts only for a newer tag of the same flavour whose backoff is over, *)
(* whatever the limits, the pulls, the tags and the order of the jobs' steps         *)
(* (policy.go:119-151, candidate_tags.go:81).                                        *)
THEOREM PrefetchStartsAreDue == ASSUME PrefetchSetting PROVE P!Spec => StartsAreDue
<1>1. P!Init => PrefetchInv BY PrefetchInit
<1>2. PrefetchInv /\ [P!Next]_(P!vars) => PrefetchInv' BY PrefetchStep
<1>3. PrefetchInv /\ [P!Next]_(P!vars) =>
          [\A j \in PrefetchJobs : \A t \in DOMAIN work'[j] \ DOMAIN work[j] :
            LET k == <<run[j].repo, t>>
            IN  /\ k \in DOMAIN until => run[j].retry \/ until[k] <= now
                /\ \E r \in run[j].pulls : /\ r.tag # t /\ r.tag.suffix = t.suffix
                                           /\ P!versionDistance(r.tag, t) > 0]_(P!vars)
    <2> SUFFICES ASSUME PrefetchInv, [P!Next]_(P!vars), NEW j \in PrefetchJobs, NEW t \in DOMAIN work'[j] \ DOMAIN work[j]
                 PROVE LET k == <<run[j].repo, t>>
                       IN  /\ k \in DOMAIN until => run[j].retry \/ until[k] <= now
                           /\ \E r \in run[j].pulls : /\ r.tag # t /\ r.tag.suffix = t.suffix
                                                      /\ P!versionDistance(r.tag, t) > 0
        OBVIOUS
    <2>1. (<<run[j].repo, t>> \in DOMAIN until => run[j].retry \/ until[<<run[j].repo, t>>] <= now)
          /\ Newer(run[j].pulls, t)
        BY StartIsDue
    <2> QED BY <2>1 DEF Newer
<1> QED BY <1>1, <1>2, <1>3, PTL DEF P!Spec, StartsAreDue, P!StartsAreDue

-----------------------------------------------------------------------------
(* Dependency prefetch: what a run reports is what it stored.                   *)

DependencySetting == IsFiniteSet(DepPulls)

ReportFields == {"pc", "at", "ended", "prefetched"}
CandidateFields == {"at", "attempt", "out"}
Uncounted(j) == {c \in DepPulls : depTask[j][c].at = "count"}

\* The tasks of a run are idle but while it waits for them, and a stored success is
\* counted, or is about to be.
ReportOf(j) ==
    /\ DOMAIN depRun[j] = ReportFields /\ depRun[j].prefetched \in Nat /\ depStored[j] \in Nat
    /\ DOMAIN depTask[j] = DepPulls
    /\ \A c \in DepPulls : DOMAIN depTask[j][c] = CandidateFields
    /\ depRun[j].pc # "tasks" => \A c \in DepPulls : depTask[j][c].at = "none"
    /\ depRun[j].pc \in {"pulls", "tasks"} => depStored[j] = depRun[j].prefetched + Cardinality(Uncounted(j))
    /\ depRun[j].pc = "idle" => depStored[j] = 0 /\ depRun[j].prefetched = 0
    /\ depRun[j].prefetched <= depStored[j]
    /\ depRun[j].pc = "finish" /\ ~depRun[j].ended => depRun[j].prefetched = depStored[j]

ReportsKept ==
    /\ DOMAIN depRun = DepJobs /\ DOMAIN depTask = DepJobs /\ DOMAIN depStored = DepJobs
    /\ \A j \in DepJobs : ReportOf(j)

LEMMA ReportsInit == ASSUME DependencySetting, D!Init PROVE ReportsKept
<1> USE DEF D!Init, D!NewRun, D!Idle, D!Never
<1>1. \A j \in DepJobs : ReportOf(j) BY DEF ReportOf, ReportFields, CandidateFields
<1> QED BY <1>1 DEF ReportsKept

(* The other jobs are left alone. *)
LEMMA ReportMoves ==
    ASSUME ReportsKept, NEW j \in DepJobs, ReportOf(j)',
           DOMAIN depRun' = DepJobs, DOMAIN depTask' = DepJobs, DOMAIN depStored' = DepJobs,
           \A i \in DepJobs \ {j} : depRun'[i] = depRun[i] /\ depTask'[i] = depTask[i] /\ depStored'[i] = depStored[i]
    PROVE ReportsKept'
<1>1. ASSUME NEW i \in DepJobs \ {j} PROVE ReportOf(i)'
    <2>1. depRun'[i] = depRun[i] /\ depTask'[i] = depTask[i] /\ depStored'[i] = depStored[i] OBVIOUS
    <2>2. ReportOf(i) BY DEF ReportsKept
    <2>3. Uncounted(i)' = Uncounted(i) BY <2>1 DEF Uncounted
    <2> QED BY <2>1, <2>2, <2>3 DEF ReportOf
<1> QED BY <1>1 DEF ReportsKept

(* A task moves on, and nothing is counted or stored. *)
LEMMA CandidateMoves ==
    ASSUME ReportsKept, NEW j \in DepJobs, NEW c \in DepPulls, NEW new,
           depTask' = [depTask EXCEPT ![j][c] = new], DOMAIN new = CandidateFields,
           depTask[j][c].at \notin {"none", "count"}, new.at # "count",
           UNCHANGED <<depRun, depStored>>
    PROVE ReportsKept'
<1>1. ReportOf(j) /\ DOMAIN depTask = DepJobs BY DEF ReportsKept
<1>2. DOMAIN depTask' = DepJobs /\ DOMAIN depTask'[j] = DepPulls /\ depTask'[j][c] = new
      /\ \A d \in DepPulls \ {c} : depTask'[j][d] = depTask[j][d]
    BY <1>1 DEF ReportOf
<1>3. \A i \in DepJobs \ {j} : depTask'[i] = depTask[i] BY <1>1
<1>4. Uncounted(j)' = Uncounted(j) BY <1>2 DEF Uncounted
<1>5. depRun[j].pc = "tasks" BY <1>1 DEF ReportOf
<1>6. ReportOf(j)' BY <1>1, <1>2, <1>4, <1>5 DEF ReportOf
<1> QED BY <1>2, <1>3, <1>6, ReportMoves DEF ReportsKept

LEMMA CandidateKeeps ==
    ASSUME ReportsKept, NEW j \in DepJobs, NEW c \in DepPulls,
           \/ D!plan(j, c) \/ D!recordSkippedCandidate(j, c) \/ D!fetch(j, c) \/ D!recordFailedCandidate(j, c)
           \/ (D!recordSuccessCandidate(j, c) /\ UNCHANGED depStored)
    PROVE ReportsKept'
<1>1. DOMAIN depTask[j][c] = CandidateFields BY DEF ReportsKept, ReportOf
<1> DEFINE To(new) == depTask' = [depTask EXCEPT ![j][c] = new]
<1> DEFINE Good(new) == DOMAIN new = CandidateFields /\ new.at # "count"
<1>2. \E new : To(new) /\ Good(new)
    <2>1. CASE D!plan(j, c)
        <3>1. PICK new \in {[depTask[j][c] EXCEPT !.at = "over", !.out = "failed"],
                            [depTask[j][c] EXCEPT !.attempt = D!Attempt(c), !.at = IF D!backoffSkip(j, c) THEN "skip" ELSE "fetch"]} :
                 To(new)
            BY <2>1 DEF D!plan, D!Step
        <3>2. Good(new) BY <1>1, <3>1 DEF CandidateFields
        <3> QED BY <3>1, <3>2
    <2>2. CASE D!recordSkippedCandidate(j, c)
        <3> DEFINE new == [depTask[j][c] EXCEPT !.at = "over", !.out = "skipped"]
        <3>1. To(new) BY <2>2 DEF D!recordSkippedCandidate, D!Step
        <3>2. Good(new) BY <1>1 DEF CandidateFields
        <3> QED BY <3>1, <3>2
    <2>3. CASE D!fetch(j, c)
        <3>1. PICK out \in {"failed", "success"} : To([depTask[j][c] EXCEPT !.at = "record", !.out = out])
            BY <2>3 DEF D!fetch, D!Step
        <3>2. Good([depTask[j][c] EXCEPT !.at = "record", !.out = out]) BY <1>1 DEF CandidateFields
        <3> QED BY <3>1, <3>2
    <2>4. CASE D!recordFailedCandidate(j, c)
        <3> DEFINE new == [depTask[j][c] EXCEPT !.at = "over"]
        <3>1. To(new) BY <2>4 DEF D!recordFailedCandidate, D!Step
        <3>2. Good(new) BY <1>1 DEF CandidateFields
        <3> QED BY <3>1, <3>2
    <2>5. CASE D!recordSuccessCandidate(j, c) /\ UNCHANGED depStored
        <3>1. depStored' # [depStored EXCEPT ![j] = @ + 1]
            BY <2>5 DEF ReportsKept, ReportOf
        <3> DEFINE new == [depTask[j][c] EXCEPT !.at = "over", !.out = "failed"]
        <3>2. To(new) BY <2>5, <3>1 DEF D!recordSuccessCandidate, D!Step
        <3>3. Good(new) BY <1>1 DEF CandidateFields
        <3> QED BY <3>2, <3>3
    <2> QED BY <2>1, <2>2, <2>3, <2>4, <2>5
<1>3. depTask[j][c].at \notin {"none", "count"} /\ UNCHANGED <<depRun, depStored>>
    BY DEF D!plan, D!recordSkippedCandidate, D!fetch, D!recordFailedCandidate, D!recordSuccessCandidate, D!At
<1>4. PICK new : To(new) /\ Good(new) BY <1>2
<1> QED BY <1>3, <1>4, CandidateMoves

(* A success is stored, and later counted. *)
LEMMA SuccessKeeps ==
    ASSUME DependencySetting, ReportsKept, NEW j \in DepJobs, NEW c \in DepPulls,
           D!recordSuccessCandidate(j, c), depStored' # depStored
    PROVE ReportsKept'
<1> DEFINE new == [depTask[j][c] EXCEPT !.at = "count"]
<1>1. ReportOf(j) /\ DOMAIN depTask = DepJobs /\ DOMAIN depStored = DepJobs BY DEF ReportsKept
<1>2. depTask' = [depTask EXCEPT ![j][c] = new] /\ depStored' = [depStored EXCEPT ![j] = @ + 1]
      /\ depTask[j][c].at = "record" /\ UNCHANGED depRun
    BY DEF D!recordSuccessCandidate, D!Step, D!At
<1>3. DOMAIN new = CandidateFields /\ new.at = "count" BY <1>1 DEF ReportOf, CandidateFields
<1> HIDE DEF new
<1>4. DOMAIN depTask' = DepJobs /\ DOMAIN depTask'[j] = DepPulls /\ depTask'[j][c] = new
      /\ \A d \in DepPulls \ {c} : depTask'[j][d] = depTask[j][d]
    BY <1>1, <1>2 DEF ReportOf
<1>5. DOMAIN depStored' = DepJobs /\ depStored'[j] = depStored[j] + 1
      /\ \A i \in DepJobs \ {j} : depTask'[i] = depTask[i] /\ depStored'[i] = depStored[i]
    BY <1>1, <1>2
<1>6. Uncounted(j)' = Uncounted(j) \cup {c} /\ c \notin Uncounted(j) BY <1>2, <1>3, <1>4 DEF Uncounted
<1>7. IsFiniteSet(Uncounted(j)) BY FS_Subset DEF DependencySetting, Uncounted
<1>8. Cardinality(Uncounted(j)') = Cardinality(Uncounted(j)) + 1 BY <1>6, <1>7, FS_AddElement
<1>9. Cardinality(Uncounted(j)) \in Nat BY <1>7, FS_CardinalityType
<1>10. depRun[j].pc = "tasks" BY <1>1, <1>2 DEF ReportOf
<1>11. ReportOf(j)' BY <1>1, <1>2, <1>3, <1>4, <1>5, <1>8, <1>9, <1>10 DEF ReportOf
<1> QED BY <1>2, <1>4, <1>5, <1>11, ReportMoves DEF ReportsKept

LEMMA CountKeeps ==
    ASSUME DependencySetting, ReportsKept, NEW j \in DepJobs, NEW c \in DepPulls, D!addPrefetched(j, c)
    PROVE ReportsKept'
<1> DEFINE new == [depTask[j][c] EXCEPT !.at = "over"]
<1>1. ReportOf(j) /\ DOMAIN depTask = DepJobs /\ DOMAIN depRun = DepJobs BY DEF ReportsKept
<1>2. depTask' = [depTask EXCEPT ![j][c] = new] /\ depRun' = [depRun EXCEPT ![j].prefetched = @ + 1]
      /\ depTask[j][c].at = "count" /\ UNCHANGED depStored
    BY DEF D!addPrefetched, D!Step, D!At
<1>3. DOMAIN new = CandidateFields /\ new.at = "over" BY <1>1 DEF ReportOf, CandidateFields
<1> HIDE DEF new
<1>4. DOMAIN depTask' = DepJobs /\ DOMAIN depTask'[j] = DepPulls /\ depTask'[j][c] = new
      /\ \A d \in DepPulls \ {c} : depTask'[j][d] = depTask[j][d]
    BY <1>1, <1>2 DEF ReportOf
<1>5. DOMAIN depRun' = DepJobs /\ DOMAIN depRun'[j] = ReportFields /\ depRun'[j].prefetched = depRun[j].prefetched + 1
      /\ depRun'[j].pc = depRun[j].pc /\ depRun'[j].ended = depRun[j].ended
      /\ \A i \in DepJobs \ {j} : depTask'[i] = depTask[i] /\ depRun'[i] = depRun[i]
    BY <1>1, <1>2 DEF ReportOf, ReportFields
<1>6. Uncounted(j)' = Uncounted(j) \ {c} /\ c \in Uncounted(j) BY <1>2, <1>3, <1>4 DEF Uncounted
<1>7. IsFiniteSet(Uncounted(j)) BY FS_Subset DEF DependencySetting, Uncounted
<1>8. Cardinality(Uncounted(j)') = Cardinality(Uncounted(j)) - 1 BY <1>6, <1>7, FS_RemoveElement
<1>9. Cardinality(Uncounted(j)) \in Nat /\ Cardinality(Uncounted(j)') \in Nat
    <2>1. IsFiniteSet(Uncounted(j)') BY <1>6, <1>7, FS_Subset
    <2> QED BY <1>7, <2>1, FS_CardinalityType
<1>10. depRun[j].pc = "tasks" BY <1>1, <1>2 DEF ReportOf
<1>11. ReportOf(j)'
    <2>1. depStored[j] = depRun[j].prefetched + Cardinality(Uncounted(j)) BY <1>1, <1>10 DEF ReportOf
    <2>2. depStored'[j] = depRun'[j].prefetched + Cardinality(Uncounted(j)')
        BY <1>1, <1>2, <1>5, <1>8, <1>9, <2>1 DEF ReportOf
    <2> QED BY <1>1, <1>2, <1>3, <1>4, <1>5, <1>9, <1>10, <2>2 DEF ReportOf
<1> QED BY <1>2, <1>4, <1>5, <1>11, ReportMoves DEF ReportsKept

(* A run starts, reads its candidates, is cut short and ends. *)
LEMMA ReportRunKeeps ==
    ASSUME DependencySetting, ReportsKept, NEW j \in DepJobs,
           D!Start(j) \/ D!EndContext(j) \/ D!ReadPulls(j) \/ D!RunAllSettled(j) \/ D!finishRun(j)
    PROVE ReportsKept'
<1>1. ReportOf(j) /\ DOMAIN depTask = DepJobs /\ DOMAIN depRun = DepJobs /\ DOMAIN depStored = DepJobs BY DEF ReportsKept
<1>2. /\ DOMAIN depTask' = DepJobs /\ DOMAIN depRun' = DepJobs /\ DOMAIN depStored' = DepJobs
      /\ \A i \in DepJobs \ {j} : depRun'[i] = depRun[i] /\ depTask'[i] = depTask[i] /\ depStored'[i] = depStored[i]
    BY <1>1 DEF D!Start, D!EndContext, D!ReadPulls, D!RunAllSettled, D!finishRun
<1>3. \A S : S = {} => Cardinality(S) = 0 BY FS_EmptySet
<1>4. (\A c \in DepPulls : depTask[j][c].at # "count") => Cardinality(Uncounted(j)) = 0 BY <1>3 DEF Uncounted
<1>5. (\A c \in DepPulls : depTask'[j][c].at # "count") => Cardinality(Uncounted(j)') = 0 BY <1>3 DEF Uncounted
<1>6. ReportOf(j)'
    <2>1. CASE D!Start(j)
        <3>1. depRun'[j] = [D!NewRun EXCEPT !.pc = "pulls", !.at = depNow] /\ depStored'[j] = 0 /\ depTask' = depTask
              /\ depRun[j].pc = "idle"
            BY <1>1, <2>1 DEF D!Start
        <3>2. DOMAIN depRun'[j] = ReportFields /\ depRun'[j].pc = "pulls" /\ depRun'[j].prefetched = 0
            BY <3>1 DEF D!NewRun, ReportFields
        <3>3. \A c \in DepPulls : depTask[j][c].at = "none" BY <1>1, <3>1 DEF ReportOf
        <3>4. Cardinality(Uncounted(j)') = 0 BY <1>5, <3>1, <3>3
        <3> QED BY <1>1, <3>1, <3>2, <3>3, <3>4 DEF ReportOf
    <2>2. CASE D!EndContext(j)
        <3>1. depRun' = [depRun EXCEPT ![j].ended = TRUE] /\ UNCHANGED <<depTask, depStored>>
            BY <2>2 DEF D!EndContext
        <3>2. DOMAIN depRun'[j] = ReportFields /\ depRun'[j].pc = depRun[j].pc /\ depRun'[j].ended = TRUE
              /\ depRun'[j].prefetched = depRun[j].prefetched
            BY <1>1, <3>1 DEF ReportOf, ReportFields
        <3>3. Uncounted(j)' = Uncounted(j) BY <3>1 DEF Uncounted
        <3> QED BY <1>1, <3>1, <3>2, <3>3 DEF ReportOf
    <2>3. CASE D!ReadPulls(j)
        <3>1. depRun[j].pc = "pulls" /\ UNCHANGED depStored BY <2>3 DEF D!ReadPulls
        <3>2. \A c \in DepPulls : depTask[j][c].at = "none" BY <1>1, <3>1 DEF ReportOf
        <3>3. depStored[j] = depRun[j].prefetched BY <1>1, <1>4, <3>1, <3>2 DEF ReportOf
        <3>4. CASE depRun' = [depRun EXCEPT ![j].pc = "finish"] /\ UNCHANGED depTask
            <4>1. DOMAIN depRun'[j] = ReportFields /\ depRun'[j].pc = "finish" /\ depRun'[j].prefetched = depRun[j].prefetched
                BY <1>1, <3>4 DEF ReportOf, ReportFields
            <4> QED BY <1>1, <3>1, <3>2, <3>3, <3>4, <4>1 DEF ReportOf
        <3>5. CASE /\ depRun' = [depRun EXCEPT ![j].pc = "tasks"]
                   /\ \E S : depTask' = [depTask EXCEPT ![j] = [c \in DepPulls |->
                                            IF c \in S THEN [D!Idle EXCEPT !.at = "plan"] ELSE D!Idle]]
            <4>1. DOMAIN depRun'[j] = ReportFields /\ depRun'[j].pc = "tasks" /\ depRun'[j].prefetched = depRun[j].prefetched
                BY <1>1, <3>5 DEF ReportOf, ReportFields
            <4>2. DOMAIN depTask'[j] = DepPulls
                  /\ \A c \in DepPulls : DOMAIN depTask'[j][c] = CandidateFields /\ depTask'[j][c].at # "count"
                BY <1>1, <3>5 DEF D!Idle, CandidateFields
            <4> QED BY <1>1, <1>5, <3>1, <3>3, <4>1, <4>2 DEF ReportOf
        <3> QED BY <2>3, <3>4, <3>5 DEF D!ReadPulls
    <2>4. CASE D!RunAllSettled(j)
        <3>1. /\ depRun[j].pc = "tasks" /\ (depRun[j].ended \/ \A c \in DepPulls : depTask[j][c].at \in {"none", "over"})
              /\ depRun' = [depRun EXCEPT ![j].pc = "finish"] /\ UNCHANGED depStored
              /\ depTask' = [depTask EXCEPT ![j] = [c \in DepPulls |-> D!Idle]]
            BY <2>4 DEF D!RunAllSettled
        <3>2. DOMAIN depRun'[j] = ReportFields /\ depRun'[j].pc = "finish" /\ depRun'[j].ended = depRun[j].ended
              /\ depRun'[j].prefetched = depRun[j].prefetched
            BY <1>1, <3>1 DEF ReportOf, ReportFields
        <3>3. DOMAIN depTask'[j] = DepPulls
              /\ \A c \in DepPulls : DOMAIN depTask'[j][c] = CandidateFields /\ depTask'[j][c].at = "none"
            BY <1>1, <3>1 DEF D!Idle, CandidateFields
        <3>4. ~depRun[j].ended => depRun[j].prefetched = depStored[j] BY <1>1, <1>4, <3>1 DEF ReportOf
        <3> QED BY <1>1, <3>1, <3>2, <3>3, <3>4 DEF ReportOf
    <2>5. CASE D!finishRun(j)
        <3>1. depRun[j].pc = "finish" /\ depRun'[j] = D!NewRun /\ depStored'[j] = 0 /\ UNCHANGED depTask
            BY <1>1, <2>5 DEF D!finishRun
        <3>2. DOMAIN depRun'[j] = ReportFields /\ depRun'[j].pc = "idle" /\ depRun'[j].prefetched = 0
            BY <3>1 DEF D!NewRun, ReportFields
        <3> QED BY <1>1, <3>1, <3>2 DEF ReportOf
    <2> QED BY <2>1, <2>2, <2>3, <2>4, <2>5
<1> QED BY <1>2, <1>6, ReportMoves

LEMMA ReportsStep == ASSUME DependencySetting, ReportsKept, [D!Next]_(D!vars) PROVE ReportsKept'
<1>1. CASE UNCHANGED <<depRun, depTask, depStored>>
    BY <1>1 DEF ReportsKept, ReportOf, Uncounted
<1>2. ASSUME NEW j \in DepJobs, D!Start(j) \/ D!EndContext(j) \/ D!Runs(j) PROVE ReportsKept'
    <2>1. CASE D!Start(j) \/ D!EndContext(j) \/ D!ReadPulls(j) \/ D!RunAllSettled(j) \/ D!finishRun(j)
        BY <2>1, ReportRunKeeps
    <2>2. ASSUME NEW c \in DepPulls,
                 \/ D!plan(j, c) \/ D!recordSkippedCandidate(j, c) \/ D!fetch(j, c)
                 \/ D!recordFailedCandidate(j, c) \/ D!recordSuccessCandidate(j, c) \/ D!addPrefetched(j, c)
          PROVE ReportsKept'
        <3>1. CASE D!plan(j, c) \/ D!recordSkippedCandidate(j, c) \/ D!fetch(j, c) \/ D!recordFailedCandidate(j, c)
            BY <3>1, CandidateKeeps
        <3>2. CASE D!recordSuccessCandidate(j, c) BY <3>2, CandidateKeeps, SuccessKeeps
        <3>3. CASE D!addPrefetched(j, c) BY <3>3, CountKeeps
        <3> QED BY <2>2, <3>1, <3>2, <3>3
    <2> QED BY <1>2, <2>1, <2>2 DEF D!Runs
<1> QED BY <1>1, <1>2 DEF D!Next, D!Tick, D!vars

LEMMA ReportsStored == ASSUME ReportsKept PROVE D!CountsAreStored
BY DEF ReportsKept, ReportOf, D!CountsAreStored

-----------------------------------------------------------------------------
(* Refresh intents: the delete that claims one makes it the claimer's alone.    *)

IntentSetting == IsFiniteSet(Pulls)

PullFields == {"pc", "key", "at", "due"}
DrainFields == {"pc", "listed", "claimed"}
DonePulls == {p \in Pulls : pull[p].pc = "done"}

\* Every intent was created by a pull that is done since.
RowsNumbered ==
    /\ DOMAIN row = Keys /\ DOMAIN created = Keys
    /\ \A k \in Keys : /\ DOMAIN row[k] = {"id", "due"} /\ row[k].id \in Nat /\ created[k] \in Nat
                       /\ row[k].id <= created[k] /\ created[k] <= Cardinality(DonePulls)
PullsKept ==
    /\ DOMAIN pull = Pulls
    /\ \A p \in Pulls : DOMAIN pull[p] = PullFields /\ pull[p].key \in Keys

\* What an instance has claimed is in no row, in no other claim, and not refreshed.
ClaimOf(i) ==
    /\ i \in Keys \X I!Ids /\ i[2] <= created[i[1]] /\ row[i[1]].id # i[2] /\ refreshed[i] = 0
ClaimsKept ==
    /\ DOMAIN drain = Nodes
    /\ \A n \in Nodes : /\ DOMAIN drain[n] = DrainFields /\ drain[n].listed \subseteq Keys
                        /\ \A i \in drain[n].claimed : ClaimOf(i)
    /\ \A m, n \in Nodes : m # n => drain[m].claimed \cap drain[n].claimed = {}

\* An intent that is stored, or not created yet, was never refreshed.
RefreshesKept ==
    /\ DOMAIN refreshed = Keys \X I!Ids
    /\ \A i \in Keys \X I!Ids : /\ refreshed[i] \in {0, 1}
                                /\ i[2] > created[i[1]] \/ row[i[1]].id = i[2] => refreshed[i] = 0

IntentInv == RowsNumbered /\ PullsKept /\ ClaimsKept /\ RefreshesKept

LEMMA IdsAre == I!Ids = 1..(2 * Cardinality(Pulls))
<1>1. I!Cardinality(Pulls) = Cardinality(Pulls) BY DEF I!Cardinality, Cardinality
<1> QED BY <1>1 DEF I!Ids

LEMMA DoneCount ==
    ASSUME IntentSetting
    PROVE /\ IsFiniteSet(DonePulls) /\ Cardinality(DonePulls) \in Nat /\ Cardinality(Pulls) \in Nat
          /\ Cardinality(DonePulls) <= Cardinality(Pulls)
<1>1. DonePulls \subseteq Pulls BY DEF DonePulls
<1> QED BY <1>1, FS_Subset, FS_CardinalityType DEF IntentSetting

LEMMA IntentInit == ASSUME IntentSetting, I!Init PROVE IntentInv
<1> USE DEF I!Init, I!NoRow, I!Idle
<1>1. RowsNumbered
    <2>1. Cardinality(DonePulls) \in Nat BY DoneCount
    <2> QED BY <2>1 DEF RowsNumbered
<1>2. PullsKept BY DEF PullsKept, PullFields
<1>3. ClaimsKept BY DEF ClaimsKept, DrainFields
<1>4. RefreshesKept BY DEF RefreshesKept
<1> QED BY <1>1, <1>2, <1>3, <1>4 DEF IntentInv

(* A pull moves on; it is done for good. *)
LEMMA PullMoves ==
    ASSUME IntentSetting, IntentInv, NEW p \in Pulls, NEW new, pull' = [pull EXCEPT ![p] = new],
           DOMAIN new = PullFields, new.key = pull[p].key, pull[p].pc # "done"
    PROVE /\ PullsKept' /\ Cardinality(DonePulls') \in Nat /\ Cardinality(DonePulls) <= Cardinality(DonePulls')
          /\ new.pc = "done" => Cardinality(DonePulls') = Cardinality(DonePulls) + 1
<1>1. pull'[p] = new /\ \A q \in Pulls \ {p} : pull'[q] = pull[q] BY DEF IntentInv, PullsKept
<1>2. PullsKept' BY <1>1 DEF IntentInv, PullsKept
<1>3. DonePulls' = IF new.pc = "done" THEN DonePulls \cup {p} ELSE DonePulls BY <1>1 DEF DonePulls
<1>4. p \notin DonePulls BY DEF DonePulls
<1>5. new.pc = "done" => Cardinality(DonePulls') = Cardinality(DonePulls) + 1
    BY <1>3, <1>4, DoneCount, FS_AddElement
<1> QED BY <1>2, <1>3, <1>5, DoneCount

(* A pull that touches no row. *)
LEMMA PullKeeps ==
    ASSUME IntentSetting, IntentInv, NEW p \in Pulls, NEW new, pull' = [pull EXCEPT ![p] = new],
           DOMAIN new = PullFields, new.key = pull[p].key, pull[p].pc # "done",
           UNCHANGED <<row, created, drain, refreshed>>
    PROVE IntentInv'
<1>1. PullsKept' /\ Cardinality(DonePulls') \in Nat /\ Cardinality(DonePulls) <= Cardinality(DonePulls')
    BY PullMoves
<1>2. RowsNumbered' BY <1>1, DoneCount DEF IntentInv, RowsNumbered
<1>3. ClaimsKept' BY DEF IntentInv, ClaimsKept, ClaimOf
<1>4. RefreshesKept' BY DEF IntentInv, RefreshesKept
<1> QED BY <1>1, <1>2, <1>3, <1>4 DEF IntentInv

LEMMA QueueKeepsIntents ==
    ASSUME IntentSetting, IntentInv, NEW p \in Pulls,
           \/ I!HandleArtifactPulled(p) \/ I!refreshablePull(p) \/ I!QueueRefreshIntent(p)
           \/ I!handleRefreshIntentCreateError(p) \/ I!QueueFails(p)
           \/ (I!CreateIntent(p) /\ UNCHANGED <<row, created>>)
    PROVE IntentInv'
<1> USE DEF I!To
<1>1. DOMAIN pull[p] = PullFields /\ DOMAIN pull = Pulls BY DEF IntentInv, PullsKept
<1>2. pull[p].pc # "done" /\ UNCHANGED <<row, created, drain, refreshed>>
    BY DEF I!HandleArtifactPulled, I!refreshablePull, I!QueueRefreshIntent, I!handleRefreshIntentCreateError,
           I!QueueFails, I!CreateIntent
<1>3. \E x, at, due : pull' \in {[pull EXCEPT ![p].pc = x], [pull EXCEPT ![p].pc = x, ![p].at = at],
                                 [pull EXCEPT ![p].pc = x, ![p].due = due]}
    <2>1. CASE I!HandleArtifactPulled(p) BY <2>1 DEF I!HandleArtifactPulled
    <2>2. CASE I!refreshablePull(p) \/ I!QueueFails(p) \/ I!CreateIntent(p)
        BY <2>2 DEF I!refreshablePull, I!QueueFails, I!CreateIntent
    <2>3. CASE I!QueueRefreshIntent(p) BY <2>3 DEF I!QueueRefreshIntent
    <2>4. CASE I!handleRefreshIntentCreateError(p) BY <2>4 DEF I!handleRefreshIntentCreateError
    <2> QED BY <2>1, <2>2, <2>3, <2>4
<1>4. PICK x, at, due : pull' \in {[pull EXCEPT ![p].pc = x], [pull EXCEPT ![p].pc = x, ![p].at = at],
                                   [pull EXCEPT ![p].pc = x, ![p].due = due]}
    BY <1>3
<1> DEFINE new == pull'[p]
<1>5. pull' = [pull EXCEPT ![p] = new] /\ DOMAIN new = PullFields /\ new.key = pull[p].key
    <2>1. CASE pull' = [pull EXCEPT ![p].pc = x] BY <1>1, <2>1 DEF PullFields
    <2>2. CASE pull' = [pull EXCEPT ![p].pc = x, ![p].at = at] BY <1>1, <2>2 DEF PullFields
    <2>3. CASE pull' = [pull EXCEPT ![p].pc = x, ![p].due = due] BY <1>1, <2>3 DEF PullFields
    <2> QED BY <1>4, <2>1, <2>2, <2>3
<1> HIDE DEF new
<1> QED BY <1>2, <1>5, PullKeeps

\* The row is created, with the next number of its key.
LEMMA CreateKeeps ==
    ASSUME IntentSetting, IntentInv, NEW p \in Pulls, I!CreateIntent(p), row[pull[p].key].id = 0
    PROVE IntentInv'
<1> DEFINE k == pull[p].key
<1> DEFINE new == [pull[p] EXCEPT !.pc = "done"]
<1>1. k \in Keys /\ DOMAIN pull[p] = PullFields BY DEF IntentInv, PullsKept
<1>2. DOMAIN new = PullFields /\ new.key = pull[p].key /\ new.pc = "done" BY <1>1 DEF PullFields
<1>3. pull' = [pull EXCEPT ![p] = new] /\ pull[p].pc # "done" BY DEF I!CreateIntent, I!To
<1>4. /\ row' = [row EXCEPT ![k] = [id |-> created[k] + 1, due |-> pull[p].at + Window]]
      /\ created' = [created EXCEPT ![k] = @ + 1] /\ UNCHANGED <<drain, refreshed>>
    BY DEF I!CreateIntent
<1> HIDE DEF new, k
<1>5. PullsKept' /\ Cardinality(DonePulls') = Cardinality(DonePulls) + 1 BY <1>2, <1>3, PullMoves
<1>6. /\ DOMAIN row' = Keys /\ DOMAIN created' = Keys
      /\ created[k] \in Nat /\ DOMAIN row'[k] = {"id", "due"} /\ row'[k].id = created[k] + 1 /\ created'[k] = created[k] + 1
      /\ \A l \in Keys \ {k} : row'[l] = row[l] /\ created'[l] = created[l]
    BY <1>1, <1>4 DEF IntentInv, RowsNumbered
<1>7. RowsNumbered' BY <1>1, <1>5, <1>6, DoneCount DEF IntentInv, RowsNumbered
<1>8. \A l \in Keys : created[l] \in Nat BY DEF IntentInv, RowsNumbered
<1>9. \A i \in Keys \X I!Ids : i[1] \in Keys /\ i[2] \in Nat BY DoneCount, IdsAre
<1>10. \A i : ClaimOf(i) => ClaimOf(i)'
    <2> SUFFICES ASSUME NEW i, ClaimOf(i) PROVE ClaimOf(i)' OBVIOUS
    <2>1. i \in Keys \X I!Ids BY DEF ClaimOf
    <2>2. CASE i[1] = k BY <1>4, <1>6, <1>9, <2>1, <2>2 DEF ClaimOf
    <2>3. CASE i[1] # k BY <1>4, <1>6, <1>9, <2>1, <2>3 DEF ClaimOf
    <2> QED BY <2>2, <2>3
<1>11. ClaimsKept' BY <1>4, <1>10 DEF IntentInv, ClaimsKept
<1>12. RefreshesKept'
    <2> SUFFICES ASSUME NEW i \in Keys \X I!Ids PROVE i[2] > created'[i[1]] \/ row'[i[1]].id = i[2] => refreshed[i] = 0
        BY <1>4 DEF IntentInv, RefreshesKept
    <2>1. i[2] > created[i[1]] \/ row[i[1]].id = i[2] => refreshed[i] = 0 BY DEF IntentInv, RefreshesKept
    <2>2. CASE i[1] = k BY <1>6, <1>9, <2>1, <2>2
    <2>3. CASE i[1] # k BY <1>6, <1>9, <2>1, <2>3
    <2> QED BY <2>2, <2>3
<1> QED BY <1>5, <1>7, <1>11, <1>12 DEF IntentInv

LEMMA PatchKeeps ==
    ASSUME IntentSetting, IntentInv, NEW p \in Pulls, I!updateExistingRefreshIntent(p)
    PROVE IntentInv'
<1> DEFINE k == pull[p].key
<1> DEFINE new == [pull[p] EXCEPT !.pc = "done"]
<1>1. k \in Keys /\ DOMAIN pull[p] = PullFields BY DEF IntentInv, PullsKept
<1>2. DOMAIN new = PullFields /\ new.key = pull[p].key /\ new.pc = "done" BY <1>1 DEF PullFields
<1>3. pull' = [pull EXCEPT ![p] = new] /\ pull[p].pc # "done" BY DEF I!updateExistingRefreshIntent, I!To
<1>4. /\ row' = IF row[k].id # 0 THEN [row EXCEPT ![k].due = pull[p].due] ELSE row
      /\ UNCHANGED <<created, drain, refreshed>>
    BY DEF I!updateExistingRefreshIntent
<1> HIDE DEF new, k
<1>5. PullsKept' /\ Cardinality(DonePulls') = Cardinality(DonePulls) + 1 BY <1>2, <1>3, PullMoves
<1>6. DOMAIN row' = Keys /\ \A l \in Keys : DOMAIN row'[l] = {"id", "due"} /\ row'[l].id = row[l].id
    BY <1>1, <1>4 DEF IntentInv, RowsNumbered
<1>7. RowsNumbered' BY <1>4, <1>5, <1>6, DoneCount DEF IntentInv, RowsNumbered
<1>8. ClaimsKept'
    <2>1. \A i : ClaimOf(i) => ClaimOf(i)' BY <1>4, <1>6 DEF ClaimOf
    <2> QED BY <1>4, <2>1 DEF IntentInv, ClaimsKept
<1>9. RefreshesKept' BY <1>4, <1>6 DEF IntentInv, RefreshesKept
<1> QED BY <1>5, <1>7, <1>8, <1>9 DEF IntentInv

(* A drain lists, and drops what it has. *)
LEMMA DrainMoves ==
    ASSUME IntentInv, NEW n \in Nodes, NEW new, drain' = [drain EXCEPT ![n] = new],
           DOMAIN new = DrainFields, new.listed \subseteq Keys, new.claimed \subseteq drain[n].claimed,
           UNCHANGED <<row, created, pull, refreshed>>
    PROVE IntentInv'
<1>1. drain'[n] = new /\ DOMAIN drain' = Nodes /\ \A m \in Nodes \ {n} : drain'[m] = drain[m]
    BY DEF IntentInv, ClaimsKept
<1>2. \A m \in Nodes : drain'[m].claimed \subseteq drain[m].claimed BY <1>1
<1>3. ClaimsKept'
    <2>1. \A i : ClaimOf(i) => ClaimOf(i)' BY DEF ClaimOf
    <2>2. \A m \in Nodes : DOMAIN drain'[m] = DrainFields /\ drain'[m].listed \subseteq Keys
        BY <1>1 DEF IntentInv, ClaimsKept
    <2>3. \A m \in Nodes : \A i \in drain'[m].claimed : ClaimOf(i)' BY <1>2, <2>1 DEF IntentInv, ClaimsKept
    <2>4. \A m, o \in Nodes : m # o => drain'[m].claimed \cap drain'[o].claimed = {}
        BY <1>2 DEF IntentInv, ClaimsKept
    <2> QED BY <1>1, <2>2, <2>3, <2>4 DEF ClaimsKept
<1>4. RowsNumbered' BY DEF IntentInv, RowsNumbered, DonePulls
<1>5. PullsKept' BY DEF IntentInv, PullsKept
<1>6. RefreshesKept' BY DEF IntentInv, RefreshesKept
<1> QED BY <1>3, <1>4, <1>5, <1>6 DEF IntentInv

LEMMA DrainKeeps ==
    ASSUME IntentInv, NEW n \in Nodes,
           I!ListDue(n) \/ I!ClaimFails(n) \/ I!runRefreshDrain(n) \/ I!Crash(n)
    PROVE IntentInv'
<1>1. DOMAIN drain[n] = DrainFields /\ drain[n].listed \subseteq Keys BY DEF IntentInv, ClaimsKept
<1>2. UNCHANGED <<row, created, pull, refreshed>>
    BY DEF I!ListDue, I!ClaimFails, I!runRefreshDrain, I!Crash
<1>3. PICK new \in {[pc |-> "claim", listed |-> I!Due, claimed |-> {}], I!Idle, [drain[n] EXCEPT !.pc = "refresh"]} :
          drain' = [drain EXCEPT ![n] = new]
    <2>1. CASE I!ListDue(n) BY <2>1 DEF I!ListDue
    <2>2. CASE I!ClaimFails(n) \/ I!Crash(n) BY <2>2 DEF I!ClaimFails, I!Crash
    <2>3. CASE I!runRefreshDrain(n) BY <2>3 DEF I!runRefreshDrain
    <2> QED BY <2>1, <2>2, <2>3
<1>4. DOMAIN new = DrainFields /\ new.listed \subseteq Keys /\ new.claimed \subseteq drain[n].claimed
    BY <1>1 DEF DrainFields, I!Idle, I!Due
<1> QED BY <1>2, <1>3, <1>4, DrainMoves

\* The delete of a row is the claim.
LEMMA ClaimKeeps == ASSUME IntentSetting, IntentInv, NEW n \in Nodes, I!ClaimNext(n) PROVE IntentInv'
<1>1. DOMAIN drain[n] = DrainFields /\ drain[n].listed \subseteq Keys /\ DOMAIN drain = Nodes BY DEF IntentInv, ClaimsKept
<1>2. PICK k \in drain[n].listed : I!deleteRefreshIntentByKey(n, k) BY DEF I!ClaimNext
<1>3. k \in Keys BY <1>1
<1>4. UNCHANGED <<created, pull, refreshed>> BY DEF I!ClaimNext
<1>5. row' = [row EXCEPT ![k] = I!NoRow] BY <1>2 DEF I!deleteRefreshIntentByKey
<1> DEFINE c == IF row[k].id = 0 THEN {} ELSE {<<k, row[k].id>>}
<1>6. /\ DOMAIN drain' = Nodes /\ DOMAIN drain'[n] = DrainFields /\ drain'[n].listed \subseteq Keys
      /\ drain'[n].claimed = drain[n].claimed \cup c
      /\ \A m \in Nodes \ {n} : drain'[m] = drain[m]
    BY <1>1, <1>2 DEF I!deleteRefreshIntentByKey, DrainFields
<1>7. /\ DOMAIN row' = Keys /\ DOMAIN row'[k] = {"id", "due"} /\ row'[k].id = 0
      /\ \A l \in Keys \ {k} : row'[l] = row[l]
    BY <1>3, <1>5 DEF I!NoRow, IntentInv, RowsNumbered
<1>8. RowsNumbered' BY <1>3, <1>4, <1>7 DEF IntentInv, RowsNumbered, DonePulls
<1>9. PullsKept' BY <1>4 DEF IntentInv, PullsKept
<1>10. \A i \in Keys \X I!Ids : i[1] \in Keys /\ i[2] \in Nat \ {0} /\ i = <<i[1], i[2]>> BY DoneCount, IdsAre
<1>11. RefreshesKept'
    <2> SUFFICES ASSUME NEW i \in Keys \X I!Ids PROVE i[2] > created[i[1]] \/ row'[i[1]].id = i[2] => refreshed[i] = 0
        BY <1>4 DEF IntentInv, RefreshesKept
    <2>1. i[2] > created[i[1]] \/ row[i[1]].id = i[2] => refreshed[i] = 0 BY DEF IntentInv, RefreshesKept
    <2> QED BY <1>7, <1>10, <2>1
<1>12. \A i : ClaimOf(i) => ClaimOf(i)' BY <1>4, <1>7, <1>10 DEF ClaimOf
<1>13. ASSUME NEW i \in c PROVE ClaimOf(i)' /\ \A m \in Nodes : i \notin drain[m].claimed
    <2>1. i = <<k, row[k].id>> /\ row[k].id # 0 OBVIOUS
    <2>2. row[k].id \in Nat /\ created[k] \in Nat /\ row[k].id <= created[k] /\ created[k] <= Cardinality(DonePulls)
        BY <1>3 DEF IntentInv, RowsNumbered
    <2>3. row[k].id \in I!Ids BY <2>1, <2>2, DoneCount, IdsAre
    <2>4. i \in Keys \X I!Ids /\ i[1] = k /\ i[2] = row[k].id BY <1>3, <2>1, <2>3
    <2>5. refreshed[i] = 0 BY <2>4 DEF IntentInv, RefreshesKept
    <2>6. ClaimOf(i)' BY <1>4, <1>7, <2>1, <2>2, <2>4, <2>5 DEF ClaimOf
    <2>7. ~ClaimOf(i) BY <2>4 DEF ClaimOf
    <2> QED BY <2>6, <2>7 DEF IntentInv, ClaimsKept
<1>14. ClaimsKept'
    <2> HIDE DEF c
    <2>1. \A m \in Nodes : DOMAIN drain'[m] = DrainFields /\ drain'[m].listed \subseteq Keys
        BY <1>6 DEF IntentInv, ClaimsKept
    <2>2. \A m \in Nodes : \A i \in drain'[m].claimed : ClaimOf(i)'
        BY <1>6, <1>12, <1>13 DEF IntentInv, ClaimsKept
    <2>3. \A m, o \in Nodes : m # o => drain'[m].claimed \cap drain'[o].claimed = {}
        <3>1. \A m, o \in Nodes : m # o => drain[m].claimed \cap drain[o].claimed = {} BY DEF IntentInv, ClaimsKept
        <3>2. \A m \in Nodes : c \cap drain[m].claimed = {} BY <1>13
        <3>3. \A m \in Nodes \ {n} : drain'[m].claimed = drain[m].claimed BY <1>6
        <3> QED BY <1>6, <3>1, <3>2, <3>3
    <2> QED BY <1>6, <2>1, <2>2, <2>3 DEF ClaimsKept
<1> QED BY <1>8, <1>9, <1>11, <1>14 DEF IntentInv

\* A claimed intent is handed to its ecosystem and leaves the claim.
LEMMA RefreshKeeps == ASSUME IntentSetting, IntentInv, NEW n \in Nodes, I!refreshArtifact(n) PROVE IntentInv'
<1>1. DOMAIN drain[n] = DrainFields /\ drain[n].listed \subseteq Keys /\ DOMAIN drain = Nodes BY DEF IntentInv, ClaimsKept
<1>2. PICK i \in drain[n].claimed :
          /\ \E done \in {0, 1} : refreshed' = [refreshed EXCEPT ![i] = @ + done]
          /\ drain' = [drain EXCEPT ![n] = IF drain[n].claimed = {i} THEN I!Idle
                                           ELSE [drain[n] EXCEPT !.claimed = drain[n].claimed \ {i}]]
    BY DEF I!refreshArtifact
<1>3. ClaimOf(i) /\ i \in Keys \X I!Ids BY DEF IntentInv, ClaimsKept, ClaimOf
<1>4. UNCHANGED <<row, created, pull>> BY DEF I!refreshArtifact
<1>5. /\ DOMAIN drain' = Nodes /\ DOMAIN drain'[n] = DrainFields /\ drain'[n].listed \subseteq Keys
      /\ drain'[n].claimed = drain[n].claimed \ {i}
      /\ \A m \in Nodes \ {n} : drain'[m] = drain[m]
    <2>1. CASE drain[n].claimed = {i}
        <3>1. drain' = [drain EXCEPT ![n] = I!Idle] BY <1>2, <2>1
        <3> QED BY <1>1, <2>1, <3>1 DEF DrainFields, I!Idle
    <2>2. CASE drain[n].claimed # {i}
        <3>1. drain' = [drain EXCEPT ![n] = [drain[n] EXCEPT !.claimed = drain[n].claimed \ {i}]] BY <1>2, <2>2
        <3> QED BY <1>1, <3>1 DEF DrainFields
    <2> QED BY <2>1, <2>2
<1>6. /\ DOMAIN refreshed' = Keys \X I!Ids /\ refreshed'[i] \in {0, 1}
      /\ \A x \in (Keys \X I!Ids) \ {i} : refreshed'[x] = refreshed[x]
    BY <1>2, <1>3 DEF ClaimOf, IntentInv, RefreshesKept
<1>7. RowsNumbered' BY <1>4 DEF IntentInv, RowsNumbered, DonePulls
<1>8. PullsKept' BY <1>4 DEF IntentInv, PullsKept
<1>9. RefreshesKept'
    <2>1. ~(i[2] > created[i[1]] \/ row[i[1]].id = i[2])
        <3>1. i[2] \in Nat /\ created[i[1]] \in Nat BY <1>3, DoneCount, IdsAre DEF IntentInv, RowsNumbered
        <3> QED BY <1>3, <3>1 DEF ClaimOf
    <2> QED BY <1>4, <1>6, <2>1 DEF IntentInv, RefreshesKept
<1>10. ClaimsKept'
    <2>1. \A m \in Nodes : i \notin drain'[m].claimed /\ drain'[m].claimed \subseteq drain[m].claimed
        BY <1>5 DEF IntentInv, ClaimsKept
    <2>2. \A x : x # i /\ ClaimOf(x) => ClaimOf(x)' BY <1>4, <1>6 DEF ClaimOf
    <2>3. \A m \in Nodes : DOMAIN drain'[m] = DrainFields /\ drain'[m].listed \subseteq Keys
        BY <1>5 DEF IntentInv, ClaimsKept
    <2>4. \A m \in Nodes : \A x \in drain'[m].claimed : ClaimOf(x)' BY <2>1, <2>2 DEF IntentInv, ClaimsKept
    <2>5. \A m, o \in Nodes : m # o => drain'[m].claimed \cap drain'[o].claimed = {}
        BY <2>1 DEF IntentInv, ClaimsKept
    <2> QED BY <1>5, <2>3, <2>4, <2>5 DEF ClaimsKept
<1> QED BY <1>7, <1>8, <1>9, <1>10 DEF IntentInv

LEMMA IntentStep == ASSUME IntentSetting, IntentInv, [I!Next]_(I!vars) PROVE IntentInv'
<1>1. CASE UNCHANGED <<row, created, pull, drain, refreshed>>
    BY <1>1 DEF IntentInv, RowsNumbered, DonePulls, PullsKept, ClaimsKept, ClaimOf, RefreshesKept
<1>2. ASSUME NEW p \in Pulls, I!PullSteps(p) \/ I!refreshablePull(p) \/ I!QueueFails(p) PROVE IntentInv'
    <2>1. CASE \/ I!HandleArtifactPulled(p) \/ I!refreshablePull(p) \/ I!QueueRefreshIntent(p)
               \/ I!handleRefreshIntentCreateError(p) \/ I!QueueFails(p)
        BY <2>1, QueueKeepsIntents
    <2>2. CASE I!CreateIntent(p)
        <3>1. CASE row[pull[p].key].id = 0 BY <2>2, <3>1, CreateKeeps
        <3>2. CASE row[pull[p].key].id # 0
            <4>1. UNCHANGED <<row, created>> BY <2>2, <3>2 DEF I!CreateIntent
            <4> QED BY <2>2, <4>1, QueueKeepsIntents
        <3> QED BY <3>1, <3>2
    <2>3. CASE I!updateExistingRefreshIntent(p) BY <2>3, PatchKeeps
    <2> QED BY <1>2, <2>1, <2>2, <2>3 DEF I!PullSteps
<1>3. ASSUME NEW n \in Nodes, I!DrainSteps(n) \/ I!ClaimFails(n) \/ I!Crash(n) PROVE IntentInv'
    <2>1. CASE I!ListDue(n) \/ I!ClaimFails(n) \/ I!runRefreshDrain(n) \/ I!Crash(n) BY <2>1, DrainKeeps
    <2>2. CASE I!ClaimNext(n) BY <2>2, ClaimKeeps
    <2>3. CASE I!refreshArtifact(n) BY <2>3, RefreshKeeps
    <2> QED BY <1>3, <2>1, <2>2, <2>3 DEF I!DrainSteps
<1> QED BY <1>1, <1>2, <1>3 DEF I!Next, I!Progress, I!Tick, I!Rest, I!vars

LEMMA IntentsOnce == ASSUME IntentInv PROVE I!RefreshedOnce
<1>1. \A i \in Keys \X I!Ids : refreshed[i] <= 1 BY DEF IntentInv, RefreshesKept
<1> QED BY <1>1 DEF IntentInv, ClaimsKept, ClaimOf, I!RefreshedOnce

-----------------------------------------------------------------------------
(* The registered run can be cancelled for as long as it works and runs keep to their *)
(* budgets, what dependency prefetch reports is stored, and an intent is refreshed at *)
(* most once by one instance: for every number of jobs, candidates, pulls, instances  *)
(* and artifacts, whatever order their steps come in (control.go:66-93,               *)
(* policy.go:60-84, depprefetch/run.go:146-157, refresh intents).                     *)
THEOREM RunsAreAccounted ==
    ASSUME PrefetchSetting, DependencySetting, IntentSetting
    PROVE P!Spec /\ D!Spec /\ I!Spec => []RunsAccounted
<1>1. P!Spec => []PrefetchInv
    <2>1. P!Init => PrefetchInv BY PrefetchInit
    <2>2. PrefetchInv /\ [P!Next]_(P!vars) => PrefetchInv' BY PrefetchStep
    <2> QED BY <2>1, <2>2, PTL DEF P!Spec
<1>2. D!Spec => []ReportsKept
    <2>1. D!Init => ReportsKept BY ReportsInit
    <2>2. ReportsKept /\ [D!Next]_(D!vars) => ReportsKept' BY ReportsStep
    <2> QED BY <2>1, <2>2, PTL DEF D!Spec
<1>3. I!Spec => []IntentInv
    <2>1. I!Init => IntentInv BY IntentInit
    <2>2. IntentInv /\ [I!Next]_(I!vars) => IntentInv' BY IntentStep
    <2> QED BY <2>1, <2>2, PTL DEF I!Spec
<1>4. PrefetchInv /\ ReportsKept /\ IntentInv => RunsAccounted
    BY PrefetchContained, ReportsStored, IntentsOnce DEF RunsAccounted
<1> QED BY <1>1, <1>2, <1>3, <1>4, PTL
=============================================================================
