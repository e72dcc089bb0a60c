----------------------------- MODULE MavenFill -----------------------------
(***************************************************************************)
(* The Maven proxy's background fills (ecosystems/maven: fill_task,        *)
(* async_fill, prepared_response, store).  A client that misses the cache  *)
(* starts a task in a bounded pool, or joins the one of its key; the task  *)
(* spools the artifact into a replay file, publishes it, and only then     *)
(* writes the cache; the clients read the file, which goes when the task   *)
(* has finished, nobody refers to the task and nobody reads.  A full pool  *)
(* leaves a client to fetch for itself, and a refresh always does.         *)
(***************************************************************************)
EXTENDS Integers, FiniteSets

CONSTANTS
    Clients,
    Keys,
    Tasks,      \* bound: tasks that may be around at a time, reused
    Workers     \* defaultMavenFillConcurrency

VARIABLES
    stored,     \* keys whose artifact the cache holds
    active,     \* mavenFillPool.active: the task of a key, or 0
    closed,     \* mavenFillPool.closed
    task,       \* pendingMavenFill and the worker that runs it
    file,       \* replayableBody: by the task or the client that spooled it
    client

vars == <<stored, active, closed, task, file, client>>

Nil == 0
Idle == [pc |-> "free", key |-> Nil, refs |-> 0, value |-> FALSE, ready |-> FALSE,
         finished |-> FALSE, canceled |-> FALSE]
NoFile == [exists |-> FALSE, removed |-> FALSE, readers |-> 0]
NewClient == [pc |-> "idle", key |-> Nil, kind |-> "get", task |-> Nil, reads |-> Nil]

Init ==
    /\ stored \in SUBSET Keys
    /\ active = [k \in Keys |-> Nil]
    /\ closed = FALSE
    /\ task = [t \in Tasks |-> Idle]
    /\ file = [f \in Tasks \cup Clients |-> NoFile]
    /\ client = [c \in Clients |-> NewClient]

-----------------------------------------------------------------------------
(* The replay file.                                                        *)

\* removeIfUnused: the readers there are keep the file.
RemoveIfUnused(f) == IF f.removed /\ f.readers = 0 THEN NoFile ELSE f
Remove(f) == RemoveIfUnused([f EXCEPT !.removed = TRUE])
CloseReader(f) == RemoveIfUnused([f EXCEPT !.readers = @ - 1])
Openable(f) == f.exists /\ ~f.removed
Open(f) == [f EXCEPT !.readers = @ + 1]
NewReplayableBody == [NoFile EXCEPT !.exists = TRUE]

-----------------------------------------------------------------------------
(* pendingMavenFill.                                                       *)

\* cleanupLocked: the last of the task and its callers takes the value away.
MutantCleanup(t) == t.finished
Cleanup(t) == t.finished /\ t.refs = 0
\* A task nobody can reach is free to be used for another.
Settled(t) == IF t.finished /\ t.refs = 0 /\ t.pc = "gone" THEN Idle ELSE t
SetTask(t, new) ==
    /\ task' = [task EXCEPT ![t] = Settled(IF Cleanup(new) THEN [new EXCEPT !.value = FALSE] ELSE new)]
    /\ file' = IF Cleanup(new) /\ new.value THEN [file EXCEPT ![t] = Remove(@)] ELSE file

Set(c, new) == client' = [client EXCEPT ![c] = new]
Goto(c, pc) == Set(c, [client[c] EXCEPT !.pc = pc])
End(c) == Set(c, [NewClient EXCEPT !.pc = "done"])

\* join and acquire: one more caller of the task that fills the key.
Joins(c, t) ==
    /\ task' = [task EXCEPT ![t].refs = @ + 1]
    /\ Set(c, [client[c] EXCEPT !.pc = "wait", !.task = t])
Running == {t \in Tasks : task[t].pc \notin {"free", "gone"}}

\* getFromUpstream: a GET joins a running fill before it looks in the cache.
Arrive(c, key, kind) ==
    /\ client[c].pc = "idle"
    /\ LET new == [client[c] EXCEPT !.key = key, !.kind = kind]
       IN IF kind = "get" /\ active[key] # Nil /\ ~closed
          THEN task' = [task EXCEPT ![active[key]].refs = @ + 1]
               /\ Set(c, [new EXCEPT !.pc = "wait", !.task = active[key]])
          ELSE Set(c, [new EXCEPT !.pc = "lookup"]) /\ UNCHANGED task
    /\ UNCHANGED <<stored, active, closed, file>>

\* cached: an error or a slow read is a miss; a hit is served from the cache.
Lookup(c) ==
    /\ client[c].pc = "lookup"
    /\ \/ client[c].kind = "get" /\ client[c].key \in stored /\ End(c)
       \/ End(c)                                          \* its context ended
       \/ Goto(c, IF client[c].kind = "get" THEN "acquire" ELSE "fetch")
    /\ UNCHANGED <<stored, active, closed, task, file>>

Unused(t) == task[t] = Idle /\ file[t] = NoFile

\* acquire, with the pool's lock held; Submit does not wait for a worker.
Acquire(c) ==
    /\ client[c].pc = "acquire" /\ ~closed
    /\ LET key == client[c].key
       IN \/ active[key] # Nil /\ Joins(c, active[key]) /\ UNCHANGED active
          \/ /\ active[key] = Nil /\ Cardinality(Running) < Workers
             /\ \E t \in Tasks :
                   /\ Unused(t) /\ \A u \in Tasks : u < t => ~Unused(u)
                   /\ active' = [active EXCEPT ![key] = t]
                   /\ task' = [task EXCEPT ![t] = [Idle EXCEPT !.pc = "look", !.key = key, !.refs = 1]]
                   /\ Set(c, [client[c] EXCEPT !.pc = "wait", !.task = t])
          \/ active[key] = Nil /\ Cardinality(Running) >= Workers
             /\ Goto(c, "fetch") /\ UNCHANGED <<active, task>>
    /\ UNCHANGED <<stored, closed, file>>
AcquireFails(c) ==
    /\ client[c].pc = "acquire" /\ closed
    /\ End(c)
    /\ UNCHANGED <<stored, active, closed, task, file>>

\* wait: for the task to be ready, or the end of the caller's context.
Wait(c) ==
    /\ client[c].pc = "wait" /\ task[client[c].task].ready
    /\ Goto(c, IF task[client[c].task].value THEN "open" ELSE "release")
    /\ UNCHANGED <<stored, active, closed, task, file>>
GiveUp(c) ==
    /\ client[c].pc \in {"wait", "open"}
    /\ Goto(c, "release")
    /\ UNCHANGED <<stored, active, closed, task, file>>
\* responseFromPrepared.
OpenReplay(c) ==
    /\ client[c].pc = "open"
    /\ LET t == client[c].task
       IN IF Openable(file[t])
          THEN file' = [file EXCEPT ![t] = Open(@)]
               /\ Set(c, [client[c] EXCEPT !.pc = "release", !.reads = t])
          ELSE UNCHANGED file /\ Goto(c, "release")
    /\ UNCHANGED <<stored, active, closed, task>>
\* release, deferred by waitMavenFill: the last caller of a task that has not
\* published stops it.
Release(c) ==
    /\ client[c].pc = "release"
    /\ LET t == client[c].task
       IN SetTask(t, [task[t] EXCEPT !.refs = @ - 1,
                                     !.canceled = @ \/ (task[t].refs = 1 /\ ~task[t].ready)])
    /\ Set(c, IF client[c].reads = Nil THEN [NewClient EXCEPT !.pc = "done"]
              ELSE [client[c] EXCEPT !.pc = "reading", !.task = Nil])
    /\ UNCHANGED <<stored, active, closed>>
\* The body of the response is closed, read to its end or not.
CloseBody(c) ==
    /\ client[c].pc = "reading"
    /\ file' = [file EXCEPT ![client[c].reads] = CloseReader(@)]
    /\ End(c)
    /\ UNCHANGED <<stored, active, closed, task>>

\* fetchWithoutCache, and a refresh: the caller spools a file of its own,
\* opens it and removes it.
FetchAlone(c) ==
    /\ client[c].pc = "fetch"
    /\ \/ End(c) /\ UNCHANGED file
       \/ /\ file' = [file EXCEPT ![c] = NewReplayableBody]
          /\ Goto(c, IF client[c].kind = "refresh" THEN "persist" ELSE "serve")
    /\ UNCHANGED <<stored, active, closed, task>>
PersistRefresh(c) ==
    /\ client[c].pc = "persist"
    /\ stored' \in {stored, stored \cup {client[c].key}}
    /\ Goto(c, "serve")
    /\ UNCHANGED <<active, closed, task, file>>
ServeAlone(c) ==
    /\ client[c].pc = "serve"
    /\ \/ file' = [file EXCEPT ![c] = Remove(Open(@))] /\ Set(c, [client[c] EXCEPT !.pc = "reading", !.reads = c])
       \/ file' = [file EXCEPT ![c] = Remove(@)] /\ End(c)
    /\ UNCHANGED <<stored, active, closed, task>>

-----------------------------------------------------------------------------
(* run: the worker of a task.                                              *)

TaskGoto(t, pc) == task' = [task EXCEPT ![t].pc = pc]

\* Coalesce: what another fill stored meanwhile is prepared like a download.
LookAgain(t) ==
    /\ task[t].pc = "look"
    /\ \/ task[t].key \in stored /\ TaskGoto(t, "prepareCached")
       \/ ~task[t].canceled /\ TaskGoto(t, "fetch")
       \/ task[t].canceled /\ TaskGoto(t, "finish")
    /\ UNCHANGED <<stored, active, closed, file, client>>
Fetch(t) ==
    /\ task[t].pc = "fetch"
    /\ \/ TaskGoto(t, "prepare") \/ TaskGoto(t, "finish")
    /\ UNCHANGED <<stored, active, closed, file, client>>
\* prepareMavenResponse: spool, validate, measure; what fails is removed.
Prepare(t) ==
    /\ task[t].pc \in {"prepare", "prepareCached"}
    /\ \/ /\ ~task[t].canceled
          /\ file' = [file EXCEPT ![t] = NewReplayableBody]
          /\ TaskGoto(t, IF task[t].pc = "prepare" THEN "publish" ELSE "publishCached")
       \/ UNCHANGED file /\ TaskGoto(t, "finish")
    /\ UNCHANGED <<stored, active, closed, client>>
\* publish: the file is the task's from here on.
Publish(t) ==
    /\ task[t].pc \in {"publish", "publishCached"}
    /\ task' = [task EXCEPT ![t].value = TRUE, ![t].ready = TRUE,
                            ![t].pc = IF @ = "publish" THEN "persist" ELSE "finish"]
    /\ UNCHANGED <<stored, active, closed, file, client>>
\* persistPreparedMaven: its own reader of the file, closed when Put returns.
Persist(t) ==
    /\ task[t].pc = "persist"
    /\ \/ Openable(file[t]) /\ file' = [file EXCEPT ![t] = Open(@)] /\ TaskGoto(t, "persisting")
       \/ UNCHANGED file /\ TaskGoto(t, "finish")         \* not cacheable, or an error
    /\ UNCHANGED <<stored, active, closed, client>>
Persisted(t) ==
    /\ task[t].pc = "persisting"
    /\ stored' \in {stored} \cup (IF task[t].canceled THEN {} ELSE {stored \cup {task[t].key}})
    /\ file' = [file EXCEPT ![t] = CloseReader(@)]
    /\ TaskGoto(t, "finish")
    /\ UNCHANGED <<active, closed, client>>
\* finish: an unpublished task is ready with its error; the key is free.
Finish(t) ==
    /\ task[t].pc = "finish"
    /\ SetTask(t, [task[t] EXCEPT !.pc = "return", !.finished = TRUE, !.ready = TRUE])
    /\ active' = [active EXCEPT ![task[t].key] = IF @ = t THEN Nil ELSE @]
    /\ UNCHANGED <<stored, closed, client>>
Return(t) ==
    /\ task[t].pc = "return"
    /\ task' = [task EXCEPT ![t] = Settled([task[t] EXCEPT !.pc = "gone"])]
    /\ UNCHANGED <<stored, active, closed, file, client>>

\* mavenFillTaskTimeout.
TimeOut(t) ==
    /\ t \in Running /\ ~task[t].finished /\ ~task[t].canceled
    /\ task' = [task EXCEPT ![t].canceled = TRUE]
    /\ UNCHANGED <<stored, active, closed, file, client>>

\* Close: the pool's close stops every active task.
Close ==
    /\ ~closed
    /\ closed' = TRUE
    /\ task' = [t \in Tasks |-> IF \E k \in Keys : active[k] = t
                                THEN [task[t] EXCEPT !.canceled = TRUE] ELSE task[t]]
    /\ UNCHANGED <<stored, active, file, client>>

\* The cache cleanup removes an artifact.
Expire(k) ==
    /\ k \in stored
    /\ stored' = stored \ {k}
    /\ UNCHANGED <<active, closed, task, file, client>>

Progress ==
    \/ \E c \in Clients :
          \/ \E k \in Keys, kind \in {"get", "refresh"} : Arrive(c, k, kind)
          \/ Lookup(c) \/ Acquire(c) \/ AcquireFails(c) \/ Wait(c) \/ OpenReplay(c)
          \/ Release(c) \/ CloseBody(c) \/ FetchAlone(c) \/ PersistRefresh(c) \/ ServeAlone(c)
    \/ \E t \in Tasks :
          \/ LookAgain(t) \/ Fetch(t) \/ Prepare(t) \/ Publish(t)
          \/ Persist(t) \/ Persisted(t) \/ Finish(t) \/ Return(t)
Next ==
    \/ Progress
    \/ \E c \in Clients : GiveUp(c)
    \/ \E t \in Tasks : TimeOut(t)
    \/ \E k \in Keys : Expire(k)
    \/ Close
    \/ (\A c \in Clients : client[c].pc = "done") /\ Running = {} /\ UNCHANGED vars

\* Upstream requests and cache writes are bounded by timeouts, and the server
\* cuts a client that stops reading.
Spec == Init /\ [][Next]_vars /\ WF_vars(Progress)

-----------------------------------------------------------------------------
TypeOK ==
    /\ \A t \in Tasks : task[t].refs \in 0 .. Cardinality(Clients) /\ file[t].readers >= 0
    /\ \A k \in Keys : active[k] # Nil => task[active[k]].key = k

\* What a task has published can be opened by every caller it has counted,
\* however late it comes and whoever else has left or finished, and the file
\* stays while one of them reads it.
PublishedStays ==
    \A c \in Clients :
       /\ client[c].pc = "open" => Openable(file[client[c].task])
       /\ client[c].reads # Nil => file[client[c].reads].exists /\ file[client[c].reads].readers > 0

\* A replay file is somebody's: of the worker that spooled it and has not
\* handed it over, of the callers of the task that published it, of the caller
\* that fetched alone, or of those who read it; none is left on the disk.
ReplaysOwned ==
    /\ \A t \in Tasks : file[t].exists =>
          (t \in Running /\ ~task[t].finished) \/ task[t].refs > 0 \/ file[t].readers > 0
    /\ \A c \in Clients : file[c].exists => client[c].pc \in {"persist", "serve", "reading"}

\* A replay file is there for those who may need it, and for nobody else.
ReplaysKept == PublishedStays /\ ReplaysOwned

\* Every client gets its answer or its error, every worker comes back, and the
\* tasks and their files are gone.
AllOver ==
    /\ \A c \in Clients : client[c].pc = "done"
    /\ \A t \in Tasks : task[t] = Idle
    /\ \A f \in Tasks \cup Clients : file[f] = NoFile
=============================================================================
