-------------------------- MODULE RefreshIntents --------------------------
(***************************************************************************)
(* Refresh intents: a pull that was answered from the cache queues, in the *)
(* metadata database, the intent to refresh the artifact one window later; *)
(* the drain job of every instance claims the intents that are due by      *)
(* deleting their rows and refreshes what it claimed.                      *)
(*                                                                         *)
(* QueueRefreshIntent is a read followed by a patch or a create, and the   *)
(* drain is a list followed by one delete per row, so pulls of one         *)
(* artifact and the drains of several instances interleave between the     *)
(* statements.  An intent carries a number, for the properties only.       *)
(***************************************************************************)
EXTENDS Naturals, FiniteSets

CONSTANTS Pulls,      \* cache hits handled by the refresh subscriber
          Nodes,      \* instances, each running the drain job
          Keys,       \* artifacts
          Window,     \* refresh window
          MaxTime,    \* bound of the clock
          MaxDrains   \* bound of the drains of an instance

VARIABLES
  now,      \* the clock
  row,      \* the intent stored for each key; id 0 when there is none
  created,  \* intents created so far, for each key
  pull,     \* each pull: its step, key, time and the due time it read
  drain,    \* each instance's drain: its step, the listed keys, the claimed intents
  drains,   \* drains an instance has begun
  refreshed \* how often the artifact of each intent was handed to its ecosystem

vars == <<now, row, created, pull, drain, drains, refreshed>>

NoRow == [id |-> 0, due |-> 0]
Ids == 1..(2 * Cardinality(Pulls))
Idle == [pc |-> "idle", listed |-> {}, claimed |-> {}]

TypeOK ==
  /\ now \in 0..MaxTime
  /\ row \in [Keys -> [id : {0} \cup Ids, due : 0..(MaxTime + Window)]]
  /\ created \in [Keys -> 0..Cardinality(Pulls)]
  /\ pull \in [Pulls -> [pc : {"new", "read", "create", "lookup", "patch", "done", "failed"},
                         key : Keys, at : 0..MaxTime, due : 0..(MaxTime + Window)]]
  /\ drain \in [Nodes -> [pc : {"idle", "claim", "refresh"},
                          listed : SUBSET Keys, claimed : SUBSET (Keys \X Ids)]]
  /\ drains \in [Nodes -> 0..MaxDrains]
  /\ refreshed \in [Keys \X Ids -> 0..2]

Init ==
  /\ now = 0
  /\ row = [k \in Keys |-> NoRow]
  /\ created = [k \in Keys |-> 0]
  /\ pull \in [Pulls -> {[pc |-> "new", key |-> k, at |-> 0, due |-> 0] : k \in Keys}]
  /\ drain = [n \in Nodes |-> Idle]
  /\ drains = [n \in Nodes |-> 0]
  /\ refreshed = [i \in Keys \X Ids |-> 0]

Tick ==
  /\ now < MaxTime /\ now' = now + 1
  /\ UNCHANGED <<row, created, pull, drain, drains, refreshed>>

-----------------------------------------------------------------------------
(* The subscriber of ArtifactPulled.                                       *)

To(p, pc) == pull' = [pull EXCEPT ![p].pc = pc]

\* HandleArtifactPulled: only a hit or a stale answer counts, and only while the
\* scheduler and its refresh are enabled; the time is read before the database.
HandleArtifactPulled(p) ==
  /\ pull[p].pc = "new"
  /\ pull' = [pull EXCEPT ![p].pc = "read", ![p].at = now]
  /\ UNCHANGED <<now, row, created, drain, drains, refreshed>>

refreshablePull(p) ==
  /\ pull[p].pc = "new" /\ To(p, "done")
  /\ UNCHANGED <<now, row, created, drain, drains, refreshed>>

QueueRefreshIntent(p) ==
  /\ pull[p].pc = "read"
  /\ LET r == row[pull[p].key] IN
     pull' = [pull EXCEPT ![p].pc = IF r.id = 0 THEN "create" ELSE "patch", ![p].due = r.due]
  /\ UNCHANGED <<now, row, created, drain, drains, refreshed>>

\* The key is unique: creating beside another pull's intent fails and the row is looked up again.
CreateIntent(p) ==
  /\ pull[p].pc = "create"
  /\ LET k == pull[p].key IN
     \/ /\ row[k].id = 0
        /\ row' = [row EXCEPT ![k] = [id |-> created[k] + 1, due |-> pull[p].at + Window]]
        /\ created' = [created EXCEPT ![k] = @ + 1]
        /\ To(p, "done")
     \/ /\ row[k].id # 0
        /\ To(p, "lookup") /\ UNCHANGED <<row, created>>
  /\ UNCHANGED <<now, drain, drains, refreshed>>

\* handleRefreshIntentCreateError: the intent may have been claimed meanwhile.
handleRefreshIntentCreateError(p) ==
  /\ pull[p].pc = "lookup"
  /\ LET r == row[pull[p].key] IN
     pull' = [pull EXCEPT ![p].pc = IF r.id = 0 THEN "failed" ELSE "patch", ![p].due = r.due]
  /\ UNCHANGED <<now, row, created, drain, drains, refreshed>>

\* The patch by key counts the pull and writes back the due time it read: the row
\* is as it was, or it was claimed and the patch changes no row, which is a success
\* too.  A newer intent's row gets the older due time.
updateExistingRefreshIntent(p) ==
  /\ pull[p].pc = "patch"
  /\ LET k == pull[p].key IN
     row' = IF row[k].id # 0 THEN [row EXCEPT ![k].due = pull[p].due] ELSE row
  /\ To(p, "done")
  /\ UNCHANGED <<now, created, drain, drains, refreshed>>

\* Any statement fails: the event's handler reports the error and the bus goes on.
QueueFails(p) ==
  /\ pull[p].pc \in {"read", "create", "lookup", "patch"}
  /\ To(p, "failed")
  /\ UNCHANGED <<now, row, created, drain, drains, refreshed>>

-----------------------------------------------------------------------------
(* The drain job.                                                          *)

Due == {k \in Keys : row[k].id # 0 /\ row[k].due <= now}

\* The list of ConsumeDueRefreshIntents, ordered by due time and bounded by a limit.
ListDue(n) ==
  /\ drain[n].pc = "idle" /\ drains[n] < MaxDrains /\ Due # {}
  /\ drain' = [drain EXCEPT ![n] = [pc |-> "claim", listed |-> Due, claimed |-> {}]]
  /\ drains' = [drains EXCEPT ![n] = @ + 1]
  /\ UNCHANGED <<now, row, created, pull, refreshed>>

\* The delete by key is the claim: a row that is gone was claimed by another instance.
\* A newer intent of the key is claimed in the place of the one that was listed.
deleteRefreshIntentByKey(n, k) ==
  /\ row' = [row EXCEPT ![k] = NoRow]
  /\ drain' = [drain EXCEPT ![n].listed = @ \ {k},
                            ![n].claimed = IF row[k].id = 0 THEN @ ELSE @ \cup {<<k, row[k].id>>}]

ClaimNext(n) ==
  /\ drain[n].pc = "claim"
  /\ \E k \in drain[n].listed : deleteRefreshIntentByKey(n, k)
  /\ UNCHANGED <<now, created, pull, drains, refreshed>>

\* A delete fails midway: the drain reports the error and drops what it had claimed.
ClaimFails(n) ==
  /\ drain[n].pc = "claim" /\ drain[n].listed # {}
  /\ drain' = [drain EXCEPT ![n] = Idle]
  /\ UNCHANGED <<now, row, created, pull, drains, refreshed>>

\* Every claimed intent becomes a task of RunIOAllSettled.
runRefreshDrain(n) ==
  /\ drain[n].pc = "claim" /\ drain[n].listed = {}
  /\ drain' = [drain EXCEPT ![n] = IF @.claimed = {} THEN Idle ELSE [@ EXCEPT !.pc = "refresh"]]
  /\ UNCHANGED <<now, row, created, pull, drains, refreshed>>

\* refreshArtifact: the ecosystem's Refresh succeeds, fails, or is not there;
\* the intent is gone in every case.
refreshArtifact(n) ==
  /\ drain[n].pc = "refresh"
  /\ \E i \in drain[n].claimed :
       /\ \E done \in {0, 1} : refreshed' = [refreshed EXCEPT ![i] = @ + done]
       /\ drain' = [drain EXCEPT ![n] = IF drain[n].claimed = {i} THEN Idle
                                        ELSE [drain[n] EXCEPT !.claimed = drain[n].claimed \ {i}]]
  /\ UNCHANGED <<now, row, created, pull, drains>>

\* The instance dies: the intents it claimed are in no database any more.
Crash(n) ==
  /\ drain[n].pc # "idle"
  /\ drain' = [drain EXCEPT ![n] = Idle]
  /\ UNCHANGED <<now, row, created, pull, drains, refreshed>>

-----------------------------------------------------------------------------
Resting ==
  /\ \A p \in Pulls : pull[p].pc \in {"done", "failed"}
  /\ \A n \in Nodes : drain[n].pc = "idle"
Rest == Resting /\ now = MaxTime /\ (Due = {} \/ \A n \in Nodes : drains[n] = MaxDrains) /\ UNCHANGED vars

DrainSteps(n) == ListDue(n) \/ ClaimNext(n) \/ runRefreshDrain(n) \/ refreshArtifact(n)
PullSteps(p) == HandleArtifactPulled(p) \/ QueueRefreshIntent(p) \/ CreateIntent(p)
                \/ handleRefreshIntentCreateError(p) \/ updateExistingRefreshIntent(p)
Progress == (\E n \in Nodes : DrainSteps(n)) \/ (\E p \in Pulls : PullSteps(p)) \/ Tick

Next ==
  \/ Progress \/ Rest
  \/ \E n \in Nodes : ClaimFails(n) \/ Crash(n)
  \/ \E p \in Pulls : refreshablePull(p) \/ QueueFails(p)

Spec == Init /\ [][Next]_vars /\ WF_vars(Progress)

-----------------------------------------------------------------------------
\* However the instances' drains and the pulls interleave, an intent is refreshed
\* at most once, is held by one instance at a time, and is not stored any more
\* while an instance holds it.
RefreshedOnce ==
  /\ \A i \in Keys \X Ids : refreshed[i] <= 1
  /\ \A m, n \in Nodes : m # n => drain[m].claimed \cap drain[n].claimed = {}
  /\ \A n \in Nodes : \A i \in drain[n].claimed : row[i[1]].id # i[2] /\ refreshed[i] = 0
=============================================================================
