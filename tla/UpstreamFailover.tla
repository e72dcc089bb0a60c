-------------------------- MODULE UpstreamFailover --------------------------
(***************************************************************************)
(* Blob requests of the container upstream client (container/upstream):    *)
(* the pool orders the endpoints of an alias by policy and health, the     *)
(* latency policy reserves layer scheduler entries, a runner tries several *)
(* endpoints at once (GetBlob) or one after the other (ConsumeBlob), each  *)
(* attempt waits for a slot of its endpoint, and one response becomes the  *)
(* answer.  What one attempt does on the wire is UpstreamRequest; here it  *)
(* is the class of its outcome.  One repository is modelled, so an         *)
(* endpoint's state is its combined snapshot for that repository.          *)
(***************************************************************************)
EXTENDS Integers, Sequences, FiniteSets, FiniteSetsExt

CONSTANTS
    Requests,      \* calls of GetBlob and ConsumeBlob
    Cancellable,   \* bound: the ones whose client may go away
    Consumers,     \* the ones that are ConsumeBlob (sequential)
    Endpoints,     \* registries of the alias, 1..N: mirrors first, primary last
    Policies,      \* blob mirror policies to start from
    BlobLimit,     \* MaxConcurrencyPerEndpoint
    BlobAttempts,  \* MaxConcurrentAttempts
    BlobTopN,
    Latency,       \* [Endpoints -> Nat], the latency EWMA the probes left
    Broken,        \* endpoints whose client could not be built
    FailuresOf,    \* [Endpoints -> SUBSET outcomes], how an endpoint may fail
    Public,        \* mirror_forbidden_policy = public
    MaxFails       \* bound: failures counted per endpoint and of the repository

ASSUME UpstreamAssumption ==
    /\ IsFiniteSet(Endpoints) /\ Endpoints = 1 .. Cardinality(Endpoints)
    /\ IsFiniteSet(Requests) /\ Consumers \subseteq Requests
    /\ Policies \subseteq {"ordered", "round_robin", "latency"}
    /\ FailuresOf \in [Endpoints -> SUBSET {"failed", "fatal", "mismatch", "allowlist"}]
    /\ BlobLimit \in Nat \ {0} /\ BlobAttempts \in Nat \ {0}

VARIABLES
    policy,     \* the pool's blobPolicy
    req,        \* per request: the runner, the response selection, the result
    att,        \* per request and endpoint: the attempt's goroutine
    health,     \* EndpointHealthTracker: combined state per endpoint
    inflight,   \* EndpointHealthTracker: inflight per endpoint
    slots,      \* pool limiters: slots taken per endpoint
    layer,      \* layerScheduler.inFlight per endpoint
    recent,     \* layerScheduler.recent: endpoints assigned a moment ago
    nextBlob    \* round robin offset

vars == <<policy, req, att, health, inflight, slots, layer, recent, nextBlob>>

None == 0
Primary == Cardinality(Endpoints)
Mirror(e) == e # Primary

NewRequest == [phase |-> "idle", ctx |-> "live", order |-> <<>>, next |-> 0,
               held |-> {}, selected |-> None, aborted |-> FALSE, winner |-> None]
NewAttempt == [st |-> "none", out |-> "none", body |-> "none", cancelled |-> FALSE]
\* fails: the endpoint's failures since its last success; repo: every failure of
\* the repository there, which no success takes back.
NewHealth == [fails |-> 0, repo |-> 0, cool |-> FALSE, degraded |-> FALSE]

Init ==
    /\ policy \in Policies
    /\ req = [r \in Requests |-> NewRequest]
    /\ att = [r \in Requests |-> [e \in Endpoints |-> NewAttempt]]
    /\ health = [e \in Endpoints |-> NewHealth]
    /\ inflight = [e \in Endpoints |-> 0]
    /\ slots = [e \in Endpoints |-> 0]
    /\ layer = [e \in Endpoints |-> 0]
    /\ recent = {}
    /\ nextBlob = 0

-----------------------------------------------------------------------------
(* Choosing and ordering the endpoints.                                    *)

EndpointAvailable(e) == ~health[e].cool /\ ~health[e].degraded

\* Milliseconds / 50: FailurePenalty is 10, InflightPenalty is 1.  The combined
\* snapshot adds the penalty of a degraded endpoint to the endpoint's own.
Score(e) ==
    Latency[e] + 10 * (health[e].fails + health[e].repo) + inflight[e]
        + IF health[e].degraded THEN 20 ELSE 0

Worse(b) == IF b THEN 1 ELSE 0
CompareEndpointState(a, b) ==
    \/ Worse(health[a].cool) < Worse(health[b].cool)
    \/ /\ health[a].cool = health[b].cool
       /\ \/ Worse(health[a].degraded) < Worse(health[b].degraded)
          \/ health[a].degraded = health[b].degraded /\ Score(a) < Score(b)

\* A list of candidates holds each of them once.
Lists(S) == Injection(1 .. Cardinality(S), S)
ConfiguredOrder(a, b) == a < b
RankRuntimeCandidates(a, b) ==
    CompareEndpointState(a, b) \/ (~CompareEndpointState(b, a) /\ ConfiguredOrder(a, b))

\* No healthy endpoint at all: every one stays a candidate.
FilterHealthyItems(S) ==
    IF \E e \in S : EndpointAvailable(e) THEN {e \in S : EndpointAvailable(e)} ELSE S

Candidates == IF Cardinality(Endpoints) <= 1 THEN Endpoints ELSE FilterHealthyItems(Endpoints)

\* shouldRankHealthyRuntimes: every policy but the ordered one ranks.
Sorted(list) ==
    \A i, j \in DOMAIN list : i < j =>
        IF policy = "ordered" THEN ConfiguredOrder(list[i], list[j])
        ELSE RankRuntimeCandidates(list[i], list[j])

SelectHealthyRuntimes ==
    {list \in Lists(Candidates) : Sorted(list)}

RotatedFrom(list, start) ==
    [i \in DOMAIN list |-> list[((start + i - 1) % Len(list)) + 1]]

\* The layer scheduler's score: reservations and recent assignments count,
\* an endpoint that already serves the digest gets the affinity discount.
LayerScore(e) ==
    LET score == Score(e) + layer[e] + Worse(e \in recent)
    IN  IF layer[e] > 0 THEN score - 1 ELSE score

\* The best BlobTopN by layer score come first, the others stay as ranked.
LayerOrder(list) ==
    LET top == IF BlobTopN \in 1 .. Len(list) THEN BlobTopN ELSE Len(list)
        before(a, b) ==
            \/ Worse(health[a].cool) < Worse(health[b].cool)
            \/ /\ health[a].cool = health[b].cool
               /\ \/ LayerScore(a) < LayerScore(b)
                  \/ LayerScore(a) = LayerScore(b) /\ RankRuntimeCandidates(a, b)
    IN  /\ \A i, j \in DOMAIN list : i < j /\ i <= top => before(list[i], list[j])
        /\ \A i, j \in DOMAIN list : top < i /\ i < j => RankRuntimeCandidates(list[i], list[j])

\* What each policy makes of the healthy endpoints.  The latency policy ranks
\* and filters the ranked ones once more, which changes nothing.
SelectBlobRuntimes ==
    {list \in Lists(Candidates) :
        \/ policy = "ordered" /\ list \in SelectHealthyRuntimes
        \/ policy = "round_robin" /\ \E healthy \in SelectHealthyRuntimes : list = RotatedFrom(healthy, nextBlob)
        \/ policy = "latency" /\ LayerOrder(list)}

ReserveCount(order) == IF BlobAttempts < Len(order) THEN BlobAttempts ELSE Len(order)

\* Only the latency policy reserves, and only when there is a choice.
Reserved(order) ==
    IF policy = "latency" /\ Len(order) > 1 THEN {order[i] : i \in 1 .. ReserveCount(order)} ELSE {}

NextOffset(count) == IF policy = "round_robin" /\ count > 1 THEN (nextBlob + 1) % count ELSE nextBlob

-----------------------------------------------------------------------------
(* Requests and their attempts.                                            *)

Sequential(r) == r \in Consumers \/ BlobAttempts <= 1 \/ Len(req[r].order) <= 1

\* nextRuntime and the goroutine startNext spawns, for the next n endpoints.
Started(a, order, from, n) ==
    [e \in Endpoints |->
        IF \E i \in DOMAIN order : order[i] = e /\ i > from /\ i <= from + n
        THEN IF e \in Broken
             THEN [NewAttempt EXCEPT !.st = "sent", !.out = "failed"]
             ELSE [NewAttempt EXCEPT !.st = "slot"]
        ELSE a[e]]

\* health.Acquire runs first thing in an attempt, before the slot is waited for.
Counted(a, before) == [e \in Endpoints |->
    IF a[e].st = "slot" /\ before[e].st = "none" THEN inflight[e] + 1 ELSE inflight[e]]

InitialAttempts(r, order) ==
    IF r \in Consumers \/ Len(order) <= 1 THEN 1 ELSE ReserveCount(order)

\* doWithFailover: select, reserve, start the first attempts.
Select(r) ==
    /\ req[r].phase = "idle"
    /\ \E order \in SelectBlobRuntimes :
          LET n == InitialAttempts(r, order)
              held == Reserved(order)
              started == Started(att[r], order, 0, n)
          IN  /\ req' = [req EXCEPT ![r].phase = "wait", ![r].order = order,
                                    ![r].next = n, ![r].held = held]
              /\ att' = [att EXCEPT ![r] = started]
              /\ inflight' = Counted(started, att[r])
              /\ layer' = [e \in Endpoints |-> layer[e] + Worse(e \in held)]
              /\ recent' = recent \cup held
              /\ nextBlob' = NextOffset(Len(order))
    /\ UNCHANGED <<policy, health, slots>>

\* The results channel is buffered: after the runner returned nobody reads it.
Outcome(r, out) == IF req[r].phase = "wait" THEN out ELSE "none"

AttemptCancelled(r, e) == att[r][e].cancelled \/ req[r].ctx = "cancelled"

AcquireRuntime(r, e) ==
    /\ att[r][e].st = "slot"
    /\ slots[e] < BlobLimit
    /\ slots' = [slots EXCEPT ![e] = @ + 1]
    /\ att' = [att EXCEPT ![r][e].st = "call"]
    /\ UNCHANGED <<policy, req, health, inflight, layer, recent, nextBlob>>

MutantAcquireFails(r, e) ==
    /\ att[r][e].st = "slot" /\ AttemptCancelled(r, e)
    /\ att' = [att EXCEPT ![r][e].st = "sent", ![r][e].out = Outcome(r, "failed")]
    /\ UNCHANGED <<policy, req, health, inflight, slots, layer, recent, nextBlob>>

\* The attempt's context ends while it waits for a slot.
AcquireFails(r, e) ==
    /\ att[r][e].st = "slot"
    /\ AttemptCancelled(r, e)
    /\ att' = [att EXCEPT ![r][e].st = "sent", ![r][e].out = Outcome(r, "failed")]
    /\ inflight' = [inflight EXCEPT ![e] = @ - 1]
    /\ UNCHANGED <<policy, req, health, slots, layer, recent, nextBlob>>

ReleaseRuntime(e) ==
    /\ slots' = [slots EXCEPT ![e] = @ - 1]
    /\ inflight' = [inflight EXCEPT ![e] = @ - 1]

\* failed: 404, 429, 5xx, transport; fatal: 400, 401, 403, anything else.
\* mismatch: another digest than asked for; allowlist: a public mirror's denial.
Failures(e) ==
    FailuresOf[e] \ (IF Public /\ Mirror(e) THEN {} ELSE {"allowlist"})

\* The upstream answers with an error, its body is closed by the attempt.
AttemptFails(r, e, out) ==
    /\ att[r][e].st = "call"
    /\ out \in Failures(e)
    /\ att' = [att EXCEPT ![r][e].st = "sent", ![r][e].out = Outcome(r, out)]
    /\ ReleaseRuntime(e)
    /\ UNCHANGED <<policy, req, health, layer, recent, nextBlob>>

BlobArrives(r, e) ==
    /\ att[r][e].st = "call"
    /\ att' = [att EXCEPT ![r][e].st = "got", ![r][e].body = "open"]
    /\ UNCHANGED <<policy, req, health, inflight, slots, layer, recent, nextBlob>>

\* selectResponse: the first one is the answer, any other is closed.
SelectResponse(r, e) ==
    LET refused == req[r].aborted \/ req[r].selected # None
    IN  /\ r \notin Consumers
        /\ att[r][e].st = "got"
        /\ IF refused
           THEN /\ att' = [att EXCEPT ![r][e].st = "sent", ![r][e].out = Outcome(r, "unselected"),
                                      ![r][e].body = "closed"]
                /\ UNCHANGED req
           ELSE /\ att' = [att EXCEPT ![r][e].st = "sent", ![r][e].out = Outcome(r, "ok")]
                /\ req' = [req EXCEPT ![r].selected = e]
        /\ ReleaseRuntime(e)
        /\ UNCHANGED <<policy, health, layer, recent, nextBlob>>

\* consumeBlobResponse: the body is read and closed inside the attempt.
ConsumeBlobResponse(r, e, out) ==
    /\ r \in Consumers
    /\ att[r][e].st = "got"
    /\ out \in {"ok"} \cup Failures(e)
    /\ att' = [att EXCEPT ![r][e] = [@ EXCEPT !.st = "sent", !.out = Outcome(r, out), !.body = "closed"]]
    /\ ReleaseRuntime(e)
    /\ UNCHANGED <<policy, req, health, layer, recent, nextBlob>>

ShouldFailover(e, out) == out \in {"failed", "mismatch"} \/ (out = "allowlist" /\ Public /\ Mirror(e))

RecordSuccess(e) == [health EXCEPT ![e].fails = 0, ![e].cool = FALSE]
\* A denial is the repository's, not the endpoint's; one failure is enough to
\* cool down (FailureThreshold is 1).
Raised(count) == Min({count + 1, MaxFails})
RecordFailure(e, out) ==
    [health EXCEPT ![e] = [fails |-> IF out = "failed" THEN Raised(@.fails) ELSE @.fails,
                           repo |-> Raised(@.repo),
                           cool |-> @.cool \/ out # "mismatch",
                           degraded |-> @.degraded \/ out = "mismatch"]]

MutantCancelAttempts(a, keep) ==
    [e \in Endpoints |-> IF a[e].st # "none" THEN [a[e] EXCEPT !.cancelled = TRUE] ELSE a[e]]

\* cancelAttemptsExcept: every attempt still in the runner's active map.
CancelAttempts(a, keep) ==
    [e \in Endpoints |-> IF e # keep /\ a[e].st \in {"slot", "call", "got", "sent"}
                         THEN [a[e] EXCEPT !.cancelled = TRUE, !.out = "none"] ELSE a[e]]

Seen(r, e) == [att[r] EXCEPT ![e].st = "seen"]
ReleaseReservations(r) ==
    layer' = [e \in Endpoints |-> layer[e] - Worse(e \in req[r].held)]

Sent(r, e) == req[r].phase = "wait" /\ att[r][e].st = "sent"

\* handleResult / the sequential loop on success.  The sequential loop looks at
\* the context once more before it returns.
Win(r, e) ==
    LET lost == Sequential(r) /\ req[r].ctx = "cancelled"
    IN  /\ Sent(r, e)
        /\ att[r][e].out = "ok"
        /\ health' = RecordSuccess(e)
        /\ att' = [att EXCEPT ![r] = CancelAttempts(Seen(r, e), e)]
        /\ \/ lost /\ ReleaseReservations(r) /\ req' = [req EXCEPT ![r].phase = "abort", ![r].held = {}]
           \/ /\ ~lost /\ r \in Consumers /\ ReleaseReservations(r)
              /\ req' = [req EXCEPT ![r].phase = "done", ![r].winner = e, ![r].held = {}]
           \/ /\ ~lost /\ r \notin Consumers /\ UNCHANGED layer
              /\ req' = [req EXCEPT ![r].phase = "read", ![r].winner = e]
        /\ UNCHANGED <<policy, inflight, slots, recent, nextBlob>>

\* The runner gives up: reservations are released, GetBlob aborts afterwards.
GiveUp(r, attempts) ==
    /\ att' = [att EXCEPT ![r] = attempts]
    /\ req' = [req EXCEPT ![r].phase = "abort", ![r].held = {}]
    /\ ReleaseReservations(r)
    /\ UNCHANGED <<policy, inflight, slots, recent, nextBlob>>

Terminal(r, e) ==
    /\ att[r][e].out \notin {"ok", "unselected"}
    /\ \/ req[r].ctx = "cancelled"
       \/ /\ Sequential(r) \/ req[r].selected = None
          /\ ~ShouldFailover(e, att[r][e].out)

\* A result that ends the request: its context is done or the error is final.
Fatal(r, e) ==
    /\ Sent(r, e)
    /\ Terminal(r, e)
    /\ GiveUp(r, CancelAttempts(Seen(r, e), None))
    /\ UNCHANGED health

\* A result after another attempt was selected, or one that lost to it.
Ignore(r, e) ==
    /\ Sent(r, e)
    /\ \/ att[r][e].out = "unselected"
       \/ /\ ~Sequential(r) /\ req[r].selected # None
          /\ att[r][e].out # "ok" /\ req[r].ctx = "live"
    /\ att' = [att EXCEPT ![r] = Seen(r, e)]
    /\ UNCHANGED <<policy, req, health, inflight, slots, layer, recent, nextBlob>>

\* A failure another endpoint may make up for: record it, start the next one.
Failover(r, e) ==
    /\ Sent(r, e)
    /\ req[r].ctx = "live"
    /\ Sequential(r) \/ req[r].selected = None
    /\ ShouldFailover(e, att[r][e].out)
    /\ health' = RecordFailure(e, att[r][e].out)
    /\ LET n == IF req[r].next < Len(req[r].order) THEN 1 ELSE 0
           started == Started(Seen(r, e), req[r].order, req[r].next, n)
       IN  /\ att' = [att EXCEPT ![r] = started]
           /\ req' = [req EXCEPT ![r].next = @ + n]
           /\ inflight' = Counted(started, att[r])
    /\ UNCHANGED <<policy, slots, layer, recent, nextBlob>>

InFlight(r) == {e \in Endpoints : att[r][e].st \in {"slot", "call", "got", "sent"}}

\* done(): every endpoint was started and every result taken.
Exhausted(r) ==
    /\ req[r].phase = "wait"
    /\ req[r].next >= Len(req[r].order)
    /\ InFlight(r) = {}
    /\ GiveUp(r, att[r])
    /\ UNCHANGED health

\* wait() sees ctx.Done() before a result.
ContextDone(r) ==
    /\ req[r].phase = "wait"
    /\ ~Sequential(r)
    /\ req[r].ctx = "cancelled"
    /\ GiveUp(r, CancelAttempts(att[r], None))
    /\ UNCHANGED health

MutantAbort(r) ==
    /\ req[r].phase = "abort"
    /\ req' = [req EXCEPT ![r].phase = "done"]
    /\ UNCHANGED <<policy, att, health, inflight, slots, layer, recent, nextBlob>>

\* GetBlob's error path: selectedBlob.abort().
Abort(r) ==
    /\ req[r].phase = "abort"
    /\ req' = [req EXCEPT ![r].phase = "done", ![r].aborted = TRUE, ![r].selected = None]
    /\ att' = IF req[r].selected = None THEN att
              ELSE [att EXCEPT ![r][req[r].selected].body = "closed"]
    /\ UNCHANGED <<policy, health, inflight, slots, layer, recent, nextBlob>>

\* The caller closes the body: the winner's context and the reservations go.
CloseBody(r) ==
    /\ req[r].phase = "read"
    /\ att' = [att EXCEPT ![r][req[r].winner].body = "closed",
                          ![r][req[r].winner].cancelled = TRUE]
    /\ req' = [req EXCEPT ![r].phase = "done", ![r].held = {}]
    /\ ReleaseReservations(r)
    /\ UNCHANGED <<policy, health, inflight, slots, recent, nextBlob>>

Cancel(r) ==
    /\ r \in Cancellable
    /\ req[r].phase = "wait"
    /\ req[r].ctx = "live"
    /\ req' = [req EXCEPT ![r].ctx = "cancelled"]
    /\ UNCHANGED <<policy, att, health, inflight, slots, layer, recent, nextBlob>>

\* Cooldown, degradation or the recent window of an endpoint runs out.  It only
\* matters to a request that has yet to select its endpoints.
Expire(e) ==
    /\ \E r \in Requests : req[r].phase = "idle"
    /\ \/ health[e].cool /\ health' = [health EXCEPT ![e].cool = FALSE] /\ UNCHANGED recent
       \/ health[e].degraded /\ health' = [health EXCEPT ![e].degraded = FALSE] /\ UNCHANGED recent
       \/ e \in recent /\ recent' = recent \ {e} /\ UNCHANGED health
    /\ UNCHANGED <<policy, req, att, inflight, slots, layer, nextBlob>>

Finished ==
    /\ \A r \in Requests : req[r].phase = "done" /\ InFlight(r) \subseteq {e \in Endpoints : att[r][e].st = "sent"}
    /\ UNCHANGED vars

\* What the client's own goroutines and the endpoints they wait for do.
Progress ==
    \E r \in Requests :
        \/ Exhausted(r) \/ ContextDone(r) \/ Abort(r) \/ CloseBody(r)
        \/ \E e \in Endpoints :
            \/ AcquireRuntime(r, e) \/ AcquireFails(r, e) \/ BlobArrives(r, e)
            \/ SelectResponse(r, e) \/ Win(r, e) \/ Fatal(r, e) \/ Ignore(r, e) \/ Failover(r, e)
            \/ \E out \in {"ok", "failed", "fatal", "mismatch", "allowlist"} :
                \/ AttemptFails(r, e, out) \/ ConsumeBlobResponse(r, e, out)

Next ==
    \/ Progress
    \/ \E r \in Requests : Select(r) \/ Cancel(r)
    \/ \E e \in Endpoints : Expire(e)
    \/ Finished

\* Goroutines are scheduled, an attempt that waits for headers has a timeout
\* (requestBlobAttempt), and callers close the bodies they got.  Nobody has to
\* call or to cancel.
Fairness == WF_vars(Progress)

Spec == Init /\ [][Next]_vars /\ Fairness

-----------------------------------------------------------------------------

\* The health tracker's in-flight counts, the per-endpoint slots and the layer
\* scheduler's reservations are exactly those of the attempts and selections
\* that hold them, on every path out of runAgainstRuntime and doWithFailover.
SlotsExact ==
    \A e \in Endpoints :
        /\ slots[e] <= BlobLimit
        /\ slots[e] = Cardinality({r \in Requests : att[r][e].st \in {"call", "got"}})
        /\ inflight[e] = Cardinality({r \in Requests : att[r][e].st \in {"slot", "call", "got"}})
        /\ layer[e] = Cardinality({r \in Requests :
                          e \in req[r].held /\ req[r].phase \in {"wait", "read"}})

\* A caller that was given a body reads it from a live attempt: the body is
\* open, its context was not cancelled with the losers', and every other body
\* of the request is closed or about to be refused (GetBlob, handleResult,
\* cancelAttemptsExcept).
WinnerAlive ==
    \A r \in Requests : req[r].phase = "read" =>
        /\ att[r][req[r].winner].body = "open"
        /\ ~att[r][req[r].winner].cancelled
        /\ req[r].selected = req[r].winner
        /\ \A e \in Endpoints \ {req[r].winner} :
               att[r][e].body = "open" => att[r][e].st = "got"

\* A request whose context is live fails only on an error no endpoint can make
\* up for, or after every endpoint of its selection was tried and failed.
FailsOnlyWhenAllFailed ==
    \A r \in Requests :
        (req[r].phase \in {"abort", "done"} /\ req[r].winner = None /\ req[r].ctx = "live") =>
            \/ \E e \in Endpoints : att[r][e].st = "seen" /\ att[r][e].out = "fatal"
            \/ \A i \in DOMAIN req[r].order :
                   LET e == req[r].order[i]
                   IN  att[r][e].st = "seen" /\ att[r][e].out \in {"failed", "mismatch", "allowlist"}

\* However the attempts race, a request ends as its endpoints deserve.
OutcomeEarned == WinnerAlive /\ FailsOnlyWhenAllFailed

\* Every request that started ends, and with it every slot, reservation and
\* body: nothing stays open once the callers are done (buffered results channel,
\* abort, closeUnselectedBlob).
Over(r) ==
    /\ req[r].phase = "done" /\ req[r].held = {}
    /\ \A e \in Endpoints : att[r][e].body # "open" /\ att[r][e].st \in {"none", "sent", "seen"}
EverythingReleased == <>[](\A r \in Requests : req[r].phase = "idle" \/ Over(r))
=============================================================================
