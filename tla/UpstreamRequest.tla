-------------------------- MODULE UpstreamRequest ---------------------------
(***************************************************************************)
(* One endpoint of a container upstream as a call of Client.do sees it     *)
(* (request.go, request_retry.go, request_token.go, auth.go,               *)
(* forbidden_evidence.go): attempts with backoff, the bearer challenge and *)
(* its token, shared by all callers of a cache key, the repeated request,  *)
(* and the evidence for a public mirror's 403.  The calls share one token  *)
(* cache key.  Tokens are numbered in the order the realm issues them.     *)
(***************************************************************************)
EXTENDS Integers, FiniteSets

CONSTANTS
    Calls,        \* calls of Client.do for one registry and scope
    Attempts,     \* maxUpstreamAttempts
    MaxTokens,    \* bound: tokens the realm issues
    PublicMirror  \* the endpoint is an anonymous mirror under the public policy

VARIABLES
    call,     \* per call: where Client.do is
    cached,   \* bearerTokenCache: whether the key has an entry
    live,     \* ... and whether that entry is before its expiry
    issued,   \* tokens the realm issued so far
    lost,     \* tokens that expired, were evicted or whose fetch was abandoned
    flight,   \* tokenGroup: the running fetch and its waiters
    orphan    \* a fetch all waiters have left is still running

token == <<cached, live, issued, lost, flight, orphan>>
vars == <<call, cached, live, issued, lost, flight, orphan>>

NewCall == [pc |-> "idle", round |-> "plain", head |-> FALSE, n |-> 0, open |-> 0, status |-> "none",
            bearer |-> FALSE, cancelled |-> FALSE, result |-> "none"]
NoFetch == [pc |-> "off", waiters |-> {}, ok |-> FALSE]

Init ==
    /\ call = [c \in Calls |-> NewCall]
    /\ cached = FALSE /\ live = FALSE /\ issued = 0 /\ lost = 0
    /\ flight = NoFetch /\ orphan = FALSE

Set(c, rec) == call' = [call EXCEPT ![c] = rec]

Start(c, head) ==
    /\ call[c].pc = "idle"
    /\ Set(c, [call[c] EXCEPT !.pc = "send", !.head = head])
    /\ UNCHANGED token

Cancel(c) ==
    /\ call[c].pc \notin {"idle", "done"} /\ ~call[c].cancelled
    /\ Set(c, [call[c] EXCEPT !.cancelled = TRUE])
    /\ UNCHANGED token

-----------------------------------------------------------------------------
(* execute: attempts of one round.                                         *)

ShouldRetryStatus(status) == status = "retry"
\* What the registry may answer: a plain request may be challenged, a bearer
\* one refused because its token expired on the way or was revoked.
Statuses(c) == {"ok", "retry", "forbidden", "unauthorized"}
                   \cup (IF call[c].round = "plain" THEN {"error"} ELSE {})

\* executeOnce answered: a status that may be retried is drained and closed
\* while attempts are left, any other ends the round with its body open.
Respond(c, status) ==
    /\ call[c].pc = "send"
    /\ status \in Statuses(c)
    /\ IF ShouldRetryStatus(status) /\ call[c].n + 1 < Attempts
       THEN Set(c, [call[c] EXCEPT !.pc = "backoff", !.n = @ + 1])
       ELSE Set(c, [call[c] EXCEPT !.pc = "answered", !.status = status, !.open = @ + 1])
    /\ UNCHANGED token

\* handleAttemptError: a transport error is retried by its kind.
TransportError(c, temporary) ==
    /\ call[c].pc = "send"
    /\ IF temporary /\ call[c].n + 1 < Attempts
       THEN Set(c, [call[c] EXCEPT !.pc = "backoff", !.n = @ + 1])
       ELSE Set(c, IF call[c].round = "confirm"
                   THEN [call[c] EXCEPT !.pc = "evidence", !.status = "none"]
                   ELSE [call[c] EXCEPT !.pc = "done", !.result = "transport"])
    /\ UNCHANGED token

\* waitRetry: the timer or the context.
WaitRetry(c) ==
    /\ call[c].pc = "backoff"
    /\ \/ Set(c, [call[c] EXCEPT !.pc = "send"])
       \/ /\ call[c].cancelled
          /\ Set(c, IF call[c].round = "confirm"
                    THEN [call[c] EXCEPT !.pc = "evidence", !.status = "none"]
                    ELSE [call[c] EXCEPT !.pc = "done", !.result = "cancelled"])
    /\ UNCHANGED token

-----------------------------------------------------------------------------
(* do, doBearerChallenge and handleBearerRetry: what a final answer means. *)

Return(c, result) == Set(c, [call[c] EXCEPT !.pc = "done", !.result = result])

\* 401 with a challenge: the body is drained and closed, a token is needed.
Challenged(c) ==
    /\ call[c].pc = "answered" /\ call[c].round = "plain" /\ call[c].status = "unauthorized"
    /\ \/ Set(c, [call[c] EXCEPT !.pc = "token", !.open = @ - 1])
       \/ Return(c, "response")                 \* no bearer realm in the header
    /\ UNCHANGED token

\* 403 of a public mirror: the evidence is read and the body closed; a HEAD has
\* none, so a GET with the same credentials is sent for it.
Forbidden(c) ==
    /\ call[c].pc = "answered" /\ call[c].round # "confirm" /\ call[c].status = "forbidden"
    /\ PublicMirror
    /\ \/ /\ call[c].head
          /\ Set(c, [call[c] EXCEPT !.pc = "send", !.round = "confirm", !.n = 0, !.open = @ - 1])
       \/ /\ ~call[c].head
          /\ Set(c, [call[c] EXCEPT !.pc = "evidence", !.open = @ - 1])
    /\ UNCHANGED token

\* The confirming GET answered: only a second 403 is evidence.
Confirmed(c) ==
    /\ call[c].pc = "answered" /\ call[c].round = "confirm"
    /\ Set(c, [call[c] EXCEPT !.pc = "evidence", !.open = @ - 1])
    /\ UNCHANGED token

\* isAllowlistForbiddenBody decides.  A denial that is not one keeps its meaning:
\* final for a bearer request, the plain response otherwise (its body is gone).
Evidence(c) ==
    /\ call[c].pc = "evidence"
    /\ \/ call[c].status = "forbidden" /\ Return(c, "allowlist")
       \/ /\ ~call[c].cancelled
          /\ Return(c, IF ~call[c].bearer THEN "empty" ELSE "rejected")
       \/ /\ call[c].cancelled
          /\ Return(c, "cancelled")
    /\ UNCHANGED token

\* A bearer request refused again: the body is closed, the error is final.
Rejected(c) ==
    /\ call[c].pc = "answered" /\ call[c].round = "bearer"
    /\ \/ call[c].status = "unauthorized"
       \/ call[c].status = "forbidden" /\ ~PublicMirror
    /\ Set(c, [call[c] EXCEPT !.pc = "done", !.open = @ - 1,
                 !.result = IF call[c].status = "unauthorized" THEN "refused" ELSE "rejected"])
    /\ UNCHANGED token

\* Any other answer goes to the caller, body and all.
Answer(c) ==
    /\ call[c].pc = "answered" /\ call[c].round # "confirm"
    /\ \/ call[c].status \in {"ok", "error", "retry"}
       \/ call[c].status = "forbidden" /\ call[c].round = "plain" /\ ~PublicMirror
    /\ Return(c, "response")
    /\ UNCHANGED token

-----------------------------------------------------------------------------
(* fetchToken and the token cache.                                         *)

Bearer(c) == [call[c] EXCEPT !.pc = "send", !.round = "bearer", !.n = 0, !.bearer = TRUE]

CacheHit == cached /\ live

\* bearerTokenCache.get: an expired entry is removed and counts as a miss.
TokenCached(c) ==
    /\ call[c].pc = "token"
    /\ Set(c, IF CacheHit THEN Bearer(c) ELSE [call[c] EXCEPT !.pc = "join"])
    /\ cached' = CacheHit
    /\ UNCHANGED <<live, issued, lost, flight, orphan>>

\* DoContext: join the group's fetch or start one.
JoinFetch(c) ==
    /\ call[c].pc = "join" /\ flight.pc # "deliver"
    /\ flight' = IF flight.pc = "off" THEN [NoFetch EXCEPT !.pc = "look", !.waiters = {c}]
                 ELSE [flight EXCEPT !.waiters = @ \cup {c}]
    /\ Set(c, [call[c] EXCEPT !.pc = "wait"])
    /\ UNCHANGED <<cached, live, issued, lost, orphan>>

\* A caller whose context ends leaves; the group forgets a fetch all have left,
\* which may still complete.  Bound: one such fetch is followed at a time.
LeaveFetch(c) ==
    /\ call[c].pc = "wait" /\ call[c].cancelled
    /\ IF flight.waiters = {c}
       THEN /\ flight' = NoFetch
            /\ orphan' = (orphan \/ flight.pc = "fetch")
            /\ lost' = IF flight.pc = "fetch" /\ ~orphan THEN lost + 1 ELSE lost
       ELSE flight' = [flight EXCEPT !.waiters = @ \ {c}] /\ UNCHANGED <<orphan, lost>>
    /\ Return(c, "cancelled")
    /\ UNCHANGED <<cached, live, issued>>

MutantLookAgain ==
    /\ flight.pc = "look"
    /\ flight' = [flight EXCEPT !.pc = "fetch"]
    /\ UNCHANGED <<call, cached, live, issued, lost, orphan>>

\* The callback looks at the cache again before it asks the realm.
LookAgain ==
    /\ flight.pc = "look"
    /\ flight' = IF CacheHit THEN [flight EXCEPT !.pc = "deliver", !.ok = TRUE]
                 ELSE [flight EXCEPT !.pc = "fetch"]
    /\ cached' = CacheHit
    /\ UNCHANGED <<call, live, issued, lost, orphan>>

\* bearerTokenCache.set: a token that has expired on arrival is not stored.
Stored(fresh) ==
    /\ issued < MaxTokens
    /\ issued' = issued + 1
    /\ IF fresh THEN cached' = TRUE /\ live' = TRUE /\ UNCHANGED lost
       ELSE lost' = lost + 1 /\ UNCHANGED <<cached, live>>

\* The realm answers with a token, or not.
FetchToken ==
    /\ flight.pc = "fetch"
    /\ \/ /\ \E fresh \in BOOLEAN : Stored(fresh)
          /\ flight' = [flight EXCEPT !.pc = "deliver", !.ok = TRUE]
       \/ /\ flight' = [flight EXCEPT !.pc = "deliver"]
          /\ UNCHANGED <<cached, live, issued, lost>>
    /\ UNCHANGED <<call, orphan>>

OrphanEnds ==
    /\ orphan /\ orphan' = FALSE
    /\ \/ Stored(TRUE)
       \/ UNCHANGED <<cached, live, issued, lost>>
    /\ UNCHANGED <<call, flight>>

Deliver ==
    /\ flight.pc = "deliver"
    /\ call' = [c \in Calls |->
                   IF c \notin flight.waiters THEN call[c]
                   ELSE IF flight.ok THEN Bearer(c)
                   ELSE [call[c] EXCEPT !.pc = "done", !.result = "token"]]
    /\ flight' = NoFetch
    /\ UNCHANGED <<cached, live, issued, lost, orphan>>

\* Time passes for the cached token, or the cache of 4096 entries evicts it.
LoseToken ==
    /\ CacheHit /\ lost < MaxTokens
    /\ lost' = lost + 1
    /\ \/ live' = FALSE /\ UNCHANGED cached
       \/ cached' = FALSE /\ UNCHANGED live
    /\ UNCHANGED <<call, issued, flight, orphan>>

Step(c) ==
    \/ \E s \in {"ok", "error", "unauthorized", "forbidden", "retry"} : Respond(c, s)
    \/ \E temporary \in BOOLEAN : TransportError(c, temporary)
    \/ WaitRetry(c) \/ Challenged(c) \/ Forbidden(c) \/ Confirmed(c) \/ Evidence(c) \/ Rejected(c)
    \/ Answer(c) \/ TokenCached(c) \/ JoinFetch(c) \/ LeaveFetch(c)

Finished == (\A c \in Calls : call[c].pc = "done") /\ UNCHANGED vars

Next ==
    \/ \E c \in Calls : Step(c) \/ Cancel(c) \/ \E head \in BOOLEAN : Start(c, head)
    \/ LookAgain \/ FetchToken \/ OrphanEnds \/ Deliver \/ LoseToken \/ Finished

Spec == Init /\ [][Next]_vars

-----------------------------------------------------------------------------

\* Client.do hands a caller one open body with a response and none with an
\* error, whatever it drained, retried, challenged or confirmed on the way.
NoBodyLeaks ==
    \A c \in Calls :
        /\ call[c].open \in 0 .. 1
        /\ call[c].pc = "done" => call[c].open = (IF call[c].result = "response" THEN 1 ELSE 0)

\* Callers of one key share tokens: the realm issues another one only for one
\* that expired, was evicted or belonged to an abandoned fetch, however the
\* callers' looks at the cache interleave with fetches (fetchToken looks twice).
TokensShared == issued <= 1 + lost

CallsAccounted == NoBodyLeaks /\ TokensShared
=============================================================================
