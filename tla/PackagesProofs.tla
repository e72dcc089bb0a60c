--------------------------- MODULE PackagesProofs ---------------------------
(***************************************************************************)
(* Theorems about PackageProxy, MavenFetch, PypiPackage and PackageRoutes  *)
(* for every set of requests, number of upstreams, endpoints, members and  *)
(* slots, set of documents and length of paths.                            *)
(***************************************************************************)
EXTENDS Packages, FiniteSetTheorems, SequenceTheorems, WellFoundedInduction, TLAPS

-----------------------------------------------------------------------------
(* PackageProxy *)

\* Any number of requests, but finitely many.
ProxySetting == IsFiniteSet(Requests)

Places ==
    {"idle", "policy", "lookup", "woken", "owner", "begin", "wait", "fetch", "fetched", "admit",
     "transform", "store", "reading", "done"}
Asked == {"get", "head", "range", "refresh", "root", None}
Statuses == {0, 200, 206, 404, 500}
Pulls == {"upstream", "pull", "denied", None}
Record ==
    [pc : Places, kind : Asked, up : 1 .. Upstreams, at : Nat, status : Statuses, open : SUBSET Bodies,
     body : Bodies \cup {None}, follows : Requests \cup {None}, pull : Pulls]
RowType == [state : {"none", "fresh", "stale"}, whole : BOOLEAN]
ProxyTypes ==
    /\ req \in [Requests -> Record] /\ row \in [1 .. Upstreams -> RowType]
    /\ fill \in [1 .. Upstreams -> Requests \cup {None}] /\ slots \in Int

\* What a request may have open at each place, besides the copy that a refresh looked up.
Leak(q) == IF q.kind = "refresh" THEN {"cached"} ELSE {}
Holds(q) ==
    CASE q.pc = "fetch" -> {"last"}
      [] q.pc \in {"fetched", "admit", "transform"} -> {"fetched"}
      [] q.pc = "store" -> IF eco = "pypi" THEN {"prepared"} ELSE {"fetched", "prepared"}
      [] q.pc = "reading" -> {q.body}
      [] OTHER -> {}
\* A partial answer is passed through, because only a range request gets one.
Partial(q) ==
    /\ q.pc = "fetched" /\ q.status = 206 => q.kind = "range"
    /\ q.pc \in {"admit", "transform", "store"} => q.status = 200
Sound(q) == q \in Record /\ q.open \subseteq Leak(q) \cup Holds(q) /\ Partial(q)
ProxyInv ==
    /\ ProxyTypes /\ WholeOnly /\ (eco = "pypi" => route = "index")
    /\ \A r \in Requests : Sound(req[r])

\* A step of a request that is not rewriting and does not begin to.
Moves(r) == \E q : Set(r, q) /\ Sound(q) /\ q.pc # "transform"
Keeps ==
    /\ fill' \in [1 .. Upstreams -> Requests \cup {None}]
    /\ row' \in [1 .. Upstreams -> RowType] /\ WholeOnly'
    /\ UNCHANGED path

LEMMA EndsKeeps ==
    ASSUME ProxyInv, NEW r \in Requests, NEW o, Ends(r, o)
    PROVE  fill' \in [1 .. Upstreams -> Requests \cup {None}]
BY DEF ProxyInv, ProxyTypes, Ends, fills

LEMMA StoredKeeps ==
    ASSUME ProxyInv, UNCHANGED stored, fill' \in [1 .. Upstreams -> Requests \cup {None}]
    PROVE  Keeps
BY DEF ProxyInv, ProxyTypes, Keeps, WholeOnly, stored, path

LEMMA GotoMoves ==
    ASSUME NEW r \in Requests, Sound(req[r]), NEW pc0, Goto(r, pc0), pc0 # "transform",
           [req[r] EXCEPT !.pc = pc0] \in Record, req[r].open \subseteq Leak(req[r]) \cup Holds([req[r] EXCEPT !.pc = pc0]),
           Partial([req[r] EXCEPT !.pc = pc0])
    PROVE  Moves(r)
<1> DEFINE q == [req[r] EXCEPT !.pc = pc0]
<1>1. q.open = req[r].open /\ q.pc = pc0 /\ q.kind = req[r].kind BY DEF Sound, Record
<1>2. Leak(q) = Leak(req[r]) BY <1>1 DEF Leak
<1>3. Set(r, q) BY DEF Goto
<1> HIDE DEF q
<1>4. Sound(q) BY <1>1, <1>2 DEF Sound, q
<1> QED BY <1>1, <1>3, <1>4 DEF Moves

\* An ended request, or the next upstream of a root request.
LEMMA DoneSound ==
    ASSUME NEW r \in Requests, Sound(req[r]), NEW o \in SUBSET Bodies, o \subseteq Leak(req[r]),
           NEW p \in Pulls
    PROVE  Sound(Done(r, o)) /\ Done(r, o).pc = "done" /\ Sound([Done(r, o) EXCEPT !.pull = p])
<1> DEFINE q == [Done(r, o) EXCEPT !.pull = p]
<1>0. Upstreams \in Nat \ {0} BY PackageAssumption
<1> DEFINE n == NewRequest  d == [n EXCEPT !.pc = "done", !.kind = req[r].kind, !.open = o]
<1>1. Done(r, o) \in Record /\ Done(r, o).pc = "done" /\ Done(r, o).open = o /\ Done(r, o).kind = req[r].kind
    <2>1. 1 \in 1 .. Upstreams BY <1>0
    <2>2. n \in Record BY <2>1 DEF Record, NewRequest, Places, Asked, Statuses, Pulls
    <2>3. req[r].kind \in Asked /\ "done" \in Places BY DEF Sound, Record, Places
    <2>4. Done(r, o) = d BY DEF Done
    <2> HIDE DEF n
    <2>5. d \in Record BY <2>2, <2>3 DEF Record
    <2>6. d.pc = "done" /\ d.open = o /\ d.kind = req[r].kind BY <2>2 DEF Record
    <2> HIDE DEF d
    <2> QED BY <2>4, <2>5, <2>6
<1>2. q \in Record /\ q.pc = "done" /\ q.open = o /\ q.kind = req[r].kind
    BY <1>1 DEF Record
<1> HIDE DEF q
<1>3. Sound(q) BY <1>2 DEF Sound, Leak, Holds, Partial
<1>4. Sound(Done(r, o)) BY <1>1 DEF Sound, Leak, Holds, Partial
<1> QED BY <1>1, <1>3, <1>4 DEF q

LEMMA NextSound ==
    ASSUME NEW r \in Requests, Sound(req[r]), NEW o \in SUBSET Bodies, o \subseteq Leak(req[r]), CanFallback(r)
    PROVE  Sound(NextUpstream(r, o)) /\ NextUpstream(r, o).pc = "policy"
<1> DEFINE q == NextUpstream(r, o)
<1>0. Upstreams \in Nat \ {0} BY PackageAssumption
<1>1. q \in Record /\ q.pc = "policy" /\ q.open = o /\ q.kind = req[r].kind
    <2>2. req[r] \in Record BY DEF Sound
    <2>3. PICK u \in 1 .. Upstreams : u = req[r].up + 1 BY <1>0, <2>2 DEF CanFallback, Record
    <2>4. q = [req[r] EXCEPT !.pc = "policy", !.up = u, !.at = 1, !.status = 0, !.open = o]
        BY <2>3 DEF NextUpstream
    <2> HIDE DEF q
    <2>5. q \in Record
        <3>1. [req[r] EXCEPT !.pc = "policy", !.up = u, !.at = 1, !.status = 0, !.open = o] \in Record
            <4>1. "policy" \in Places /\ 0 \in Statuses BY DEF Places, Statuses
            <4> QED BY <2>2, <4>1 DEF Record
        <3> QED BY <2>4, <3>1
    <2>6. q.pc = "policy" /\ q.open = o /\ q.kind = req[r].kind BY <2>2, <2>4 DEF Record
    <2> QED BY <2>5, <2>6
<1> HIDE DEF q
<1>2. Sound(q) BY <1>1 DEF Sound, Leak, Holds, Partial
<1> QED BY <1>1, <1>2 DEF q

LEMMA FailMoves ==
    ASSUME NEW r \in Requests, Sound(req[r]), NEW o \in SUBSET Bodies, o \subseteq Leak(req[r]), Fail(r, o)
    PROVE  Moves(r)
<1>1. CASE CanFallback(r)
    <2>1. Set(r, NextUpstream(r, o)) BY <1>1 DEF Fail
    <2> QED BY <1>1, <2>1, NextSound DEF Moves
<1>2. CASE ~CanFallback(r)
    <2>1. Set(r, Done(r, o)) BY <1>2 DEF Fail
    <2>2. Sound(Done(r, o)) /\ Done(r, o).pc = "done"
        <3>1. None \in Pulls BY DEF Pulls
        <3> QED BY <3>1, DoneSound
    <2> QED BY <2>1, <2>2 DEF Moves
<1> QED BY <1>1, <1>2

LEMMA AnswerMoves ==
    ASSUME NEW r \in Requests, Sound(req[r]), NEW o \in SUBSET Bodies, NEW b \in Bodies, o \subseteq Leak(req[r]) \cup {b},
           NEW status \in Statuses, NEW cache, Answer(r, o, b, cache, status),
           b = "cached" => Client(r)
    PROVE  Moves(r)
<1>1. CASE CanFallback(r) /\ status = 404
    <2>1. Set(r, NextUpstream(r, o \ {b})) BY <1>1 DEF Answer
    <2>2. o \ {b} \subseteq Leak(req[r]) /\ o \ {b} \in SUBSET Bodies OBVIOUS
    <2> QED BY <1>1, <2>1, <2>2, NextSound DEF Moves
<1>2. CASE ~(CanFallback(r) /\ status = 404)
    <2> DEFINE q == Response(r, o, b, cache, status)
    <2>1. Set(r, q) BY <1>2 DEF Answer
    <2>2. RecordPull(r, cache, status) \in Pulls BY DEF RecordPull, Pulls
    <2>3. /\ q \in Record /\ q.pc = "reading" /\ q.kind = req[r].kind
          /\ q.body = (IF req[r].kind = "head" THEN None ELSE b)
          /\ q.open = (IF req[r].kind = "head" THEN o \ {b} ELSE o)
        <3>1. req[r] \in Record BY DEF Sound
        <3>2. PICK b1 \in Bodies \cup {None} : b1 = (IF req[r].kind = "head" THEN None ELSE b)
            <4>1. CASE req[r].kind = "head" BY <4>1
            <4>2. CASE req[r].kind # "head" BY <4>2
            <4> QED BY <4>1, <4>2
        <3>3. PICK o1 \in SUBSET Bodies : o1 = (IF req[r].kind = "head" THEN o \ {b} ELSE o) OBVIOUS
        <3>4. PICK p1 \in Pulls : p1 = RecordPull(r, cache, status) BY <2>2
        <3>5. q = [req[r] EXCEPT !.pc = "reading", !.status = status, !.pull = p1, !.body = b1, !.open = o1]
            BY <3>2, <3>3, <3>4 DEF Response
        <3>6. [req[r] EXCEPT !.pc = "reading", !.status = status, !.pull = p1, !.body = b1, !.open = o1] \in Record
            <4>1. "reading" \in Places BY DEF Places
            <4> QED BY <3>1, <4>1 DEF Record
        <3> HIDE DEF q
        <3>7. q.pc = "reading" /\ q.kind = req[r].kind /\ q.body = b1 /\ q.open = o1 BY <3>1, <3>5 DEF Record
        <3> QED BY <3>2, <3>3, <3>5, <3>6, <3>7
    <2> HIDE DEF q
    <2>4. Sound(q) BY <2>3 DEF Sound, Leak, Holds, Partial
    <2> QED BY <2>1, <2>3, <2>4 DEF Moves
<1> QED BY <1>1, <1>2

\* One step of the flow of a request that is not at a rewriting slot.
Flows(r) == Moves(r) /\ req[r].pc # "transform" /\ UNCHANGED slots /\ Keeps

LEMMA ArriveFlows ==
    ASSUME ProxyInv, NEW r \in Requests, NEW kinds \in SUBSET {"get", "head", "range", "refresh", "root"}, Arrive(r, kinds)
    PROVE  Flows(r)
<1>1. PICK kind \in kinds, pc0 \in {"policy", "done"} : Set(r, [NewRequest EXCEPT !.pc = pc0, !.kind = kind])
    BY DEF Arrive
<1> DEFINE n == NewRequest  q == [n EXCEPT !.pc = pc0, !.kind = kind]
<1>2. n \in Record /\ n.open = {}
    <2>1. 1 \in 1 .. Upstreams BY PackageAssumption
    <2> QED BY <2>1 DEF Record, NewRequest, Places, Asked, Statuses, Pulls
<1>3. Set(r, q) BY <1>1
<1>4. kind \in Asked /\ pc0 \in Places BY DEF Asked, Places
<1> HIDE DEF n
<1>5. q \in Record BY <1>2, <1>4 DEF Record
<1>6. q.pc = pc0 /\ q.open = {} BY <1>2 DEF Record
<1> HIDE DEF q
<1>7. Sound(q) BY <1>5, <1>6 DEF Sound, Partial
<1>8. q.pc # "transform" /\ req[r].pc # "transform" BY <1>6 DEF Arrive
<1>9. Keeps BY StoredKeeps DEF Arrive, fills, ProxyInv, ProxyTypes
<1> QED BY <1>3, <1>7, <1>8, <1>9 DEF Flows, Moves, Arrive

\* A request goes on to another place with what it has.
LEMMA GoesOn ==
    ASSUME NEW r \in Requests, Sound(req[r]), NEW p \in Places, Goto(r, p), p # "transform",
           \/ p \in {"lookup", "owner", "woken", "begin", "fetch"}
              /\ req[r].pc \in {"policy", "lookup", "owner", "woken", "begin", "wait"}
           \/ p = "admit" /\ req[r].pc = "fetched" /\ req[r].status = 200
           \/ p = "store" /\ req[r].pc = "fetched" /\ req[r].status = 200 /\ eco # "pypi"
    PROVE  Moves(r)
<1> DEFINE q == [req[r] EXCEPT !.pc = p]
<1>0. req[r] \in Record BY DEF Sound
<1>1. Set(r, q) BY DEF Goto
<1>2. q \in Record BY <1>0 DEF Record
<1>3. q.pc = p /\ q.kind = req[r].kind /\ q.open = req[r].open /\ q.status = req[r].status BY <1>0 DEF Record
<1> HIDE DEF q
<1>4. Partial(q) BY <1>3 DEF Partial
<1>5. Leak(q) = Leak(req[r]) BY <1>3 DEF Leak
<1>6. Holds(req[r]) \subseteq Holds(q) BY <1>3 DEF Holds
<1>7. Sound(q) BY <1>2, <1>3, <1>4, <1>5, <1>6 DEF Sound
<1> QED BY <1>1, <1>3, <1>7 DEF Moves

LEMMA PolicyFlows ==
    ASSUME ProxyInv, NEW r \in Requests, CheckPolicy(r)
    PROVE  Flows(r)
<1>0. Sound(req[r]) /\ req[r].pc = "policy" BY DEF ProxyInv, CheckPolicy
<1>1. CASE Goto(r, "lookup")
    <2>1. "lookup" \in Places BY DEF Places
    <2> QED BY <1>0, <1>1, <2>1, GoesOn, StoredKeeps DEF Flows, CheckPolicy, fills, ProxyInv, ProxyTypes
<1>2. CASE Set(r, [Done(r, req[r].open) EXCEPT !.pull = RecordPolicyDeniedPull(r)])
    <2> DEFINE p == RecordPolicyDeniedPull(r)  q == [Done(r, req[r].open) EXCEPT !.pull = p]
    <2>1. p \in Pulls BY DEF RecordPolicyDeniedPull, Pulls
    <2>2. req[r].open \in SUBSET Bodies /\ req[r].open \subseteq Leak(req[r]) BY <1>0 DEF Sound, Record, Holds
    <2>3. Set(r, q) BY <1>2
    <2> HIDE DEF p
    <2>4. Sound(q) /\ Sound(Done(r, req[r].open)) /\ Done(r, req[r].open).pc = "done" BY <1>0, <2>1, <2>2, DoneSound
    <2>5. q.pc = "done" BY <2>4 DEF Sound, Record
    <2> HIDE DEF q
    <2>6. Moves(r) BY <2>3, <2>4, <2>5 DEF Moves
    <2> QED BY <1>0, <2>6, StoredKeeps DEF Flows, CheckPolicy, fills, ProxyInv, ProxyTypes
<1> QED BY <1>1, <1>2 DEF CheckPolicy

\* Reading the cache, in any ecosystem.
LEMMA CacheMoves ==
    ASSUME ProxyInv, NEW r \in Requests, Looks(r),
           \/ ServeCached(r)
           \/ Miss(r)
           \/ Fail(r, req[r].open) /\ Ends(r, "error")
           \/ Goto(r, "fetch") /\ UNCHANGED fills
    PROVE  Flows(r)
<1>0. Sound(req[r]) /\ req[r].pc \in {"lookup", "woken", "owner"} /\ req[r] \in Record BY DEF ProxyInv, Looks, Sound
<1>1. req[r].open \in SUBSET Bodies /\ req[r].open \subseteq Leak(req[r]) BY <1>0 DEF Sound, Record, Holds
<1>2. "fetch" \in Places /\ "begin" \in Places BY DEF Places
<1>3. ASSUME Moves(r), fill' \in [1 .. Upstreams -> Requests \cup {None}] PROVE Flows(r)
    BY <1>0, <1>3, StoredKeeps DEF Flows, Looks
<1>4. UNCHANGED fills => fill' \in [1 .. Upstreams -> Requests \cup {None}] BY DEF fills, ProxyInv, ProxyTypes
<1>5. CASE ServeCached(r) /\ Client(r)
    <2> DEFINE st == IF req[r].kind = "range" THEN 206 ELSE 200  o == req[r].open \cup {"cached"}
    <2>1. Answer(r, o, "cached", "hit", st) /\ Ends(r, "ok") BY <1>5 DEF ServeCached
    <2>2. st \in Statuses /\ "cached" \in Bodies BY DEF Statuses, Bodies
    <2>3. o \in SUBSET Bodies /\ o \subseteq Leak(req[r]) \cup {"cached"} BY <1>1, <2>2
    <2> HIDE DEF st, o
    <2>4. Moves(r) BY <1>0, <1>5, <2>1, <2>2, <2>3, AnswerMoves
    <2> QED BY <1>3, <2>1, <2>4, EndsKeeps
<1>6. CASE ServeCached(r) /\ ~Client(r)
    <2> DEFINE o == req[r].open \cup {"cached"}  q == [req[r] EXCEPT !.pc = "fetch", !.open = o]
    <2>1. Set(r, q) /\ UNCHANGED fills BY <1>6 DEF ServeCached
    <2>2. o \in SUBSET Bodies BY <1>1 DEF Bodies
    <2>3. o \subseteq {"cached"} /\ req[r].kind = "refresh" BY <1>1, <1>6 DEF Leak, Client
    <2> HIDE DEF o
    <2>4. q \in Record BY <1>0, <1>2, <2>2 DEF Record
    <2>5. q.pc = "fetch" /\ q.open = o /\ q.kind = "refresh" BY <1>0, <2>3 DEF Record
    <2> HIDE DEF q
    <2>6. Sound(q) BY <2>3, <2>4, <2>5 DEF Sound, Leak, Partial
    <2> QED BY <1>3, <1>4, <2>1, <2>5, <2>6 DEF Moves
<1>7. CASE Miss(r)
    BY <1>0, <1>2, <1>3, <1>4, <1>7, GoesOn DEF Miss
<1>8. CASE Fail(r, req[r].open) /\ Ends(r, "error")
    BY <1>0, <1>1, <1>3, <1>8, FailMoves, EndsKeeps
<1>9. CASE Goto(r, "fetch") /\ UNCHANGED fills
    BY <1>0, <1>2, <1>3, <1>4, <1>9, GoesOn
<1> QED BY <1>5, <1>6, <1>7, <1>8, <1>9

LEMMA LookupFlows ==
    ASSUME ProxyInv, NEW r \in Requests, LookupNpm(r) \/ LookupGo(r) \/ LookupDist(r) \/ LookupPypi(r)
    PROVE  Flows(r)
BY CacheMoves DEF LookupNpm, LookupGo, LookupDist, LookupPypi

\* The fill: a request ends while it looks, begins, waits.
LEMMA FillFlows ==
    ASSUME ProxyInv, NEW r \in Requests, Cancelled(r) \/ Begin(r) \/ Wait(r) \/ WaitEnds(r)
    PROVE  Flows(r)
<1>0. Sound(req[r]) /\ req[r].pc \in {"lookup", "owner", "begin", "wait"} /\ req[r] \in Record
    BY DEF ProxyInv, Cancelled, Begin, Wait, WaitEnds, Sound
<1>1. req[r].open \in SUBSET Bodies /\ req[r].open \subseteq Leak(req[r]) BY <1>0 DEF Sound, Record, Holds
<1>2. "owner" \in Places /\ "wait" \in Places /\ "woken" \in Places BY DEF Places
<1>3. ASSUME Moves(r), fill' \in [1 .. Upstreams -> Requests \cup {None}] PROVE Flows(r)
    BY <1>0, <1>3, StoredKeeps DEF Flows, Cancelled, Begin, Wait, WaitEnds
<1>4. CASE Cancelled(r) BY <1>0, <1>1, <1>3, <1>4, FailMoves, EndsKeeps DEF Cancelled
<1>5. CASE Begin(r)
    <2>1. CASE fill[req[r].up] = None
        <3>1. fill' = [fill EXCEPT ![req[r].up] = r] /\ Goto(r, "owner") BY <1>5, <2>1 DEF Begin
        <3> QED BY <1>0, <1>2, <1>3, <1>5, <3>1, GoesOn DEF ProxyInv, ProxyTypes, Begin
    <2>2. CASE fill[req[r].up] # None
        <3> DEFINE q == [req[r] EXCEPT !.pc = "wait", !.follows = fill[req[r].up]]
        <3>1. Set(r, q) /\ UNCHANGED fill BY <1>5, <2>2 DEF Begin
        <3>2. fill[req[r].up] \in Requests \cup {None} BY <1>0 DEF ProxyInv, ProxyTypes, Record
        <3>3. q \in Record BY <1>0, <1>2, <3>2 DEF Record
        <3>4. q.pc = "wait" /\ q.open = req[r].open /\ q.kind = req[r].kind BY <1>0 DEF Record
        <3> HIDE DEF q
        <3>5. Sound(q) BY <1>1, <3>3, <3>4 DEF Sound, Leak, Partial
        <3> QED BY <1>3, <3>1, <3>4, <3>5 DEF Moves, ProxyInv, ProxyTypes
    <2> QED BY <2>1, <2>2
<1>6. CASE Wait(r) \/ WaitEnds(r)
    BY <1>0, <1>1, <1>2, <1>3, <1>6, FailMoves, GoesOn DEF Wait, WaitEnds, fills, ProxyInv, ProxyTypes
<1> QED BY <1>4, <1>5, <1>6

\* The next endpoint, with what is kept of the answers so far.
LEMMA NextEndpoint ==
    ASSUME NEW r \in Requests, Sound(req[r]), req[r].pc = "fetch",
           NEW o \in {req[r].open, req[r].open \ {"last"}, req[r].open \cup {"last"}}, TryNext(r, o)
    PROVE  Moves(r)
<1>0. req[r] \in Record /\ req[r].open \subseteq Leak(req[r]) \cup {"last"} BY DEF Sound, Holds
<1>1. o \in SUBSET Bodies /\ o \subseteq Leak(req[r]) \cup {"last"} BY <1>0 DEF Record, Bodies
<1>2. PICK a \in Nat : a = req[r].at + 1 BY <1>0 DEF Record
<1> DEFINE q == [req[r] EXCEPT !.at = a, !.open = o]
<1>3. Set(r, q) BY <1>2 DEF TryNext
<1>4. q \in Record BY <1>0, <1>1 DEF Record
<1>5. q.pc = "fetch" /\ q.open = o /\ q.kind = req[r].kind BY <1>0 DEF Record
<1> HIDE DEF q
<1>6. Sound(q) BY <1>1, <1>4, <1>5 DEF Sound, Leak, Holds, Partial
<1> QED BY <1>3, <1>5, <1>6 DEF Moves

\* An answer is taken; only a range request gets a part.
LEMMA TakeMoves ==
    ASSUME NEW r \in Requests, Sound(req[r]), req[r].pc = "fetch", NEW status \in Statuses, Take(r, status),
           status = 206 => req[r].kind = "range"
    PROVE  Moves(r)
<1> DEFINE o == (req[r].open \ {"last"}) \cup {"fetched"}
<1>0. req[r] \in Record /\ req[r].open \subseteq Leak(req[r]) \cup {"last"} BY DEF Sound, Holds
<1>1. o \in SUBSET Bodies /\ o \subseteq Leak(req[r]) \cup {"fetched"} BY <1>0 DEF Record, Bodies
<1> DEFINE q == [req[r] EXCEPT !.pc = "fetched", !.status = status, !.open = o]
<1>3. Set(r, q) BY DEF Take
<1>2. "fetched" \in Places BY DEF Places
<1> HIDE DEF o
<1>4. q \in Record BY <1>0, <1>1, <1>2 DEF Record
<1>5. q.pc = "fetched" /\ q.open = o /\ q.kind = req[r].kind /\ q.status = status BY <1>0 DEF Record
<1> HIDE DEF q
<1>6. Sound(q) BY <1>1, <1>4, <1>5 DEF Sound, Leak, Holds, Partial
<1> QED BY <1>3, <1>5, <1>6 DEF Moves

LEMMA FetchFlows ==
    ASSUME ProxyInv, NEW r \in Requests, FetchNpm(r) \/ FetchGo(r) \/ FetchDist(r) \/ FetchPypi(r) \/ FetchEnds(r)
    PROVE  Flows(r)
<1>0. Sound(req[r]) /\ req[r].pc = "fetch" /\ req[r] \in Record
    BY DEF ProxyInv, FetchNpm, FetchGo, FetchDist, FetchPypi, FetchEnds, Asks, Sound
<1>1. {0, 200, 206, 404, 500} = Statuses BY DEF Statuses
<1>3. ASSUME Moves(r), fill' \in [1 .. Upstreams -> Requests \cup {None}] PROVE Flows(r)
    BY <1>0, <1>3, StoredKeeps DEF Flows, FetchNpm, FetchGo, FetchDist, FetchPypi, FetchEnds, Asks
<1>4. UNCHANGED fills => fill' \in [1 .. Upstreams -> Requests \cup {None}] BY DEF fills, ProxyInv, ProxyTypes
<1>5. CASE FetchNpm(r) \/ FetchGo(r)
    <2>1. TryNext(r, req[r].open) \/ \E status \in {200, 404, 500} : Take(r, status) BY <1>5 DEF FetchNpm, FetchGo
    <2>2. UNCHANGED fills BY <1>5 DEF FetchNpm, FetchGo, Asks
    <2>3. CASE TryNext(r, req[r].open) BY <1>0, <1>3, <1>4, <2>2, <2>3, NextEndpoint
    <2>4. ASSUME NEW status \in {200, 404, 500}, Take(r, status) PROVE Flows(r)
        <3>1. status \in Statuses /\ status # 206 BY <1>1, <2>4
        <3> QED BY <1>0, <1>3, <1>4, <2>2, <2>4, <3>1, TakeMoves
    <2> QED BY <2>1, <2>3, <2>4
<1>6. CASE FetchDist(r)
    <2>1. UNCHANGED fills BY <1>6 DEF FetchDist, Asks
    <2>2. CASE TryNext(r, req[r].open) BY <1>0, <1>3, <1>4, <2>1, <2>2, NextEndpoint
    <2>3. CASE \E status \in {200, 404, 500} \cup (IF req[r].kind = "range" THEN {206} ELSE {}) : Take(r, status)
        <3>1. PICK status \in {200, 404, 500} \cup (IF req[r].kind = "range" THEN {206} ELSE {}) : Take(r, status) BY <2>3
        <3>2. status \in Statuses /\ (status = 206 => req[r].kind = "range") BY <3>1 DEF Statuses
        <3> QED BY <1>0, <1>3, <1>4, <2>1, <3>1, <3>2, TakeMoves
    <2> QED BY <1>6, <2>2, <2>3 DEF FetchDist
<1>7. CASE FetchPypi(r)
    <2>1. UNCHANGED fills BY <1>7 DEF FetchPypi, Asks
    <2>2. \/ TryNext(r, req[r].open \ {"last"})
          \/ TryNext(r, req[r].open \cup {"last"})
          \/ \E status \in {200, 404} : Take(r, status)
        BY <1>7 DEF FetchPypi
    <2>3. ASSUME NEW o \in {req[r].open \ {"last"}, req[r].open \cup {"last"}}, TryNext(r, o) PROVE Flows(r)
        BY <1>0, <1>3, <1>4, <2>1, <2>3, NextEndpoint
    <2>4. ASSUME NEW status \in {200, 404}, Take(r, status) PROVE Flows(r)
        <3>1. status \in Statuses /\ status # 206 BY <1>1, <2>4
        <3> QED BY <1>0, <1>3, <1>4, <2>1, <2>4, <3>1, TakeMoves
    <2> QED BY <2>2, <2>3, <2>4
<1>8. CASE FetchEnds(r)
    <2>1. CASE "last" \in req[r].open
        <3>1. Take(r, 500) /\ UNCHANGED fills BY <1>8, <2>1 DEF FetchEnds
        <3>2. 500 \in Statuses BY DEF Statuses
        <3> QED BY <1>0, <1>3, <1>4, <3>1, <3>2, TakeMoves
    <2>2. CASE "last" \notin req[r].open
        <3>1. Fail(r, req[r].open) /\ Ends(r, "error") BY <1>8, <2>2 DEF FetchEnds
        <3>2. req[r].open \in SUBSET Bodies /\ req[r].open \subseteq Leak(req[r]) BY <1>0, <2>2 DEF Sound, Record, Holds
        <3> QED BY <1>0, <1>3, <3>1, <3>2, FailMoves, EndsKeeps
    <2> QED BY <2>1, <2>2
<1> QED BY <1>5, <1>6, <1>7, <1>8

\* A fetched answer is passed through or, whole, goes on to be stored.
LEMMA FetchedFlows ==
    ASSUME ProxyInv, NEW r \in Requests, Fetched(r)
    PROVE  Flows(r)
<1>0. Sound(req[r]) /\ req[r].pc = "fetched" /\ req[r] \in Record BY DEF ProxyInv, Fetched, Sound
<1>1. req[r].open \in SUBSET Bodies /\ req[r].open \subseteq Leak(req[r]) \cup {"fetched"} /\ "fetched" \in Bodies
    BY <1>0 DEF Sound, Record, Holds, Bodies
<1>3. ASSUME Moves(r), fill' \in [1 .. Upstreams -> Requests \cup {None}] PROVE Flows(r)
    BY <1>0, <1>3, StoredKeeps DEF Flows, Fetched
<1>4. CASE PassThrough(r)
    <2>1. Answer(r, req[r].open, "fetched", "miss", req[r].status) /\ Ends(r, "ok") BY <1>4 DEF Fetched
    <2>2. req[r].status \in Statuses BY <1>0 DEF Record
    <2>3. Moves(r) BY <1>0, <1>1, <2>1, <2>2, AnswerMoves
    <2> QED BY <1>3, <2>1, <2>3, EndsKeeps
<1>5. CASE ~PassThrough(r)
    <2>1. UNCHANGED fills BY <1>5 DEF Fetched
    <2>2. req[r].status = 200 BY <1>0, <1>5 DEF PassThrough, Sound, Partial
    <2>3. "admit" \in Places /\ "store" \in Places BY DEF Places
    <2>4. CASE Goto(r, "admit") BY <1>0, <1>3, <2>1, <2>2, <2>3, <2>4, GoesOn DEF fills, ProxyInv, ProxyTypes
    <2>5. CASE Goto(r, "store") /\ route \notin {"metadata", "index"}
        <3>1. eco # "pypi" BY <2>5 DEF ProxyInv
        <3> QED BY <1>0, <1>3, <2>1, <2>2, <2>3, <2>5, <3>1, GoesOn DEF fills, ProxyInv, ProxyTypes
    <2> QED BY <1>5, <2>4, <2>5 DEF Fetched
<1> QED BY <1>4, <1>5

LEMMA AdmissionFlows ==
    ASSUME ProxyInv, NEW r \in Requests, AdmissionEnds(r)
    PROVE  Flows(r)
<1>0. Sound(req[r]) /\ req[r].pc = "admit" /\ req[r] \in Record BY DEF ProxyInv, AdmissionEnds, Sound
<1>1. req[r].open \ {"fetched"} \in SUBSET Bodies /\ req[r].open \ {"fetched"} \subseteq Leak(req[r])
    BY <1>0 DEF Sound, Record, Holds
<1>2. Fail(r, req[r].open \ {"fetched"}) /\ Ends(r, "canceled") /\ UNCHANGED <<stored, slots>> BY DEF AdmissionEnds
<1>3. Moves(r) BY <1>0, <1>1, <1>2, FailMoves
<1> QED BY <1>0, <1>2, <1>3, EndsKeeps, StoredKeeps DEF Flows

LEMMA StoreFlows ==
    ASSUME ProxyInv, NEW r \in Requests, StoreNpm(r) \/ StoreDist(r) \/ StoreGo(r) \/ StorePypi(r)
    PROVE  Flows(r)
<1>0. Sound(req[r]) /\ req[r].pc = "store" /\ req[r] \in Record /\ req[r].status = 200
    BY DEF ProxyInv, StoreNpm, StoreDist, StoreGo, StorePypi, Sound, Partial
<1>1. /\ req[r].open \in SUBSET Bodies /\ Closed(r) \in SUBSET Bodies /\ Closed(r) \subseteq Leak(req[r])
      /\ (eco = "pypi" => req[r].open \subseteq Leak(req[r]) \cup {"prepared"})
    BY <1>0 DEF Sound, Record, Holds, Closed
<1>2. "stored" \in Bodies /\ "prepared" \in Bodies /\ 200 \in Statuses BY DEF Bodies, Statuses
<1>3. UNCHANGED <<path, slots>> BY DEF StoreNpm, StoreDist, StoreGo, StorePypi
<1>4. ASSUME Fresh(r) \/ UNCHANGED row PROVE row' \in [1 .. Upstreams -> RowType] /\ WholeOnly'
    <2>1. CASE UNCHANGED row BY <2>1 DEF ProxyInv, ProxyTypes, WholeOnly
    <2>2. CASE Fresh(r)
        <3>1. row' = [row EXCEPT ![req[r].up] = [state |-> "fresh", whole |-> TRUE]] BY <1>0, <2>2 DEF Fresh
        <3>2. [state |-> "fresh", whole |-> TRUE] \in RowType BY DEF RowType
        <3> QED BY <3>1, <3>2 DEF ProxyInv, ProxyTypes, WholeOnly
    <2> QED BY <1>4, <2>1, <2>2
<1>5. row' \in [1 .. Upstreams -> RowType] /\ WholeOnly'
    BY <1>4 DEF StoreNpm, StoreDist, StoreGo, StorePypi
<1>6. \/ Answer(r, Closed(r) \cup {"stored"}, "stored", "miss", 200)
      \/ Fail(r, Closed(r))
      \/ eco = "pypi" /\ Answer(r, req[r].open, "prepared", "miss", 200)
    BY DEF StoreNpm, StoreDist, StoreGo, StorePypi
<1>7. \E o : Ends(r, o) BY DEF StoreNpm, StoreDist, StoreGo, StorePypi
<1>8. Moves(r)
    <2>1. CASE Answer(r, Closed(r) \cup {"stored"}, "stored", "miss", 200)
        <3>1. Closed(r) \cup {"stored"} \in SUBSET Bodies /\ Closed(r) \cup {"stored"} \subseteq Leak(req[r]) \cup {"stored"}
            BY <1>1, <1>2
        <3> QED BY <1>0, <1>2, <2>1, <3>1, AnswerMoves
    <2>2. CASE Fail(r, Closed(r)) BY <1>0, <1>1, <2>2, FailMoves
    <2>3. CASE eco = "pypi" /\ Answer(r, req[r].open, "prepared", "miss", 200)
        BY <1>0, <1>1, <1>2, <2>3, AnswerMoves
    <2> QED BY <1>6, <2>1, <2>2, <2>3
<1> QED BY <1>0, <1>3, <1>5, <1>7, <1>8, EndsKeeps DEF Flows, Keeps

LEMMA CloseFlows ==
    ASSUME ProxyInv, NEW r \in Requests, Close(r)
    PROVE  Flows(r)
<1>0. Sound(req[r]) /\ req[r].pc = "reading" /\ req[r] \in Record BY DEF ProxyInv, Close, Sound
<1> DEFINE o == req[r].open \ {req[r].body}
<1>1. o \in SUBSET Bodies /\ o \subseteq Leak(req[r]) BY <1>0 DEF Sound, Record, Holds
<1>2. Set(r, Done(r, o)) /\ UNCHANGED <<stored, fills, slots>> BY DEF Close
<1>3. None \in Pulls BY DEF Pulls
<1> HIDE DEF o
<1>4. Sound(Done(r, o)) /\ Done(r, o).pc = "done" BY <1>0, <1>1, <1>3, DoneSound
<1>5. Moves(r) BY <1>2, <1>4 DEF Moves
<1> QED BY <1>0, <1>2, <1>5, StoredKeeps DEF Flows, fills, ProxyInv, ProxyTypes

LEMMA SetKeeps ==
    ASSUME ProxyInv, NEW r \in Requests, NEW q, Set(r, q), Sound(q), Keeps, slots' \in Int
    PROVE  ProxyInv' /\ (\A x \in Requests : x # r => req'[x] = req[x]) /\ req'[r] = q
<1>1. (\A x \in Requests : x # r => req'[x] = req[x]) /\ req'[r] = q /\ req' \in [Requests -> Record]
    BY DEF Set, ProxyInv, ProxyTypes, Sound
<1>3. ASSUME NEW x \in Requests PROVE Sound(req[x])'
    <2>1. Sound(req'[x]) BY <1>1 DEF ProxyInv
    <2>2. eco' = eco BY DEF Keeps, path
    <2> QED BY <2>1, <2>2 DEF Sound, Holds
<1> QED BY <1>1, <1>3 DEF ProxyInv, ProxyTypes, Keeps, path

LEMMA FlowsKeeps ==
    ASSUME ProxyInv, SlotsHeld, NEW r \in Requests, Flows(r)
    PROVE  ProxyInv' /\ SlotsHeld'
<1>1. PICK q : Set(r, q) /\ Sound(q) /\ q.pc # "transform" BY DEF Flows, Moves
<1>2. ProxyInv' /\ (\A x \in Requests : x # r => req'[x] = req[x]) /\ req'[r] = q
    BY <1>1, SetKeeps DEF Flows, ProxyInv, ProxyTypes
<1>3. {x \in Requests : req'[x].pc = "transform"} = {x \in Requests : req[x].pc = "transform"}
    BY <1>1, <1>2 DEF Flows
<1> QED BY <1>2, <1>3 DEF SlotsHeld, Flows

\* acquireMetadataSlot and its release count the requests that rewrite.
LEMMA SlotTaken ==
    ASSUME ProxySetting, ProxyInv, SlotsHeld, NEW r \in Requests, AcquireMetadataSlot(r)
    PROVE  ProxyInv' /\ SlotsHeld'
<1>0. Sound(req[r]) /\ req[r].pc = "admit" /\ req[r] \in Record BY DEF ProxyInv, AcquireMetadataSlot, Sound
<1> DEFINE q == [req[r] EXCEPT !.pc = "transform"]
<1>1. Set(r, q) /\ slots' = slots + 1 /\ UNCHANGED <<stored, fills>> BY DEF AcquireMetadataSlot, Goto
<1>2. "transform" \in Places BY DEF Places
<1>3. q \in Record BY <1>0, <1>2 DEF Record
<1>4. q.pc = "transform" /\ q.open = req[r].open /\ q.kind = req[r].kind /\ q.status = req[r].status BY <1>0 DEF Record
<1> HIDE DEF q
<1>5. Sound(q) BY <1>0, <1>3, <1>4 DEF Sound, Leak, Holds, Partial
<1>6. Keeps /\ slots' \in Int BY <1>1, StoredKeeps DEF fills, ProxyInv, ProxyTypes
<1>7. ProxyInv' /\ (\A x \in Requests : x # r => req'[x] = req[x]) /\ req'[r] = q BY <1>1, <1>5, <1>6, SetKeeps
<1> DEFINE S == {x \in Requests : req[x].pc = "transform"}
<1>8. {x \in Requests : req'[x].pc = "transform"} = S \cup {r} BY <1>4, <1>7
<1>9. r \notin S /\ IsFiniteSet(S) BY <1>0, FS_Subset DEF ProxySetting
<1> HIDE DEF S
<1>10. Cardinality(S \cup {r}) = Cardinality(S) + 1 BY <1>9, FS_AddElement
<1>11. slots = Cardinality(S) BY DEF SlotsHeld, S
<1> QED BY <1>1, <1>7, <1>8, <1>10, <1>11 DEF SlotsHeld

LEMMA SlotReturned ==
    ASSUME ProxySetting, ProxyInv, SlotsHeld, NEW r \in Requests, PrepareNpm(r) \/ PreparePypi(r)
    PROVE  ProxyInv' /\ SlotsHeld'
<1>0. Sound(req[r]) /\ req[r].pc = "transform" /\ req[r] \in Record
    BY DEF ProxyInv, PrepareNpm, PreparePypi, Sound
<1>1. UNCHANGED stored /\ slots' = slots - 1 BY DEF PrepareNpm, PreparePypi
<1>2. Moves(r) /\ fill' \in [1 .. Upstreams -> Requests \cup {None}]
    <2>1. CASE Rewritten(r) /\ UNCHANGED fills
        <3> DEFINE o == (req[r].open \ {"fetched"}) \cup {"prepared"}  q == [req[r] EXCEPT !.pc = "store", !.open = o]
        <3>1. Set(r, q) BY <2>1 DEF Rewritten
        <3>2. o \in SUBSET Bodies /\ o \subseteq Leak(req[r]) \cup {"prepared"} /\ "store" \in Places
            BY <1>0 DEF Sound, Record, Holds, Bodies, Places
        <3> HIDE DEF o
        <3>3. q \in Record BY <1>0, <3>2 DEF Record
        <3>4. q.pc = "store" /\ q.open = o /\ q.kind = req[r].kind /\ q.status = req[r].status BY <1>0 DEF Record
        <3> HIDE DEF q
        <3>5. Sound(q) BY <1>0, <3>2, <3>3, <3>4 DEF Sound, Leak, Holds, Partial
        <3> QED BY <2>1, <3>1, <3>4, <3>5 DEF Moves, fills, ProxyInv, ProxyTypes
    <2>2. CASE Fail(r, req[r].open \ {"fetched"}) /\ Ends(r, "error")
        <3>1. req[r].open \ {"fetched"} \in SUBSET Bodies /\ req[r].open \ {"fetched"} \subseteq Leak(req[r])
            BY <1>0 DEF Sound, Record, Holds
        <3> QED BY <1>0, <2>2, <3>1, FailMoves, EndsKeeps
    <2> QED BY <2>1, <2>2 DEF PrepareNpm, PreparePypi
<1>3. PICK q : Set(r, q) /\ Sound(q) /\ q.pc # "transform" BY <1>2 DEF Moves
<1>6. Keeps /\ slots' \in Int BY <1>1, <1>2, StoredKeeps DEF ProxyInv, ProxyTypes
<1>7. ProxyInv' /\ (\A x \in Requests : x # r => req'[x] = req[x]) /\ req'[r] = q BY <1>3, <1>6, SetKeeps
<1> DEFINE S == {x \in Requests : req[x].pc = "transform"}
<1>8. {x \in Requests : req'[x].pc = "transform"} = S \ {r} BY <1>3, <1>7
<1>9. r \in S /\ IsFiniteSet(S) BY <1>0, FS_Subset DEF ProxySetting
<1> HIDE DEF S
<1>10. Cardinality(S \ {r}) = Cardinality(S) - 1 BY <1>9, FS_RemoveElement
<1>11. slots = Cardinality(S) BY DEF SlotsHeld, S
<1> QED BY <1>1, <1>7, <1>8, <1>10, <1>11 DEF SlotsHeld

LEMMA AgeKeeps ==
    ASSUME ProxyInv, SlotsHeld, NEW u \in 1 .. Upstreams, Age(u)
    PROVE  ProxyInv' /\ SlotsHeld'
<1>1. UNCHANGED <<path, fills, slots, req>> BY DEF Age
<1>2. row' = [row EXCEPT ![u].state = "stale"] \/ row' = [row EXCEPT ![u] = NoRow] BY DEF Age
<1>3. row' \in [1 .. Upstreams -> RowType] /\ WholeOnly'
    <2>0. row \in [1 .. Upstreams -> RowType] /\ \A v \in 1 .. Upstreams : row[v].whole
        BY DEF ProxyInv, ProxyTypes, WholeOnly
    <2>1. NoRow \in RowType /\ NoRow.whole BY DEF RowType, NoRow
    <2>2. [row[u] EXCEPT !.state = "stale"] \in RowType /\ [row[u] EXCEPT !.state = "stale"].whole BY <2>0 DEF RowType
    <2>3. PICK x \in RowType : x.whole /\ row' = [row EXCEPT ![u] = x] BY <1>2, <2>1, <2>2
    <2> QED BY <2>0, <2>3 DEF WholeOnly
<1> QED BY <1>1, <1>3 DEF ProxyInv, ProxyTypes, path, fills, Sound, Holds, SlotsHeld

LEMMA ProxyStep ==
    ASSUME ProxySetting, ProxyInv, SlotsHeld, [Next]_vars
    PROVE  ProxyInv' /\ SlotsHeld'
<1>1. CASE UNCHANGED vars
    BY <1>1 DEF vars, ProxyInv, ProxyTypes, WholeOnly, Sound, Holds, SlotsHeld
<1>2. ASSUME NEW r \in Requests, ArriveNpm(r) \/ ArriveGo(r) \/ ArriveDist(r) \/ ArrivePypi(r) \/ Refresh(r)
      PROVE  Flows(r)
    BY <1>2, ArriveFlows DEF ArriveNpm, ArriveGo, ArriveDist, ArrivePypi, Refresh
<1>3. CASE Progress
    <2>1. PICK r \in Requests :
             \/ ArriveNpm(r) \/ ArriveGo(r) \/ ArriveDist(r) \/ ArrivePypi(r) \/ Refresh(r)
             \/ CheckPolicy(r)
             \/ LookupNpm(r) \/ LookupGo(r) \/ LookupDist(r) \/ LookupPypi(r)
             \/ Begin(r) \/ Wait(r)
             \/ FetchNpm(r) \/ FetchGo(r) \/ FetchDist(r) \/ FetchPypi(r) \/ FetchEnds(r) \/ Fetched(r)
             \/ AcquireMetadataSlot(r) \/ PrepareNpm(r) \/ PreparePypi(r)
             \/ StoreNpm(r) \/ StoreDist(r) \/ StoreGo(r) \/ StorePypi(r)
             \/ Close(r)
        BY <1>3 DEF Progress
    <2>2. CASE AcquireMetadataSlot(r) BY <2>2, SlotTaken
    <2>3. CASE PrepareNpm(r) \/ PreparePypi(r) BY <2>3, SlotReturned
    <2>4. Flows(r) \/ AcquireMetadataSlot(r) \/ PrepareNpm(r) \/ PreparePypi(r)
        BY <1>2, <2>1, PolicyFlows, LookupFlows, FillFlows, FetchFlows, FetchedFlows, StoreFlows, CloseFlows
    <2> QED BY <2>2, <2>3, <2>4, FlowsKeeps
<1>4. ASSUME NEW r \in Requests, Cancelled(r) \/ WaitEnds(r) \/ AdmissionEnds(r) PROVE ProxyInv' /\ SlotsHeld'
    BY <1>4, FillFlows, AdmissionFlows, FlowsKeeps
<1> QED BY <1>1, <1>3, <1>4, AgeKeeps DEF Next, Terminated

LEMMA ProxyInit ==
    ASSUME ProxySetting, Init
    PROVE  ProxyInv /\ SlotsHeld
<1>0. 1 \in 1 .. Upstreams BY PackageAssumption
<1>1. NewRequest \in Record /\ NewRequest.open = {} /\ NewRequest.pc = "idle"
    BY <1>0 DEF Record, NewRequest, Places, Asked, Statuses, Pulls
<1>2. \A r \in Requests : req[r] = NewRequest BY DEF Init
<1>3. \A r \in Requests : Sound(req[r]) BY <1>1, <1>2 DEF Sound, Partial
<1>4. NoRow \in RowType /\ [NoRow EXCEPT !.state = "fresh"] \in RowType BY DEF NoRow, RowType
<1>5. NoRow.whole /\ [NoRow EXCEPT !.state = "fresh"].whole BY DEF NoRow
<1>6. row \in [1 .. Upstreams -> RowType] /\ WholeOnly
    <2>1. \A u \in 1 .. Upstreams : row[u] \in {NoRow, [NoRow EXCEPT !.state = "fresh"]} BY DEF Init
    <2> QED BY <1>4, <1>5, <2>1 DEF Init, WholeOnly
<1>7. ProxyTypes BY <1>1, <1>6 DEF ProxyTypes, Init
<1>8. eco = "pypi" => route = "index" BY DEF Init, Routes, PypiRoutes
<1>9. {r \in Requests : req[r].pc = "transform"} = {} BY <1>1, <1>2
<1>10. SlotsHeld BY <1>9, FS_EmptySet DEF SlotsHeld, Init
<1> QED BY <1>3, <1>6, <1>7, <1>8, <1>10 DEF ProxyInv

LEMMA ProxyHolds ==
    ASSUME ProxySetting
    PROVE  Spec => [](ProxyInv /\ SlotsHeld)
<1>1. Init => ProxyInv /\ SlotsHeld BY ProxyInit
<1>2. ProxyInv /\ SlotsHeld /\ [Next]_vars => ProxyInv' /\ SlotsHeld' BY ProxyStep
<1> QED BY <1>1, <1>2, PTL DEF Spec

LEMMA ProxyOwns == ProxyInv => BodiesOwned /\ WholeOnly
<1> SUFFICES ASSUME ProxyInv PROVE BodiesOwned BY DEF ProxyInv
<1>1. ASSUME NEW r \in Requests, req[r].pc = "reading"
      PROVE  req[r].open \ {req[r].body} \subseteq IF Client(r) THEN {} ELSE {"cached"}
    BY <1>1 DEF ProxyInv, Sound, Leak, Holds, Client
<1>2. ASSUME NEW r \in Requests, req[r].pc = "done"
      PROVE  req[r].open \ {req[r].body} \subseteq IF Client(r) THEN {} ELSE {"cached"}
    BY <1>2 DEF ProxyInv, Sound, Leak, Holds, Client
<1> QED BY <1>1, <1>2 DEF BodiesOwned

-----------------------------------------------------------------------------
(* PypiPackage *)

\* Any number of requests, but finitely many, of the kinds there are.
PypiSetting ==
    /\ IsFiniteSet(Requests) /\ MaxURLs \in Nat
    /\ PypiKinds \in [Requests -> SUBSET {"get", "partial", "refresh"}]

FilePlaces ==
    {"idle", "lookup", "woken", "recheck", "begin", "wait", "fetch", "fetched", "streaming", "done"}
FileKinds == {"get", "partial", "refresh", None}
Leases == {"off", "armed", "elapsed"}
States == {None, "open", "closing", "written"}
Contents == {None, "same", "other", "error"}
BodyRecord ==
    [state : States, slot : BOOLEAN, spool : BOOLEAN, read : Nat, got : Contents, failed : BOOLEAN,
     lease : Leases, queued : BOOLEAN, owner : BOOLEAN]
FileRecord ==
    [pc : FilePlaces, kind : FileKinds, hash : BOOLEAN, recheck : BOOLEAN, rounds : Nat,
     follows : Requests \cup {None}, at : Nat, urls : Nat, open : BOOLEAN, status : Statuses, body : BodyRecord]

\* Only a request that streams has a body, and what failed its hash is marked.
Checked(b, hash) == b \in BodyRecord /\ (b.got = "other" /\ ~b.failed => ~hash)
Proper(q) ==
    /\ q \in FileRecord /\ Checked(q.body, q.hash)
    /\ q.pc # "streaming" => q.body = F!NoBody
\* A request that may own the fill.
Owns(q) == q.pc \in {"recheck", "fetch", "fetched"} \/ q.body.owner
FileInv ==
    /\ reading \in [Requests -> FileRecord] /\ running \in Requests \cup {None} /\ caching \in Int
    /\ \A r \in Requests : Proper(reading[r])
    /\ running # None => Owns(reading[running])

\* One step of a request that keeps its slot.
Proceeds(r) ==
    \E q : /\ F!Set(r, q) /\ Proper(q) /\ q.body.slot = reading[r].body.slot /\ UNCHANGED caching
           /\ \/ running' = running /\ (running = r => Owns(q))
              \/ running' = None
              \/ running' = r /\ Owns(q)
              \/ F!Finish(r)

LEMMA FileSet ==
    ASSUME FileInv, NEW r \in Requests, NEW q, F!Set(r, q), Proper(q), caching' \in Int,
           \/ running' = running /\ (running = r => Owns(q))
           \/ running' = None
           \/ running' = r /\ Owns(q)
           \/ F!Finish(r)
    PROVE  FileInv' /\ (\A x \in Requests : x # r => reading'[x] = reading[x]) /\ reading'[r] = q
<1>1. (\A x \in Requests : x # r => reading'[x] = reading[x]) /\ reading'[r] = q /\ reading' \in [Requests -> FileRecord]
    BY DEF F!Set, FileInv, Proper
<1>2. running' \in Requests \cup {None} BY DEF FileInv, F!Finish, F!None, None
<1>3. running' # None => Owns(reading'[running'])
    BY <1>1, <1>2 DEF FileInv, F!Finish, F!None, None
<1>4. ASSUME NEW x \in Requests PROVE Proper(reading'[x]) BY <1>1 DEF FileInv
<1> QED BY <1>1, <1>2, <1>3, <1>4 DEF FileInv, Proper, Owns

LEMMA CountsSame == ASSUME NEW S PROVE F!Cardinality(S) = Cardinality(S)
BY DEF F!Cardinality, Cardinality

LEMMA ProceedsKeeps ==
    ASSUME FileInv, F!HoldingsExact, NEW r \in Requests, Proceeds(r)
    PROVE  FileInv' /\ F!HoldingsExact'
<1>1. PICK q : /\ F!Set(r, q) /\ Proper(q) /\ q.body.slot = reading[r].body.slot /\ UNCHANGED caching
               /\ \/ running' = running /\ (running = r => Owns(q))
                  \/ running' = None
                  \/ running' = r /\ Owns(q)
                  \/ F!Finish(r)
    BY DEF Proceeds
<1>2. FileInv' /\ (\A x \in Requests : x # r => reading'[x] = reading[x]) /\ reading'[r] = q
    BY <1>1, FileSet DEF FileInv
<1>3. {x \in Requests : reading'[x].body.slot} = {x \in Requests : reading[x].body.slot} BY <1>1, <1>2
<1>4. caching' = Cardinality({x \in Requests : reading'[x].body.slot}) BY <1>1, <1>3, CountsSame DEF F!HoldingsExact, F!Body
<1>5. running' # F!None => reading'[running'].pc \in {"recheck", "fetch", "fetched"} \/ reading'[running'].body.owner
    BY <1>2 DEF FileInv, Owns, F!None, None
<1> QED BY <1>2, <1>4, <1>5, CountsSame DEF F!HoldingsExact, F!Body

LEMMA NewProper ==
    /\ F!NoBody \in BodyRecord /\ Checked(F!NoBody, TRUE) /\ Checked(F!NoBody, FALSE) /\ ~F!NoBody.slot /\ ~F!NoBody.owner
    /\ F!NewRequest \in FileRecord /\ F!NewRequest.body = F!NoBody
<1>1. F!NoBody \in BodyRecord BY DEF F!NoBody, BodyRecord, States, Contents, Leases, None, F!None
<1>2. F!NoBody.got = None /\ ~F!NoBody.slot /\ ~F!NoBody.owner BY DEF F!NoBody, None, F!None
<1>3. F!NewRequest \in FileRecord /\ F!NewRequest.body = F!NoBody
    BY <1>1 DEF F!NewRequest, FileRecord, FilePlaces, FileKinds, Statuses, None, F!None
<1> QED BY <1>1, <1>2, <1>3 DEF Checked, None

\* A request without a body goes on, or ends and gives the fill back.
LEMMA GoOn ==
    ASSUME FileInv, NEW r \in Requests, NEW q, F!Set(r, q), q \in FileRecord, q.body = F!NoBody,
           reading[r].pc # "streaming", UNCHANGED caching,
           \/ UNCHANGED running /\ (Owns(reading[r]) => Owns(q))
           \/ running' = r /\ Owns(q)
           \/ F!Finish(r)
    PROVE  Proceeds(r)
<1>1. q.hash \in BOOLEAN BY DEF FileRecord
<1>2. Proper(q) BY <1>1, NewProper DEF Proper
<1>3. q.body.slot = reading[r].body.slot BY DEF FileInv, Proper
<1>4. UNCHANGED running /\ running = r /\ ~Owns(q) /\ (Owns(reading[r]) => Owns(q)) => running' = None BY DEF FileInv
<1> QED BY <1>2, <1>3, <1>4 DEF Proceeds
LEMMA DoneProceeds ==
    ASSUME FileInv, NEW r \in Requests, F!Done(r), reading[r].pc # "streaming", UNCHANGED caching, F!Finish(r)
    PROVE  Proceeds(r)
<1> DEFINE n == F!NewRequest  q == [n EXCEPT !.pc = "done"]
<1>1. F!Set(r, q) BY DEF F!Done
<1>2. "done" \in FilePlaces BY DEF FilePlaces
<1>3. n \in FileRecord /\ n.body = F!NoBody BY NewProper
<1> HIDE DEF n
<1>4. q \in FileRecord BY <1>2, <1>3 DEF FileRecord
<1>5. q.body = F!NoBody BY <1>3 DEF FileRecord
<1> HIDE DEF q
<1> QED BY <1>1, <1>4, <1>5, GoOn

LEMMA ArriveProceeds ==
    ASSUME PypiSetting, FileInv, NEW r \in Requests, NEW kind \in PypiKinds[r], NEW hash \in BOOLEAN,
           NEW urls \in 1 .. MaxURLs, F!Arrive(r, kind, hash, urls)
    PROVE  Proceeds(r)
<1> DEFINE n == F!NewRequest  q == [n EXCEPT !.pc = "lookup", !.kind = kind, !.hash = hash, !.urls = urls]
<1>1. F!Set(r, q) /\ UNCHANGED <<running, caching>> /\ reading[r].pc = "idle" BY DEF F!Arrive
<1>2. "lookup" \in FilePlaces /\ kind \in FileKinds /\ urls \in Nat BY DEF FilePlaces, FileKinds, PypiSetting
<1>3. n \in FileRecord /\ n.body = F!NoBody BY NewProper
<1> HIDE DEF n
<1>4. q \in FileRecord BY <1>2, <1>3 DEF FileRecord
<1>5. q.body = F!NoBody BY <1>3 DEF FileRecord
<1>6. ~Owns(reading[r]) BY <1>1, NewProper DEF Owns, FileInv, Proper
<1> HIDE DEF q
<1> QED BY <1>1, <1>4, <1>5, <1>6, GoOn

LEMMA LookupProceeds ==
    ASSUME FileInv, NEW r \in Requests, F!LookupMiss(r) \/ F!LookupFails(r)
    PROVE  Proceeds(r)
<1> DEFINE n == reading[r]  p == F!AfterLookup(r)
<1>1. /\ UNCHANGED <<running, caching>> /\ n.pc \in {"lookup", "woken", "recheck"}
      /\ \E b \in BOOLEAN : F!Set(r, [n EXCEPT !.pc = p, !.recheck = b])
    BY DEF F!LookupMiss, F!LookupFails
<1>2. PICK b \in BOOLEAN : F!Set(r, [n EXCEPT !.pc = p, !.recheck = b]) BY <1>1
<1> DEFINE q == [n EXCEPT !.pc = p, !.recheck = b]
<1>3. p \in {"fetch", "begin"} /\ (n.pc = "recheck" => p = "fetch") BY DEF F!AfterLookup
<1>4. p \in FilePlaces BY <1>3 DEF FilePlaces
<1>5. n \in FileRecord /\ n.body = F!NoBody BY <1>1 DEF FileInv, Proper
<1> HIDE DEF n, p
<1>6. q \in FileRecord BY <1>4, <1>5 DEF FileRecord
<1>7. q.body = F!NoBody /\ q.pc = p BY <1>5 DEF FileRecord
<1>8. Owns(n) => Owns(q) BY <1>1, <1>3, <1>5, <1>7, NewProper DEF Owns
<1> HIDE DEF q
<1> QED BY <1>1, <1>2, <1>6, <1>7, <1>8, GoOn DEF n, q

\* What Fetching makes of a request.
LEMMA FetchingRecord ==
    ASSUME FileInv, NEW r \in Requests, NEW p \in FilePlaces, reading[r].pc # "streaming"
    PROVE  F!Fetching(r, p) \in FileRecord /\ F!Fetching(r, p).body = F!NoBody /\ F!Fetching(r, p).pc = p
<1> DEFINE n == reading[r]
<1>1. n \in FileRecord /\ n.body = F!NoBody BY DEF FileInv, Proper
<1>2. F!None = None BY DEF F!None, None
<1>3. F!Fetching(r, p) = [n EXCEPT !.pc = p, !.recheck = TRUE, !.rounds = 0, !.follows = None] BY <1>2 DEF F!Fetching
<1> DEFINE z == 0  t == TRUE  none == None  q == [n EXCEPT !.pc = p, !.recheck = t, !.rounds = z, !.follows = none]
<1>4. z \in Nat /\ t \in BOOLEAN /\ none \in Requests \cup {None} /\ F!Fetching(r, p) = q BY <1>3
<1> HIDE DEF n, z, t, none
<1>5. q \in FileRecord BY <1>1, <1>4 DEF FileRecord
<1>6. q.body = F!NoBody /\ q.pc = p BY <1>1 DEF FileRecord
<1> QED BY <1>4, <1>5, <1>6

LEMMA BeginProceeds ==
    ASSUME FileInv, NEW r \in Requests, F!Begin(r)
    PROVE  Proceeds(r)
<1> DEFINE n == reading[r]
<1>1. n.pc = "begin" /\ UNCHANGED caching /\ ~Owns(n) /\ n \in FileRecord /\ n.body = F!NoBody
    BY NewProper DEF F!Begin, FileInv, Proper, Owns
<1>2. ASSUME NEW p \in {"recheck", "fetch"}, F!Set(r, F!Fetching(r, p)), running' = r \/ UNCHANGED running
      PROVE  Proceeds(r)
    <2>1. p \in FilePlaces BY DEF FilePlaces
    <2>2. F!Fetching(r, p) \in FileRecord /\ F!Fetching(r, p).body = F!NoBody /\ F!Fetching(r, p).pc = p
        BY <1>1, <2>1, FetchingRecord
    <2>3. Owns(F!Fetching(r, p)) BY <2>2 DEF Owns
    <2> QED BY <1>1, <1>2, <2>2, <2>3, GoOn
<1>3. ASSUME F!Set(r, [n EXCEPT !.pc = "wait", !.rounds = n.rounds + 1, !.follows = running]), UNCHANGED running
      PROVE  Proceeds(r)
    <2> DEFINE p == "wait"  k == n.rounds + 1  q == [n EXCEPT !.pc = p, !.rounds = k, !.follows = running]
    <2>1. p \in FilePlaces /\ running \in Requests \cup {None} BY DEF FilePlaces, FileInv
    <2>a. k \in Nat BY <1>1 DEF FileRecord
    <2>b. F!Set(r, q) BY <1>3
    <2> HIDE DEF n, p, k
    <2>2. q \in FileRecord BY <1>1, <2>1, <2>a DEF FileRecord
    <2>3. q.body = F!NoBody BY <1>1 DEF FileRecord
    <2> HIDE DEF q
    <2> QED BY <1>1, <1>3, <2>b, <2>2, <2>3, GoOn DEF n
<1> QED BY <1>2, <1>3 DEF F!Begin

LEMMA WaitProceeds ==
    ASSUME FileInv, NEW r \in Requests, F!Wait(r) \/ F!WaitEnds(r)
    PROVE  Proceeds(r)
<1> DEFINE n == reading[r]
<1>1. n.pc = "wait" /\ UNCHANGED <<running, caching>> /\ ~Owns(n) /\ n \in FileRecord /\ n.body = F!NoBody
    BY NewProper DEF F!Wait, F!WaitEnds, FileInv, Proper, Owns
<1>2. CASE F!Wait(r)
    <2> DEFINE q == [n EXCEPT !.pc = "woken", !.follows = None]
    <2>1. F!Set(r, q) BY <1>2 DEF F!Wait, F!None, None
    <2>2. "woken" \in FilePlaces BY DEF FilePlaces
    <2> HIDE DEF n
    <2>3. q \in FileRecord BY <1>1, <2>2 DEF FileRecord
    <2>4. q.body = F!NoBody BY <1>1 DEF FileRecord
    <2> HIDE DEF q
    <2> QED BY <1>1, <2>1, <2>3, <2>4, GoOn DEF n
<1>3. CASE F!Set(r, F!Fetching(r, "fetch"))
    <2>1. "fetch" \in FilePlaces BY DEF FilePlaces
    <2>2. F!Fetching(r, "fetch") \in FileRecord /\ F!Fetching(r, "fetch").body = F!NoBody
        BY <1>1, <2>1, FetchingRecord
    <2> QED BY <1>1, <1>3, <2>2, GoOn
<1>4. CASE F!Done(r)
    <2>1. F!Finish(r) BY <1>1 DEF F!Finish, FileInv, F!None, None
    <2> QED BY <1>1, <1>4, <2>1, DoneProceeds
<1> QED BY <1>2, <1>3, <1>4 DEF F!WaitEnds

LEMMA TryNextProceeds ==
    ASSUME PypiSetting, FileInv, NEW r \in Requests, NEW last \in BOOLEAN, NEW found \in BOOLEAN, F!Tries(r),
           F!Set(r, F!TryNext(r, last, F!PackageAlternatives(r, found))), UNCHANGED <<running, caching>>
    PROVE  Proceeds(r)
<1> DEFINE n == reading[r]  a == F!PackageAlternatives(r, found)  k == n.at + 1  u == a.urls  h == a.hash
           q == [n EXCEPT !.at = k, !.open = last, !.urls = u, !.hash = h]
<1>1. n.pc = "fetch" /\ n \in FileRecord /\ n.body = F!NoBody BY DEF F!Tries, FileInv, Proper
<1>2. k \in Nat /\ n.urls \in Nat /\ n.hash \in BOOLEAN BY <1>1 DEF FileRecord
<1>3. F!LegacyPackageIdentity(r, found) \in BOOLEAN BY <1>2 DEF F!LegacyPackageIdentity
<1>4. F!ResolvePackageMirrors(r, found) \in Nat BY <1>2 DEF F!ResolvePackageMirrors, PypiSetting
<1>5. u \in Nat /\ h \in BOOLEAN BY <1>2, <1>3, <1>4 DEF F!PackageAlternatives
<1>6. F!Set(r, q) BY DEF F!TryNext
<1> HIDE DEF n, a, k, u, h
<1>7. q \in FileRecord BY <1>1, <1>2, <1>5 DEF FileRecord
<1>8. q.body = F!NoBody /\ q.pc = "fetch" BY <1>1 DEF FileRecord
<1> HIDE DEF q
<1> QED BY <1>1, <1>6, <1>7, <1>8, GoOn DEF n, Owns

LEMMA FetchedProceeds ==
    ASSUME FileInv, NEW r \in Requests, NEW status \in {200, 404, 500}, reading[r].pc = "fetch",
           F!Set(r, F!Fetched(r, status)), UNCHANGED <<running, caching>>
    PROVE  Proceeds(r)
<1> DEFINE n == reading[r]  p == "fetched"  one == 1  no == FALSE
           q == [n EXCEPT !.pc = p, !.at = one, !.urls = one, !.open = no, !.status = status]
<1>1. n \in FileRecord /\ n.body = F!NoBody /\ status \in Statuses BY DEF FileInv, Proper, Statuses
<1>2. F!Set(r, q) /\ one \in Nat /\ no \in BOOLEAN /\ p \in FilePlaces BY DEF F!Fetched, FilePlaces
<1> HIDE DEF n, one, no, p
<1>3. q \in FileRecord BY <1>1, <1>2 DEF FileRecord
<1>4. q.body = F!NoBody /\ q.pc = p BY <1>1 DEF FileRecord
<1>5. Owns(q) BY <1>4 DEF Owns, p
<1> HIDE DEF q
<1> QED BY <1>1, <1>2, <1>3, <1>4, <1>5, GoOn

LEMMA FetchProceeds ==
    ASSUME PypiSetting, FileInv, NEW r \in Requests,
           \/ \E found \in F!Found(r) : F!FetchPackageURL(r, found) \/ F!FetchFails(r, found)
           \/ F!FetchEnds(r) \/ F!FetchCanceled(r) \/ F!PassThrough(r) \/ F!LookupHit(r)
    PROVE  Proceeds(r)
<1>1. ASSUME NEW found \in F!Found(r), F!FetchPackageURL(r, found) \/ F!FetchFails(r, found) PROVE Proceeds(r)
    <2>1. found \in BOOLEAN BY DEF F!Found
    <2>2. F!Tries(r) /\ UNCHANGED <<running, caching>> BY <1>1 DEF F!FetchPackageURL, F!FetchFails
    <2>3. CASE F!Set(r, F!TryNext(r, TRUE, F!PackageAlternatives(r, found))) BY <2>1, <2>2, <2>3, TryNextProceeds
    <2>4. CASE F!Set(r, F!TryNext(r, FALSE, F!PackageAlternatives(r, found))) BY <2>1, <2>2, <2>4, TryNextProceeds
    <2>6. CASE F!FetchFails(r, found) BY <2>4, <2>6 DEF F!FetchFails
    <2>7. CASE F!FetchPackageURL(r, found)
        <3>1. PICK status \in {200, 404, 500} :
                 IF status = 500 THEN F!Set(r, F!TryNext(r, TRUE, F!PackageAlternatives(r, found)))
                 ELSE F!Set(r, F!Fetched(r, status))
            BY <2>7 DEF F!FetchPackageURL
        <3>2. CASE status = 500 BY <2>3, <3>1, <3>2
        <3>3. CASE status # 500
            <4>1. F!Set(r, F!Fetched(r, status)) BY <3>1, <3>3
            <4> QED BY <2>2, <4>1, FetchedProceeds DEF F!Tries
        <3> QED BY <3>2, <3>3
    <2> QED BY <1>1, <2>6, <2>7
<1>2. CASE F!FetchEnds(r)
    <2>1. CASE F!Set(r, F!Fetched(r, 500)) /\ UNCHANGED running BY <1>2, <2>1, FetchedProceeds DEF F!FetchEnds
    <2> QED BY <1>2, <2>1, DoneProceeds DEF F!FetchEnds
<1>3. CASE F!FetchCanceled(r) BY <1>3, DoneProceeds DEF F!FetchCanceled
<1>4. CASE F!PassThrough(r) BY <1>4, DoneProceeds DEF F!PassThrough
<1>5. CASE F!LookupHit(r) BY <1>5, DoneProceeds DEF F!LookupHit
<1> QED BY <1>1, <1>2, <1>3, <1>4, <1>5

\* A step of a body that keeps what it holds.
LEMMA BodyProceeds ==
    ASSUME FileInv, NEW r \in Requests, NEW b, F!SetBody(r, b), reading[r].pc = "streaming",
           Checked(b, reading[r].hash), b.slot = reading[r].body.slot, b.owner = reading[r].body.owner,
           UNCHANGED <<running, caching>>
    PROVE  Proceeds(r)
<1> DEFINE n == reading[r]  q == [n EXCEPT !.body = b]
<1>1. n \in FileRecord /\ n.pc = "streaming" /\ (running = r /\ running # None => n.body.owner) BY DEF FileInv, Proper, Owns
<1>2. F!Set(r, q) BY DEF F!SetBody
<1>3. b \in BodyRecord /\ b.slot = n.body.slot /\ b.owner = n.body.owner /\ Checked(b, n.hash) BY DEF Checked
<1> HIDE DEF n
<1>4. q \in FileRecord BY <1>1, <1>3 DEF FileRecord
<1>5. q.body = b /\ q.pc = "streaming" /\ q.hash = n.hash BY <1>1 DEF FileRecord
<1> HIDE DEF q
<1>6. Proper(q) BY <1>3, <1>4, <1>5 DEF Proper
<1>7. q.body.slot = reading[r].body.slot BY <1>3, <1>5 DEF n
<1>8. running = r => Owns(q) \/ running = None BY <1>1, <1>3, <1>5 DEF Owns
<1> QED BY <1>2, <1>6, <1>7, <1>8 DEF Proceeds

LEMMA StreamingBody ==
    ASSUME FileInv, NEW r \in Requests, F!Body(r).state # None
    PROVE  /\ reading[r].pc = "streaming" /\ F!Body(r) = reading[r].body /\ F!Body(r) \in BodyRecord
           /\ (F!Body(r).got = "other" /\ ~F!Body(r).failed => ~reading[r].hash) /\ reading[r].hash \in BOOLEAN
<1>1. F!NoBody.state = None BY DEF F!NoBody, None, F!None
<1>2. reading[r].hash \in BOOLEAN BY DEF FileInv, Proper, FileRecord
<1> QED BY <1>1, <1>2 DEF FileInv, Proper, Checked, F!Body

\* What a body does between the hand-over and its release.
Bodied(r) ==
    \/ F!ResumeReadLease(r) \/ F!ReadPart(r) \/ F!ReadEnd(r) \/ F!ReadFails(r)
    \/ F!LeaseElapses(r) \/ F!ExpireReadLease(r) \/ F!CloseBody(r) \/ F!CacheComplete(r)
LEMMA BodiedProceeds ==
    ASSUME FileInv, NEW r \in Requests, Bodied(r)
    PROVE  Proceeds(r)
<1> DEFINE n == F!Body(r)  h == reading[r].hash
<1>1. n.state # None /\ UNCHANGED <<running, caching>>
    BY DEF Bodied, F!ResumeReadLease, F!ReadPart, F!ReadEnd, F!ReadFails, F!LeaseElapses, F!ExpireReadLease,
           F!CloseBody, F!CacheComplete, F!Readable, None
<1>2. /\ reading[r].pc = "streaming" /\ n = reading[r].body /\ n \in BodyRecord
      /\ (n.got = "other" /\ ~n.failed => ~h) /\ h \in BOOLEAN
    BY <1>1, StreamingBody
<1>3. ASSUME NEW b, b \in BodyRecord, b.got = "other" /\ ~b.failed => ~h, b.slot = n.slot, b.owner = n.owner, F!SetBody(r, b)
      PROVE  Proceeds(r)
    BY <1>1, <1>2, <1>3, BodyProceeds DEF Checked
<1> HIDE DEF n, h
<1>4. CASE F!ResumeReadLease(r)
    <2>1. F!SetBody(r, [n EXCEPT !.lease = "armed"]) BY <1>4 DEF F!ResumeReadLease, F!Arm, n
    <2>2. "armed" \in Leases BY DEF Leases
    <2>3. [n EXCEPT !.lease = "armed"] \in BodyRecord BY <1>2, <2>2 DEF BodyRecord
    <2> QED BY <1>2, <1>3, <2>1, <2>3 DEF BodyRecord
<1>5. CASE F!ReadPart(r)
    <2> DEFINE k == n.read + 1  b == [n EXCEPT !.read = k, !.lease = "armed"]
    <2>1. F!SetBody(r, [[n EXCEPT !.read = k] EXCEPT !.lease = "armed"]) BY <1>5 DEF F!ReadPart, F!Arm, n
    <2>2. "armed" \in Leases /\ k \in Nat BY <1>2 DEF Leases, BodyRecord
    <2> HIDE DEF k
    <2>3. [[n EXCEPT !.read = k] EXCEPT !.lease = "armed"] \in BodyRecord BY <1>2, <2>2 DEF BodyRecord
    <2> QED BY <1>2, <1>3, <2>1, <2>3 DEF BodyRecord
<1>6. CASE F!ReadEnd(r)
    <2>1. PICK got \in {"same", "other"} :
             F!SetBody(r, [[n EXCEPT !.got = got, !.failed = n.failed \/ (got = "other" /\ h)] EXCEPT !.lease = "armed"])
        BY <1>6 DEF F!ReadEnd, F!Arm, n, h
    <2> DEFINE f == n.failed \/ (got = "other" /\ h)
    <2>2. "armed" \in Leases /\ f \in BOOLEAN /\ got \in Contents BY <1>2 DEF Leases, BodyRecord, Contents
    <2>3. got = "other" /\ ~f => ~h OBVIOUS
    <2>4. F!SetBody(r, [[n EXCEPT !.got = got, !.failed = f] EXCEPT !.lease = "armed"]) BY <2>1
    <2> HIDE DEF f
    <2>5. [[n EXCEPT !.got = got, !.failed = f] EXCEPT !.lease = "armed"] \in BodyRecord BY <1>2, <2>2 DEF BodyRecord
    <2> QED BY <1>2, <1>3, <2>3, <2>4, <2>5 DEF BodyRecord
<1>7. CASE F!ReadFails(r)
    <2>1. F!SetBody(r, [[n EXCEPT !.got = "error", !.failed = TRUE] EXCEPT !.lease = "armed"]) BY <1>7 DEF F!ReadFails, F!Arm, n
    <2>2. "armed" \in Leases /\ "error" \in Contents BY DEF Leases, Contents
    <2>3. [[n EXCEPT !.got = "error", !.failed = TRUE] EXCEPT !.lease = "armed"] \in BodyRecord BY <1>2, <2>2 DEF BodyRecord
    <2> QED BY <1>2, <1>3, <2>1, <2>3 DEF BodyRecord
<1>8. CASE F!LeaseElapses(r)
    <2>1. F!SetBody(r, [n EXCEPT !.lease = "elapsed", !.queued = TRUE]) BY <1>8 DEF F!LeaseElapses, n
    <2>2. "elapsed" \in Leases BY DEF Leases
    <2>3. [n EXCEPT !.lease = "elapsed", !.queued = TRUE] \in BodyRecord BY <1>2, <2>2 DEF BodyRecord
    <2> QED BY <1>2, <1>3, <2>1, <2>3 DEF BodyRecord
<1>9. CASE F!SetBody(r, F!Closing(n))
    <2>1. F!SetBody(r, [n EXCEPT !.state = "closing", !.lease = "off", !.queued = FALSE, !.read = 0]) BY <1>9 DEF F!Closing
    <2>2. "off" \in Leases /\ "closing" \in States BY DEF Leases, States
    <2>3. [n EXCEPT !.state = "closing", !.lease = "off", !.queued = FALSE, !.read = 0] \in BodyRecord
        BY <1>2, <2>2 DEF BodyRecord
    <2> QED BY <1>2, <1>3, <2>1, <2>3 DEF BodyRecord
<1>10. CASE F!SetBody(r, [n EXCEPT !.queued = FALSE])
    <2>1. [n EXCEPT !.queued = FALSE] \in BodyRecord BY <1>2 DEF BodyRecord
    <2> QED BY <1>2, <1>3, <1>10, <2>1 DEF BodyRecord
<1>11. CASE F!CacheComplete(r)
    <2>1. F!SetBody(r, [n EXCEPT !.state = "written"]) BY <1>11 DEF F!CacheComplete, n
    <2>2. "written" \in States BY DEF States
    <2>3. [n EXCEPT !.state = "written"] \in BodyRecord BY <1>2, <2>2 DEF BodyRecord
    <2> QED BY <1>2, <1>3, <2>1, <2>3 DEF BodyRecord
<1> QED BY <1>4, <1>5, <1>6, <1>7, <1>8, <1>9, <1>10, <1>11 DEF Bodied, F!ExpireReadLease, F!CloseBody, n

\* The slots in use are those of the bodies.
LEMMA SlotCount ==
    ASSUME PypiSetting, F!HoldingsExact
    PROVE  /\ IsFiniteSet({x \in Requests : reading[x].body.slot})
           /\ caching = Cardinality({x \in Requests : reading[x].body.slot})
<1>1. IsFiniteSet({x \in Requests : reading[x].body.slot}) BY FS_Subset DEF PypiSetting
<1> QED BY <1>1, CountsSame DEF F!HoldingsExact, F!Body

LEMMA HandOverKeeps ==
    ASSUME PypiSetting, FileInv, F!HoldingsExact, NEW r \in Requests, F!HandOver(r)
    PROVE  FileInv' /\ F!HoldingsExact'
<1> DEFINE n == reading[r]  o == (running = r)  p == "streaming"  z == 0
<1>1. PICK slot \in BOOLEAN, spool \in BOOLEAN :
         /\ caching' = IF slot THEN caching + 1 ELSE caching
         /\ F!Set(r, [n EXCEPT !.pc = p, !.status = z,
                        !.body = [F!NoBody EXCEPT !.state = "open", !.slot = slot, !.spool = spool, !.owner = o]])
    BY DEF F!HandOver
<1>2. n.pc = "fetched" /\ UNCHANGED running BY DEF F!HandOver
<1> DEFINE e == F!NoBody  b == [e EXCEPT !.state = "open", !.slot = slot, !.spool = spool, !.owner = o]
           q == [n EXCEPT !.pc = p, !.status = z, !.body = b]
<1>3. e \in BodyRecord /\ e.got = None /\ ~e.slot /\ ~e.owner BY NewProper DEF F!NoBody, F!None, None
<1>4. n \in FileRecord /\ n.body = e BY <1>2 DEF FileInv, Proper
<1>5. "open" \in States /\ p \in FilePlaces /\ z \in Statuses /\ o \in BOOLEAN BY DEF States, FilePlaces, Statuses
<1>6. F!Set(r, q) BY <1>1
<1> HIDE DEF e, n, o, p, z
<1>7. b \in BodyRecord BY <1>3, <1>5 DEF BodyRecord
<1>8. b.slot = slot /\ b.owner = o /\ b.got = None BY <1>3 DEF BodyRecord
<1> HIDE DEF b
<1>9. q \in FileRecord BY <1>4, <1>5, <1>7 DEF FileRecord
<1>10. q.pc = p /\ q.body = b BY <1>4 DEF FileRecord
<1> HIDE DEF q
<1>11. Proper(q) BY <1>7, <1>8, <1>9, <1>10 DEF Proper, Checked, p, None
<1>12. running' = running /\ (running = r => Owns(q)) BY <1>2, <1>8, <1>10 DEF Owns, o
<1>13. caching' \in Int BY <1>1 DEF FileInv
<1>14. FileInv' /\ (\A x \in Requests : x # r => reading'[x] = reading[x]) /\ reading'[r] = q
    BY <1>6, <1>11, <1>12, <1>13, FileSet
<1> DEFINE S == {x \in Requests : reading[x].body.slot}  T == {x \in Requests : reading'[x].body.slot}
<1>15. IsFiniteSet(S) /\ caching = Cardinality(S) BY SlotCount
<1>16. r \notin S BY <1>3, <1>4 DEF n
<1>17. T = IF slot THEN S \cup {r} ELSE S BY <1>8, <1>10, <1>14, <1>16
<1>18. caching' = Cardinality(T)
    <2>1. Cardinality(S \cup {r}) = Cardinality(S) + 1 BY <1>15, <1>16, FS_AddElement
    <2> QED BY <1>1, <1>15, <1>17, <2>1
<1>19. running' # F!None => reading'[running'].pc \in {"recheck", "fetch", "fetched"} \/ reading'[running'].body.owner
    BY <1>14 DEF FileInv, Owns, F!None, None
<1> QED BY <1>14, <1>18, <1>19, CountsSame DEF F!HoldingsExact, F!Body

LEMMA ReleaseKeeps ==
    ASSUME PypiSetting, FileInv, F!HoldingsExact, NEW r \in Requests, F!Release(r)
    PROVE  FileInv' /\ F!HoldingsExact'
<1> DEFINE n == F!NewRequest  q == [n EXCEPT !.pc = "done"]
<1>1. /\ F!Set(r, q) /\ F!Finish(r)
      /\ caching' = IF reading[r].body.slot THEN caching - 1 ELSE caching
    BY DEF F!Release, F!Done, F!Body
<1>2. "done" \in FilePlaces BY DEF FilePlaces
<1>3. n \in FileRecord /\ n.body = F!NoBody BY NewProper
<1> HIDE DEF n
<1>4. q \in FileRecord BY <1>2, <1>3 DEF FileRecord
<1>5. q.body = F!NoBody BY <1>3 DEF FileRecord
<1> HIDE DEF q
<1>6. q.hash \in BOOLEAN BY <1>4 DEF FileRecord
<1>7. Proper(q) BY <1>4, <1>5, <1>6, NewProper DEF Proper
<1>8. caching' \in Int BY <1>1 DEF FileInv
<1>9. FileInv' /\ (\A x \in Requests : x # r => reading'[x] = reading[x]) /\ reading'[r] = q
    BY <1>1, <1>7, <1>8, FileSet
<1> DEFINE S == {x \in Requests : reading[x].body.slot}  T == {x \in Requests : reading'[x].body.slot}
<1>10. IsFiniteSet(S) /\ caching = Cardinality(S) BY SlotCount
<1>11. T = S \ {r} BY <1>5, <1>9, NewProper
<1>12. Cardinality(T) = IF r \in S THEN Cardinality(S) - 1 ELSE Cardinality(S) BY <1>10, <1>11, FS_RemoveElement
<1>13. caching' = Cardinality(T) BY <1>1, <1>10, <1>12
<1>14. running' # F!None => reading'[running'].pc \in {"recheck", "fetch", "fetched"} \/ reading'[running'].body.owner
    BY <1>9 DEF FileInv, Owns, F!None, None
<1> QED BY <1>9, <1>13, <1>14, CountsSame DEF F!HoldingsExact, F!Body

LEMMA FileUnchanged ==
    ASSUME FileInv, F!HoldingsExact, UNCHANGED <<running, caching, reading>>
    PROVE  FileInv' /\ F!HoldingsExact'
<1>1. FileInv' BY DEF FileInv
<1>2. {x \in Requests : F!Body(x).slot}' = {x \in Requests : F!Body(x).slot} BY DEF F!Body
<1> QED BY <1>1, <1>2 DEF F!HoldingsExact, F!Body

LEMMA FileStep ==
    ASSUME PypiSetting, FileInv, F!HoldingsExact, [F!Next]_(F!vars)
    PROVE  FileInv' /\ F!HoldingsExact'
<1>1. CASE UNCHANGED F!vars BY <1>1, FileUnchanged DEF F!vars
<1>2. CASE F!Evict BY <1>2, FileUnchanged DEF F!Evict
<1>3. CASE \E r \in Requests : Proceeds(r) BY <1>3, ProceedsKeeps
<1>4. CASE \E r \in Requests : F!HandOver(r) BY <1>4, HandOverKeeps
<1>5. CASE \E r \in Requests : F!Release(r) BY <1>5, ReleaseKeeps
<1>6. CASE F!Progress
    <2>1. PICK r \in Requests :
             \/ \E kind \in PypiKinds[r], hash \in BOOLEAN, urls \in 1 .. MaxURLs : F!Arrive(r, kind, hash, urls)
             \/ F!LookupHit(r) \/ F!LookupMiss(r) \/ F!LookupFails(r) \/ F!Begin(r) \/ F!Wait(r)
             \/ \E found \in F!Found(r) : F!FetchPackageURL(r, found) \/ F!FetchFails(r, found)
             \/ F!FetchEnds(r) \/ F!HandOver(r) \/ F!PassThrough(r) \/ F!ResumeReadLease(r)
             \/ F!LeaseElapses(r) \/ F!ExpireReadLease(r) \/ F!CacheComplete(r) \/ F!Release(r)
        BY <1>6 DEF F!Progress
    <2>2. Proceeds(r) \/ F!HandOver(r) \/ F!Release(r)
        BY <2>1, ArriveProceeds, LookupProceeds, BeginProceeds, WaitProceeds, FetchProceeds, BodiedProceeds DEF Bodied
    <2> QED BY <1>3, <1>4, <1>5, <2>2
<1>7. CASE F!Clients
    <2>1. PICK r \in Requests :
             F!WaitEnds(r) \/ F!FetchCanceled(r) \/ F!ReadPart(r) \/ F!ReadEnd(r) \/ F!ReadFails(r) \/ F!CloseBody(r)
        BY <1>7 DEF F!Clients
    <2>2. Proceeds(r) BY <2>1, WaitProceeds, FetchProceeds, BodiedProceeds DEF Bodied
    <2> QED BY <1>3, <2>2
<1> QED BY <1>1, <1>2, <1>6, <1>7 DEF F!Next

LEMMA FileInit ==
    ASSUME F!Init
    PROVE  FileInv /\ F!HoldingsExact
<1>1. F!NewRequest \in FileRecord /\ F!NewRequest.body = F!NoBody /\ ~F!NoBody.slot BY NewProper
<1>2. F!NewRequest.hash \in BOOLEAN BY <1>1 DEF FileRecord
<1>3. Proper(F!NewRequest) BY <1>1, <1>2, NewProper DEF Proper
<1>4. FileInv BY <1>1, <1>3 DEF F!Init, FileInv, F!None, None
<1>5. {r \in Requests : F!Body(r).slot} = {} BY <1>1 DEF F!Init, F!Body
<1>6. F!Cardinality({}) = 0 BY CountsSame, FS_EmptySet
<1> QED BY <1>4, <1>5, <1>6 DEF F!Init, F!HoldingsExact

\* Only a complete and verified spool becomes the stored file.
Verified ==
    file' = "other" /\ file # "other" => \E r \in Requests : F!Body(r).state = "closing" /\ ~reading[r].hash
LEMMA FileVerified ==
    ASSUME FileInv, [F!Next]_(F!vars)
    PROVE  [Verified]_(F!vars)
<1> SUFFICES ASSUME file' = "other", file # "other"
             PROVE  \E r \in Requests : F!Body(r).state = "closing" /\ ~reading[r].hash
    BY DEF Verified
<1>1. \E r \in Requests : F!CacheComplete(r)
    BY DEF F!Next, F!vars, F!Evict, F!Progress, F!Clients, F!Arrive, F!LookupHit, F!LookupMiss, F!LookupFails, F!Begin,
           F!Wait, F!FetchPackageURL, F!FetchFails, F!FetchEnds, F!HandOver, F!PassThrough, F!ResumeReadLease,
           F!LeaseElapses, F!ExpireReadLease, F!Release, F!WaitEnds, F!FetchCanceled, F!ReadPart, F!ReadEnd, F!ReadFails,
           F!CloseBody
<1>2. PICK r \in Requests : F!CacheComplete(r) BY <1>1
<1>3. F!Body(r).state = "closing" /\ F!Body(r).got = "other" /\ ~F!Body(r).failed
    BY <1>2 DEF F!CacheComplete, F!Writable
<1>4. F!Body(r).state # None BY <1>3 DEF None
<1>5. ~reading[r].hash BY <1>3, <1>4, StreamingBody
<1> QED BY <1>3, <1>5

LEMMA FileHolds ==
    ASSUME PypiSetting
    PROVE  F!Spec => [](FileInv /\ F!HoldingsExact)
<1>1. F!Init => FileInv /\ F!HoldingsExact BY FileInit
<1>2. FileInv /\ F!HoldingsExact /\ [F!Next]_(F!vars) => (FileInv /\ F!HoldingsExact)' BY FileStep
<1> QED BY <1>1, <1>2, PTL DEF F!Spec

LEMMA FileStoresVerified ==
    ASSUME PypiSetting
    PROVE  F!Spec => F!OnlyVerified
<1>1. FileInv /\ [F!Next]_(F!vars) => [Verified]_(F!vars) BY FileVerified
<1>2. F!Spec => []FileInv BY FileHolds, PTL
<1>3. F!Spec => [][Verified]_(F!vars) BY <1>1, <1>2, PTL DEF F!Spec
<1> QED BY <1>3, PTL DEF F!OnlyVerified, Verified

-----------------------------------------------------------------------------
(* MavenFetch *)

\* Groups of any size, each member with any number of endpoints.
GroupSetting == Members \in Nat /\ Endpoints \in Nat

Pairs == (1 .. Members) \X (1 .. Endpoints)
Names == Pairs \cup {G!None}
GroupPlaces == {"member", "ask", "answered", "failed", "done"}
GroupTypes ==
    /\ group \in [fallback : BOOLEAN, merge : BOOLEAN, head : BOOLEAN]
    /\ tried \in [1 .. Members -> SUBSET (1 .. Endpoints)]
    /\ said \in [1 .. Members -> [1 .. Endpoints -> Nat]]
    /\ pc \in GroupPlaces /\ gate \in BOOLEAN /\ member \in 1 .. Members + 1 /\ at \in 1 .. Endpoints + 1
    /\ physical \in [missing : Names, retryable : Names, err : BOOLEAN]
    /\ state \in [miss : Names, failure : Names, status : Nat, lastError : BOOLEAN]
    /\ documents \in Seq(Documents)
    /\ pc \in {"ask", "answered", "failed"} => member <= Members

\* The bodies of earlier members that the group remembers are two, and so are those
\* that the member which is being asked has sent; the answer is the member's own.
Distinct(b, c) == b = G!None \/ c = G!None \/ b # c
Remembered ==
    /\ Distinct(state.miss, state.failure)
    /\ \A b \in G!Bodies(state) : b = G!None \/ b[1] < member
    /\ pc = "ask" => /\ Distinct(physical.missing, physical.retryable)
                     /\ \A b \in G!Unused(physical) : b = G!None \/ (b[1] = member /\ b[2] < at)
    /\ pc = "answered" => result.body \in Pairs /\ result.body[1] = member /\ result.status \in Nat
\* What is open at each place.
OpenIs ==
    /\ pc \in {"member", "failed"} => open = G!Bodies(state) \ {G!None}
    /\ pc = "ask" => open = (G!Bodies(state) \cup G!Unused(physical)) \ {G!None}
    /\ pc = "answered" => open = (G!Bodies(state) \ {G!None}) \cup {result.body}
    /\ G!BodiesClosed
\* A merge asks nobody before it has passed the gate.
Gated == group.merge /\ ~gate => pc = "done" \/ (pc = "member" /\ state.miss = G!None /\ state.failure = G!None)

\* A member whose endpoints all answered that they do not have the artifact, or one of
\* them that it is gone.
Missed(m) ==
    (\A e \in 1 .. Endpoints : said[m][e] = 404) \/ (\E e \in 1 .. Endpoints : said[m][e] = 410)
Asking ==
    pc = "ask" =>
       /\ \A e \in tried[member] : e < at => said[member][e] = 404 \/ physical.retryable # G!None \/ physical.err
       /\ physical.retryable # G!None => said[member][physical.retryable[2]] \in {429, 500}
Missing ==
    /\ pc = "answered" /\ result.status \in {404, 410} => Missed(member)
    /\ \A m \in 1 .. Members :
          m < member => Missed(m) \/ state.lastError \/ state.failure # G!None \/ documents # <<>>
    /\ state.failure # G!None => state.status = 500
    /\ G!MissIsAuthoritative

GroupInv == GroupTypes /\ Remembered /\ OpenIs /\ Gated /\ Asking /\ Missing

LEMMA Names1 ==
    /\ \A m, e : <<m, e>> # G!None /\ <<m, e>>[1] = m /\ <<m, e>>[2] = e
    /\ \A m \in 1 .. Members, e \in 1 .. Endpoints : <<m, e>> \in Pairs
    /\ \A b \in Pairs : b # G!None /\ b # G!Merged /\ b[1] \in 1 .. Members /\ b[2] \in 1 .. Endpoints
BY DEF G!None, G!Merged, Pairs

LEMMA Results ==
    /\ G!Error.kind = "error" /\ G!Error.body = G!None
    /\ \A s, b : G!Response(s, b).kind = "response" /\ G!Response(s, b).status = s /\ G!Response(s, b).body = b
    /\ \A s, b, d : /\ [G!Response(s, b) EXCEPT !.kind = "merged", !.merged = d].kind = "merged"
                    /\ [G!Response(s, b) EXCEPT !.kind = "merged", !.merged = d].body = b
BY DEF G!Error, G!Response, G!NoResult

LEMMA GroupInit ==
    ASSUME GroupSetting, G!Init
    PROVE  GroupInv
<1>1. GroupTypes
    <2>1. physical = [missing |-> G!None, retryable |-> G!None, err |-> FALSE] BY DEF G!Init, G!Unknown
    <2>2. state = [miss |-> G!None, failure |-> G!None, status |-> 0, lastError |-> FALSE] BY DEF G!Init, G!NoState
    <2>3. said \in [1 .. Members -> [1 .. Endpoints -> Nat]] BY DEF G!Init
    <2>4. tried \in [1 .. Members -> SUBSET (1 .. Endpoints)] BY DEF G!Init
    <2>5. member = 1 /\ at = 1 /\ pc = "member" /\ gate = FALSE /\ documents = <<>> BY DEF G!Init
    <2>6. member \in 1 .. Members + 1 /\ at \in 1 .. Endpoints + 1 BY <2>5 DEF GroupSetting
    <2>7. group \in [fallback : BOOLEAN, merge : BOOLEAN, head : BOOLEAN] BY DEF G!Init
    <2>8. G!None \in Names BY DEF Names
    <2>9. physical \in [missing : Names, retryable : Names, err : BOOLEAN] BY <2>1, <2>8
    <2>10. state \in [miss : Names, failure : Names, status : Nat, lastError : BOOLEAN] BY <2>2, <2>8
    <2>11. documents \in Seq(Documents) BY <2>5
    <2> QED BY <2>3, <2>4, <2>5, <2>6, <2>7, <2>9, <2>10, <2>11 DEF GroupTypes, GroupPlaces
<1>2. Remembered BY DEF G!Init, Remembered, Distinct, G!NoState, G!Bodies
<1>3. OpenIs BY DEF G!Init, OpenIs, G!BodiesClosed, G!NoState, G!Bodies
<1>4. Gated BY DEF G!Init, Gated, G!NoState
<1>5. Asking BY DEF G!Init, Asking
<1>6. Missing BY DEF G!Init, Missing, G!NoState, G!MissIsAuthoritative
<1> QED BY <1>1, <1>2, <1>3, <1>4, <1>5, <1>6 DEF GroupInv

\* A step that ends the fetch.
LEMMA EndKeeps ==
    ASSUME GroupInv, pc' = "done", UNCHANGED <<group, tried, said, member, at, physical, state, documents>>,
           gate' \in BOOLEAN, open' = {result'.body} \ {G!None},
           result'.kind = "response" /\ result'.status \in {404, 410} => \A m \in 1 .. Members : Missed(m)
    PROVE  GroupInv'
<1>1. GroupTypes' BY DEF GroupInv, GroupTypes, GroupPlaces
<1>2. Remembered' BY DEF GroupInv, Remembered, G!Bodies, Distinct
<1>3. OpenIs' BY DEF OpenIs, G!BodiesClosed
<1>4. Gated' /\ Asking' BY DEF Gated, Asking
<1>5. Missing' BY DEF GroupInv, Missing, Missed, G!MissIsAuthoritative
<1> QED BY <1>1, <1>2, <1>3, <1>4, <1>5 DEF GroupInv

\* A step on to the next member, with another body remembered or none.
LEMMA NextKeeps ==
    ASSUME GroupSetting, GroupInv, pc \in {"answered", "failed"}, G!NextMember, UNCHANGED <<group, tried, said, at, physical>>,
           state' \in [miss : Names, failure : Names, status : Nat, lastError : BOOLEAN],
           documents' \in Seq(Documents),
           Distinct(state'.miss, state'.failure),
           \A b \in G!Bodies(state') : b = G!None \/ b[1] <= member,
           open' = G!Bodies(state') \ {G!None},
           Missed(member) \/ state'.lastError \/ state'.failure # G!None \/ documents' # <<>>,
           state.lastError => state'.lastError, state.failure # G!None => state'.failure # G!None,
           documents # <<>> => documents' # <<>>, state'.failure # G!None => state'.status = 500
    PROVE  GroupInv'
<1>0. member \in 1 .. Members /\ Members \in Nat BY DEF GroupInv, GroupTypes, GroupSetting
<1>a. member' \in 1 .. Members + 1 BY <1>0 DEF G!NextMember
<1>1. GroupTypes' BY <1>a DEF GroupInv, GroupTypes, GroupPlaces, G!NextMember
<1>2. Remembered' BY DEF GroupInv, GroupTypes, Remembered, G!Bodies, Distinct, G!NextMember, Names, Pairs
<1>3. OpenIs' BY DEF OpenIs, G!BodiesClosed, G!NextMember, G!Bodies
<1>4. Gated' /\ Asking' BY DEF GroupInv, GroupTypes, Gated, Asking, G!NextMember
<1>5. Missing' BY DEF GroupInv, GroupTypes, Missing, Missed, G!MissIsAuthoritative, G!NextMember
<1> QED BY <1>1, <1>2, <1>3, <1>4, <1>5 DEF GroupInv

LEMMA GroupStarts ==
    ASSUME GroupSetting, GroupInv, member <= Members, G!Enter \/ G!Denied \/ G!StartMember
    PROVE  GroupInv'
<1>1. CASE G!Enter
    <2>1. pc = "member" /\ group.merge /\ ~gate /\ state.miss = G!None /\ state.failure = G!None /\ open = {}
        BY <1>1 DEF G!Enter, GroupInv, Gated, OpenIs, G!Bodies
    <2>2. CASE gate' = TRUE /\ UNCHANGED <<pc, result>>
        <3>1. UNCHANGED <<group, tried, said, member, at, physical, state, documents, open, pc, result>>
            BY <1>1, <2>2 DEF G!Enter, G!config
        <3> QED BY <2>1, <2>2, <3>1 DEF GroupInv, GroupTypes, Remembered, OpenIs, Gated, Asking, Missing, Missed,
                                        G!BodiesClosed, G!MissIsAuthoritative, G!Bodies, G!Unused, Distinct
    <2>3. CASE UNCHANGED gate /\ pc' = "done" /\ result' = G!Error
        <3>1. UNCHANGED <<group, tried, said, member, at, physical, state, documents, open>>
            BY <1>1 DEF G!Enter, G!config
        <3> QED BY <2>1, <2>3, <3>1, EndKeeps, Results DEF GroupInv, GroupTypes
    <2> QED BY <1>1, <2>2, <2>3 DEF G!Enter
<1>2. CASE G!Denied
    <2>1. /\ pc = "member" /\ (group.merge => gate) /\ pc' = "failed"
          /\ UNCHANGED <<group, tried, said, member, at, physical, state, documents, open, gate, result>>
        BY <1>2 DEF G!Denied, G!config
    <2>2. GroupTypes' BY <2>1 DEF GroupInv, GroupTypes, GroupPlaces
    <2>3. Remembered' /\ OpenIs' BY <2>1 DEF GroupInv, Remembered, OpenIs, G!Bodies, Distinct, G!BodiesClosed
    <2>4. Gated' /\ Asking' BY <2>1 DEF Gated, Asking
    <2>5. Missing' BY <2>1 DEF GroupInv, Missing, Missed, G!MissIsAuthoritative
    <2> QED BY <2>2, <2>3, <2>4, <2>5 DEF GroupInv
<1>3. CASE G!StartMember
    <2>1. /\ pc = "member" /\ (group.merge => gate) /\ pc' = "ask" /\ at' = 1
          /\ physical' = [missing |-> G!None, retryable |-> G!None, err |-> FALSE]
          /\ UNCHANGED <<group, tried, said, member, state, documents, open, gate, result>>
        BY <1>3 DEF G!StartMember, G!config, G!Unknown
    <2>a. G!None \in Names BY DEF Names
    <2>b. physical' \in [missing : Names, retryable : Names, err : BOOLEAN] BY <2>1, <2>a
    <2>c. at' \in 1 .. Endpoints + 1 BY <2>1 DEF GroupSetting
    <2>2. GroupTypes' BY <2>1, <2>b, <2>c DEF GroupInv, GroupTypes, GroupPlaces
    <2>3. Remembered' BY <2>1 DEF GroupInv, Remembered, G!Bodies, G!Unused, Distinct
    <2>4. OpenIs' BY <2>1 DEF GroupInv, OpenIs, G!Bodies, G!Unused, G!BodiesClosed
    <2>5. Gated' BY <2>1 DEF Gated
    <2>6. Asking'
        <3>1. \A e \in tried[member] : ~(e < 1) BY DEF GroupInv, GroupTypes
        <3> QED BY <2>1, <3>1 DEF Asking
    <2>7. Missing' BY <2>1 DEF GroupInv, Missing, Missed, G!MissIsAuthoritative
    <2> QED BY <2>2, <2>3, <2>4, <2>5, <2>6, <2>7 DEF GroupInv
<1> QED BY <1>1, <1>2, <1>3

LEMMA SkipKeeps ==
    ASSUME GroupSetting, GroupInv, G!Skip \/ G!AttemptFails
    PROVE  GroupInv'
<1>1. /\ pc = "ask" /\ at \in 1 .. Endpoints /\ at' = at + 1
      /\ UNCHANGED <<group, tried, said, pc, member, state, documents, open, gate, result>>
      /\ at \in tried[member] => physical' = [physical EXCEPT !.err = TRUE]
      /\ at \notin tried[member] => UNCHANGED physical
    BY DEF G!Skip, G!AttemptFails, G!config, GroupInv, GroupTypes, GroupSetting
<1>2. /\ physical' \in [missing : Names, retryable : Names, err : BOOLEAN]
      /\ physical'.missing = physical.missing /\ physical'.retryable = physical.retryable
      /\ (at \in tried[member] => physical'.err) /\ (physical.err => physical'.err)
    BY <1>1 DEF GroupInv, GroupTypes
<1>3. at' \in 1 .. Endpoints + 1 BY <1>1 DEF GroupSetting
<1>4. GroupTypes' BY <1>1, <1>2, <1>3 DEF GroupInv, GroupTypes
<1>5. Remembered' BY <1>1, <1>2 DEF GroupInv, GroupTypes, Names, Pairs, Remembered, G!Bodies, G!Unused, Distinct
<1>6. OpenIs' BY <1>1, <1>2 DEF GroupInv, OpenIs, G!Bodies, G!Unused, G!BodiesClosed
<1>7. Gated' BY <1>1 DEF GroupInv, Gated
<1>8. Asking'
    <2>1. \A e \in tried[member] : e \in 1 .. Endpoints BY <1>1 DEF GroupInv, GroupTypes
    <2> QED BY <1>1, <1>2, <2>1 DEF GroupInv, Asking
<1>9. Missing' BY <1>1 DEF GroupInv, Missing, Missed, G!MissIsAuthoritative
<1> QED BY <1>4, <1>5, <1>6, <1>7, <1>8, <1>9 DEF GroupInv

\* An answer is noted for the endpoint that gave it.
Notes(status) == said' = [said EXCEPT ![member][at] = status]

LEMMA SaidOf ==
    ASSUME GroupSetting, GroupInv, NEW status \in Nat, pc = "ask", at \in tried[member],
           Notes(status)
    PROVE  /\ at \in 1 .. Endpoints /\ member \in 1 .. Members
           /\ said' \in [1 .. Members -> [1 .. Endpoints -> Nat]] /\ said'[member][at] = status
           /\ \A m \in 1 .. Members, e \in 1 .. Endpoints : m # member \/ e # at => said'[m][e] = said[m][e]
<1>1. at \in 1 .. Endpoints /\ member \in 1 .. Members BY DEF GroupInv, GroupTypes, GroupSetting
<1>2. said \in [1 .. Members -> [1 .. Endpoints -> Nat]] BY DEF GroupInv, GroupTypes
<1>3. said' = [said EXCEPT ![member] = [said[member] EXCEPT ![at] = status]] BY DEF Notes
<1>4. [said[member] EXCEPT ![at] = status] \in [1 .. Endpoints -> Nat] BY <1>1, <1>2
<1> QED BY <1>1, <1>2, <1>3, <1>4

LEMMA KeepsSaid ==
    ASSUME GroupSetting, GroupInv, NEW status \in Nat, pc = "ask", at \in tried[member],
           Notes(status)
    PROVE  \A m \in 1 .. Members : m < member /\ Missed(m) => Missed(m)'
<1>1. /\ said' \in [1 .. Members -> [1 .. Endpoints -> Nat]] /\ member \in 1 .. Members
      /\ \A m \in 1 .. Members, e \in 1 .. Endpoints : m # member \/ e # at => said'[m][e] = said[m][e]
    BY SaidOf
<1>2. ASSUME NEW m \in 1 .. Members, m < member, Missed(m) PROVE Missed(m)'
    <2>1. m # member BY <1>1, <1>2
    <2> QED BY <1>1, <1>2, <2>1 DEF Missed
<1> QED BY <1>2

\* remember: the answer takes the place of an earlier one of its kind, which is closed.
LEMMA KeepMissing ==
    ASSUME GroupSetting, GroupInv, pc = "ask", at \in tried[member],
           Notes(404), G!Keep("missing", at),
           UNCHANGED <<group, tried, member, state, documents, gate>>
    PROVE  GroupInv'
<1>0. 404 \in Nat OBVIOUS
<1>1. /\ at \in 1 .. Endpoints /\ member \in 1 .. Members
      /\ said' \in [1 .. Members -> [1 .. Endpoints -> Nat]] /\ said'[member][at] = 404
      /\ \A m \in 1 .. Members, e \in 1 .. Endpoints : m # member \/ e # at => said'[m][e] = said[m][e]
    BY <1>0, SaidOf
<1>2. /\ physical' = [physical EXCEPT !.missing = <<member, at>>] /\ at' = at + 1 /\ UNCHANGED <<pc, result>>
      /\ open' = (open \ {physical.missing}) \cup {<<member, at>>}
    BY DEF G!Keep, G!Body
<1> DEFINE b == <<member, at>>
<1>3. b \in Pairs /\ b \in Names /\ b # G!None /\ b[1] = member /\ b[2] = at BY <1>1, Names1 DEF Names
<1>4. open' = (open \ {physical.missing}) \cup {b} BY <1>2
<1>5. physical' = [physical EXCEPT !.missing = b] BY <1>2
<1> HIDE DEF b
<1>6. /\ physical' \in [missing : Names, retryable : Names, err : BOOLEAN]
      /\ physical'.missing = b /\ physical'.retryable = physical.retryable /\ physical'.err = physical.err
    BY <1>3, <1>5 DEF GroupInv, GroupTypes
<1>7. at' \in 1 .. Endpoints + 1 BY <1>1, <1>2 DEF GroupSetting
<1>8. GroupTypes' BY <1>1, <1>2, <1>6, <1>7 DEF GroupInv, GroupTypes
<1>9. Remembered'
    BY <1>1, <1>2, <1>3, <1>6 DEF GroupInv, GroupTypes, Names, Pairs, Remembered, G!Bodies, G!Unused, Distinct
<1>10. OpenIs'
    <2>1. \A c \in G!Bodies(state) : c = G!None \/ c # physical.missing \/ physical.missing = G!None
        BY <1>1 DEF GroupInv, GroupTypes, Remembered, G!Unused, G!Bodies, Names, Pairs
    <2>2. physical.retryable = G!None \/ physical.retryable # physical.missing \/ physical.missing = G!None
        BY DEF GroupInv, Remembered, Distinct
    <2>3. open = (G!Bodies(state) \cup {physical.missing, physical.retryable}) \ {G!None}
        BY DEF GroupInv, OpenIs, G!Unused
    <2>4. open' = (G!Bodies(state) \cup {b, physical.retryable}) \ {G!None} BY <1>3, <1>4, <2>1, <2>2, <2>3
    <2> QED BY <1>2, <1>6, <2>4 DEF OpenIs, G!Unused, G!Bodies, G!BodiesClosed
<1>11. Gated' BY <1>2 DEF GroupInv, Gated
<1>12. Asking'
    <2>1. \A e \in tried[member] : e \in 1 .. Endpoints BY <1>1 DEF GroupInv, GroupTypes
    <2>2. physical.retryable # G!None => physical.retryable[2] \in 1 .. Endpoints /\ physical.retryable[2] < at
        BY Names1 DEF GroupInv, GroupTypes, Remembered, G!Unused, Names
    <2>3. pc = "ask" /\ Asking BY DEF GroupInv
    <2>4. ASSUME NEW e \in tried[member], e < at'
          PROVE  said'[member][e] = 404 \/ physical.retryable # G!None \/ physical.err
        <3>1. e = at \/ e < at BY <1>1, <1>2, <2>1, <2>4
        <3> QED BY <1>1, <2>1, <2>3, <3>1 DEF Asking
    <2>5. physical.retryable # G!None => said'[member][physical.retryable[2]] \in {429, 500}
        <3>1. at # physical.retryable[2] \/ physical.retryable = G!None BY <1>1, <2>2
        <3> QED BY <1>1, <2>2, <2>3, <3>1 DEF Asking
    <2> QED BY <1>2, <1>6, <2>4, <2>5 DEF Asking
<1>13. Missing'
    <2>1. \A m \in 1 .. Members : m < member /\ Missed(m) => Missed(m)' BY <1>0, KeepsSaid
    <2> QED BY <1>2, <2>1 DEF GroupInv, Missing, G!MissIsAuthoritative
<1> QED BY <1>8, <1>9, <1>10, <1>11, <1>12, <1>13 DEF GroupInv

LEMMA KeepRetryable ==
    ASSUME GroupSetting, GroupInv, NEW status \in {429, 500}, pc = "ask", at \in tried[member],
           Notes(status), G!Keep("retryable", at),
           UNCHANGED <<group, tried, member, state, documents, gate>>
    PROVE  GroupInv'
<1>0. status \in Nat OBVIOUS
<1>1. /\ at \in 1 .. Endpoints /\ member \in 1 .. Members
      /\ said' \in [1 .. Members -> [1 .. Endpoints -> Nat]] /\ said'[member][at] = status
      /\ \A m \in 1 .. Members, e \in 1 .. Endpoints : m # member \/ e # at => said'[m][e] = said[m][e]
    BY <1>0, SaidOf
<1>2. /\ physical' = [physical EXCEPT !.retryable = <<member, at>>] /\ at' = at + 1 /\ UNCHANGED <<pc, result>>
      /\ open' = (open \ {physical.retryable}) \cup {<<member, at>>}
    BY DEF G!Keep, G!Body
<1> DEFINE b == <<member, at>>
<1>3. b \in Pairs /\ b \in Names /\ b # G!None /\ b[1] = member /\ b[2] = at BY <1>1, Names1 DEF Names
<1>4. open' = (open \ {physical.retryable}) \cup {b} BY <1>2
<1>5. physical' = [physical EXCEPT !.retryable = b] BY <1>2
<1> HIDE DEF b
<1>6. /\ physical' \in [missing : Names, retryable : Names, err : BOOLEAN]
      /\ physical'.retryable = b /\ physical'.missing = physical.missing /\ physical'.err = physical.err
    BY <1>3, <1>5 DEF GroupInv, GroupTypes
<1>7. at' \in 1 .. Endpoints + 1 BY <1>1, <1>2 DEF GroupSetting
<1>8. GroupTypes' BY <1>1, <1>2, <1>6, <1>7 DEF GroupInv, GroupTypes
<1>9. Remembered'
    BY <1>1, <1>2, <1>3, <1>6 DEF GroupInv, GroupTypes, Names, Pairs, Remembered, G!Bodies, G!Unused, Distinct
<1>10. OpenIs'
    <2>1. \A c \in G!Bodies(state) : c = G!None \/ c # physical.retryable \/ physical.retryable = G!None
        BY <1>1 DEF GroupInv, GroupTypes, Remembered, G!Unused, G!Bodies, Names, Pairs
    <2>2. physical.missing = G!None \/ physical.missing # physical.retryable \/ physical.retryable = G!None
        BY DEF GroupInv, Remembered, Distinct
    <2>3. open = (G!Bodies(state) \cup {physical.missing, physical.retryable}) \ {G!None}
        BY DEF GroupInv, OpenIs, G!Unused
    <2>4. open' = (G!Bodies(state) \cup {physical.missing, b}) \ {G!None} BY <1>3, <1>4, <2>1, <2>2, <2>3
    <2> QED BY <1>2, <1>6, <2>4 DEF OpenIs, G!Unused, G!Bodies, G!BodiesClosed
<1>11. Gated' BY <1>2 DEF GroupInv, Gated
<1>12. Asking' BY <1>1, <1>2, <1>3, <1>6 DEF Asking
<1>13. Missing'
    <2>1. \A m \in 1 .. Members : m < member /\ Missed(m) => Missed(m)' BY <1>0, KeepsSaid
    <2> QED BY <1>2, <2>1 DEF GroupInv, Missing, G!MissIsAuthoritative
<1> QED BY <1>8, <1>9, <1>10, <1>11, <1>12, <1>13 DEF GroupInv

\* What the group remembers is of earlier members than what the endpoints sent.
LEMMA Apart ==
    ASSUME GroupSetting, GroupInv, pc = "ask"
    PROVE  \A c \in G!Bodies(state) : c = G!None \/ c \notin G!Unused(physical)
<1>0. GroupTypes /\ Remembered /\ member \in Nat BY DEF GroupInv, GroupTypes, GroupSetting
<1>1. ASSUME NEW c \in G!Bodies(state), c # G!None PROVE c \in Pairs /\ c[1] < member
    BY <1>0, <1>1 DEF GroupTypes, Remembered, G!Bodies, Names
<1>2. ASSUME NEW c \in G!Unused(physical), c # G!None PROVE c[1] = member
    BY <1>0, <1>2 DEF GroupTypes, Remembered, G!Unused, Names
<1>3. \A c \in Pairs : c[1] < member => c[1] # member BY <1>0 DEF Pairs
<1> QED BY <1>1, <1>2, <1>3

\* An answer of the member: what its endpoints sent besides is closed.
LEMMA AnswersKeep ==
    ASSUME GroupSetting, GroupInv, pc = "ask", pc' = "answered", NEW b \in Pairs, NEW status \in Nat, b[1] = member,
           result' = G!Response(status, b), open' = (open \ G!Unused(physical)) \cup {b},
           said' \in [1 .. Members -> [1 .. Endpoints -> Nat]],
           \A m \in 1 .. Members : m < member /\ Missed(m) => Missed(m)',
           status \in {404, 410} => Missed(member)',
           UNCHANGED <<group, tried, member, at, physical, state, documents, gate>>
    PROVE  GroupInv'
<1>1. GroupTypes' BY DEF GroupInv, GroupTypes, GroupPlaces
<1>2. result'.body = b /\ result'.status = status BY Results
<1>3. Remembered' BY <1>2 DEF GroupInv, Remembered, G!Bodies, Distinct
<1>4. OpenIs'
    <2>1. \A c \in G!Bodies(state) : c = G!None \/ c \notin G!Unused(physical) BY Apart
    <2>2. open = (G!Bodies(state) \cup G!Unused(physical)) \ {G!None} BY DEF GroupInv, OpenIs
    <2>3. open' = (G!Bodies(state) \ {G!None}) \cup {b} BY <2>1, <2>2
    <2> QED BY <1>2, <2>3 DEF OpenIs, G!Bodies, G!BodiesClosed
<1>5. Gated' /\ Asking' BY DEF GroupInv, Gated, Asking
<1>6. Missing' BY <1>2 DEF GroupInv, Missing, G!MissIsAuthoritative
<1> QED BY <1>1, <1>3, <1>4, <1>5, <1>6 DEF GroupInv

LEMMA AnswerKeeps ==
    ASSUME GroupSetting, GroupInv, NEW status \in {200, 403, 404, 410, 429, 500}, G!Answer(status)
    PROVE  GroupInv'
<1>1. /\ pc = "ask" /\ at \in tried[member] /\ Notes(status) /\ status \in Nat
      /\ UNCHANGED <<group, tried, member, state, documents, gate>>
    BY DEF G!Answer, G!config, Notes
<1>2. CASE status = 404 /\ G!Keep("missing", at)
    <2>1. Notes(404) /\ pc = "ask" /\ at \in tried[member] /\ G!Keep("missing", at)
        BY <1>1, <1>2
    <2>2. UNCHANGED <<group, tried, member, state, documents, gate>> BY <1>1
    <2> QED BY <2>1, <2>2, KeepMissing
<1>3. CASE status \in {429, 500} /\ G!Keep("retryable", at)
    <2>1. /\ status \in {429, 500} /\ pc = "ask" /\ at \in tried[member] /\ G!Keep("retryable", at)
          /\ Notes(status)
        BY <1>1, <1>3
    <2>2. UNCHANGED <<group, tried, member, state, documents, gate>> BY <1>1
    <2> QED BY <2>1, <2>2, KeepRetryable
<1>4. CASE status # 404 /\ pc' = "answered" /\ result' = G!Response(status, G!Body(at))
           /\ open' = (open \ G!Unused(physical)) \cup {G!Body(at)} /\ UNCHANGED <<at, physical>>
    <2>1. /\ at \in 1 .. Endpoints /\ member \in 1 .. Members
          /\ said' \in [1 .. Members -> [1 .. Endpoints -> Nat]] /\ said'[member][at] = status
        BY <1>1, SaidOf
    <2>2. G!Body(at) \in Pairs /\ G!Body(at)[1] = member BY <2>1, Names1 DEF G!Body
    <2>3. status \in {404, 410} => Missed(member)' BY <1>1, <1>4, <2>1 DEF Missed
    <2>4. \A m \in 1 .. Members : m < member /\ Missed(m) => Missed(m)' BY <1>1, KeepsSaid
    <2> QED BY <1>1, <1>4, <2>1, <2>2, <2>3, <2>4, AnswersKeep
<1> QED BY <1>2, <1>3, <1>4 DEF G!Answer, G!Missing, G!Retryable

LEMMA CancelKeeps ==
    ASSUME GroupInv, G!Cancel \/ UNCHANGED G!vars
    PROVE  GroupInv'
<1>1. UNCHANGED <<group, tried, said, pc, member, at, physical, state, documents, open, gate, result>>
    BY DEF G!Cancel, G!vars, G!config
<1>2. GroupTypes' BY <1>1 DEF GroupInv, GroupTypes
<1>3. Remembered' /\ OpenIs' BY <1>1 DEF GroupInv, Remembered, OpenIs, G!Bodies, G!Unused, Distinct, G!BodiesClosed
<1>4. Gated' /\ Asking' BY <1>1 DEF GroupInv, Gated, Asking
<1>5. Missing' BY <1>1 DEF GroupInv, Missing, Missed, G!MissIsAuthoritative
<1> QED BY <1>2, <1>3, <1>4, <1>5 DEF GroupInv

\* A member that fails leaves nothing open but what the group remembers.
LEMMA FailedKeeps ==
    ASSUME GroupSetting, GroupInv, pc = "ask", pc' = "failed", open' = open \ G!Unused(physical),
           UNCHANGED <<group, tried, said, member, at, physical, state, documents, gate>>
    PROVE  GroupInv'
<1>1. GroupTypes' BY DEF GroupInv, GroupTypes, GroupPlaces
<1>2. Remembered' BY DEF GroupInv, Remembered, G!Bodies, Distinct
<1>3. OpenIs'
    <2>1. \A c \in G!Bodies(state) : c = G!None \/ c \notin G!Unused(physical) BY Apart
    <2>2. open = (G!Bodies(state) \cup G!Unused(physical)) \ {G!None} BY DEF GroupInv, OpenIs
    <2>3. open' = G!Bodies(state) \ {G!None} BY <2>1, <2>2
    <2> QED BY <2>3 DEF OpenIs, G!Bodies, G!BodiesClosed
<1>4. Gated' /\ Asking' BY DEF GroupInv, Gated, Asking
<1>5. Missing' BY DEF GroupInv, Missing, Missed, G!MissIsAuthoritative
<1> QED BY <1>1, <1>2, <1>3, <1>4, <1>5 DEF GroupInv

LEMMA TakeKeeps ==
    ASSUME GroupSetting, GroupInv, G!Take \/ G!Stop
    PROVE  GroupInv'
<1>1. CASE G!Stop BY <1>1, FailedKeeps DEF G!Stop, G!config
<1>2. CASE G!Take
    <2> DEFINE c == IF physical.retryable # G!None THEN physical.retryable
                    ELSE IF physical.err \/ G!HasUntried THEN G!None ELSE physical.missing
    <2>1. /\ pc = "ask" /\ at > Endpoints /\ open' = open \ (G!Unused(physical) \ {c})
          /\ \/ c = G!None /\ pc' = "failed" /\ UNCHANGED result
             \/ c # G!None /\ pc' = "answered" /\ result' = G!Response(said[member][c[2]], c)
          /\ UNCHANGED <<group, tried, said, member, at, physical, state, documents, gate>>
        BY <1>2 DEF G!Take, G!config
    <2>2. G!None \notin open BY <2>1 DEF GroupInv, OpenIs
    <2>3. CASE c = G!None
        <3>1. open' = open \ G!Unused(physical) BY <2>1, <2>2, <2>3
        <3> HIDE DEF c
        <3> QED BY <2>1, <2>3, <3>1, FailedKeeps
    <2>4. CASE c # G!None
        <3>1. c \in G!Unused(physical) /\ c \in Pairs /\ c[1] = member
            BY <2>1, <2>4 DEF G!Unused, GroupInv, GroupTypes, Remembered, Names
        <3>2. c[2] \in 1 .. Endpoints /\ member \in 1 .. Members BY <3>1, Names1
        <3>a. said \in [1 .. Members -> [1 .. Endpoints -> Nat]] BY DEF GroupInv, GroupTypes
        <3>3. said[member][c[2]] \in Nat
            <4> HIDE DEF c
            <4> QED BY <3>2, <3>a
        <3>4. c \in open BY <2>1, <2>4, <3>1 DEF GroupInv, OpenIs
        <3>5. open' = (open \ G!Unused(physical)) \cup {c} BY <2>1, <3>4
        <3>6. said[member][c[2]] \in {404, 410} => Missed(member)
            <4>1. CASE physical.retryable # G!None BY <2>1, <4>1 DEF GroupInv, Asking
            <4>2. CASE physical.retryable = G!None
                <5>1. ~physical.err /\ tried[member] = 1 .. Endpoints BY <2>4, <4>2 DEF G!HasUntried
                <5>2. \A e \in 1 .. Endpoints : e < at BY <2>1 DEF GroupInv, GroupTypes, GroupSetting
                <5> QED BY <2>1, <4>2, <5>1, <5>2 DEF GroupInv, Asking, Missed
            <4> QED BY <4>1, <4>2
        <3>7. Missed(member)' = Missed(member) /\ \A m \in 1 .. Members : Missed(m)' = Missed(m)
            BY <2>1 DEF Missed
        <3> HIDE DEF c
        <3>8. said' \in [1 .. Members -> [1 .. Endpoints -> Nat]] BY <2>1 DEF GroupInv, GroupTypes
        <3> QED BY <2>1, <2>4, <3>1, <3>3, <3>5, <3>6, <3>7, <3>8, AnswersKeep
    <2> QED BY <2>3, <2>4
<1> QED BY <1>1, <1>2

LEMMA FailsKeeps ==
    ASSUME GroupSetting, GroupInv, G!MemberFails
    PROVE  GroupInv'
<1>1. pc = "failed" /\ UNCHANGED <<group, tried, said, at, physical, documents>> BY DEF G!MemberFails, G!config
<1>2. open = G!Bodies(state) \ {G!None} BY <1>1 DEF GroupInv, OpenIs
<1>3. CASE state' = [state EXCEPT !.lastError = TRUE] /\ G!NextMember /\ UNCHANGED open
    <2>1. /\ state' \in [miss : Names, failure : Names, status : Nat, lastError : BOOLEAN]
          /\ state'.miss = state.miss /\ state'.failure = state.failure /\ state'.status = state.status /\ state'.lastError
        BY <1>3 DEF GroupInv, GroupTypes
    <2>2. G!Bodies(state') = G!Bodies(state) BY <2>1 DEF G!Bodies
    <2>3. \A b \in G!Bodies(state) : b = G!None \/ b[1] <= member
        BY DEF GroupInv, GroupTypes, Remembered, Names, Pairs, G!Bodies
    <2>4. Distinct(state'.miss, state'.failure) BY <2>1 DEF GroupInv, Remembered
    <2>5. state'.failure # G!None => state'.status = 500 BY <2>1 DEF GroupInv, Missing
    <2>6. documents' \in Seq(Documents) BY <1>1 DEF GroupInv, GroupTypes
    <2> QED BY <1>1, <1>2, <1>3, <2>1, <2>2, <2>3, <2>4, <2>5, <2>6, NextKeeps
<1>4. CASE open' = open \ G!Bodies(state) /\ G!End(G!Error) /\ UNCHANGED <<member, state>>
    <2>1. open' = {} BY <1>2, <1>4
    <2> QED BY <1>1, <1>4, <2>1, EndKeeps, Results DEF G!End
<1> QED BY <1>3, <1>4 DEF G!MemberFails

\* What is open when a member has answered.
LEMMA Answered ==
    ASSUME GroupInv, pc = "answered"
    PROVE  /\ result.body \in Pairs /\ result.body # G!None /\ result.body[1] = member /\ result.body \in Names
           /\ result.body \notin G!Bodies(state) /\ result.status \in Nat
           /\ open = (G!Bodies(state) \ {G!None}) \cup {result.body}
           /\ \A b \in G!Bodies(state) : b = G!None \/ b[1] <= member
<1>1. result.body \in Pairs /\ result.body[1] = member /\ result.status \in Nat BY DEF GroupInv, Remembered
<1>2. result.body # G!None /\ result.body \in Names BY <1>1, Names1 DEF Names
<1>3. member \in Nat BY DEF GroupInv, GroupTypes
<1>4. \A b \in G!Bodies(state) : b = G!None \/ (b[1] < member /\ b[1] \in Nat)
    BY Names1 DEF GroupInv, GroupTypes, Remembered, G!Bodies, Names
<1>5. result.body \notin G!Bodies(state) BY <1>1, <1>2, <1>3, <1>4
<1> QED BY <1>1, <1>2, <1>3, <1>4, <1>5 DEF GroupInv, OpenIs

LEMMA RemembersKeep ==
    ASSUME GroupSetting, GroupInv, G!RememberMiss \/ G!RememberFailure
    PROVE  GroupInv'
<1>1. pc = "answered" /\ G!NextMember /\ UNCHANGED <<group, tried, said, at, physical, documents>>
    BY DEF G!RememberMiss, G!RememberFailure, G!config
<1> DEFINE b == result.body
<1>2. /\ b # G!None /\ b[1] = member /\ b \in Names /\ b \notin G!Bodies(state) /\ result.status \in Nat
      /\ open = (G!Bodies(state) \ {G!None}) \cup {b}
      /\ \A c \in G!Bodies(state) : c = G!None \/ c[1] <= member
    BY <1>1, Answered
<1>3. documents' \in Seq(Documents) /\ member \in Nat BY <1>1 DEF GroupInv, GroupTypes
<1>4. CASE G!RememberMiss
    <2>1. state' = [state EXCEPT !.miss = b] /\ open' = open \ {state.miss} /\ result.status \in {404, 410}
        BY <1>4 DEF G!RememberMiss
    <2> HIDE DEF b
    <2>2. /\ state' \in [miss : Names, failure : Names, status : Nat, lastError : BOOLEAN]
          /\ state'.miss = b /\ state'.failure = state.failure /\ state'.status = state.status
          /\ state'.lastError = state.lastError
        BY <1>2, <2>1 DEF GroupInv, GroupTypes
    <2>3. Distinct(state'.miss, state'.failure) BY <1>2, <2>2 DEF Distinct, G!Bodies
    <2>4. Distinct(state.miss, state.failure) BY DEF GroupInv, Remembered
    <2>5. open' = G!Bodies(state') \ {G!None} BY <1>2, <2>1, <2>2, <2>4 DEF G!Bodies, Distinct
    <2>6. \A c \in G!Bodies(state') : c = G!None \/ c[1] <= member BY <1>2, <1>3, <2>2 DEF G!Bodies
    <2>7. Missed(member) BY <1>1, <2>1 DEF GroupInv, Missing
    <2>8. state'.failure # G!None => state'.status = 500 BY <2>2 DEF GroupInv, Missing
    <2> QED BY <1>1, <1>3, <2>2, <2>3, <2>5, <2>6, <2>7, <2>8, NextKeeps
<1>5. CASE G!RememberFailure
    <2> DEFINE s == result.status
    <2>1. state' = [state EXCEPT !.failure = b, !.status = s] /\ open' = open \ {state.failure} /\ s = 500 /\ s \in Nat
        BY <1>2, <1>5 DEF G!RememberFailure, G!Fallback
    <2> HIDE DEF b, s
    <2>2. /\ state' \in [miss : Names, failure : Names, status : Nat, lastError : BOOLEAN]
          /\ state'.failure = b /\ state'.miss = state.miss /\ state'.status = s
          /\ state'.lastError = state.lastError
        <3>1. state \in [miss : Names, failure : Names, status : Nat, lastError : BOOLEAN] BY DEF GroupInv, GroupTypes
        <3>2. b \in Names BY <1>2
        <3>3. s \in Nat BY <2>1
        <3>4. [state EXCEPT !.failure = b, !.status = s] \in [miss : Names, failure : Names, status : Nat, lastError : BOOLEAN]
            BY <3>1, <3>2, <3>3
        <3> QED BY <2>1, <3>1, <3>4
    <2>3. Distinct(state'.miss, state'.failure) BY <1>2, <2>2 DEF Distinct, G!Bodies
    <2>4. Distinct(state.miss, state.failure) BY DEF GroupInv, Remembered
    <2>5. open' = G!Bodies(state') \ {G!None} BY <1>2, <2>1, <2>2, <2>4 DEF G!Bodies, Distinct
    <2>6. \A c \in G!Bodies(state') : c = G!None \/ c[1] <= member BY <1>2, <1>3, <2>2 DEF G!Bodies
    <2> QED BY <1>1, <1>2, <1>3, <2>1, <2>2, <2>3, <2>5, <2>6, NextKeeps
<1> QED BY <1>4, <1>5

LEMMA ReturnKeeps ==
    ASSUME GroupInv, G!ReturnAnswer
    PROVE  GroupInv'
<1>1. /\ pc = "answered" /\ result.status \notin {404, 410} /\ open' = open \ G!Bodies(state)
      /\ pc' = "done" /\ result' = result /\ gate' = FALSE
      /\ UNCHANGED <<group, tried, said, member, at, physical, state, documents>>
    BY DEF G!ReturnAnswer, G!Terminal, G!End, G!config
<1>2. result.body # G!None /\ result.body \notin G!Bodies(state) /\ open = (G!Bodies(state) \ {G!None}) \cup {result.body}
    BY <1>1, Answered
<1>3. open' = {result'.body} \ {G!None} BY <1>1, <1>2
<1> QED BY <1>1, <1>3, EndKeeps

LEMMA ConsumeKeeps ==
    ASSUME GroupSetting, GroupInv, G!ConsumeMetadata
    PROVE  GroupInv'
<1>1. pc = "answered" /\ group.merge /\ UNCHANGED <<group, tried, said, at, physical>> BY DEF G!ConsumeMetadata, G!config
<1>2. /\ result.body # G!None /\ result.body \notin G!Bodies(state)
      /\ open = (G!Bodies(state) \ {G!None}) \cup {result.body}
      /\ \A c \in G!Bodies(state) : c = G!None \/ c[1] <= member
    BY <1>1, Answered
<1>3. ASSUME NEW d \in Documents, documents' = Append(documents, d), open' = open \ {result.body}, G!NextMember, UNCHANGED state
      PROVE  GroupInv'
    <2>1. documents \in Seq(Documents) BY DEF GroupInv, GroupTypes
    <2>2. documents' \in Seq(Documents) /\ documents' # <<>> BY <1>3, <2>1
    <2>3. open' = G!Bodies(state') \ {G!None} BY <1>2, <1>3 DEF G!Bodies
    <2>4. \A c \in G!Bodies(state') : c = G!None \/ c[1] <= member BY <1>2, <1>3 DEF G!Bodies
    <2>5. state' \in [miss : Names, failure : Names, status : Nat, lastError : BOOLEAN] BY <1>3 DEF GroupInv, GroupTypes
    <2>6. Distinct(state'.miss, state'.failure) BY <1>3 DEF GroupInv, Remembered
    <2>7. state'.failure # G!None => state'.status = 500 BY <1>3 DEF GroupInv, Missing
    <2> QED BY <1>1, <1>3, <2>2, <2>3, <2>4, <2>5, <2>6, <2>7, NextKeeps
<1>4. CASE /\ UNCHANGED <<documents, state, member, gate>>
           /\ open' = open \ {result.body} /\ pc' = "failed" /\ result' = G!NoResult
    <2>1. open' = G!Bodies(state) \ {G!None} BY <1>2, <1>4
    <2>2. GroupTypes' BY <1>1, <1>4 DEF GroupInv, GroupTypes, GroupPlaces
    <2>3. Remembered' /\ OpenIs' BY <1>4, <2>1 DEF GroupInv, Remembered, OpenIs, G!Bodies, Distinct, G!BodiesClosed
    <2>4. Gated' /\ Asking' BY <1>1, <1>4 DEF GroupInv, Gated, Asking
    <2>5. Missing' BY <1>1, <1>4 DEF GroupInv, Missing, Missed, G!MissIsAuthoritative
    <2> QED BY <2>2, <2>3, <2>4, <2>5 DEF GroupInv
<1>5. CASE /\ open' = open \ ({result.body} \cup G!Bodies(state)) /\ G!End(G!Error)
           /\ UNCHANGED <<documents, state, member>>
    <2>1. open' = {} BY <1>2, <1>5
    <2> QED BY <1>1, <1>5, <2>1, EndKeeps, Results DEF G!End
<1> QED BY <1>3, <1>4, <1>5 DEF G!ConsumeMetadata

LEMMA ResultKeeps ==
    ASSUME GroupSetting, GroupInv, G!GroupResult \/ G!FinishMerged
    PROVE  GroupInv'
<1>1. /\ pc = "member" /\ member > Members
      /\ UNCHANGED <<group, tried, said, member, at, physical, state, documents>>
    BY DEF G!GroupResult, G!FinishMerged, G!config
<1>2. open = {state.miss, state.failure} \ {G!None} /\ Distinct(state.miss, state.failure)
    BY <1>1 DEF GroupInv, OpenIs, Remembered, G!Bodies
<1>3. \A m \in 1 .. Members : m < member BY <1>1 DEF GroupInv, GroupTypes, GroupSetting
<1>4. CASE open' = open \ G!Bodies(state) /\ G!End(G!Error)
    <2>1. open' = {} BY <1>2, <1>4 DEF G!Bodies
    <2> QED BY <1>1, <1>4, <2>1, EndKeeps, Results DEF G!End
<1>5. CASE G!GroupResult
    <2>1. documents = <<>> BY <1>5 DEF G!GroupResult
    <2>2. CASE ~state.lastError /\ state.failure # G!None /\ open' = open \ {state.miss}
               /\ G!End(G!Response(state.status, state.failure))
        <3>1. state.status = 500 BY <2>2 DEF GroupInv, Missing
        <3>2. result'.body = state.failure /\ result'.status = 500 BY <2>2, <3>1, Results DEF G!End
        <3>3. open' = {result'.body} \ {G!None} BY <1>2, <2>2, <3>2 DEF Distinct
        <3>4. pc' = "done" /\ gate' = FALSE /\ result'.status \notin {404, 410} BY <2>2, <3>2 DEF G!End
        <3> QED BY <1>1, <3>3, <3>4, EndKeeps
    <2>3. CASE ~state.lastError /\ state.failure = G!None /\ UNCHANGED open
               /\ G!End(G!Response(said[state.miss[1]][state.miss[2]], state.miss))
        <3>1. result'.body = state.miss BY <2>3, Results DEF G!End
        <3>2. open' = {result'.body} \ {G!None} BY <1>2, <2>3, <3>1
        <3>3. \A m \in 1 .. Members : Missed(m) BY <1>3, <2>1, <2>3 DEF GroupInv, Missing
        <3> QED BY <1>1, <2>3, <3>2, <3>3, EndKeeps DEF G!End
    <2> QED BY <1>4, <1>5, <2>2, <2>3 DEF G!GroupResult
<1>6. CASE G!FinishMerged
    <2>1. CASE ~(open' = open \ G!Bodies(state) /\ G!End(G!Error))
        <3> DEFINE body == IF group.head THEN G!None ELSE G!Merged  d == G!BuildMerged(documents)
        <3>1. /\ open' = (open \ G!Bodies(state)) \cup ({body} \ {G!None})
              /\ G!End([G!Response(200, body) EXCEPT !.kind = "merged", !.merged = d])
            BY <1>6, <2>1 DEF G!FinishMerged
        <3> HIDE DEF body, d
        <3>2. result'.kind = "merged" /\ result'.body = body /\ pc' = "done" /\ gate' = FALSE BY <3>1, Results DEF G!End
        <3>3. open' = {result'.body} \ {G!None} BY <1>2, <3>1, <3>2 DEF G!Bodies
        <3> QED BY <1>1, <3>2, <3>3, EndKeeps
    <2> QED BY <1>4, <2>1
<1> QED BY <1>5, <1>6

LEMMA GroupStep ==
    ASSUME GroupSetting, GroupInv, [G!Next]_(G!vars)
    PROVE  GroupInv'
<1>1. CASE member <= Members /\ (G!Enter \/ G!Denied \/ G!StartMember) BY <1>1, GroupStarts
<1>2. CASE G!Skip \/ G!AttemptFails BY <1>2, SkipKeeps
<1>3. CASE G!Cancel \/ UNCHANGED G!vars BY <1>3, CancelKeeps
<1>4. CASE G!Take \/ G!Stop BY <1>4, TakeKeeps
<1>5. CASE \E status \in {200, 403, 404, 410, 429, 500} : G!Answer(status) BY <1>5, AnswerKeeps
<1>6. CASE G!MemberFails BY <1>6, FailsKeeps
<1>7. CASE G!RememberMiss \/ G!RememberFailure BY <1>7, RemembersKeep
<1>8. CASE G!ReturnAnswer BY <1>8, ReturnKeeps
<1>9. CASE G!ConsumeMetadata BY <1>9, ConsumeKeeps
<1>10. CASE G!GroupResult \/ G!FinishMerged BY <1>10, ResultKeeps
<1> QED BY <1>1, <1>2, <1>3, <1>4, <1>5, <1>6, <1>7, <1>8, <1>9, <1>10 DEF G!Next

LEMMA GroupHolds ==
    ASSUME GroupSetting
    PROVE  G!Spec => []GroupInv
<1>1. G!Init => GroupInv BY GroupInit
<1>2. GroupInv /\ [G!Next]_(G!vars) => GroupInv' BY GroupStep
<1> QED BY <1>1, <1>2, PTL DEF G!Spec

-----------------------------------------------------------------------------
(* PackageRoutes *)

\* A record, read back with any use that is made of it, asks for the path it was made for.
ReadsBack(e, t) ==
    LET r == N!Parse(e, t)
    IN r.kind # "rejected" /\ N!Pulled(e, r).record /\ ~N!Reserved(e, t) =>
       \A use \in {"prefetch", "sync", "refresh"} :
          (use = "refresh" => N!Pulled(e, r).intent) =>
             N!Rebuild(e, use, r.repository, r.reference) = r.path /\ N!Parse(e, r.path) = r

LEMMA TailSequence ==
    ASSUME MaxSegments \in Nat, NEW e, NEW t \in N!Tails(e)
    PROVE  t \in Seq(N!Alphabet(e)) /\ Len(t) \in Nat \ {0}
<1>1. PICK n \in 1 .. MaxSegments : t \in [1 .. n -> N!Alphabet(e)] BY DEF N!Tails
<1> QED BY <1>1

LEMMA LeastNumber ==
    ASSUME NEW A \in SUBSET Nat, A # {}
    PROVE  \E i \in A : \A k \in A : i <= k
<1>1. PICK i \in A : \A k \in A : ~(<<k, i>> \in OpToRel(<, Nat)) BY NatLessThanWellFounded, WFMin
<1>2. \A k \in A : ~(k < i) BY <1>1 DEF OpToRel
<1> QED BY <1>2

\* A path is its directory and its file, or what is around a mark.
LEMMA PathParts ==
    ASSUME NEW S, NEW t \in Seq(S), Len(t) \in Nat \ {0}
    PROVE  /\ N!Front(t) \o <<N!Last(t)>> = t
           /\ Len(t) = 1 => <<N!Last(t)>> = t
           /\ Len(N!Front(t)) = Len(t) - 1
           /\ \A i \in 1 .. Len(t) - 1 : N!Front(t)[i] = t[i]
           /\ \A v \in 2 .. Len(t) - 1 : SubSeq(t, 1, v - 1) \o (<<t[v]>> \o SubSeq(t, v + 1, Len(t))) = t
           /\ <<t[1]>> \o Tail(t) = t
<1>1. SubSeq(t, 1, Len(t)) = t BY SubSeqFull
<1>2. SubSeq(t, 1, Len(t)) = SubSeq(t, 1, Len(t) - 1) \o <<t[Len(t)]>> BY SubSeqRecursiveSecond
<1>3. N!Front(t) \o <<N!Last(t)>> = t BY <1>1, <1>2 DEF N!Front, N!Last
<1>4. Len(t) = 1 => <<N!Last(t)>> = t BY DEF N!Last
<1>5. Len(N!Front(t)) = Len(t) - 1 /\ \A i \in 1 .. Len(t) - 1 : N!Front(t)[i] = t[i]
    <2> DEFINE n == Len(t) - 1
    <2>1. n \in Int /\ \A i \in 1 .. n : t[i] \in S OBVIOUS
    <2>2. N!Front(t) = SubSeq(t, 1, n) BY DEF N!Front
    <2> HIDE DEF n
    <2>3. /\ Len(SubSeq(t, 1, n)) = IF 1 <= n THEN n - 1 + 1 ELSE 0
          /\ \A i \in 1 .. n - 1 + 1 : SubSeq(t, 1, n)[i] = t[1 + i - 1]
        BY <2>1, SubSeqProperties
    <2>4. n >= 0 BY DEF n
    <2>5. Len(SubSeq(t, 1, n)) = n BY <2>1, <2>3, <2>4
    <2>6. ASSUME NEW i \in 1 .. n PROVE SubSeq(t, 1, n)[i] = t[i]
        <3>1. i \in 1 .. n - 1 + 1 /\ 1 + i - 1 = i BY <2>1
        <3> QED BY <2>3, <3>1
    <2> QED BY <2>2, <2>5, <2>6 DEF n
<1>6. ASSUME NEW v \in 2 .. Len(t) - 1
      PROVE  SubSeq(t, 1, v - 1) \o (<<t[v]>> \o SubSeq(t, v + 1, Len(t))) = t
    <2>1. SubSeq(t, v, Len(t)) = <<t[v]>> \o SubSeq(t, v + 1, Len(t)) BY SubSeqRecursiveFirst
    <2>2. SubSeq(t, 1, v - 1) \o SubSeq(t, (v - 1) + 1, Len(t)) = SubSeq(t, 1, Len(t)) BY ConcatAdjacentSubSeq
    <2>3. (v - 1) + 1 = v OBVIOUS
    <2> QED BY <1>1, <2>1, <2>2, <2>3
<1>7. <<t[1]>> \o Tail(t) = t
    <2>1. SubSeq(t, 1, Len(t)) = <<t[1]>> \o SubSeq(t, 2, Len(t)) BY SubSeqRecursiveFirst
    <2>2. Tail(t) = SubSeq(t, 2, Len(t)) BY TailIsSubSeq
    <2> QED BY <1>1, <2>1, <2>2
<1> QED BY <1>3, <1>4, <1>5, <1>6, <1>7

LEMMA RouteParts ==
    ASSUME NEW k, NEW p, NEW f, NEW u
    PROVE  LET r == N!Route(k, p, f, u) IN r.kind = k /\ r.repository = p /\ r.reference = f /\ r.path = u
BY DEF N!Route

\* Maven and the mirrors.
LEMMA DirectoryReadsBack ==
    ASSUME NEW S, NEW t \in Seq(S), Len(t) \in Nat \ {0}, NEW root, Len(t) = 2 => t[1] # root
    PROVE  (IF N!DirOr(t, root) = <<root>> THEN <<N!Last(t)>> ELSE N!DirOr(t, root) \o <<N!Last(t)>>) = t
<1>1. CASE Len(t) = 1 BY <1>1, PathParts DEF N!DirOr
<1>2. CASE Len(t) # 1
    <2>1. N!DirOr(t, root) = N!Front(t) BY <1>2 DEF N!DirOr
    <2>2. N!Front(t) # <<root>>
        <3>1. N!Front(t) = <<root>> => Len(N!Front(t)) = 1 /\ N!Front(t)[1] = root OBVIOUS
        <3>2. /\ Len(N!Front(t)) = Len(t) - 1
              /\ \A i \in 1 .. Len(t) - 1 : N!Front(t)[i] = t[i]
            BY PathParts
        <3>3. Len(t) = 2 => 1 \in 1 .. Len(t) - 1 OBVIOUS
        <3>4. Len(t) = 2 => N!Front(t)[1] = t[1] BY <3>2, <3>3
        <3> QED BY <1>2, <3>1, <3>2, <3>4
    <2> QED BY <2>1, <2>2, PathParts
<1> QED BY <1>1, <1>2

LEMMA MavenReadsBack ==
    ASSUME NEW S, NEW t \in Seq(S), Len(t) \in Nat \ {0}
    PROVE  ReadsBack("maven", t)
<1> DEFINE r == N!Parse("maven", t)
<1>1. r = N!parseMaven(t) BY DEF N!Parse
<1>2. r.repository = N!DirOr(t, "_root") /\ r.reference = <<N!Last(t)>> /\ r.path = t
    BY <1>1, RouteParts DEF N!parseMaven
<1>3. ~N!Reserved("maven", t) => (Len(t) = 2 => t[1] # "_root") BY DEF N!Reserved
<1>a. ~N!Reserved("maven", t) =>
        (IF N!DirOr(t, "_root") = <<"_root">> THEN <<N!Last(t)>> ELSE N!DirOr(t, "_root") \o <<N!Last(t)>>) = t
    BY <1>3, DirectoryReadsBack
<1>4. ~N!Reserved("maven", t) => \A use : N!Rebuild("maven", use, r.repository, r.reference) = t
    <2> HIDE DEF r
    <2> QED BY <1>2, <1>a DEF N!Rebuild, N!mavenTail
<1> HIDE DEF r
<1> QED BY <1>2, <1>4 DEF ReadsBack, r

LEMMA DistReadsBack ==
    ASSUME NEW S, NEW t \in Seq(S), Len(t) \in Nat \ {0}
    PROVE  ReadsBack("dist", t)
<1> DEFINE r == N!Parse("dist", t)
<1>1. r = N!parseDist(t) BY DEF N!Parse
<1>2. r.repository = N!DirOr(t, "dist") /\ r.reference = <<N!Last(t)>> /\ r.path = t
    BY <1>1, RouteParts DEF N!parseDist
<1>3. ~N!Reserved("dist", t) => (Len(t) = 2 => t[1] # "dist") BY DEF N!Reserved
<1>a. ~N!Reserved("dist", t) =>
        (IF N!DirOr(t, "dist") = <<"dist">> THEN <<N!Last(t)>> ELSE N!DirOr(t, "dist") \o <<N!Last(t)>>) = t
    BY <1>3, DirectoryReadsBack
<1>4. ~N!Reserved("dist", t) => \A use : N!Rebuild("dist", use, r.repository, r.reference) = t
    <2> HIDE DEF r
    <2> QED BY <1>2, <1>a DEF N!Rebuild, N!distTail
<1> HIDE DEF r
<1> QED BY <1>2, <1>4 DEF ReadsBack, r

LEMMA GoReadsBack ==
    ASSUME NEW S, NEW t \in Seq(S), Len(t) \in Nat \ {0}
    PROVE  ReadsBack("go", t)
<1> DEFINE r == N!Parse("go", t)  v == N!VersionAt(t)
<1>1. r = N!parseGo(t) BY DEF N!Parse
<1>2. CASE Len(t) > 1 /\ N!Last(t) = "@latest"
    <2>1. r.repository = N!Front(t) /\ r.reference = <<N!Last(t)>> /\ r.path = t
        BY <1>1, <1>2, RouteParts DEF N!parseGo
    <2>2. \A use : N!Rebuild("go", use, r.repository, r.reference) = t BY <2>1, PathParts DEF N!Rebuild, N!goTail
    <2> HIDE DEF r
    <2> QED BY <2>1, <2>2 DEF ReadsBack, r
<1>3. CASE ~(Len(t) > 1 /\ N!Last(t) = "@latest") /\ v = 0
    <2>1. r.kind = "rejected" BY <1>1, <1>3, RouteParts DEF N!parseGo, N!NoRoute
    <2> HIDE DEF r
    <2> QED BY <2>1 DEF ReadsBack, r
<1>4. CASE ~(Len(t) > 1 /\ N!Last(t) = "@latest") /\ v # 0
    <2>1. v \in 2 .. Len(t) - 1 /\ t[v] = "@v"
        <3> DEFINE A == {i \in 2 .. (Len(t) - 1) : t[i] = "@v"}
        <3>1. A # {} /\ v = CHOOSE i \in A : \A k \in A : i <= k BY <1>4 DEF N!VersionAt
        <3>2. A \in SUBSET Nat /\ A # {} BY <3>1
        <3>3. \E i \in A : \A k \in A : i <= k
            <4> HIDE DEF A
            <4> QED BY <3>2, LeastNumber
        <3>4. v \in A BY <3>1, <3>3
        <3> QED BY <3>4
    <2>2. r.repository = SubSeq(t, 1, v - 1) /\ r.reference = <<t[v]>> \o SubSeq(t, v + 1, Len(t)) /\ r.path = t
        <3> DEFINE f == SubSeq(t, v + 1, Len(t))
                   k == CASE f = <<"list">> -> "metadata" [] N!Last(f) = "x.zip" -> "release" [] OTHER -> "other"
        <3>1. r = N!Route(k, SubSeq(t, 1, v - 1), <<"@v">> \o f, t) BY <1>1, <1>4 DEF N!parseGo
        <3> HIDE DEF k, f, v, r
        <3>2. r.repository = SubSeq(t, 1, v - 1) /\ r.reference = <<"@v">> \o f /\ r.path = t BY <3>1 DEF N!Route
        <3> QED BY <2>1, <3>2 DEF f
    <2>a. \A i \in 2 .. Len(t) - 1 : SubSeq(t, 1, i - 1) \o (<<t[i]>> \o SubSeq(t, i + 1, Len(t))) = t BY PathParts
    <2>3. r.repository \o r.reference = t
        <3> HIDE DEF v, r
        <3> QED BY <2>1, <2>2, <2>a
    <2>4. \A use : N!Rebuild("go", use, r.repository, r.reference) = t BY <2>3 DEF N!Rebuild, N!goTail
    <2> HIDE DEF r
    <2> QED BY <2>2, <2>4 DEF ReadsBack, r
<1> QED BY <1>2, <1>3, <1>4

LEMMA Triple ==
    ASSUME NEW a, NEW b, NEW c
    PROVE  /\ SubSeq(<<a, b, c>>, 1, 2) = <<a, b>> /\ SubSeq(<<a, b, c>>, 3, 3) = <<c>>
           /\ Len(<<a, b, c>>) = 3 /\ Len(<<a, b>>) = 2 /\ <<c>> # <<a, b, c>> /\ SubSeq(<<a, b>>, 1, 2) = <<a, b>>
<1> DEFINE S == {a, b, c}  q == <<a, b, c>>
<1>1. q \in Seq(S) /\ <<a, b>> \in Seq(S) /\ <<c>> \in Seq(S) OBVIOUS
<1>2. Len(q) = 3 /\ q[1] = a /\ q[2] = b /\ q[3] = c OBVIOUS
<1>3. Len(<<a, b>>) = 2 /\ <<a, b>>[1] = a /\ <<a, b>>[2] = b /\ Len(<<c>>) = 1 /\ <<c>>[1] = c OBVIOUS
<1>4. <<c>> # q BY <1>2, <1>3
<1> HIDE DEF q, S
<1>5. SubSeq(q, 1, 2) = <<a, b>>
    <2>1. \A i \in 1 .. 2 : q[i] \in S BY <1>1, <1>2
    <2>2. SubSeq(q, 1, 2) \in Seq(S) /\ Len(SubSeq(q, 1, 2)) = 2 /\ \A i \in 1 .. 2 : SubSeq(q, 1, 2)[i] = q[i]
        BY <2>1, SubSeqProperties
    <2>3. \A i \in 1 .. 2 : SubSeq(q, 1, 2)[i] = <<a, b>>[i] BY <1>2, <1>3, <2>2
    <2> QED BY <1>1, <1>3, <2>2, <2>3, SeqEqual
<1>6. SubSeq(q, 3, 3) = <<c>>
    <2>1. \A i \in 3 .. 3 : q[i] \in S BY <1>1, <1>2
    <2>2. SubSeq(q, 3, 3) \in Seq(S) /\ Len(SubSeq(q, 3, 3)) = 1 /\ SubSeq(q, 3, 3)[1] = q[3]
        BY <2>1, SubSeqProperties
    <2>3. \A i \in 1 .. 1 : SubSeq(q, 3, 3)[i] = <<c>>[i] BY <1>2, <1>3, <2>2
    <2> QED BY <1>1, <1>3, <2>2, <2>3, SeqEqual
<1>7. SubSeq(<<a, b>>, 1, 2) = <<a, b>> BY <1>1, <1>3, SubSeqFull
<1> QED BY <1>2, <1>3, <1>4, <1>5, <1>6, <1>7 DEF q

LEMMA Pair ==
    ASSUME NEW a, NEW b
    PROVE  <<a>> \o <<b>> = <<a, b>>
<1> DEFINE S == {a, b}  s == <<a>>  t == <<b>>  q == <<a, b>>
<1>1. s \in Seq(S) /\ t \in Seq(S) /\ q \in Seq(S) OBVIOUS
<1>2. Len(s) = 1 /\ Len(t) = 1 /\ Len(q) = 2 /\ s[1] = a /\ t[1] = b /\ q[1] = a /\ q[2] = b OBVIOUS
<1> HIDE DEF S, s, t, q
<1>3. /\ s \o t \in Seq(S) /\ Len(s \o t) = Len(s) + Len(t)
      /\ \A i \in 1 .. Len(s) + Len(t) : (s \o t)[i] = IF i <= Len(s) THEN s[i] ELSE t[i - Len(s)]
    BY <1>1, ConcatProperties
<1>4. Len(s \o t) = 2 /\ (s \o t)[1] = a /\ (s \o t)[2] = b BY <1>2, <1>3
<1>5. \A i \in 1 .. 2 : (s \o t)[i] = q[i] BY <1>2, <1>4
<1>6. s \o t = q BY <1>1, <1>2, <1>3, <1>4, <1>5, SeqEqual
<1> QED BY <1>6 DEF s, t, q

\* The Python index: a project's name is normalised once and for all.
LEMMA PypiReadsBack ==
    ASSUME NEW S, NEW t \in Seq(S), Len(t) \in Nat \ {0}
    PROVE  ReadsBack("pypi", t)
<1> DEFINE r == N!Parse("pypi", t)
<1>1. r = N!parsePypi(t) /\ \A u : N!Parse("pypi", u) = N!parsePypi(u) BY DEF N!Parse
<1>2. CASE t[1] = "simple" /\ Len(t) = 2
    <2> DEFINE p == N!NormalizeProjectName(t[2])
    <2>1. N!NormalizeProjectName(p) = p BY DEF N!NormalizeProjectName
    <2>2. r = N!Route("simple", <<"pypi", "simple", p>>, <<"index.html">>, <<"simple", p>>) BY <1>1, <1>2 DEF N!parsePypi
    <2> HIDE DEF p, r
    <2>3. r.repository = <<"pypi", "simple", p>> /\ r.path = <<"simple", p>> BY <2>2 DEF N!Route
    <2> DEFINE q == <<"pypi", "simple", p>>  x == <<"pypi", "simple">>
    <2>a. SubSeq(q, 1, 2) = x /\ SubSeq(q, 3, 3) = <<p>> /\ Len(q) = 3 /\ Len(x) = 2 /\ <<p>> # q BY Triple
    <2>b. r.repository = q BY <2>3
    <2>4. N!Without(q, x) = <<p>>
        <3> HIDE DEF q, x
        <3>1. Len(x) + 1 = 3 /\ Len(q) >= Len(x) BY <2>a
        <3>2. N!Without(q, x) = SubSeq(q, 3, 3) BY <2>a, <3>1 DEF N!Without
        <3> QED BY <2>a, <3>2
    <2>6. <<"simple">> \o <<p>> = <<"simple", p>> BY Pair
    <2>7. \A use : N!Rebuild("pypi", use, r.repository, r.reference) = r.path
        <3>1. \A use, f : N!Rebuild("pypi", use, q, f) = <<"simple">> \o N!Without(q, x)
            <4>1. N!Without(q, x) # q BY <2>a, <2>4
            <4> HIDE DEF q
            <4> QED BY <4>1 DEF N!Rebuild, N!pypiTail
        <3>2. <<"simple">> \o N!Without(q, x) = <<"simple", p>> BY <2>4, <2>6
        <3> HIDE DEF q, x
        <3> QED BY <2>b, <2>3, <3>1, <3>2
    <2>8. N!parsePypi(<<"simple", p>>) = r
        <3>1. <<"simple", p>>[1] = "simple" /\ <<"simple", p>>[2] = p /\ Len(<<"simple", p>>) = 2 OBVIOUS
        <3> QED BY <2>1, <2>2, <3>1 DEF N!parsePypi
    <2> QED BY <1>1, <2>3, <2>7, <2>8 DEF ReadsBack, r
<1>3. CASE ~(t[1] = "simple" /\ Len(t) = 2) /\ t[1] = "packages" /\ Len(t) > 1
    <2>1. r = N!Route("package", <<"pypi", "packages">>, Tail(t), t) BY <1>1, <1>3 DEF N!parsePypi
    <2> HIDE DEF r
    <2>2. r.kind = "package" /\ r.repository = <<"pypi", "packages">> /\ r.reference = Tail(t) /\ r.path = t
        BY <2>1 DEF N!Route
    <2>3. N!Without(r.repository, <<"pypi", "simple">>) = r.repository
        <3>1. SubSeq(<<"pypi", "packages">>, 1, 2) = <<"pypi", "packages">> BY Triple
        <3>2. <<"pypi", "packages">> # <<"pypi", "simple">> OBVIOUS
        <3>3. Len(<<"pypi", "simple">>) = 2 OBVIOUS
        <3> QED BY <2>2, <3>1, <3>2, <3>3 DEF N!Without
    <2>4. <<"packages">> \o Tail(t) = t BY <1>3, PathParts
    <2>5. ~N!Pulled("pypi", r).intent BY <2>2 DEF N!Pulled, N!pypiPulled
    <2>6. \A use : use # "refresh" => N!Rebuild("pypi", use, r.repository, r.reference) = t
        BY <2>2, <2>3, <2>4 DEF N!Rebuild, N!pypiTail
    <2> QED BY <2>2, <2>5, <2>6 DEF ReadsBack, r
<1>4. CASE ~(t[1] = "simple" /\ Len(t) = 2) /\ ~(t[1] = "packages" /\ Len(t) > 1)
    <2>1. r.kind = "rejected" BY <1>1, <1>4 DEF N!parsePypi, N!NoRoute, N!Route
    <2> HIDE DEF r
    <2> QED BY <2>1 DEF ReadsBack, r
<1> QED BY <1>2, <1>3, <1>4

LEMMA RoutesReadBack ==
    ASSUME MaxSegments \in Nat, NEW e \in N!Ecosystems \ {"npm"}, NEW t \in N!Tails(e)
    PROVE  ReadsBack(e, t)
<1>1. t \in Seq(N!Alphabet(e)) /\ Len(t) \in Nat \ {0} BY TailSequence
<1>2. e \in {"go", "maven", "dist", "pypi"} BY DEF N!Ecosystems
<1> QED BY <1>1, <1>2, GoReadsBack, MavenReadsBack, DistReadsBack, PypiReadsBack

\* What has been parsed is the route of the path, and what came back was built from it.
RoutesInv ==
    /\ from \in N!Ecosystems /\ tail \in N!Tails(from)
    /\ step = "request" => job = "none" /\ parsed = N!NoRoute
    /\ step # "request" => parsed = N!Parse(from, tail)
    /\ job # "none" => /\ job \in {"prefetch", "sync", "refresh"} /\ (job = "refresh" => N!Pulled(from, parsed).intent)
                       /\ again = N!Parse(from, N!Rebuild(from, job, parsed.repository, parsed.reference))

LEMMA RoutesStep ==
    ASSUME RoutesInv, [N!Next]_(N!vars)
    PROVE  RoutesInv'
<1>1. CASE UNCHANGED N!vars BY <1>1 DEF RoutesInv, N!vars
<1>2. CASE N!Stay BY <1>2 DEF RoutesInv, N!Stay, N!vars
<1>3. CASE N!Pull
    <2>1. step = "request" /\ parsed' = N!Parse(from, tail) /\ step' \in {"end", "pulled"} /\ UNCHANGED <<from, tail, again, job>>
        BY <1>3 DEF N!Pull
    <2> QED BY <2>1 DEF RoutesInv
<1>4. ASSUME NEW use \in {"prefetch", "sync", "refresh"}, N!Refetch(use) PROVE RoutesInv'
    <2>1. /\ step = "pulled" /\ job' = use /\ step' = "end" /\ UNCHANGED <<from, tail, parsed>>
          /\ again' = N!Parse(from, N!Rebuild(from, use, parsed.repository, parsed.reference))
          /\ (use = "refresh" => N!Pulled(from, parsed).intent)
        BY <1>4 DEF N!Refetch
    <2> QED BY <2>1 DEF RoutesInv
<1> QED BY <1>1, <1>2, <1>3, <1>4 DEF N!Next

LEMMA RoutesIdentify ==
    ASSUME MaxSegments \in Nat, RoutesInv, from # "npm"
    PROVE  N!RecordsIdentify
<1> SUFFICES ASSUME step # "request", parsed.kind # "rejected", N!Pulled(from, parsed).record, ~N!Reserved(from, tail)
             PROVE  /\ job # "none" => again = parsed
                    /\ \A other \in {t \in N!Tails(from) : ~N!Reserved(from, t)} :
                          LET r == N!Parse(from, other) IN
                          /\ r.kind # "rejected" /\ N!Pulled(from, r).record
                          /\ r.repository = parsed.repository /\ r.reference = parsed.reference
                          => r.path = parsed.path
    BY DEF N!RecordsIdentify
<1>1. parsed = N!Parse(from, tail) /\ from \in N!Ecosystems \ {"npm"} BY DEF RoutesInv
<1>2. \A use \in {"prefetch", "sync", "refresh"} :
         (use = "refresh" => N!Pulled(from, parsed).intent) =>
            N!Rebuild(from, use, parsed.repository, parsed.reference) = parsed.path /\ N!Parse(from, parsed.path) = parsed
    <2>1. ReadsBack(from, tail) BY <1>1, RoutesReadBack DEF RoutesInv
    <2> QED BY <1>1, <2>1 DEF ReadsBack
<1>3. job # "none" => again = parsed BY <1>2 DEF RoutesInv
<1>4. ASSUME NEW other \in N!Tails(from), ~N!Reserved(from, other), N!Parse(from, other).kind # "rejected",
             N!Pulled(from, N!Parse(from, other)).record,
             N!Parse(from, other).repository = parsed.repository, N!Parse(from, other).reference = parsed.reference
      PROVE  N!Parse(from, other).path = parsed.path
    <2>1. ReadsBack(from, other) BY <1>1, RoutesReadBack
    <2>2. N!Rebuild(from, "sync", N!Parse(from, other).repository, N!Parse(from, other).reference) = N!Parse(from, other).path
        BY <1>4, <2>1 DEF ReadsBack
    <2>3. N!Rebuild(from, "sync", parsed.repository, parsed.reference) = parsed.path BY <1>2
    <2> QED BY <1>4, <2>2, <2>3
<1> QED BY <1>3, <1>4

-----------------------------------------------------------------------------
(* The package ecosystems together *)

\* For any number of requests, upstreams, endpoints, members and slots, whatever is
\* answered, fails, is cancelled or is never read on: a request leaves open only the body it
\* answers with (getFromUpstream), a group closes every answer it does not return
\* (fetchPhysical, fetchGroup), the slots in use are those of the transformations and of the
\* spools that are at work, and the fill of a package file belongs to a request or a body
\* that will end it (acquireMetadataSlot, packageCacheBody).
THEOREM HoldingsStayExact ==
    ASSUME PypiSetting, GroupSetting
    PROVE  Spec /\ G!Spec /\ F!Spec => []HoldingsExact
<1>1. Spec => [](ProxyInv /\ SlotsHeld) BY ProxyHolds DEF ProxySetting, PypiSetting
<1>2. G!Spec => []GroupInv BY GroupHolds
<1>3. F!Spec => [](FileInv /\ F!HoldingsExact) BY FileHolds
<1>4. ProxyInv /\ SlotsHeld /\ GroupInv /\ F!HoldingsExact => HoldingsExact
    BY ProxyOwns DEF HoldingsExact, GroupInv, OpenIs
<1> QED BY <1>1, <1>2, <1>3, <1>4, PTL

\* What the cache holds is whole and verified, however requests, refreshes and evictions
\* interleave: a partial answer is never stored as an artifact (shouldPassThrough), and a
\* request that knows the hash of a package file never stores another one, although it may
\* learn the hash only when its first address fails (finishAtEOF, cacheComplete).
THEOREM StoresStayVerified ==
    ASSUME PypiSetting
    PROVE  Spec /\ F!Spec => StoresVerified
<1>1. Spec => [](ProxyInv /\ SlotsHeld) BY ProxyHolds DEF ProxySetting, PypiSetting
<1>2. ProxyInv => WholeOnly BY ProxyOwns
<1>3. Spec => []WholeOnly BY <1>1, <1>2, PTL
<1>4. F!Spec => F!OnlyVerified BY FileStoresVerified
<1> QED BY <1>3, <1>4 DEF StoresVerified

\* A group of any size answers that an artifact is missing only when each of its members
\* said so: all its configured endpoints that they do not have it, or one of them that it is
\* gone.  An endpoint that failed, asked to be tried later or was cooling down, a member that
\* failed and metadata that was merged never lead to a miss (take, rememberMiss, result).
THEOREM MissesStayAuthoritative ==
    ASSUME GroupSetting
    PROVE  G!Spec => []MissesAuthoritative
<1>1. G!Spec => []GroupInv BY GroupHolds
<1>2. GroupInv => MissesAuthoritative BY DEF GroupInv, Missing, MissesAuthoritative
<1> QED BY <1>1, <1>2, PTL

\* For paths of any length, and every ecosystem but npm (whose unescaping is defined by
\* recursion): what prefetch, synchronisation and refresh build from a record (runtime.go)
\* parses into the route that was recorded (route.go), and two paths with the same record
\* ask the upstream for the same thing, unless one lies in a directory with the reserved name.
THEOREM RecordsReadBack ==
    ASSUME MaxSegments \in Nat
    PROVE  N!Spec => [](from # "npm" => RecordsIdentify)
<1>1. N!Init => RoutesInv BY DEF N!Init, RoutesInv
<1>2. RoutesInv /\ [N!Next]_(N!vars) => RoutesInv' BY RoutesStep
<1>3. RoutesInv => (from # "npm" => RecordsIdentify) BY RoutesIdentify DEF RecordsIdentify
<1> QED BY <1>1, <1>2, <1>3, PTL DEF N!Spec

=============================================================================
