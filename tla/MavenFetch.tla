---------------------------- MODULE MavenFetch -----------------------------
(***************************************************************************)
(* One fetch of the Maven proxy (ecosystems/maven: fetch, fetch_result,    *)
(* group_fetch, group_metadata_fetch): the members of a group in order, of *)
(* each the endpoints that are not cooling down.  A body is named by the   *)
(* member and the endpoint that sent it; "open" are those nobody closed.   *)
(* The metadata of the members is merged (version, metadata).              *)
(***************************************************************************)
EXTENDS Integers, Sequences, FiniteSets, SequencesExt

-----------------------------------------------------------------------------
(* How versions are ordered and documents merged.  A version is the         *)
(* sequence of its tokens: a number n, or a qualifier q with n = -1.  A     *)
(* document has the identity it gives its artifact ("" when absent), the    *)
(* versions it lists, and as sequences of at most one the latest version    *)
(* and the release it names.                                                *)

IsNumber(token) == token.n >= 0
Number(n) == [n |-> n, q |-> ""]
Qualifier(q) == [n |-> -1, q |-> q]

CanonicalQualifier(q) ==
    CASE q = "a" -> "alpha" [] q = "b" -> "beta" [] q = "m" -> "milestone"
      [] q = "cr" -> "rc" [] q \in {"ga", "final", "release"} -> "" [] OTHER -> q
Ranked == <<"alpha", "beta", "milestone", "rc", "snapshot", "", "sp">>
QualifierRank(q) ==
    IF \E i \in 1 .. Len(Ranked) : Ranked[i] = q
    THEN CHOOSE i \in 1 .. Len(Ranked) : Ranked[i] = q ELSE Len(Ranked) + 1

Sign(left, right) == IF left < right THEN -1 ELSE IF left > right THEN 1 ELSE 0
\* Two qualifiers of the last rank, which the code compares as strings, are
\* one and the same here.
CompareQualifiers(left, right) ==
    Sign(QualifierRank(CanonicalQualifier(left)), QualifierRank(CanonicalQualifier(right)))
CompareTokens(left, right) ==
    CASE IsNumber(left) /\ IsNumber(right) -> Sign(left.n, right.n)
      [] IsNumber(left) /\ ~IsNumber(right) -> 1
      [] ~IsNumber(left) /\ IsNumber(right) -> -1
      [] OTHER -> CompareQualifiers(left.q, right.q)
\* The other version has a token where this one has ended.
CompareMissing(token) ==
    IF IsNumber(token) THEN Sign(0, token.n) ELSE CompareQualifiers("", token.q)

\* Trailing zeros and release qualifiers do not count.
Empty(token) == IF IsNumber(token) THEN token.n = 0 ELSE CanonicalQualifier(token.q) = ""
Normalize(version) ==
    LET kept == {i \in 1 .. Len(version) : ~Empty(version[i])}
    IN SubSeq(version, 1, IF kept = {} THEN 0 ELSE CHOOSE i \in kept : \A j \in kept : j <= i)

CompareAt(left, right, i) ==
    CASE i > Len(left) /\ i > Len(right) -> 0
      [] i > Len(left) /\ i <= Len(right) -> CompareMissing(right[i])
      [] i <= Len(left) /\ i > Len(right) -> -CompareMissing(left[i])
      [] OTHER -> CompareTokens(left[i], right[i])
CompareVersions(l, r) ==
    LET left == Normalize(l)
        right == Normalize(r)
        differs == {i \in 1 .. Len(left) + Len(right) : CompareAt(left, right, i) # 0}
    IN IF differs = {} THEN 0
       ELSE CompareAt(left, right, CHOOSE i \in differs : \A j \in differs : i <= j)

IsSnapshot(version) == \E i \in 1 .. Len(version) : version[i].q = "snapshot"

\* maxMavenVersion: the first of the greatest, in the order they were met.
MaxVersion(versions) ==
    FoldLeft(LAMBDA max, v : IF max = <<>> \/ CompareVersions(v, max) > 0 THEN v ELSE max, <<>>, versions)

\* mergeMetadataIdentity: documents may not contradict each other.
SameIdentity(documents) ==
    \A i, j \in 1 .. Len(documents) :
       documents[i].id # "" /\ documents[j].id # "" => documents[i].id = documents[j].id
\* appendMetadataCandidates and mergeMetadataVersions, document by document: a
\* latest version is no candidate for the release.
Joined(documents, Of(_)) == FlattenSeq([i \in 1 .. Len(documents) |-> Of(documents[i])])
Candidates(documents) == Joined(documents, LAMBDA d : d.latest \o d.release \o d.versions)
ReleaseCandidates(documents) ==
    SelectSeq(Joined(documents, LAMBDA d : d.release \o d.versions), LAMBDA v : ~IsSnapshot(v))
\* Mutant: only the releases that the documents name are candidates.
MutantBuildMerged(documents) ==
    [versions |-> ToSet(Joined(documents, LAMBDA d : d.versions)),
     latest |-> MaxVersion(Candidates(documents)),
     release |-> MaxVersion(Joined(documents, LAMBDA d : d.release))]
BuildMerged(documents) ==
    [versions |-> ToSet(Joined(documents, LAMBDA d : d.versions)),
     latest |-> MaxVersion(Candidates(documents)),
     release |-> MaxVersion(ReleaseCandidates(documents))]

-----------------------------------------------------------------------------
(* The state of a fetch.                                                   *)

CONSTANTS
    Members,      \* bound: members of the group, 1 .. Members
    Endpoints,    \* bound: endpoints configured for a member, 1 .. Endpoints
    Documents     \* the metadata a member may have

VARIABLES
    group,      \* its fallbackOnError and whether the route is merged metadata
    tried,      \* endpoints of a member that health selection lets through
    said,       \* what an endpoint answered
    pc, member, at,
    physical,   \* mavenEndpointResult
    state,      \* groupFetchState
    documents,  \* mergedMetadataState
    canceled,
    open, gate, result

vars == <<group, tried, said, pc, member, at, physical, state, documents, canceled, open, gate, result>>
config == <<group, tried>>

None == <<>>
Merged == <<0, 0>>
NoResult == [kind |-> "none", status |-> 0, body |-> None, merged |-> None]
Error == [NoResult EXCEPT !.kind = "error"]
Response(status, body) == [NoResult EXCEPT !.kind = "response", !.status = status, !.body = body]
Unknown == [missing |-> None, retryable |-> None, err |-> FALSE]
NoState == [miss |-> None, failure |-> None, status |-> 0, lastError |-> FALSE]

Init ==
    /\ group \in [fallback : BOOLEAN, merge : BOOLEAN, head : BOOLEAN]
    /\ tried \in [1 .. Members -> (SUBSET (1 .. Endpoints)) \ {{}}]
    /\ said = [m \in 1 .. Members |-> [e \in 1 .. Endpoints |-> 0]]
    /\ pc = "member" /\ member = 1 /\ at = 1
    /\ physical = Unknown /\ state = NoState /\ documents = <<>>
    /\ canceled = FALSE /\ open = {}
    /\ gate = FALSE
    /\ result = NoResult

-----------------------------------------------------------------------------
(* fetchPhysical.                                                          *)

Missing(status) == status = 404
Retryable(status) == status \in {429, 500}
Fallback(status) == status = 500 /\ group.fallback
Body(e) == <<member, e>>

\* metadataGate admits one merge at a time, of this and other requests.
Enter ==
    /\ pc = "member" /\ group.merge /\ ~gate
    /\ \/ gate' = TRUE /\ UNCHANGED <<pc, result>>
       \/ UNCHANGED gate /\ pc' = "done" /\ result' = Error
    /\ UNCHANGED <<config, said, member, at, physical, state, documents, canceled, open>>

\* fetchGroupMember: policy and configuration come first.
Denied ==
    /\ pc = "member" /\ (group.merge => gate)
    /\ pc' = "failed"
    /\ UNCHANGED <<config, said, member, at, physical, state, documents, canceled, open, gate, result>>
StartMember ==
    /\ pc = "member" /\ (group.merge => gate)
    /\ pc' = "ask" /\ at' = 1 /\ physical' = Unknown
    /\ UNCHANGED <<config, said, member, state, documents, canceled, open, gate, result>>
Skip ==
    /\ pc = "ask" /\ at <= Endpoints /\ at \notin tried[member]
    /\ at' = at + 1
    /\ UNCHANGED <<config, said, pc, member, physical, state, documents, canceled, open, gate, result>>

\* remember: a later answer of a kind replaces the earlier one.
Keep(kind, e) ==
    /\ physical' = [physical EXCEPT ![kind] = Body(e)]
    /\ open' = (open \ {physical[kind]}) \cup {Body(e)}
    /\ at' = e + 1 /\ UNCHANGED <<pc, result>>
\* An answer that is final leaves what was remembered to the deferred close.
Unused(p) == {p.missing, p.retryable}
Answer(status) ==
    /\ pc = "ask" /\ at \in tried[member] /\ ~canceled
    /\ said' = [said EXCEPT ![member][at] = status]
    /\ \/ Missing(status) /\ Keep("missing", at)
       \/ Retryable(status) /\ Keep("retryable", at)
       \/ /\ ~Missing(status) /\ ~Retryable(status)
          /\ pc' = "answered" /\ result' = Response(status, Body(at))
          /\ open' = (open \ Unused(physical)) \cup {Body(at)}
          /\ UNCHANGED <<at, physical>>
    /\ UNCHANGED <<config, member, state, documents, canceled, gate>>
AttemptFails ==
    /\ pc = "ask" /\ at \in tried[member] /\ ~canceled
    /\ physical' = [physical EXCEPT !.err = TRUE] /\ at' = at + 1
    /\ UNCHANGED <<config, said, pc, member, state, documents, canceled, open, gate, result>>
\* The request's context ends, before or during an attempt.
Cancel ==
    /\ ~canceled /\ pc \in {"member", "ask", "answered"}
    /\ canceled' = TRUE
    /\ UNCHANGED <<config, said, pc, member, at, physical, state, documents, open, gate, result>>
Stop ==
    /\ pc = "ask" /\ at \in tried[member] /\ canceled
    /\ pc' = "failed" /\ open' = open \ Unused(physical)
    /\ UNCHANGED <<config, said, member, at, physical, state, documents, canceled, gate, result>>

\* take: an unavailable endpoint's answer before an error before a miss, and no
\* miss while a configured endpoint was not asked.
HasUntried == tried[member] # 1 .. Endpoints
MutantTake ==
    /\ pc = "ask" /\ at > Endpoints
    /\ LET chosen == IF physical.retryable # None THEN physical.retryable
                     ELSE IF physical.err THEN None ELSE physical.missing
       IN /\ open' = open \ (Unused(physical) \ {chosen})
          /\ \/ chosen = None /\ pc' = "failed" /\ UNCHANGED result
             \/ chosen # None /\ pc' = "answered" /\ result' = Response(said[member][chosen[2]], chosen)
    /\ UNCHANGED <<config, said, member, at, physical, state, documents, canceled, gate>>
Take ==
    /\ pc = "ask" /\ at > Endpoints
    /\ LET chosen == IF physical.retryable # None THEN physical.retryable
                     ELSE IF physical.err \/ HasUntried THEN None ELSE physical.missing
       IN /\ open' = open \ (Unused(physical) \ {chosen})
          /\ \/ chosen = None /\ pc' = "failed" /\ UNCHANGED result
             \/ chosen # None /\ pc' = "answered" /\ result' = Response(said[member][chosen[2]], chosen)
    /\ UNCHANGED <<config, said, member, at, physical, state, documents, canceled, gate>>

-----------------------------------------------------------------------------
(* The group.                                                              *)

Bodies(s) == {s.miss, s.failure}
End(new) == pc' = "done" /\ result' = new /\ gate' = FALSE
NextMember == pc' = "member" /\ member' = member + 1 /\ result' = NoResult /\ UNCHANGED gate

\* rememberError.
MemberFails ==
    /\ pc = "failed"
    /\ IF group.fallback
       THEN state' = [state EXCEPT !.lastError = TRUE] /\ NextMember /\ UNCHANGED open
       ELSE /\ open' = open \ Bodies(state) /\ End(Error)
            /\ UNCHANGED <<member, state>>
    /\ UNCHANGED <<config, said, at, physical, documents, canceled>>
\* rememberMiss and rememberFailure: the superseded body is closed.
RememberMiss ==
    /\ pc = "answered" /\ result.status \in {404, 410}
    /\ open' = open \ {state.miss}
    /\ state' = [state EXCEPT !.miss = result.body] /\ NextMember
    /\ UNCHANGED <<config, said, at, physical, documents, canceled>>
RememberFailure ==
    /\ pc = "answered" /\ Fallback(result.status)
    /\ open' = open \ {state.failure}
    /\ state' = [state EXCEPT !.failure = result.body, !.status = result.status] /\ NextMember
    /\ UNCHANGED <<config, said, at, physical, documents, canceled>>
Terminal(status) == status \notin {404, 410} /\ ~Fallback(status)
ReturnAnswer ==
    /\ pc = "answered" /\ Terminal(result.status) /\ (group.merge => result.status # 200)
    /\ open' = open \ Bodies(state) /\ End(result)
    /\ UNCHANGED <<config, said, member, at, physical, state, documents, canceled>>

\* consumeMetadata: the body is read and closed whatever it holds.
ConsumeMetadata ==
    /\ pc = "answered" /\ group.merge /\ result.status = 200
    /\ \/ /\ \E d \in Documents : documents' = Append(documents, d)
          /\ open' = open \ {result.body} /\ NextMember /\ UNCHANGED state
       \/ \* unreadable, or not metadata
          /\ UNCHANGED <<documents, state, member, gate>>
          /\ open' = open \ {result.body} /\ pc' = "failed" /\ result' = NoResult
       \/ \* maxMavenMetadataBytes for all the members together
          /\ open' = open \ ({result.body} \cup Bodies(state)) /\ End(Error)
          /\ UNCHANGED <<documents, state, member>>
    /\ UNCHANGED <<config, said, at, physical, canceled>>

\* result.
GroupResult ==
    /\ pc = "member" /\ member > Members /\ documents = <<>>
    /\ IF state.lastError THEN open' = open \ Bodies(state) /\ End(Error)
       ELSE IF state.failure # None
       THEN open' = open \ {state.miss} /\ End(Response(state.status, state.failure))
       ELSE UNCHANGED open /\ End(Response(said[state.miss[1]][state.miss[2]], state.miss))
    /\ UNCHANGED <<config, said, member, at, physical, state, documents, canceled>>
\* finishMergedGroupMetadata: HEAD has no body, the others a spooled one.
FinishMerged ==
    /\ pc = "member" /\ member > Members /\ documents # <<>>
    /\ \/ /\ SameIdentity(documents) /\ ~canceled
          /\ LET body == IF group.head THEN None ELSE Merged
             IN /\ open' = (open \ Bodies(state)) \cup ({body} \ {None})
                /\ End([Response(200, body) EXCEPT !.kind = "merged", !.merged = BuildMerged(documents)])
       \/ open' = open \ Bodies(state) /\ End(Error)
    /\ UNCHANGED <<config, said, member, at, physical, state, documents, canceled>>

Next ==
    \/ member <= Members /\ (Enter \/ Denied \/ StartMember)
    \/ Skip \/ AttemptFails \/ Cancel \/ Stop \/ Take
    \/ \E status \in {200, 403, 404, 410, 429, 500} : Answer(status)
    \/ MemberFails \/ RememberMiss \/ RememberFailure \/ ReturnAnswer \/ ConsumeMetadata
    \/ GroupResult \/ FinishMerged
    \/ pc = "done" /\ UNCHANGED vars
Spec == Init /\ [][Next]_vars

-----------------------------------------------------------------------------
TypeOK ==
    /\ member \in 1 .. Members + 1 /\ at \in 1 .. Endpoints + 1
    /\ open \subseteq {Merged} \cup ((1 .. Members) \X (1 .. Endpoints))

\* When a fetch has ended, the body it returns is open and no other one is,
\* whatever the endpoints and the members of the group answered before.
BodiesClosed == pc = "done" => open = {result.body} \ {None}

\* "Not found" is what the whole group says: every configured endpoint of
\* every member answered 404, or one of them that the artifact is gone; an
\* endpoint that failed, or was not asked, never turns into a miss.
MissIsAuthoritative ==
    pc = "done" /\ result.kind = "response" /\ result.status \in {404, 410} =>
       \A m \in 1 .. Members :
          (\A e \in 1 .. Endpoints : said[m][e] = 404) \/ (\E e \in 1 .. Endpoints : said[m][e] = 410)

\* CompareVersions is not transitive: 1 < 1.foo < 1.0-alpha < 1.
Ordered(S) ==
    \A u, v, w \in S : CompareVersions(u, v) >= 0 /\ CompareVersions(v, w) >= 0 => CompareVersions(u, w) >= 0
Newest(v, S) ==
    IF S = {} THEN v = <<>>
    ELSE v \in S /\ (Ordered(S) => \A u \in S : CompareVersions(u, v) <= 0)

\* The merged document lists every version that a member lists; its latest version
\* and its release are named or listed by a member, the release is no snapshot, and
\* none of theirs is newer where the comparison orders them at all.
MergedIsNewest ==
    result.kind = "merged" =>
       LET from == ToSet(documents)
           listed == UNION {ToSet(d.versions) : d \in from}
           named == listed \cup UNION {ToSet(d.release) : d \in from}
       IN /\ listed = result.merged.versions
          /\ Newest(result.merged.latest, named \cup UNION {ToSet(d.latest) : d \in from})
          /\ Newest(result.merged.release, {v \in named : ~IsSnapshot(v)})
=============================================================================
