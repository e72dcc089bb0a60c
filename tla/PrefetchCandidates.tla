------------------------- MODULE PrefetchCandidates -------------------------
(***************************************************************************)
(* The planning half of the container prefetcher: which tags of a          *)
(* repository are worth fetching ahead, given the tags that clients pulled *)
(* and the tags the upstream lists.  The definitions are pure; Prefetch    *)
(* runs them.                                                              *)
(*                                                                         *)
(* A tag is what parseVersionTag makes of its text: the prefix ("", "v" or *)
(* "V"), the version (three numbers, missing ones zero), how many of them  *)
(* the text spelled out, and the suffix after the first dash, numbered in  *)
(* alphabetical order (0 when there is none).  Text the parser rejects     *)
(* ("latest", an empty or a fourth segment) has no segments.               *)
(***************************************************************************)
EXTENDS Integers, FiniteSets, FiniteSetsExt

CONSTANTS
    MaxCandidates,       \* max_candidates_per_repo
    MaxVersionDistance   \* max_version_distance

\* The tags a candidate list is made of; "latest" and the like never parse.
parseAvailableTags(tags) == {t \in tags : t.segments \in 1..3}

Smaller(a, b) == IF a < b THEN a ELSE b
Larger(a, b)  == IF a > b THEN a ELSE b

\* The first of the leading segments in which two versions differ, 0 if none.
FirstDifference(a, b, segments) ==
    LET differ == {i \in 1..segments : a.version[i] # b.version[i]}
    IN  IF differ = {} THEN 0 ELSE CHOOSE i \in differ : \A k \in differ : i <= k

\* How far the target is ahead in the first differing segment of the source.
versionDistance(source, target) ==
    LET i == FirstDifference(source, target, source.segments)
    IN  IF i = 0 THEN 0 ELSE target.version[i] - source.version[i]

EqualFold(p, q) == p = q \/ {p, q} = {"v", "V"}

\* The target is a later tag of the same line as the source, and not too far.
isCompatibleCandidate(source, target) ==
    /\ target # source
    /\ EqualFold(source.prefix, target.prefix)
    /\ source.suffix = target.suffix
    /\ source.segments <= target.segments
    /\ versionDistance(source, target) \in 1..MaxVersionDistance

recencyScore(age) ==
    CASE age = "hour"  -> 50
      [] age = "day"   -> 30
      [] age = "week"  -> 15
      [] age = "month" -> 5
      [] OTHER         -> 0

\* What one pull record says for a target.
scoreCandidate(record, target) ==
    LET source    == record.tag
        count     == Smaller(Larger(record.count, 1), 1000)
        proximity == Larger(MaxVersionDistance - versionDistance(source, target) + 1, 0)
    IN  100 + count * 10 + proximity * 20 + recencyScore(record.age)
            + (IF source.segments = 1 THEN 0
               ELSE IF source.version[1] = target.version[1] THEN 10 ELSE -30)
            + (IF source.suffix = 0 THEN 10 ELSE 25)

\* The records that speak for a target, and the sum of what they say.
Sources(records, target) ==
    {r \in records : /\ r.tag \in parseAvailableTags({r.tag})
                     /\ isCompatibleCandidate(r.tag, target)}

accumulateCandidates(records, available) ==
    {t \in parseAvailableTags(available) : Sources(records, t) # {}}

TotalScore(records, target) ==
    MapThenSumSet(LAMBDA r : scoreCandidate(r, target), Sources(records, target))

PrefixRank(p) == CASE p = "" -> 0 [] p = "V" -> 1 [] OTHER -> 2

\* Equal scores are ordered by the tags' names: their versions as far as both
\* spell them out, the suffix, then the text itself.
compareTagNames(left, right) ==
    LET i == FirstDifference(left, right, Smaller(left.segments, right.segments))
    IN  IF i # 0 THEN left.version[i] < right.version[i]
        ELSE IF left.suffix # right.suffix THEN left.suffix < right.suffix
        ELSE IF left.prefix # right.prefix
             THEN PrefixRank(left.prefix) < PrefixRank(right.prefix)
             ELSE left.segments < right.segments

compareCandidatePriority(records, left, right) ==
    LET l == TotalScore(records, left)
        r == TotalScore(records, right)
    IN  l > r \/ (l = r /\ compareTagNames(left, right))

\* The first MaxCandidates of the sorted list.  compareTagNames is no order
\* (1.2 < 1-a < 1.1-b < 1.2), so what sorting leaves in front of the limit is
\* decided by the scores and, among equal scores, by the names where they can.
sortedCandidates(records, candidates) ==
    LET limit == Smaller(MaxCandidates, Cardinality(candidates))
        Cuts(Before(_, _)) == {T \in SUBSET candidates :
            /\ Cardinality(T) = limit
            /\ \A x \in T, y \in candidates \ T : Before(x, y)}
        byName == Cuts(LAMBDA x, y : compareCandidatePriority(records, x, y))
    IN  IF byName # {} THEN byName
        ELSE Cuts(LAMBDA x, y : TotalScore(records, x) >= TotalScore(records, y))

\* The lists GenerateCandidates may return for a repository, as sets.
GenerateCandidates(records, available) ==
    sortedCandidates(records, accumulateCandidates(records, available))
=============================================================================
