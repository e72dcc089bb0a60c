--------------------------- MODULE StorageProofs ---------------------------
(***************************************************************************)
(* Theorems about DiskCache and DiskCacheRestart for every set of digests, *)
(* readers and mutators and every value of the limits, and about           *)
(* CacheCleanup for every deployment.                                      *)
(***************************************************************************)
EXTENDS Storage, SequenceTheorems, FiniteSetTheorems, TLAPS

-----------------------------------------------------------------------------
(* The recency list *)

\* Cutting a position out of a list of digests leaves a list of digests.
LEMMA CutTyped ==
    ASSUME NEW s \in Seq(Digests), NEW i \in 1..Len(s)
    PROVE  SubSeq(s, 1, i - 1) \o SubSeq(s, i + 1, Len(s)) \in Seq(Digests)
<1>1. \A j \in 1..Len(s) : s[j] \in Digests
    BY ElementOfSeq
<1>2. Len(s) \in Nat
    BY LenProperties
<1>3. SubSeq(s, 1, i - 1) \in Seq(Digests)
    <2>1. \A j \in 1..(i - 1) : s[j] \in Digests
        BY <1>1, <1>2
    <2> QED BY <2>1, <1>2, SubSeqProperties
<1>4. SubSeq(s, i + 1, Len(s)) \in Seq(Digests)
    <2>1. \A j \in (i + 1)..Len(s) : s[j] \in Digests
        BY <1>1, <1>2
    <2> QED BY <2>1, <1>2, SubSeqProperties
<1> QED BY <1>3, <1>4, ConcatProperties

\* simplelru's operations keep a list of digests.
LEMMA LruTyped ==
    ASSUME NEW s \in Seq(Digests), NEW d \in Digests
    PROVE  /\ LruRemove(s, d) \in Seq(Digests)
           /\ LruGet(s, d) \in Seq(Digests)
           /\ LruAdd(s, d) \in Seq(Digests)
<1>1. LruRemove(s, d) \in Seq(Digests)
    <2>1. CASE Positions(s, d) = {}
        BY <2>1 DEF LruRemove
    <2>2. CASE Positions(s, d) # {}
        <3> DEFINE i == CHOOSE i \in Positions(s, d) : TRUE
        <3>1. i \in 1..Len(s)
            BY <2>2 DEF Positions
        <3>2. LruRemove(s, d) = SubSeq(s, 1, i - 1) \o SubSeq(s, i + 1, Len(s))
            BY <2>2 DEF LruRemove
        <3> QED BY <3>1, <3>2, CutTyped
    <2> QED BY <2>1, <2>2
<1>2. LruGet(s, d) \in Seq(Digests)
    BY <1>1 DEF LruGet
<1>3. LruAdd(s, d) \in Seq(Digests)
    <2>1. CASE Len(s) >= MaxEntries
        <3>1. s # <<>>
            BY <2>1, OptionsAssumption
        <3>2. Tail(s) \in Seq(Digests)
            BY <3>1, HeadTailProperties
        <3> QED BY <2>1, <3>2 DEF LruAdd
    <2>2. CASE ~(Len(s) >= MaxEntries)
        BY <2>2 DEF LruAdd
    <2> QED BY <2>1, <2>2
<1> QED BY <1>1, <1>2, <1>3

\* Rotating the pinned entries to the newest end keeps a list of digests.
LEMMA RotatedTyped ==
    ASSUME lru \in Seq(Digests), NEW i \in 1..Len(lru)
    PROVE  Rotated(i) \in Seq(Digests)
<1>1. \A j \in 1..Len(lru) : lru[j] \in Digests
    BY ElementOfSeq
<1>2. Len(lru) \in Nat
    BY LenProperties
<1>3. SubSeq(lru, i, Len(lru)) \in Seq(Digests)
    <2>1. \A j \in i..Len(lru) : lru[j] \in Digests
        BY <1>1, <1>2
    <2> QED BY <2>1, <1>2, SubSeqProperties
<1>4. SubSeq(lru, 1, i - 1) \in Seq(Digests)
    <2>1. \A j \in 1..(i - 1) : lru[j] \in Digests
        BY <1>1, <1>2
    <2> QED BY <2>1, <1>2, SubSeqProperties
<1> QED BY <1>3, <1>4, ConcatProperties DEF Rotated

-----------------------------------------------------------------------------
(* Types *)

\* Calls in progress know their digest, and how deep they are in mutations of it.
CallsTyped ==
    /\ \A r \in Readers : reader[r].pc # "idle" => reader[r].digest \in Digests
    /\ \A m \in Mutators :
          /\ mut[m].pc # "idle" => mut[m].digest \in Digests /\ mut[m].depth \in {1, 2}
          /\ mut[m].pc = "idle" => mut[m].depth = 0
          /\ mut[m].pc \in {"backend", "evict"} => mut[m].depth = 1

TypeInv == TypeOK /\ CallsTyped

\* releaseEntry's decrement keeps the type of the entry.
LEMMA ReleasedPin ==
    ASSUME NEW q \in Entry
    PROVE  [q EXCEPT !.pins = IF @ > 0 THEN @ - 1 ELSE @] \in Entry
<1>1. (IF q.pins > 0 THEN q.pins - 1 ELSE q.pins) \in Nat
    BY DEF Entry
<1> QED BY <1>1 DEF Entry

\* removeEntryLocked keeps the types.
LEMMA RemoveEntryTyped ==
    ASSUME TypeOK, NEW d \in Digests, NEW e \in Entry, NEW s \in Seq(Digests),
           RemoveEntryLocked(d, e, s)
    PROVE  /\ entries' \in [Digests -> Entry]
           /\ lru' \in Seq(Digests)
           /\ bytes' \in Nat
           /\ body' \in [Digests -> Nat \cup {NoFile}]
           /\ meta' \in [Digests -> Nat \cup {NoFile}]
<1>1. Size[d] \in Nat
    BY ModelAssumption
<1>2. LruRemove(s, d) \in Seq(Digests)
    BY LruTyped
<1>3. NoEntry \in Entry /\ [e EXCEPT !.evictPending = TRUE] \in Entry
    BY DEF NoEntry, Entry
<1>4. entries' \in [Digests -> Entry]
    BY <1>3 DEF RemoveEntryLocked, TypeOK
<1>5. lru' \in Seq(Digests)
    BY <1>2 DEF RemoveEntryLocked
<1>6. bytes' \in Nat
    BY <1>1 DEF RemoveEntryLocked, TypeOK, Minus
<1>7. /\ body' \in [Digests -> Nat \cup {NoFile}]
      /\ meta' \in [Digests -> Nat \cup {NoFile}]
    BY DEF RemoveEntryLocked, TypeOK
<1> QED BY <1>4, <1>5, <1>6, <1>7

\* markEntryExpiredLocked keeps the types.
LEMMA MarkEvictedTyped ==
    ASSUME TypeOK, NEW d \in Digests, NEW s \in Seq(Digests), MarkEvicted(d, s)
    PROVE  /\ entries' \in [Digests -> Entry]
           /\ lru' \in Seq(Digests)
           /\ bytes' \in Nat
           /\ body' \in [Digests -> Nat \cup {NoFile}]
           /\ meta' \in [Digests -> Nat \cup {NoFile}]
<1> DEFINE e == [entries[d] EXCEPT !.evictPending = TRUE]
<1>1. e \in Entry
    BY DEF TypeOK, Entry
<1>2. CASE e.pins = 0
    BY <1>1, <1>2, RemoveEntryTyped DEF MarkEvicted
<1>3. CASE e.pins # 0
    BY <1>1, <1>3 DEF MarkEvicted, TypeOK
<1> QED BY <1>2, <1>3

\* The operations on key states keep their type.
LEMMA KeyTyped ==
    ASSUME NEW k \in Key
    PROVE  /\ AcquiredKey(k) \in Key
           /\ ReleasedKey(k) \in Key
           /\ BegunKey(k) \in Key
           /\ FinishedKey(k) \in Key
<1>1. ASSUME NEW q \in Key PROVE ReleasedKey(q) \in Key
    <2>1. NoKey \in Key
        BY DEF NoKey, Key
    <2>2. [q EXCEPT !.users = @ - 1] \in Key
        BY DEF Key
    <2> QED BY <2>1, <2>2 DEF ReleasedKey
<1>2. [users |-> k.users, generation |-> k.generation + 1,
       mutations |-> k.mutations - 1] \in Key
    BY DEF Key
<1>3. FinishedKey(k) \in Key
    BY <1>1, <1>2 DEF FinishedKey
<1>4. AcquiredKey(k) \in Key /\ BegunKey(k) \in Key
    BY DEF AcquiredKey, BegunKey, Key
<1> QED BY <1>1, <1>3, <1>4

\* endFillLocked keeps the types.
LEMMA EndFillTyped ==
    ASSUME TypeOK, NEW d \in Digests, EndFillLocked(d)
    PROVE  /\ fills' \in [Digests -> Fill]
           /\ reserved' \in Nat
           /\ keyStates' \in [Digests -> Key]
<1>1. Size[d] \in Nat
    BY ModelAssumption
<1>2. NoFill \in Fill
    BY DEF NoFill, Fill, FillPhases
<1>3. ReleasedKey(keyStates[d]) \in Key
    BY KeyTyped DEF TypeOK
<1>4. reserved' \in Nat
    BY <1>1 DEF EndFillLocked, TypeOK, Minus
<1> QED BY <1>2, <1>3, <1>4 DEF EndFillLocked, TypeOK

\* beginKeyMutation keeps the types.
LEMMA BeginKeyMutationTyped ==
    ASSUME TypeInv, NEW d \in Digests, BeginKeyMutation(d)
    PROVE  /\ entries' \in [Digests -> Entry]
           /\ lru' \in Seq(Digests)
           /\ fills' \in [Digests -> Fill]
           /\ keyStates' \in [Digests -> Key]
           /\ bytes' \in Nat
           /\ body' \in [Digests -> Nat \cup {NoFile}]
           /\ meta' \in [Digests -> Nat \cup {NoFile}]
<1>1. BegunKey(keyStates[d]) \in Key
    BY KeyTyped DEF TypeInv, TypeOK
<1>2. keyStates' \in [Digests -> Key]
    BY <1>1 DEF BeginKeyMutation, TypeInv, TypeOK
<1>3. fills' \in [Digests -> Fill]
    BY ZenonT(40) DEF BeginKeyMutation, TypeInv, TypeOK, Fill
<1>4. CASE entries[d].present
    <2>1. MarkEvicted(d, lru)
        BY <1>4 DEF BeginKeyMutation
    <2> QED BY <2>1, <1>2, <1>3, MarkEvictedTyped DEF TypeInv, TypeOK
<1>5. CASE ~entries[d].present
    BY <1>2, <1>3, <1>5 DEF BeginKeyMutation, TypeInv, TypeOK
<1> QED BY <1>4, <1>5

\* The initial state has the types.
LEMMA TypeInit == Init => TypeInv
<1> SUFFICES ASSUME Init PROVE TypeInv
    OBVIOUS
<1>1. NoEntry \in Entry /\ NoFill \in Fill /\ NoKey \in Key
    BY DEF NoEntry, Entry, NoFill, Fill, FillPhases, NoKey, Key
<1>2. NoMutation \in Mutation /\ NoReader \in Reader
    BY DEF NoMutation, Mutation, NoReader, Reader
<1>3. canon \in [Digests -> Canonical]
    BY DEF Init, Canonical
<1>4. lru \in Seq(Digests)
    BY EmptySeq DEF Init, InitMemory
<1>5. /\ entries \in [Digests -> Entry] /\ fills \in [Digests -> Fill]
      /\ keyStates \in [Digests -> Key]
      /\ mut \in [Mutators -> Mutation] /\ reader \in [Readers -> Reader]
    BY <1>1, <1>2 DEF Init, InitMemory
<1>6. TypeOK
    BY <1>3, <1>4, <1>5 DEF Init, InitMemory, TypeOK
<1>7. CallsTyped
    BY DEF Init, InitMemory, CallsTyped, NoMutation, NoReader
<1> QED BY <1>6, <1>7 DEF TypeInv

\* A read from the cache keeps the types.
LEMMA ReadTyped == TypeInv /\ ReadStep => TypeInv'
<1> SUFFICES ASSUME TypeInv, ReadStep PROVE TypeInv'
    OBVIOUS
<1>1. ASSUME NEW r \in Readers, NEW d \in Digests, OpenCached(r, d) PROVE TypeInv'
    <2>1. LruGet(lru, d) \in Seq(Digests)
        BY LruTyped DEF TypeInv, TypeOK
    <2>2. entries' \in [Digests -> Entry]
        BY <1>1 DEF OpenCached, TypeInv, TypeOK, Entry
    <2>3. reader' \in [Readers -> Reader]
        BY <1>1 DEF OpenCached, TypeInv, TypeOK, Reader
    <2>4. TypeOK'
        BY <1>1, <2>1, <2>2, <2>3 DEF OpenCached, TypeInv, TypeOK, fileVars
    <2>5. CallsTyped'
        BY <1>1 DEF OpenCached, TypeInv, TypeOK, CallsTyped, Reader
    <2> QED BY <2>4, <2>5 DEF TypeInv
<1>2. ASSUME NEW d \in Digests, OpenExpired(d) PROVE TypeInv'
    <2>1. LruGet(lru, d) \in Seq(Digests)
        BY LruTyped DEF TypeInv, TypeOK
    <2>2. MarkEvicted(d, LruGet(lru, d))
        BY <1>2 DEF OpenExpired
    <2>3. TypeOK'
        BY <1>2, <2>1, <2>2, MarkEvictedTyped DEF OpenExpired, TypeInv, TypeOK
    <2>4. CallsTyped'
        BY <1>2 DEF OpenExpired, TypeInv, CallsTyped
    <2> QED BY <2>3, <2>4 DEF TypeInv
<1>3. ASSUME NEW r \in Readers, RegisterReader(r) \/ CloseReader(r) PROVE TypeInv'
    <2>0. PICK pc \in {"reading", "releasing"} : reader' = [reader EXCEPT ![r].pc = pc]
        BY <1>3 DEF RegisterReader, CloseReader
    <2>1. reader' \in [Readers -> Reader]
        BY <2>0 DEF TypeInv, TypeOK, Reader
    <2>2. TypeOK'
        BY <1>3, <2>1 DEF RegisterReader, CloseReader, TypeInv, TypeOK, fileVars
    <2>3. CallsTyped'
        <3>1. reader[r].pc # "idle" /\ mut' = mut
            BY <1>3 DEF RegisterReader, CloseReader
        <3> QED BY <2>0, <3>1 DEF TypeInv, TypeOK, CallsTyped, Reader
    <2> QED BY <2>2, <2>3 DEF TypeInv
<1>4. ASSUME NEW r \in Readers, ReleaseEntry(r) PROVE TypeInv'
    <2>1. PICK d \in Digests : d = reader[r].digest
        BY <1>4 DEF ReleaseEntry, TypeInv, CallsTyped
    <2> DEFINE e == [entries[d] EXCEPT !.pins = IF @ > 0 THEN @ - 1 ELSE @]
    <2>2. e \in Entry
        BY ReleasedPin DEF TypeInv, TypeOK
    <2>3. NoReader \in Reader
        BY DEF NoReader, Reader
    <2>4. TypeOK'
        <3>1. CASE entries[d].present /\ e.pins = 0 /\ e.evictPending /\ ~lockReleased
            <4>1. RemoveEntryLocked(d, e, lru)
                BY <1>4, <2>1, <3>1 DEF ReleaseEntry
            <4> QED BY <1>4, <2>2, <2>3, <4>1, RemoveEntryTyped
                    DEF ReleaseEntry, TypeInv, TypeOK
        <3>2. CASE ~(entries[d].present /\ e.pins = 0 /\ e.evictPending /\ ~lockReleased)
            BY <1>4, <2>1, <2>2, <2>3, <3>2, ZenonT(40) DEF ReleaseEntry, TypeInv, TypeOK
        <3> QED BY <3>1, <3>2
    <2>5. CallsTyped'
        BY <1>4 DEF ReleaseEntry, TypeInv, TypeOK, CallsTyped, NoReader, Reader
    <2> QED BY <2>4, <2>5 DEF TypeInv
<1> QED BY <1>1, <1>2, <1>3, <1>4 DEF ReadStep

\* A mutator that only moves on keeps its type.
LEMMA MutationMoves ==
    ASSUME TypeOK, NEW m \in Mutators, NEW pc \in {"evict", "removing", "finish"},
           mut' = [mut EXCEPT ![m].pc = pc]
    PROVE  mut' \in [Mutators -> Mutation]
BY ZenonT(40) DEF TypeOK, Mutation

\* A step of Put, Delete or Evict keeps the types.
LEMMA MutationTyped == TypeInv /\ MutationStep => TypeInv'
<1> SUFFICES ASSUME TypeInv, MutationStep PROVE TypeInv'
    OBVIOUS
<1>1. ASSUME NEW m \in Mutators, NEW op \in {"Put", "Delete", "Evict"}, NEW d \in Digests,
             BeginMutation(m, op, d)
      PROVE  TypeInv'
    <2>1. BeginKeyMutation(d)
        BY <1>1 DEF BeginMutation
    <2> DEFINE new == [pc |-> IF op = "Evict" THEN "removing" ELSE "backend",
                       op |-> op, digest |-> d, depth |-> 1]
    <2>2. new \in Mutation
        BY DEF Mutation
    <2>3. mut' = [mut EXCEPT ![m] = new]
        BY <1>1 DEF BeginMutation
    <2>4. mut' \in [Mutators -> Mutation]
        BY <2>2, <2>3 DEF TypeInv, TypeOK
    <2>5. TypeOK'
        BY <2>1, <2>4, BeginKeyMutationTyped DEF BeginKeyMutation, TypeInv, TypeOK
    <2>6. reader' = reader
        BY <2>1 DEF BeginKeyMutation
    <2>7. CallsTyped'
        BY <2>3, <2>6 DEF TypeInv, TypeOK, CallsTyped
    <2> QED BY <2>5, <2>7 DEF TypeInv
<1>2. ASSUME NEW m \in Mutators, MutateBackend(m) PROVE TypeInv'
    <2>1. PICK d \in Digests : d = mut[m].digest
        BY <1>2 DEF MutateBackend, TypeInv, CallsTyped
    <2>2. PICK pc \in {"evict", "finish"} : mut' = [mut EXCEPT ![m].pc = pc]
        BY <1>2 DEF MutateBackend
    <2>3. mut' \in [Mutators -> Mutation]
        BY <2>2, MutationMoves DEF TypeInv
    <2>4. canon' \in [Digests -> Canonical]
        <3> DEFINE new == [exists |-> mut[m].op = "Put", epoch |-> canon[d].epoch + 1]
        <3>1. canon' = canon \/ canon' = [canon EXCEPT ![d] = new]
            BY <1>2, <2>1 DEF MutateBackend, TypeInv, TypeOK
        <3>2. canon[d].epoch + 1 \in Nat /\ (mut[m].op = "Put") \in BOOLEAN
            BY DEF TypeInv, TypeOK, Canonical
        <3>3. new \in Canonical
            BY <3>2 DEF Canonical
        <3> QED BY <3>1, <3>3 DEF TypeInv, TypeOK
    <2>5. TypeOK'
        BY <1>2, <2>3, <2>4 DEF MutateBackend, TypeInv, TypeOK, fileVars
    <2>6. mut[m].pc = "backend" /\ reader' = reader
        BY <1>2 DEF MutateBackend
    <2>7. CallsTyped'
        BY <2>2, <2>6 DEF TypeInv, TypeOK, CallsTyped, Mutation
    <2> QED BY <2>5, <2>7 DEF TypeInv
<1>3. ASSUME NEW m \in Mutators, PutEvict(m) PROVE TypeInv'
    <2>1. PICK d \in Digests : d = mut[m].digest
        BY <1>3 DEF PutEvict, TypeInv, CallsTyped
    <2>2. mut[m].pc = "evict" /\ mut[m].depth = 1
        BY <1>3 DEF PutEvict, TypeInv, CallsTyped
    <2>3. CASE closed
        <3>1. mut' = [mut EXCEPT ![m].pc = "finish"] /\ reader' = reader
            BY <1>3, <2>3 DEF PutEvict
        <3>2. mut' \in [Mutators -> Mutation]
            BY <3>1, MutationMoves DEF TypeInv
        <3>3. TypeOK'
            BY <1>3, <2>3, <3>2 DEF PutEvict, TypeInv, TypeOK, fileVars
        <3>4. CallsTyped'
            BY <2>2, <3>1 DEF TypeInv, TypeOK, CallsTyped, Mutation
        <3> QED BY <3>3, <3>4 DEF TypeInv
    <2>4. CASE ~closed
        <3>1. BeginKeyMutation(d)
            BY <1>3, <2>1, <2>4 DEF PutEvict
        <3>2. mut' = [mut EXCEPT ![m].pc = "removing", ![m].depth = @ + 1] /\ reader' = reader
            BY <1>3, <2>4, <3>1 DEF PutEvict, BeginKeyMutation
        <3>3. mut' \in [Mutators -> Mutation]
            BY <2>2, <3>2 DEF TypeInv, TypeOK, Mutation
        <3>4. TypeOK'
            BY <3>1, <3>3, BeginKeyMutationTyped DEF BeginKeyMutation, TypeInv, TypeOK
        <3>5. CallsTyped'
            BY <2>2, <3>2 DEF TypeInv, TypeOK, CallsTyped, Mutation
        <3> QED BY <3>4, <3>5 DEF TypeInv
    <2> QED BY <2>3, <2>4
<1>4. ASSUME NEW m \in Mutators, EntryRemoval(m) PROVE TypeInv'
    <2>1. PICK d \in Digests : d = mut[m].digest
        BY <1>4 DEF EntryRemoval, TypeInv, CallsTyped
    <2>2. mut[m].pc = "removing" /\ mut' = [mut EXCEPT ![m].pc = "finish"] /\ reader' = reader
        BY <1>4 DEF EntryRemoval
    <2>3. mut' \in [Mutators -> Mutation]
        BY <2>2, MutationMoves DEF TypeInv
    <2>4. TypeOK'
        <3>1. CASE entries[d].present /\ entries[d].pins = 0 /\ entries[d].evictPending
            <4>1. RemoveEntryLocked(d, entries[d], lru)
                BY <1>4, <2>1, <3>1 DEF EntryRemoval
            <4>2. PICK e \in Entry : e = entries[d]
                BY DEF TypeInv, TypeOK
            <4> QED BY <1>4, <2>3, <4>1, <4>2, RemoveEntryTyped
                    DEF EntryRemoval, TypeInv, TypeOK
        <3>2. CASE ~(entries[d].present /\ entries[d].pins = 0 /\ entries[d].evictPending)
            BY <1>4, <2>1, <2>3, <3>2 DEF EntryRemoval, TypeInv, TypeOK
        <3> QED BY <3>1, <3>2
    <2>5. CallsTyped'
        BY <2>2 DEF TypeInv, TypeOK, CallsTyped, Mutation
    <2> QED BY <2>4, <2>5 DEF TypeInv
<1>5. ASSUME NEW m \in Mutators, FinishMutation(m) PROVE TypeInv'
    <2>1. PICK d \in Digests : d = mut[m].digest
        BY <1>5 DEF FinishMutation, TypeInv, CallsTyped
    <2>2. mut[m].pc = "finish" /\ mut[m].depth \in {1, 2} /\ reader' = reader
        BY <1>5 DEF FinishMutation, TypeInv, CallsTyped
    <2>3. FinishedKey(keyStates[d]) \in Key
        BY KeyTyped DEF TypeInv, TypeOK
    <2>4. mut' = IF mut[m].depth > 1 THEN [mut EXCEPT ![m].depth = @ - 1]
                                     ELSE [mut EXCEPT ![m] = NoMutation]
        BY <1>5 DEF FinishMutation
    <2>5. /\ mut' \in [Mutators -> Mutation]
          /\ CallsTyped'
        <3>1. CASE mut[m].depth = 1
            <4>1. mut' = [mut EXCEPT ![m] = NoMutation]
                BY <2>4, <3>1 DEF TypeInv, TypeOK
            <4> QED BY <4>1, <2>2 DEF TypeInv, TypeOK, CallsTyped, NoMutation, Mutation
        <3>2. CASE mut[m].depth = 2
            <4>1. mut' = [mut EXCEPT ![m].depth = 1]
                BY <2>4, <3>2 DEF TypeInv, TypeOK
            <4>2. mut' \in [Mutators -> Mutation]
                <5>1. mut[m] \in Mutation
                    BY DEF TypeInv, TypeOK
                <5>2. [mut[m] EXCEPT !.depth = 1] \in Mutation
                    BY <5>1 DEF Mutation
                <5> QED BY <4>1, <5>2 DEF TypeInv, TypeOK
            <4>3. CallsTyped'
                BY <4>1, <2>2 DEF TypeInv, TypeOK, CallsTyped, Mutation
            <4> QED BY <4>2, <4>3
        <3> QED BY <2>2, <3>1, <3>2
    <2>6. TypeOK'
        BY <1>5, <2>1, <2>3, <2>5 DEF FinishMutation, TypeInv, TypeOK, fileVars
    <2> QED BY <2>5, <2>6 DEF TypeInv
<1> QED BY <1>1, <1>2, <1>3, <1>4, <1>5 DEF MutationStep

\* A step of a fill keeps the types.
LEMMA FillTyped == TypeInv /\ FillStep => TypeInv'
<1> SUFFICES ASSUME TypeInv, FillStep PROVE TypeInv'
    OBVIOUS
<1>0. reader' = reader /\ mut' = mut => CallsTyped'
    BY DEF TypeInv, CallsTyped
<1>1. ASSUME NEW d \in Digests, JoinNewFlight(d) PROVE TypeInv'
    <2>1. AcquiredKey(keyStates[d]) \in Key /\ keyStates[d].generation \in Nat
        BY KeyTyped DEF TypeInv, TypeOK, Key
    <2> DEFINE new == [phase |-> "opening", generation |-> keyStates[d].generation,
                       blocked |-> keyStates[d].mutations > 0, invalid |-> FALSE, epoch |-> 0]
    <2>2. new \in Fill
        BY <2>1 DEF Fill, FillPhases
    <2>3. fills' \in [Digests -> Fill] /\ keyStates' \in [Digests -> Key]
        BY <1>1, <2>1, <2>2 DEF JoinNewFlight, TypeInv, TypeOK
    <2>4. TypeOK'
        BY <1>1, <2>3 DEF JoinNewFlight, TypeInv, TypeOK, fileVars
    <2> QED BY <1>0, <1>1, <2>4 DEF JoinNewFlight, TypeInv
<1>2. ASSUME NEW d \in Digests, OpenCanonical(d) PROVE TypeInv'
    <2>1. fills' \in [Digests -> Fill]
        <3>1. canon[d].epoch \in Nat
            BY DEF TypeInv, TypeOK, Canonical
        <3> DEFINE new == [fills[d] EXCEPT !.phase = "opened", !.epoch = canon[d].epoch]
        <3>2. fills[d] \in Fill
            BY DEF TypeInv, TypeOK
        <3>3. new \in Fill
            BY <3>1, <3>2 DEF Fill, FillPhases
        <3>4. fills' = [fills EXCEPT ![d] = new]
            BY <1>2 DEF OpenCanonical, TypeInv, TypeOK
        <3> QED BY <3>3, <3>4 DEF TypeInv, TypeOK
    <2>2. TypeOK'
        BY <1>2, <2>1 DEF OpenCanonical, TypeInv, TypeOK, fileVars
    <2> QED BY <1>0, <1>2, <2>2 DEF OpenCanonical, TypeInv
<1>3. ASSUME NEW d \in Digests, GiveUpFill(d) PROVE TypeInv'
    <2>1. EndFillLocked(d)
        BY <1>3 DEF GiveUpFill
    <2>2. TypeOK'
        BY <1>3, <2>1, EndFillTyped DEF GiveUpFill, TypeInv, TypeOK, fileVars
    <2> QED BY <1>0, <1>3, <2>2 DEF GiveUpFill, TypeInv
<1>4. ASSUME NEW d \in Digests, StartPrepare(d) PROVE TypeInv'
    <2>1. TypeOK'
        BY <1>4 DEF StartPrepare, TypeInv, TypeOK, fileVars
    <2> QED BY <1>0, <1>4, <2>1 DEF StartPrepare, TypeInv
<1>5. ASSUME NEW q \in Digests PROVE [fills EXCEPT ![q].phase = "refused"] \in [Digests -> Fill]
    BY DEF TypeInv, TypeOK, Fill, FillPhases
<1>6. ASSUME EvictForRoom PROVE TypeInv'
    <2>1. PICK i \in 1..Len(lru) :
             /\ RemoveEntryLocked(lru[i], entries[lru[i]], Rotated(i))
             /\ IF entries'[lru[i]].present
                THEN /\ fills' = [fills EXCEPT ![room].phase = "refused"]
                     /\ room' = NoDigest
                ELSE UNCHANGED <<fills, room>>
        BY <1>6 DEF EvictForRoom
    <2>2. lru \in Seq(Digests) /\ room \in Digests
        BY <1>6 DEF EvictForRoom, TypeInv, TypeOK
    <2>3. PICK d \in Digests : d = lru[i]
        BY <2>2, ElementOfSeq
    <2>4. PICK e \in Entry : e = entries[d]
        BY DEF TypeInv, TypeOK
    <2>5. PICK s \in Seq(Digests) : s = Rotated(i)
        BY <2>2, RotatedTyped
    <2>6. RemoveEntryLocked(d, e, s)
        BY <2>1, <2>3, <2>4, <2>5
    <2>7. fills' \in [Digests -> Fill] /\ room' \in Digests \cup {NoDigest}
        BY <2>1, <2>2, <1>5 DEF TypeInv, TypeOK
    <2>8. TypeOK'
        BY <1>6, <2>6, <2>7, RemoveEntryTyped DEF EvictForRoom, TypeInv, TypeOK
    <2> QED BY <1>0, <1>6, <2>8 DEF EvictForRoom, TypeInv
<1>7. ASSUME RoomRefused PROVE TypeInv'
    <2>1. room \in Digests
        BY <1>7 DEF RoomRefused, TypeInv, TypeOK
    <2>2. TypeOK'
        BY <1>5, <1>7, <2>1 DEF RoomRefused, TypeInv, TypeOK, fileVars
    <2> QED BY <1>0, <1>7, <2>2 DEF RoomRefused, TypeInv
<1>8. ASSUME ReserveFill PROVE TypeInv'
    <2>1. room \in Digests
        BY <1>8 DEF ReserveFill, TypeInv, TypeOK
    <2>2. Size[room] \in Nat
        BY <2>1, ModelAssumption
    <2>3. [fills EXCEPT ![room].phase = "prepared"] \in [Digests -> Fill]
        BY <2>1 DEF TypeInv, TypeOK, Fill, FillPhases
    <2>4. abandoned' \subseteq Digests
        BY <1>8, <2>1 DEF ReserveFill, TypeInv, TypeOK
    <2>5. fills' \in [Digests -> Fill] /\ reserved' \in Nat /\ temp' \subseteq Digests
        <3>1. fills' \in [Digests -> Fill]
            BY <1>5, <1>8, <2>1, <2>3, Zenon DEF ReserveFill
        <3>2. reserved' \in Nat
            BY <1>8, <2>2 DEF ReserveFill, TypeInv, TypeOK
        <3>3. temp' \subseteq Digests
            BY <1>8, <2>1 DEF ReserveFill, TypeInv, TypeOK
        <3> QED BY <3>1, <3>2, <3>3
    <2>6. TypeOK'
        BY <1>8, <2>4, <2>5 DEF ReserveFill, TypeInv, TypeOK
    <2> QED BY <1>0, <1>8, <2>6 DEF ReserveFill, TypeInv
<1>9. ASSUME NEW d \in Digests PROVE /\ fills[d].epoch \in Nat /\ Size[d] \in Nat
                                     /\ LruAdd(lru, d) \in Seq(Digests)
    BY LruTyped, ModelAssumption DEF TypeInv, TypeOK, Fill
<1>10. ASSUME NEW d \in Digests, NEW p \in BOOLEAN
       PROVE  [present |-> TRUE, pins |-> 0, evictPending |-> p,
               epoch |-> fills[d].epoch] \in Entry
    BY <1>9 DEF Entry
<1>11. ASSUME NEW d \in Digests, PublishFill(d) PROVE TypeInv'
    <2>1. EndFillLocked(d)
        BY <1>11 DEF PublishFill
    <2>2. entries' \in [Digests -> Entry]
        BY <1>10, <1>11 DEF PublishFill, TypeInv, TypeOK
    <2>3. lru' \in Seq(Digests) /\ bytes' \in Nat
        BY <1>9, <1>11 DEF PublishFill, TypeInv, TypeOK
    <2>4. body' \in [Digests -> Nat \cup {NoFile}] /\ meta' \in [Digests -> Nat \cup {NoFile}]
        BY <1>9, <1>11 DEF PublishFill, TypeInv, TypeOK
    <2>5. TypeOK'
        BY <1>11, <2>1, <2>2, <2>3, <2>4, EndFillTyped DEF PublishFill, TypeInv, TypeOK
    <2> QED BY <1>0, <1>11, <2>5 DEF PublishFill, TypeInv
<1>12. ASSUME NEW d \in Digests, PublishRenameError(d) PROVE TypeInv'
    <2>1. fills' \in [Digests -> Fill]
        BY <1>12, ZenonT(40) DEF PublishRenameError, TypeInv, TypeOK, Fill, FillPhases
    <2>2. TypeOK'
        BY <1>12, <2>1 DEF PublishRenameError, TypeInv, TypeOK, fileVars
    <2> QED BY <1>0, <1>12, <2>2 DEF PublishRenameError, TypeInv
<1>13. ASSUME NEW d \in Digests, PublishMetadataError(d) PROVE TypeInv'
    <2>1. EndFillLocked(d)
        BY <1>13 DEF PublishMetadataError
    <2>2. entries' \in [Digests -> Entry]
        BY <1>10, <1>13 DEF PublishMetadataError, TypeInv, TypeOK
    <2>3. lru' \in Seq(Digests) /\ bytes' \in Nat
        BY <1>9, <1>13 DEF PublishMetadataError, TypeInv, TypeOK
    <2>4. body' \in [Digests -> Nat \cup {NoFile}]
        BY <1>9, <1>13 DEF PublishMetadataError, TypeInv, TypeOK
    <2>5. orphanedBytes' \in Nat /\ diskFillDisabled' \in BOOLEAN
        <3>1. orphanedBytes' \in Nat
            BY <1>13, ModelAssumption DEF PublishMetadataError, TypeInv, TypeOK
        <3>2. diskFillDisabled' \in BOOLEAN
            BY <1>13, Zenon DEF PublishMetadataError, TypeInv, TypeOK
        <3> QED BY <3>1, <3>2
    <2>6. TypeOK'
        BY <1>13, <2>1, <2>2, <2>3, <2>4, <2>5, EndFillTyped
           DEF PublishMetadataError, TypeInv, TypeOK
    <2> QED BY <1>0, <1>13, <2>6 DEF PublishMetadataError, TypeInv
<1>14. ASSUME NEW d \in Digests, AbortFill(d) PROVE TypeInv'
    <2>1. EndFillLocked(d)
        BY <1>14 DEF AbortFill
    <2>2. orphanedBytes' \in Nat /\ diskFillDisabled' \in BOOLEAN /\ abandoned' \subseteq Digests
        <3>1. orphanedBytes' \in Nat
            BY <1>9, <1>14 DEF AbortFill, TypeInv, TypeOK
        <3>2. diskFillDisabled' \in BOOLEAN
            BY <1>14, Zenon DEF AbortFill, TypeInv, TypeOK
        <3>3. abandoned' \subseteq Digests
            BY <1>14 DEF AbortFill, TypeInv, TypeOK
        <3> QED BY <3>1, <3>2, <3>3
    <2>3. TypeOK'
        BY <1>14, <2>1, <2>2, EndFillTyped DEF AbortFill, TypeInv, TypeOK
    <2> QED BY <1>0, <1>14, <2>3 DEF AbortFill, TypeInv
<1> QED BY <1>1, <1>2, <1>3, <1>4, <1>6, <1>7, <1>8, <1>11, <1>12, <1>13, <1>14 DEF FillStep

\* A step of Close keeps the types.
LEMMA CloseTyped == TypeInv /\ CloseStep => TypeInv'
<1> SUFFICES ASSUME TypeInv, CloseStep PROVE TypeInv'
    OBVIOUS
<1>0. reader' = reader /\ mut' = mut => CallsTyped'
    BY DEF TypeInv, CallsTyped
<1>1. ASSUME MarkClosed PROVE TypeInv'
    <2>1. fills' \in [Digests -> Fill]
        BY <1>1 DEF MarkClosed, TypeInv, TypeOK, Fill
    <2>2. TypeOK'
        BY <1>1, <2>1 DEF MarkClosed, TypeInv, TypeOK, fileVars
    <2> QED BY <1>0, <1>1, <2>2 DEF MarkClosed, TypeInv
<1>2. ASSUME CloseCacheRoot PROVE TypeInv'
    <2>1. TypeOK'
        BY <1>2 DEF CloseCacheRoot, TypeInv, TypeOK, fileVars
    <2> QED BY <1>0, <1>2, <2>1 DEF CloseCacheRoot, TypeInv
<1>3. ASSUME Terminated PROVE TypeInv'
    <2>1. TypeOK'
        BY <1>3 DEF Terminated, vars, TypeInv, TypeOK
    <2> QED BY <1>0, <1>3, <2>1 DEF Terminated, vars, TypeInv
<1> QED BY <1>1, <1>2, <1>3 DEF CloseStep

\* Every step keeps the types.
LEMMA TypeStep == TypeInv /\ [Next]_vars => TypeInv'
<1>1. ASSUME TypeInv, UNCHANGED vars PROVE TypeInv'
    <2>1. TypeOK'
        BY <1>1 DEF vars, TypeInv, TypeOK
    <2>2. CallsTyped'
        BY <1>1 DEF vars, TypeInv, CallsTyped
    <2> QED BY <2>1, <2>2 DEF TypeInv
<1> QED BY <1>1, ReadTyped, MutationTyped, FillTyped, CloseTyped DEF Next

\* Every reachable state of the store is well typed: the byte counters never go
\* negative, the recency list only names digests, and no call nests more than two
\* key mutations, for any limits and any number of callers.
THEOREM TypeCorrect == Spec => []TypeOK
<1>1. TypeInv => TypeOK
    BY DEF TypeInv
<1> QED BY <1>1, TypeInit, TypeStep, PTL DEF Spec

-----------------------------------------------------------------------------
(* Safety: the key states count their holders, a digest is never cached and *)
(* filled at once, what is served is current, and a file that is being read *)
(* stays.                                                                   *)

Servable(d) == entries[d].present /\ ~entries[d].evictPending

\* How a step may treat the entries without publishing: none appears, none that was
\* withdrawn becomes servable again, and none changes its content.
EntriesOnlyLeave ==
    \A d \in Digests : entries'[d].present =>
        /\ entries[d].present
        /\ entries'[d].epoch = entries[d].epoch
        /\ entries[d].evictPending => entries'[d].evictPending

\* removeEntryLocked only withdraws.
LEMMA RemoveEntryLeaves ==
    ASSUME TypeOK, NEW d \in Digests, NEW e \in Entry, NEW s, RemoveEntryLocked(d, e, s),
           e.present => entries[d].present, e.epoch = entries[d].epoch
    PROVE  EntriesOnlyLeave /\ ~(entries'[d].present /\ ~entries'[d].evictPending)
<1>1. CASE entries' = [entries EXCEPT ![d] = NoEntry]
    BY <1>1 DEF TypeOK, EntriesOnlyLeave, NoEntry
<1>2. CASE entries' = [entries EXCEPT ![d] = [e EXCEPT !.evictPending = TRUE]]
    <2>1. entries'[d].present = e.present /\ entries'[d].epoch = e.epoch /\ entries'[d].evictPending
        BY <1>2 DEF TypeOK, Entry
    <2>2. \A q \in Digests : q # d => entries'[q] = entries[q]
        BY <1>2 DEF TypeOK
    <2> QED BY <2>1, <2>2 DEF EntriesOnlyLeave
<1> QED BY <1>1, <1>2 DEF RemoveEntryLocked

\* markEntryExpiredLocked only withdraws.
LEMMA MarkEvictedLeaves ==
    ASSUME TypeOK, NEW d \in Digests, NEW s, MarkEvicted(d, s)
    PROVE  EntriesOnlyLeave /\ ~(entries'[d].present /\ ~entries'[d].evictPending)
<1>1. PICK e \in Entry : e = [entries[d] EXCEPT !.evictPending = TRUE]
    BY DEF TypeOK, Entry
<1>2. e.present = entries[d].present /\ e.epoch = entries[d].epoch /\ e.evictPending
    BY <1>1 DEF TypeOK, Entry
<1>3. CASE e.pins = 0
    <2>1. RemoveEntryLocked(d, e, s)
        BY <1>1, <1>3 DEF MarkEvicted
    <2> QED BY <1>2, <2>1, RemoveEntryLeaves
<1>4. CASE e.pins # 0
    <2>1. entries' = [entries EXCEPT ![d] = e]
        BY <1>1, <1>4 DEF MarkEvicted
    <2> QED BY <1>2, <2>1 DEF TypeOK, EntriesOnlyLeave
<1> QED BY <1>3, <1>4

\* beginKeyMutation only withdraws, and withdraws what it mutates.
LEMMA BeginKeyMutationLeaves ==
    ASSUME TypeOK, NEW d \in Digests, BeginKeyMutation(d)
    PROVE  EntriesOnlyLeave /\ ~(entries'[d].present /\ ~entries'[d].evictPending)
<1>1. CASE entries[d].present
    <2>1. MarkEvicted(d, lru)
        BY <1>1 DEF BeginKeyMutation
    <2> QED BY <2>1, MarkEvictedLeaves
<1>2. CASE ~entries[d].present
    <2>1. entries' = entries
        BY <1>2 DEF BeginKeyMutation
    <2> QED BY <1>2, <2>1 DEF EntriesOnlyLeave
<1> QED BY <1>1, <1>2

-----------------------------------------------------------------------------
(* Which steps publish *)

\* A step that publishes the fill of d, servable or not.
Publishes(d) == PublishFill(d) \/ PublishMetadataError(d)

\* Every other step only withdraws entries.
LEMMA OthersOnlyWithdraw ==
    ASSUME TypeInv, [Next]_vars, \A d \in Digests : ~Publishes(d)
    PROVE  EntriesOnlyLeave
<1>0. entries' = entries => EntriesOnlyLeave
    BY DEF EntriesOnlyLeave
<1>1. ASSUME NEW r \in Readers, NEW d \in Digests, OpenCached(r, d) PROVE EntriesOnlyLeave
    <2>1. entries' = [entries EXCEPT ![d].pins = @ + 1]
        BY <1>1 DEF OpenCached
    <2> QED BY <2>1 DEF TypeInv, TypeOK, Entry, EntriesOnlyLeave
<1>2. ASSUME NEW d \in Digests, OpenExpired(d) PROVE EntriesOnlyLeave
    BY <1>2, MarkEvictedLeaves DEF OpenExpired, TypeInv
<1>3. ASSUME NEW r \in Readers, ReleaseEntry(r) PROVE EntriesOnlyLeave
    <2>1. PICK d \in Digests : d = reader[r].digest
        BY <1>3 DEF ReleaseEntry, TypeInv, CallsTyped
    <2>2. PICK e : e = [entries[d] EXCEPT !.pins = IF @ > 0 THEN @ - 1 ELSE @]
        OBVIOUS
    <2>3. e \in Entry
        BY <2>2, ReleasedPin DEF TypeInv, TypeOK
    <2>4. e.present = entries[d].present /\ e.epoch = entries[d].epoch
          /\ e.evictPending = entries[d].evictPending
        BY <2>2 DEF TypeInv, TypeOK, Entry
    <2>5. CASE entries[d].present /\ e.pins = 0 /\ e.evictPending /\ ~lockReleased
        <3>1. RemoveEntryLocked(d, e, lru)
            BY <1>3, <2>1, <2>2, <2>5 DEF ReleaseEntry
        <3> QED BY <2>3, <2>4, <3>1, RemoveEntryLeaves DEF TypeInv
    <2>6. CASE ~(entries[d].present /\ e.pins = 0 /\ e.evictPending /\ ~lockReleased)
        <3>1. entries' = IF entries[d].present THEN [entries EXCEPT ![d] = e] ELSE entries
            BY <1>3, <2>1, <2>2, <2>6 DEF ReleaseEntry
        <3> QED BY <2>4, <3>1 DEF TypeInv, TypeOK, EntriesOnlyLeave
    <2> QED BY <2>5, <2>6
<1>4. ASSUME NEW m \in Mutators, NEW op \in {"Put", "Delete", "Evict"}, NEW d \in Digests,
             BeginMutation(m, op, d)
      PROVE  EntriesOnlyLeave
    BY <1>4, BeginKeyMutationLeaves DEF BeginMutation, TypeInv
<1>5. ASSUME NEW m \in Mutators, PutEvict(m) PROVE EntriesOnlyLeave
    <2>1. PICK d \in Digests : d = mut[m].digest
        BY <1>5 DEF PutEvict, TypeInv, CallsTyped
    <2>2. entries' = entries \/ BeginKeyMutation(d)
        BY <1>5, <2>1 DEF PutEvict
    <2> QED BY <1>0, <2>2, BeginKeyMutationLeaves DEF TypeInv
<1>6. ASSUME NEW m \in Mutators, EntryRemoval(m) PROVE EntriesOnlyLeave
    <2>1. PICK d \in Digests : d = mut[m].digest
        BY <1>6 DEF EntryRemoval, TypeInv, CallsTyped
    <2>2. PICK e \in Entry : e = entries[d]
        BY DEF TypeInv, TypeOK
    <2>3. entries' = entries \/ RemoveEntryLocked(d, e, lru)
        BY <1>6, <2>1, <2>2 DEF EntryRemoval
    <2> QED BY <1>0, <2>2, <2>3, RemoveEntryLeaves DEF TypeInv
<1>7. ASSUME EvictForRoom PROVE EntriesOnlyLeave
    <2>1. PICK i \in 1..Len(lru) : RemoveEntryLocked(lru[i], entries[lru[i]], Rotated(i))
        BY <1>7 DEF EvictForRoom
    <2>2. PICK d \in Digests : d = lru[i]
        BY ElementOfSeq DEF TypeInv, TypeOK
    <2>3. PICK e \in Entry : e = entries[d]
        BY DEF TypeInv, TypeOK
    <2>4. PICK s : s = Rotated(i)
        OBVIOUS
    <2>5. RemoveEntryLocked(d, e, s)
        BY <2>1, <2>2, <2>3, <2>4
    <2> QED BY <2>3, <2>5, RemoveEntryLeaves DEF TypeInv
<1>8. ASSUME ReadStep PROVE EntriesOnlyLeave
    BY <1>0, <1>1, <1>2, <1>3, <1>8 DEF ReadStep, RegisterReader, CloseReader
<1>9. ASSUME MutationStep PROVE EntriesOnlyLeave
    BY <1>0, <1>4, <1>5, <1>6, <1>9 DEF MutationStep, MutateBackend, FinishMutation
<1>10. ASSUME FillStep PROVE EntriesOnlyLeave
    BY <1>0, <1>7, <1>10 DEF FillStep, Publishes, JoinNewFlight, OpenCanonical, GiveUpFill,
                             StartPrepare, RoomRefused, ReserveFill, PublishRenameError, AbortFill
<1>11. ASSUME CloseStep PROVE EntriesOnlyLeave
    BY <1>0, <1>11 DEF CloseStep, MarkClosed, CloseCacheRoot, Terminated, vars
<1>12. ASSUME UNCHANGED vars PROVE EntriesOnlyLeave
    BY <1>0, <1>12 DEF vars
<1> QED BY <1>8, <1>9, <1>10, <1>11, <1>12 DEF Next

-----------------------------------------------------------------------------
(* What steps do to the fills, the mutations and the canonical store *)

\* The fill that makes room is opened and not yet prepared.
RoomIsOpened == room # NoDigest => fills[room].phase = "opened"

\* How a step may treat the fills without starting one.
FillsOnlyProceed ==
    \A d \in Digests : fills'[d].phase # "none" =>
        /\ fills[d].phase # "none"
        /\ fills[d].invalid => fills'[d].invalid
        /\ fills'[d].blocked = fills[d].blocked
        /\ fills[d].phase # "opening" => fills'[d].phase # "opening" /\ fills'[d].epoch = fills[d].epoch
        /\ fills[d].phase = "opening" /\ fills'[d].phase # "opening" =>
              canon[d].exists /\ fills'[d].epoch = canon[d].epoch

\* A fill that only changes its phase, past opening.
LEMMA PhaseProceeds ==
    ASSUME TypeOK, NEW d \in Digests, NEW p \in {"refused", "prepared", "aborting"},
           fills[d].phase \notin {"none", "opening"}, fills' = [fills EXCEPT ![d].phase = p]
    PROVE  FillsOnlyProceed
BY DEF TypeOK, Fill, FillsOnlyProceed

\* A fill that ends.
LEMMA EndFillProceeds ==
    ASSUME TypeOK, NEW d \in Digests, EndFillLocked(d)
    PROVE  FillsOnlyProceed
BY DEF TypeOK, Fill, FillsOnlyProceed, EndFillLocked, NoFill

\* beginKeyMutation invalidates the fill of its digest and leaves the others.
LEMMA BeginKeyMutationProceeds ==
    ASSUME TypeOK, NEW d \in Digests, BeginKeyMutation(d)
    PROVE  /\ FillsOnlyProceed
           /\ fills'[d].phase # "none" => fills'[d].invalid
           /\ \A q \in Digests : fills'[q].phase = fills[q].phase
<1>1. fills' = [fills EXCEPT ![d].invalid = (@ \/ fills[d].phase # "none")]
    BY DEF BeginKeyMutation
<1>2. /\ fills'[d].phase = fills[d].phase /\ fills'[d].blocked = fills[d].blocked
      /\ fills'[d].epoch = fills[d].epoch
      /\ fills'[d].invalid = (fills[d].invalid \/ fills[d].phase # "none")
    BY <1>1 DEF TypeOK, Fill
<1>3. \A q \in Digests : q # d => fills'[q] = fills[q]
    BY <1>1 DEF TypeOK
<1> QED BY <1>2, <1>3 DEF FillsOnlyProceed

\* A step that starts no fill lets the fills proceed.
LEMMA OthersOnlyProceed ==
    ASSUME TypeInv, RoomIsOpened, [Next]_vars, \A d \in Digests : ~JoinNewFlight(d)
    PROVE  FillsOnlyProceed
<1>0. fills' = fills => FillsOnlyProceed
    BY DEF FillsOnlyProceed
<1>1. ASSUME ReadStep PROVE FillsOnlyProceed
    BY <1>0, <1>1 DEF ReadStep, OpenCached, OpenExpired, RegisterReader, CloseReader, ReleaseEntry
<1>2. ASSUME MutationStep PROVE FillsOnlyProceed
    <2>1. ASSUME NEW m \in Mutators, PutEvict(m) PROVE FillsOnlyProceed
        <3>1. PICK d \in Digests : d = mut[m].digest
            BY <2>1 DEF PutEvict, TypeInv, CallsTyped
        <3>2. fills' = fills \/ BeginKeyMutation(d)
            BY <2>1, <3>1 DEF PutEvict
        <3> QED BY <1>0, <3>2, BeginKeyMutationProceeds DEF TypeInv
    <2>2. ASSUME NEW m \in Mutators, NEW op \in {"Put", "Delete", "Evict"}, NEW d \in Digests,
                 BeginMutation(m, op, d)
          PROVE  FillsOnlyProceed
        BY <2>2, BeginKeyMutationProceeds DEF BeginMutation, TypeInv
    <2> QED BY <1>0, <1>2, <2>1, <2>2 DEF MutationStep, MutateBackend, EntryRemoval, FinishMutation
<1>3. ASSUME FillStep PROVE FillsOnlyProceed
    <2>1. ASSUME NEW d \in Digests, OpenCanonical(d) PROVE FillsOnlyProceed
        <3>1. /\ fills[d].phase = "opening" /\ canon[d].exists
              /\ fills' = [fills EXCEPT ![d].phase = "opened", ![d].epoch = canon[d].epoch]
            BY <2>1 DEF OpenCanonical
        <3>2. /\ fills'[d].phase = "opened" /\ fills'[d].epoch = canon[d].epoch
              /\ fills'[d].invalid = fills[d].invalid /\ fills'[d].blocked = fills[d].blocked
            BY <3>1 DEF TypeInv, TypeOK, Fill
        <3>3. \A q \in Digests : q # d => fills'[q] = fills[q]
            BY <3>1 DEF TypeInv, TypeOK
        <3> QED BY <3>1, <3>2, <3>3 DEF FillsOnlyProceed
    <2>2. ASSUME NEW d \in Digests,
                 GiveUpFill(d) \/ PublishFill(d) \/ PublishMetadataError(d) \/ AbortFill(d)
          PROVE  FillsOnlyProceed
        BY <2>2, EndFillProceeds
           DEF GiveUpFill, PublishFill, PublishMetadataError, AbortFill, TypeInv
    <2>3. ASSUME NEW d \in Digests, PublishRenameError(d) PROVE FillsOnlyProceed
        BY <2>3, PhaseProceeds DEF PublishRenameError, TypeInv
    <2>4. ASSUME EvictForRoom \/ RoomRefused \/ ReserveFill PROVE FillsOnlyProceed
        <3>1. PICK d \in Digests : d = room
            BY <2>4 DEF EvictForRoom, RoomRefused, ReserveFill, TypeInv, TypeOK
        <3>2. fills[d].phase = "opened"
            BY <2>4, <3>1 DEF EvictForRoom, RoomRefused, ReserveFill, RoomIsOpened
        <3>3. fills' = fills \/ \E p \in {"refused", "prepared"} : fills' = [fills EXCEPT ![d].phase = p]
            BY <2>4, <3>1 DEF EvictForRoom, RoomRefused, ReserveFill
        <3> QED BY <1>0, <3>2, <3>3, PhaseProceeds DEF TypeInv
    <2> QED BY <1>0, <1>3, <2>1, <2>2, <2>3, <2>4 DEF FillStep, StartPrepare
<1>4. ASSUME CloseStep PROVE FillsOnlyProceed
    <2>1. ASSUME MarkClosed PROVE FillsOnlyProceed
        BY <2>1 DEF MarkClosed, TypeInv, TypeOK, Fill, FillsOnlyProceed
    <2> QED BY <1>0, <1>4, <2>1 DEF CloseStep, CloseCacheRoot, Terminated, vars
<1>5. ASSUME UNCHANGED vars PROVE FillsOnlyProceed
    BY <1>0, <1>5 DEF vars
<1> QED BY <1>1, <1>2, <1>3, <1>4, <1>5 DEF Next

\* The lock is not handed over while room is being made.
LEMMA RoomStep ==
    ASSUME TypeInv, RoomIsOpened, [Next]_vars
    PROVE  RoomIsOpened'
<1>1. ASSUME NEW d \in Digests, StartPrepare(d) PROVE RoomIsOpened'
    BY <1>1 DEF StartPrepare, RoomIsOpened
<1>2. ASSUME NEW d \in Digests, OpenCanonical(d) PROVE RoomIsOpened'
    <2>1. /\ fills[d].phase = "opening" /\ room' = room
          /\ fills' = [fills EXCEPT ![d].phase = "opened", ![d].epoch = canon[d].epoch]
        BY <1>2 DEF OpenCanonical
    <2> QED BY <2>1 DEF RoomIsOpened, TypeInv, TypeOK, Fill
<1>3. ASSUME EvictForRoom PROVE RoomIsOpened'
    <2>1. room' = NoDigest \/ (fills' = fills /\ room' = room)
        BY <1>3 DEF EvictForRoom
    <2> QED BY <2>1 DEF RoomIsOpened
<1>4. fills' = fills /\ room' = room => RoomIsOpened'
    BY DEF RoomIsOpened
<1>5. room' = NoDigest => RoomIsOpened'
    BY DEF RoomIsOpened
<1>6. Unlocked /\ room' = room => RoomIsOpened'
    BY <1>5 DEF Unlocked
<1>7. ASSUME ReadStep PROVE RoomIsOpened'
    BY <1>6, <1>7 DEF ReadStep, OpenCached, OpenExpired, RegisterReader, CloseReader, ReleaseEntry
<1>8. ASSUME MutationStep PROVE RoomIsOpened'
    BY <1>4, <1>6, <1>8 DEF MutationStep, BeginMutation, BeginKeyMutation, MutateBackend,
                            PutEvict, EntryRemoval, FinishMutation
<1>9. ASSUME FillStep PROVE RoomIsOpened'
    BY <1>1, <1>2, <1>3, <1>5, <1>6, <1>9
       DEF FillStep, JoinNewFlight, GiveUpFill, RoomRefused, ReserveFill, PublishFill,
           PublishRenameError, PublishMetadataError, AbortFill
<1>10. ASSUME CloseStep \/ UNCHANGED vars PROVE RoomIsOpened'
    BY <1>4, <1>6, <1>10 DEF CloseStep, MarkClosed, CloseCacheRoot, Terminated, vars
<1> QED BY <1>7, <1>8, <1>9, <1>10 DEF Next

-----------------------------------------------------------------------------
(* Key states *)

\* The calls inside mutations of a digest can be counted.
LEMMA InsideFinite ==
    ASSUME NEW d, NEW k
    PROVE  /\ IsFiniteSet(Inside(d, k))
           /\ Cardinality(Inside(d, k)) \in Nat
           /\ Cardinality(Inside(d, k)) = 0 <=> Inside(d, k) = {}
<1>1. Inside(d, k) \in SUBSET Mutators
    BY DEF Inside
<1>2. IsFiniteSet(Inside(d, k))
    BY <1>1, FS_Subset, ModelAssumption
<1> QED BY <1>2, FS_CardinalityType, FS_EmptySet

\* Nobody enters or leaves a mutation.
MutationsStay == \A d \in Digests, k \in {1, 2} : Inside(d, k)' = Inside(d, k)

\* m enters its k-th mutation of d, or leaves it.
Enters(m, d, k) ==
    /\ m \notin Inside(d, k) /\ Inside(d, k)' = Inside(d, k) \cup {m}
    /\ \A q \in Digests, j \in {1, 2} : q # d \/ j # k => Inside(q, j)' = Inside(q, j)
Leaves(m, d, k) ==
    /\ m \in Inside(d, k) /\ Inside(d, k)' = Inside(d, k) \ {m}
    /\ \A q \in Digests, j \in {1, 2} : q # d \/ j # k => Inside(q, j)' = Inside(q, j)

\* One more mutation of d when m enters one, and none of any other digest.
LEMMA EntersCounts ==
    ASSUME NEW m \in Mutators, NEW d \in Digests, NEW k \in {1, 2}, Enters(m, d, k)
    PROVE  /\ Mutations(d)' = Mutations(d) + 1
           /\ \A q \in Digests : q # d => Mutations(q)' = Mutations(q)
<1>1. Cardinality(Inside(d, k)') = Cardinality(Inside(d, k)) + 1
    BY InsideFinite, FS_AddElement DEF Enters
<1>2. \A j \in {1, 2} : j # k => Cardinality(Inside(d, j)') = Cardinality(Inside(d, j))
    BY DEF Enters
<1>3. \A j \in {1, 2} : Cardinality(Inside(d, j)) \in Nat
    BY InsideFinite
<1>4. Mutations(d)' = Mutations(d) + 1
    BY <1>1, <1>2, <1>3 DEF Mutations
<1>5. \A q \in Digests : q # d => Mutations(q)' = Mutations(q)
    BY DEF Enters, Mutations
<1> QED BY <1>4, <1>5

\* One mutation of d less when m leaves one.
LEMMA LeavesCounts ==
    ASSUME NEW m \in Mutators, NEW d \in Digests, NEW k \in {1, 2}, Leaves(m, d, k)
    PROVE  /\ Mutations(d)' = Mutations(d) - 1
           /\ \A q \in Digests : q # d => Mutations(q)' = Mutations(q)
<1>1. Cardinality(Inside(d, k)') = Cardinality(Inside(d, k)) - 1
    BY InsideFinite, FS_RemoveElement DEF Leaves
<1>2. \A j \in {1, 2} : j # k => Cardinality(Inside(d, j)') = Cardinality(Inside(d, j))
    BY DEF Leaves
<1>3. \A j \in {1, 2} : Cardinality(Inside(d, j)) \in Nat
    BY InsideFinite
<1>4. Mutations(d)' = Mutations(d) - 1
    BY <1>1, <1>2, <1>3 DEF Mutations
<1>5. \A q \in Digests : q # d => Mutations(q)' = Mutations(q)
    BY DEF Leaves, Mutations
<1> QED BY <1>4, <1>5

\* A mutator that only moves on stays where it is.
LEMMA MovesStay ==
    ASSUME TypeOK, NEW m \in Mutators, NEW pc, mut' = [mut EXCEPT ![m].pc = pc]
    PROVE  MutationsStay
<1>1. \A x \in Mutators : mut'[x].digest = mut[x].digest /\ mut'[x].depth = mut[x].depth
    BY DEF TypeOK, Mutation
<1> QED BY <1>1 DEF MutationsStay, Inside

\* BeginMutation enters the first mutation, the Evict inside Put the second.
LEMMA BeginEnters ==
    ASSUME TypeInv, NEW m \in Mutators, NEW op \in {"Put", "Delete", "Evict"},
           NEW d \in Digests, BeginMutation(m, op, d)
    PROVE  Enters(m, d, 1)
<1>1. mut[m].depth = 0
    BY DEF BeginMutation, TypeInv, CallsTyped
<1>2. mut'[m].digest = d /\ mut'[m].depth = 1
    BY DEF BeginMutation, TypeInv, TypeOK
<1>3. \A x \in Mutators : x # m => mut'[x] = mut[x]
    BY DEF BeginMutation, TypeInv, TypeOK
<1> QED BY <1>1, <1>2, <1>3 DEF Enters, Inside

(* The eviction at the end of a Put re-enters the window of its own digest. *)
LEMMA PutEvictEnters ==
    ASSUME TypeInv, NEW m \in Mutators, PutEvict(m), ~closed
    PROVE  \E d \in Digests : d = mut[m].digest /\ Enters(m, d, 2) /\ BeginKeyMutation(d)
<1>1. mut[m].depth = 1 /\ mut[m].digest \in Digests
    BY DEF PutEvict, TypeInv, CallsTyped
<1>2. mut' = [mut EXCEPT ![m].pc = "removing", ![m].depth = @ + 1]
    BY DEF PutEvict
<1>3. mut'[m].digest = mut[m].digest /\ mut'[m].depth = 2
    BY <1>1, <1>2 DEF TypeInv, TypeOK, Mutation
<1>4. \A x \in Mutators : x # m => mut'[x] = mut[x]
    BY <1>2 DEF TypeInv, TypeOK
<1>5. PICK d \in Digests : d = mut[m].digest
    BY <1>1
<1>6. Enters(m, d, 2)
    BY <1>1, <1>3, <1>4, <1>5 DEF Enters, Inside
<1>7. BeginKeyMutation(d)
    BY <1>5 DEF PutEvict
<1> QED BY <1>5, <1>6, <1>7

\* finishKeyMutation leaves the innermost mutation.
LEMMA FinishLeaves ==
    ASSUME TypeInv, NEW m \in Mutators, FinishMutation(m)
    PROVE  \E d \in Digests, k \in {1, 2} : d = mut[m].digest /\ Leaves(m, d, k)
<1>1. mut[m].depth \in {1, 2} /\ mut[m].digest \in Digests
    BY DEF FinishMutation, TypeInv, CallsTyped
<1>2. mut' = IF mut[m].depth > 1 THEN [mut EXCEPT ![m].depth = @ - 1]
                                 ELSE [mut EXCEPT ![m] = NoMutation]
    BY DEF FinishMutation
<1>3. \A x \in Mutators : x # m => mut'[x] = mut[x]
    BY <1>2 DEF TypeInv, TypeOK
<1>4. PICK d \in Digests : d = mut[m].digest
    BY <1>1
<1>5. CASE mut[m].depth = 1
    <2>1. mut'[m].depth = 0
        BY <1>2, <1>5 DEF TypeInv, TypeOK, NoMutation
    <2>2. m \in Inside(d, 1) /\ m \notin Inside(d, 2)
        BY <1>4, <1>5 DEF Inside
    <2>3. Inside(d, 1)' = Inside(d, 1) \ {m}
        BY <1>3, <2>1 DEF Inside
    <2>4. \A q \in Digests, j \in {1, 2} : q # d \/ j # 1 => Inside(q, j)' = Inside(q, j)
        <3>1. SUFFICES ASSUME NEW q \in Digests, NEW j \in {1, 2}, q # d \/ j # 1
                       PROVE  Inside(q, j)' = Inside(q, j)
            OBVIOUS
        <3>2. m \notin Inside(q, j)
            BY <1>4, <1>5, <3>1 DEF Inside
        <3> QED BY <1>3, <2>1, <3>2 DEF Inside
    <2>5. Leaves(m, d, 1)
        BY <2>2, <2>3, <2>4 DEF Leaves
    <2> QED BY <1>4, <2>5
<1>6. CASE mut[m].depth = 2
    <2>1. mut'[m].depth = 1 /\ mut'[m].digest = mut[m].digest
        BY <1>2, <1>6 DEF TypeInv, TypeOK, Mutation
    <2>2. m \in Inside(d, 2)
        BY <1>4, <1>6 DEF Inside
    <2>3. Inside(d, 2)' = Inside(d, 2) \ {m}
        BY <1>3, <2>1 DEF Inside
    <2>4. \A q \in Digests, j \in {1, 2} : q # d \/ j # 2 => Inside(q, j)' = Inside(q, j)
        <3>1. SUFFICES ASSUME NEW q \in Digests, NEW j \in {1, 2}, q # d \/ j # 2
                       PROVE  Inside(q, j)' = Inside(q, j)
            OBVIOUS
        <3>2. m \in Inside(q, j)' <=> m \in Inside(q, j)
            BY <1>4, <1>6, <2>1, <3>1 DEF Inside
        <3> QED BY <1>3, <3>2 DEF Inside
    <2>5. Leaves(m, d, 2)
        BY <2>2, <2>3, <2>4 DEF Leaves
    <2> QED BY <1>4, <2>5
<1> QED BY <1>1, <1>5, <1>6

\* The initial key states.
LEMMA KeyInit == Init => KeyUsers /\ RoomIsOpened
<1> SUFFICES ASSUME Init PROVE KeyUsers /\ RoomIsOpened
    OBVIOUS
<1>1. RoomIsOpened
    BY DEF Init, InitMemory, RoomIsOpened
<1>2. \A d \in Digests : Inside(d, 1) = {} /\ Inside(d, 2) = {}
    BY DEF Init, InitMemory, Inside, NoMutation
<1>3. \A d \in Digests : Mutations(d) = 0
    BY <1>2, FS_EmptySet DEF Mutations
<1>4. Filling = {}
    BY DEF Init, InitMemory, Filling, NoFill
<1> QED BY <1>1, <1>3, <1>4 DEF KeyUsers, Init, InitMemory, NoKey

\* The state of d alone.
KeyCounts(d) ==
    /\ keyStates[d].mutations = Mutations(d)
    /\ keyStates[d].users = Mutations(d) + (IF d \in Filling THEN 1 ELSE 0)
    /\ keyStates[d].users = 0 => keyStates[d] = NoKey

\* Digests a step does not touch keep their state.
LEMMA KeysStay ==
    ASSUME NEW d \in Digests, KeyCounts(d), keyStates'[d] = keyStates[d],
           Mutations(d)' = Mutations(d), d \in Filling' <=> d \in Filling
    PROVE  KeyCounts(d)'
BY DEF KeyCounts

\* releaseKeyTokenLocked by a fill that ends.
LEMMA EndFillKey ==
    ASSUME TypeInv, KeyUsers, NEW d \in Digests, fills[d].phase # "none", EndFillLocked(d),
           mut' = mut
    PROVE  KeyUsers'
<1>0. \A q \in Digests : Mutations(q)' = Mutations(q)
    BY DEF Mutations, Inside
<1>1. \A q \in Digests : Mutations(q)' = Mutations(q) /\ Mutations(q) \in Nat
    BY <1>0, InsideFinite DEF Mutations
<1>2. d \in Filling /\ d \notin Filling'
    BY DEF EndFillLocked, Filling, TypeInv, TypeOK, NoFill
<1>3. \A q \in Digests : q # d => /\ keyStates'[q] = keyStates[q]
                                  /\ q \in Filling' <=> q \in Filling
    BY DEF EndFillLocked, Filling, TypeInv, TypeOK
<1>4. keyStates'[d] = ReleasedKey(keyStates[d])
    BY DEF EndFillLocked, TypeInv, TypeOK
<1>5. keyStates[d].mutations = Mutations(d) /\ keyStates[d].users = Mutations(d) + 1
    BY <1>2 DEF KeyUsers
<1>6. KeyCounts(d)'
    <2>1. CASE Mutations(d) = 0
        <3>1. keyStates'[d] = NoKey
            BY <1>4, <1>5, <2>1 DEF ReleasedKey
        <3> QED BY <1>1, <1>2, <2>1, <3>1 DEF KeyCounts, NoKey
    <2>2. CASE Mutations(d) # 0
        <3>1. keyStates'[d] = [keyStates[d] EXCEPT !.users = @ - 1]
            BY <1>1, <1>4, <1>5, <2>2 DEF ReleasedKey
        <3>2. keyStates'[d].users = Mutations(d) /\ keyStates'[d].mutations = Mutations(d)
            BY <1>1, <1>5, <3>1 DEF TypeInv, TypeOK, Key
        <3> QED BY <1>1, <1>2, <2>2, <3>2 DEF KeyCounts
    <2> QED BY <2>1, <2>2
<1>7. ASSUME NEW q \in Digests, q # d PROVE KeyCounts(q)'
    BY <1>1, <1>3, <1>7, KeysStay DEF KeyUsers, KeyCounts
<1> QED BY <1>6, <1>7 DEF KeyUsers, KeyCounts

\* beginKeyMutation by a call that enters its k-th mutation.
LEMMA BeginKey ==
    ASSUME TypeInv, KeyUsers, NEW m \in Mutators, NEW d \in Digests, NEW k \in {1, 2},
           BeginKeyMutation(d), Enters(m, d, k)
    PROVE  KeyUsers'
<1>1. \A q \in Digests : Mutations(q) \in Nat
    BY InsideFinite DEF Mutations
<1>2. Filling' = Filling
    BY BeginKeyMutationProceeds DEF Filling, TypeInv
<1>3. \A q \in Digests : q # d => keyStates'[q] = keyStates[q]
    BY DEF BeginKeyMutation, TypeInv, TypeOK
<1>4. keyStates'[d] = BegunKey(keyStates[d])
    BY DEF BeginKeyMutation, TypeInv, TypeOK
<1>5. KeyCounts(d)'
    BY <1>1, <1>2, <1>4, EntersCounts DEF KeyUsers, KeyCounts, BegunKey
<1>6. ASSUME NEW q \in Digests, q # d PROVE KeyCounts(q)'
    BY <1>2, <1>3, <1>6, EntersCounts, KeysStay DEF KeyUsers, KeyCounts
<1> QED BY <1>5, <1>6 DEF KeyUsers, KeyCounts

\* finishKeyMutation by a call that leaves its k-th mutation.
LEMMA FinishKey ==
    ASSUME TypeInv, KeyUsers, NEW m \in Mutators, NEW d \in Digests, NEW k \in {1, 2},
           Leaves(m, d, k), fills' = fills,
           keyStates' = [keyStates EXCEPT ![d] = FinishedKey(@)]
    PROVE  KeyUsers'
<1>1. \A q \in Digests : Mutations(q) \in Nat
    BY InsideFinite DEF Mutations
<1>2. Filling' = Filling
    BY DEF Filling
<1>3. \A q \in Digests : q # d => keyStates'[q] = keyStates[q]
    BY DEF TypeInv, TypeOK
<1>4. keyStates'[d] = FinishedKey(keyStates[d])
    BY DEF TypeInv, TypeOK
<1>5. KeyCounts(d)
    BY DEF KeyUsers, KeyCounts
<1> DEFINE u == Mutations(d) + (IF d \in Filling THEN 1 ELSE 0)
           f == [users |-> keyStates[d].users, generation |-> keyStates[d].generation + 1,
                 mutations |-> keyStates[d].mutations - 1]
<1>6. f.users = u /\ f.mutations = Mutations(d) - 1 /\ u \in Nat
    BY <1>1, <1>5 DEF KeyCounts
<1>7. Mutations(d)' = Mutations(d) - 1
    BY LeavesCounts
<1>8. KeyCounts(d)'
    <2>1. CASE f.users - 1 <= 0 /\ f.mutations = 0
        <3>1. keyStates'[d] = NoKey
            BY <1>4, <2>1 DEF FinishedKey, ReleasedKey
        <3>2. Mutations(d) = 1 /\ d \notin Filling
            BY <1>1, <1>6, <2>1
        <3> QED BY <1>2, <1>7, <3>1, <3>2 DEF KeyCounts, NoKey
    <2>2. CASE ~(f.users - 1 <= 0 /\ f.mutations = 0)
        <3>1. keyStates'[d] = [f EXCEPT !.users = @ - 1]
            BY <1>4, <2>2 DEF FinishedKey, ReleasedKey
        <3>2. keyStates'[d].users = u - 1 /\ keyStates'[d].mutations = Mutations(d) - 1
            BY <1>6, <3>1
        <3>3. u - 1 # 0
            <4>1. CASE f.users - 1 > 0
                BY <1>6, <4>1
            <4>2. CASE f.mutations # 0
                <5>1. m \in Inside(d, k)
                    BY DEF Leaves
                <5>2. Cardinality(Inside(d, k)) # 0
                    BY <5>1, InsideFinite
                <5>3. Mutations(d) >= 1
                    BY <5>2, InsideFinite DEF Mutations
                <5>4. Mutations(d) \in Nat /\ Mutations(d) - 1 # 0
                    BY <1>1, <1>6, <4>2
                <5>5. Mutations(d) >= 2
                    BY <5>3, <5>4
                <5>6. u >= 2
                    BY <5>4, <5>5
                <5> QED BY <1>6, <5>6
            <4> QED BY <1>6, <2>2, <4>1, <4>2
        <3> QED BY <1>1, <1>2, <1>7, <3>2, <3>3 DEF KeyCounts
    <2> QED BY <2>1, <2>2
<1>9. ASSUME NEW q \in Digests, q # d PROVE KeyCounts(q)'
    BY <1>2, <1>3, <1>9, LeavesCounts, KeysStay DEF KeyUsers, KeyCounts
<1> QED BY <1>8, <1>9 DEF KeyUsers, KeyCounts

\* Every step keeps the key states counted.
LEMMA KeyStep == TypeInv /\ RoomIsOpened /\ KeyUsers /\ [Next]_vars => KeyUsers'
<1> SUFFICES ASSUME TypeInv, RoomIsOpened, KeyUsers, [Next]_vars PROVE KeyUsers'
    OBVIOUS
<1>1. ASSUME keyStates' = keyStates, MutationsStay, Filling' = Filling PROVE KeyUsers'
    <2>1. \A d \in Digests : Mutations(d)' = Mutations(d)
        BY <1>1 DEF MutationsStay, Mutations
    <2> QED BY <1>1, <2>1 DEF KeyUsers
<1>2. mut' = mut => MutationsStay
    BY DEF MutationsStay, Inside
<1>3. fills' = fills => Filling' = Filling
    BY DEF Filling
<1>4. ASSUME ReadStep PROVE KeyUsers'
    <2>1. keyStates' = keyStates /\ mut' = mut /\ fills' = fills
        BY <1>4 DEF ReadStep, OpenCached, OpenExpired, RegisterReader, CloseReader, ReleaseEntry
    <2> QED BY <1>1, <1>2, <1>3, <2>1
<1>5. ASSUME MutationStep PROVE KeyUsers'
    <2>1. ASSUME NEW m \in Mutators, NEW op \in {"Put", "Delete", "Evict"}, NEW d \in Digests,
                 BeginMutation(m, op, d)
          PROVE  KeyUsers'
        BY <2>1, BeginEnters, BeginKey DEF BeginMutation
    <2>2. ASSUME NEW m \in Mutators, MutateBackend(m) PROVE KeyUsers'
        <3>1. \E pc \in {"evict", "finish"} : mut' = [mut EXCEPT ![m].pc = pc]
            BY <2>2 DEF MutateBackend
        <3>2. MutationsStay
            BY <3>1, MovesStay DEF TypeInv
        <3> QED BY <1>1, <1>3, <2>2, <3>2 DEF MutateBackend
    <2>3. ASSUME NEW m \in Mutators, PutEvict(m) PROVE KeyUsers'
        <3>1. CASE closed
            <4>1. mut' = [mut EXCEPT ![m].pc = "finish"]
                BY <2>3, <3>1 DEF PutEvict
            <4>2. MutationsStay
                BY <4>1, MovesStay DEF TypeInv
            <4> QED BY <1>1, <1>3, <2>3, <3>1, <4>2 DEF PutEvict
        <3>2. CASE ~closed
            <4>1. PICK d \in Digests : Enters(m, d, 2) /\ BeginKeyMutation(d)
                BY <2>3, <3>2, PutEvictEnters
            <4> QED BY <4>1, BeginKey
        <3> QED BY <3>1, <3>2
    <2>4. ASSUME NEW m \in Mutators, EntryRemoval(m) PROVE KeyUsers'
        <3>1. mut' = [mut EXCEPT ![m].pc = "finish"]
            BY <2>4 DEF EntryRemoval
        <3>2. MutationsStay
            BY <3>1, MovesStay DEF TypeInv
        <3> QED BY <1>1, <1>3, <2>4, <3>2 DEF EntryRemoval
    <2>5. ASSUME NEW m \in Mutators, FinishMutation(m) PROVE KeyUsers'
        <3>1. PICK d \in Digests, k \in {1, 2} : d = mut[m].digest /\ Leaves(m, d, k)
            BY <2>5, FinishLeaves
        <3>2. fills' = fills /\ keyStates' = [keyStates EXCEPT ![d] = FinishedKey(@)]
            BY <2>5, <3>1 DEF FinishMutation
        <3> QED BY <3>1, <3>2, FinishKey
    <2> QED BY <1>5, <2>1, <2>2, <2>3, <2>4, <2>5 DEF MutationStep
<1>6. ASSUME FillStep PROVE KeyUsers'
    <2>1. ASSUME NEW d \in Digests, JoinNewFlight(d) PROVE KeyUsers'
        <3>1. \A q \in Digests : Mutations(q)' = Mutations(q)
            BY <2>1 DEF JoinNewFlight, Mutations, Inside
        <3>2. d \notin Filling /\ d \in Filling'
            BY <2>1 DEF JoinNewFlight, Filling, TypeInv, TypeOK
        <3>3. \A q \in Digests : q # d => keyStates'[q] = keyStates[q] /\ (q \in Filling' <=> q \in Filling)
            BY <2>1 DEF JoinNewFlight, Filling, TypeInv, TypeOK
        <3>4. keyStates'[d].users = keyStates[d].users + 1 /\ keyStates'[d].mutations = keyStates[d].mutations
            BY <2>1 DEF JoinNewFlight, AcquiredKey, TypeInv, TypeOK, Key
        <3>5. Mutations(d) \in Nat
            BY InsideFinite DEF Mutations
        <3>6. KeyCounts(d)'
            BY <3>1, <3>2, <3>4, <3>5 DEF KeyUsers, KeyCounts
        <3>7. ASSUME NEW q \in Digests, q # d PROVE KeyCounts(q)'
            BY <3>1, <3>3, <3>7, KeysStay DEF KeyUsers, KeyCounts
        <3> QED BY <3>6, <3>7 DEF KeyUsers, KeyCounts
    <2>2. ASSUME NEW d \in Digests,
                 GiveUpFill(d) \/ PublishFill(d) \/ PublishMetadataError(d) \/ AbortFill(d)
          PROVE  KeyUsers'
        <3>1. fills[d].phase # "none" /\ EndFillLocked(d) /\ mut' = mut
            BY <2>2 DEF GiveUpFill, PublishFill, PublishMetadataError, AbortFill
        <3> QED BY <3>1, EndFillKey
    <2>3. ASSUME NEW d \in Digests, OpenCanonical(d) \/ PublishRenameError(d) PROVE KeyUsers'
        <3>1. keyStates' = keyStates /\ mut' = mut
            BY <2>3 DEF OpenCanonical, PublishRenameError
        <3>2. Filling' = Filling
            BY <2>3 DEF OpenCanonical, PublishRenameError, Filling, TypeInv, TypeOK, Fill
        <3> QED BY <1>1, <1>2, <3>1, <3>2
    <2>4. ASSUME EvictForRoom \/ RoomRefused \/ ReserveFill PROVE KeyUsers'
        <3>1. PICK d \in Digests : d = room
            BY <2>4 DEF EvictForRoom, RoomRefused, ReserveFill, TypeInv, TypeOK
        <3>2. fills[d].phase = "opened"
            BY <2>4, <3>1 DEF EvictForRoom, RoomRefused, ReserveFill, RoomIsOpened
        <3>3. fills' = fills \/ \E p \in {"refused", "prepared"} : fills' = [fills EXCEPT ![d].phase = p]
            BY <2>4, <3>1 DEF EvictForRoom, RoomRefused, ReserveFill
        <3>4. Filling' = Filling
            BY <3>2, <3>3 DEF Filling, TypeInv, TypeOK, Fill
        <3>5. keyStates' = keyStates /\ mut' = mut
            BY <2>4 DEF EvictForRoom, RoomRefused, ReserveFill
        <3> QED BY <1>1, <1>2, <3>4, <3>5
    <2>5. ASSUME NEW d \in Digests, StartPrepare(d) PROVE KeyUsers'
        BY <1>1, <1>2, <1>3, <2>5 DEF StartPrepare
    <2> QED BY <1>6, <2>1, <2>2, <2>3, <2>4, <2>5 DEF FillStep
<1>7. ASSUME CloseStep PROVE KeyUsers'
    <2>1. ASSUME MarkClosed PROVE Filling' = Filling
        BY <2>1 DEF MarkClosed, Filling, TypeInv, TypeOK, Fill
    <2> QED BY <1>1, <1>2, <1>3, <1>7, <2>1 DEF CloseStep, MarkClosed, CloseCacheRoot, Terminated, vars
<1>8. ASSUME UNCHANGED vars PROVE KeyUsers'
    BY <1>1, <1>2, <1>3, <1>8 DEF vars
<1> QED BY <1>4, <1>5, <1>6, <1>7, <1>8 DEF Next

\* The state of a key counts its holders exactly, for any number of overlapping
\* Puts, Deletes, Evicts and fills, and is dropped with the last of them.
THEOREM KeysCounted == Spec => []KeyUsers
<1> DEFINE Inv == TypeInv /\ RoomIsOpened /\ KeyUsers
<1>1. Init => Inv
    BY TypeInit, KeyInit
<1>2. Inv /\ [Next]_vars => Inv'
    BY TypeStep, RoomStep, KeyStep
<1>3. Inv => KeyUsers
    OBVIOUS
<1> QED BY <1>1, <1>2, <1>3, PTL DEF Spec

-----------------------------------------------------------------------------
(* What is served is current *)

\* The fence between a mutation of d and the copies of d. A running mutation has
\* withdrawn the entry and made the fill unpublishable; a fill that can still be
\* published holds the canonical object as it is now.
FenceOf(d) ==
    /\ Inside(d, 1) # {} => ~Servable(d)
    /\ Inside(d, 1) # {} /\ fills[d].phase # "none" => fills[d].invalid \/ fills[d].blocked
    /\ fills[d].phase \notin {"none", "opening"} /\ ~fills[d].invalid /\ ~fills[d].blocked =>
          canon[d].exists /\ fills[d].epoch = canon[d].epoch
    /\ Servable(d) => canon[d].exists /\ entries[d].epoch = canon[d].epoch

Fence == \A d \in Digests : FenceOf(d)

\* The canonical object only changes inside a mutation.
LEMMA CanonChangesInside ==
    ASSUME TypeInv, [Next]_vars, NEW d \in Digests
    PROVE  canon'[d] = canon[d] \/ Inside(d, 1) # {}
<1>0. canon' = canon => canon'[d] = canon[d]
    OBVIOUS
<1>1. ASSUME NEW m \in Mutators, MutateBackend(m) PROVE canon'[d] = canon[d] \/ Inside(d, 1) # {}
    <2>1. mut[m].digest \in Digests /\ mut[m].depth = 1
        BY <1>1 DEF MutateBackend, TypeInv, CallsTyped
    <2>2. CASE mut[m].digest = d
        BY <2>1, <2>2 DEF Inside
    <2>3. CASE mut[m].digest # d
        BY <1>1, <2>1, <2>3 DEF MutateBackend, TypeInv, TypeOK
    <2> QED BY <2>2, <2>3
<1>2. ASSUME ReadStep PROVE canon' = canon
    BY <1>2 DEF ReadStep, OpenCached, OpenExpired, RegisterReader, CloseReader, ReleaseEntry
<1>3. ASSUME MutationStep, \A m \in Mutators : ~MutateBackend(m) PROVE canon' = canon
    BY <1>3 DEF MutationStep, BeginMutation, BeginKeyMutation, PutEvict, EntryRemoval, FinishMutation
<1>4. ASSUME FillStep PROVE canon' = canon
    BY <1>4 DEF FillStep, JoinNewFlight, OpenCanonical, GiveUpFill, StartPrepare, EvictForRoom,
                RoomRefused, ReserveFill, PublishFill, PublishRenameError, PublishMetadataError,
                AbortFill
<1>5. ASSUME CloseStep \/ UNCHANGED vars PROVE canon' = canon
    BY <1>5 DEF CloseStep, MarkClosed, CloseCacheRoot, Terminated, vars
<1> QED BY <1>0, <1>1, <1>2, <1>3, <1>4, <1>5 DEF Next

\* A mutation that begins withdraws the entry and invalidates the fill.
LEMMA MutationsFence ==
    ASSUME TypeInv, [Next]_vars, NEW d \in Digests, Inside(d, 1) = {}, Inside(d, 1)' # {}
    PROVE  /\ ~(entries'[d].present /\ ~entries'[d].evictPending)
           /\ fills'[d].phase # "none" => fills'[d].invalid
<1>1. ASSUME MutationsStay PROVE FALSE
    BY <1>1 DEF MutationsStay
<1>2. ASSUME mut' = mut PROVE FALSE
    BY <1>2 DEF Inside
<1>3. ASSUME NEW m \in Mutators, NEW op \in {"Put", "Delete", "Evict"}, NEW q \in Digests,
             BeginMutation(m, op, q)
      PROVE  BeginKeyMutation(d)
    <2>1. q = d
        BY <1>3, BeginEnters DEF Enters
    <2> QED BY <1>3, <2>1 DEF BeginMutation
<1>4. ASSUME NEW m \in Mutators, PutEvict(m) PROVE FALSE
    <2>1. CASE closed
        <3>1. mut' = [mut EXCEPT ![m].pc = "finish"]
            BY <1>4, <2>1 DEF PutEvict
        <3> QED BY <1>1, <3>1, MovesStay DEF TypeInv
    <2>2. CASE ~closed
        <3>1. PICK q \in Digests : Enters(m, q, 2)
            BY <1>4, <2>2, PutEvictEnters
        <3> QED BY <3>1 DEF Enters
    <2> QED BY <2>1, <2>2
<1>5. ASSUME NEW m \in Mutators, MutateBackend(m) \/ EntryRemoval(m) PROVE FALSE
    <2>1. \E pc \in {"evict", "finish"} : mut' = [mut EXCEPT ![m].pc = pc]
        BY <1>5 DEF MutateBackend, EntryRemoval
    <2> QED BY <1>1, <2>1, MovesStay DEF TypeInv
<1>6. ASSUME NEW m \in Mutators, FinishMutation(m) PROVE FALSE
    <2>1. PICK q \in Digests, k \in {1, 2} : Leaves(m, q, k)
        BY <1>6, FinishLeaves
    <2>2. Inside(d, 1)' \subseteq Inside(d, 1)
        BY <2>1 DEF Leaves
    <2> QED BY <2>2
<1>7. ASSUME ReadStep \/ FillStep \/ CloseStep \/ UNCHANGED vars PROVE mut' = mut
    BY <1>7 DEF ReadStep, OpenCached, OpenExpired, RegisterReader, CloseReader, ReleaseEntry,
                FillStep, JoinNewFlight, OpenCanonical, GiveUpFill, StartPrepare, EvictForRoom,
                RoomRefused, ReserveFill, PublishFill, PublishRenameError, PublishMetadataError,
                AbortFill, CloseStep, MarkClosed, CloseCacheRoot, Terminated, vars
<1>8. BeginKeyMutation(d)
    BY <1>2, <1>3, <1>4, <1>5, <1>6, <1>7 DEF Next, MutationStep
<1> QED BY <1>8, BeginKeyMutationLeaves, BeginKeyMutationProceeds DEF TypeInv

\* What a publication leaves servable was servable before or comes from a valid fill.
LEMMA PublishedFrom ==
    ASSUME TypeInv, [Next]_vars, NEW d \in Digests, Servable(d)'
    PROVE  \/ Servable(d) /\ entries'[d].epoch = entries[d].epoch
           \/ /\ fills[d].phase = "prepared" /\ ~fills[d].invalid /\ ~fills[d].blocked
              /\ entries'[d].epoch = fills[d].epoch
<1>1. CASE \A q \in Digests : ~Publishes(q)
    <2>1. EntriesOnlyLeave
        BY <1>1, OthersOnlyWithdraw
    <2> QED BY <2>1 DEF EntriesOnlyLeave, Servable
<1>2. ASSUME NEW q \in Digests, PublishFill(q)
      PROVE  \/ Servable(d) /\ entries'[d].epoch = entries[d].epoch
             \/ /\ fills[d].phase = "prepared" /\ ~fills[d].invalid /\ ~fills[d].blocked
                /\ entries'[d].epoch = fills[d].epoch
    <2>1. CASE q = d
        BY <1>2, <2>1 DEF PublishFill, FillValid, KeyTokenValid, TypeInv, TypeOK
    <2>2. CASE q # d
        BY <1>2, <2>2 DEF PublishFill, Servable, TypeInv, TypeOK
    <2> QED BY <2>1, <2>2
<1>3. ASSUME NEW q \in Digests, PublishMetadataError(q)
      PROVE  Servable(d) /\ entries'[d].epoch = entries[d].epoch
    <2>1. entries' = entries \/ \E e : e.evictPending /\ entries' = [entries EXCEPT ![q] = e]
        BY <1>3 DEF PublishMetadataError
    <2>2. entries'[d] = entries[d]
        BY <2>1 DEF Servable, TypeInv, TypeOK
    <2> QED BY <2>2 DEF Servable
<1> QED BY <1>1, <1>2, <1>3 DEF Publishes

\* Every step keeps the fence.
LEMMA FenceStep ==
    ASSUME TypeInv, RoomIsOpened, KeyUsers, Fence, [Next]_vars
    PROVE  Fence'
<1> SUFFICES ASSUME NEW d \in Digests PROVE FenceOf(d)'
    BY DEF Fence
<1>0. FenceOf(d)
    BY DEF Fence
<1>1. canon'[d] = canon[d] \/ Inside(d, 1) # {}
    BY CanonChangesInside
<1>2. \/ fills'[d].phase # "none" => fills'[d].phase = "opening"
         /\ (fills'[d].blocked \/ fills'[d].invalid \/ Inside(d, 1)' = {})
      \/ fills'[d].phase # "none" =>
            /\ fills[d].phase # "none"
            /\ fills[d].invalid => fills'[d].invalid
            /\ fills'[d].blocked = fills[d].blocked
            /\ fills[d].phase # "opening" => fills'[d].phase # "opening" /\ fills'[d].epoch = fills[d].epoch
            /\ fills[d].phase = "opening" /\ fills'[d].phase # "opening" =>
                  canon[d].exists /\ fills'[d].epoch = canon[d].epoch
    <2>1. CASE \A q \in Digests : ~JoinNewFlight(q)
        BY <2>1, OthersOnlyProceed DEF FillsOnlyProceed
    <2>2. ASSUME NEW q \in Digests, JoinNewFlight(q), q # d PROVE fills'[d] = fills[d]
        BY <2>2 DEF JoinNewFlight, TypeInv, TypeOK
    <2>3. ASSUME JoinNewFlight(d)
          PROVE  fills'[d].phase = "opening" /\ (fills'[d].blocked \/ Inside(d, 1)' = {})
        <3>1. fills'[d].phase = "opening" /\ fills'[d].blocked = (keyStates[d].mutations > 0)
            BY <2>3 DEF JoinNewFlight, TypeInv, TypeOK
        <3>2. Inside(d, 1)' = Inside(d, 1)
            BY <2>3 DEF JoinNewFlight, Inside
        <3>3. Inside(d, 1) # {} => Mutations(d) > 0
            BY InsideFinite DEF Mutations
        <3>4. keyStates[d].mutations = Mutations(d)
            BY DEF KeyUsers
        <3> QED BY <3>1, <3>2, <3>3, <3>4
    <2> QED BY <2>1, <2>2, <2>3
<1>3. Servable(d)' =>
        \/ Servable(d) /\ entries'[d].epoch = entries[d].epoch
        \/ /\ fills[d].phase = "prepared" /\ ~fills[d].invalid /\ ~fills[d].blocked
           /\ entries'[d].epoch = fills[d].epoch
    BY PublishedFrom
<1>4. Inside(d, 1) = {} /\ Inside(d, 1)' # {} =>
        ~Servable(d)' /\ (fills'[d].phase # "none" => fills'[d].invalid)
    BY MutationsFence DEF Servable
<1>5. Inside(d, 1)' # {} => ~Servable(d)'
    BY <1>0, <1>3, <1>4 DEF FenceOf
<1>6. Inside(d, 1)' # {} /\ fills'[d].phase # "none" => fills'[d].invalid \/ fills'[d].blocked
    BY <1>0, <1>2, <1>4 DEF FenceOf
<1>7. fills'[d].phase \notin {"none", "opening"} /\ ~fills'[d].invalid /\ ~fills'[d].blocked =>
          canon'[d].exists /\ fills'[d].epoch = canon'[d].epoch
    BY <1>0, <1>1, <1>2 DEF FenceOf
<1>8. Servable(d)' => canon'[d].exists /\ entries'[d].epoch = canon'[d].epoch
    BY <1>0, <1>1, <1>3 DEF FenceOf
<1> QED BY <1>5, <1>6, <1>7, <1>8 DEF FenceOf

\* The inductive invariant of the coherence theorem.
CoherenceInv == TypeInv /\ RoomIsOpened /\ KeyUsers /\ Fence

\* The cache never serves an object that the store has overwritten or deleted, or is
\* overwriting or deleting, however fills, reads, evictions and Close interleave with
\* any number of Puts and Deletes and whatever file operations fail.
THEOREM ServesCurrent == Spec => []ServableIsCurrent
<1>1. Init => CoherenceInv
    <2>1. Init => Fence
        BY DEF Init, InitMemory, Fence, FenceOf, Servable, Inside, NoEntry, NoFill, NoMutation
    <2> QED BY <2>1, TypeInit, KeyInit DEF CoherenceInv
<1>2. CoherenceInv /\ [Next]_vars => CoherenceInv'
    BY TypeStep, RoomStep, KeyStep, FenceStep DEF CoherenceInv
<1>3. CoherenceInv => ServableIsCurrent
    BY DEF CoherenceInv, Fence, FenceOf, Servable, ServableIsCurrent
<1> QED BY <1>1, <1>2, <1>3, PTL DEF Spec

-----------------------------------------------------------------------------
(* Cached or being filled, never both *)

(* No step lets a fill and an entry of one digest coexist: publishing ends the
   fill in the same critical section, joining requires the entry's absence. *)
LEMMA ExclusionStep ==
    ASSUME TypeInv, RoomIsOpened, FillExcludesEntry, [Next]_vars
    PROVE  FillExcludesEntry'
<1> SUFFICES ASSUME NEW d \in Digests, entries'[d].present, fills'[d].phase # "none"
             PROVE  FALSE
    BY DEF FillExcludesEntry, Present, Filling
<1>0. ~(entries[d].present /\ fills[d].phase # "none")
    BY DEF FillExcludesEntry, Present, Filling
<1>1. ASSUME NEW q \in Digests, Publishes(q) PROVE FALSE
    <2>1. EndFillLocked(q)
        BY <1>1 DEF Publishes, PublishFill, PublishMetadataError
    <2>2. fills' = [fills EXCEPT ![q] = NoFill]
        BY <2>1 DEF EndFillLocked
    <2>3. q # d /\ fills'[d] = fills[d]
        BY <2>2 DEF TypeInv, TypeOK, NoFill
    <2>4. entries' = entries \/ \E e : entries' = [entries EXCEPT ![q] = e]
        BY <1>1 DEF Publishes, PublishFill, PublishMetadataError
    <2>5. entries'[d] = entries[d]
        BY <2>3, <2>4 DEF TypeInv, TypeOK
    <2> QED BY <1>0, <2>3, <2>5
<1>2. ASSUME NEW q \in Digests, JoinNewFlight(q) PROVE FALSE
    <2>1. entries' = entries /\ ~entries[q].present
        BY <1>2 DEF JoinNewFlight
    <2>2. q # d => fills'[d] = fills[d]
        BY <1>2 DEF JoinNewFlight, TypeInv, TypeOK
    <2> QED BY <1>0, <2>1, <2>2
<1>3. CASE (\A q \in Digests : ~Publishes(q)) /\ (\A q \in Digests : ~JoinNewFlight(q))
    <2>1. EntriesOnlyLeave /\ FillsOnlyProceed
        BY <1>3, OthersOnlyWithdraw, OthersOnlyProceed
    <2> QED BY <1>0, <2>1 DEF EntriesOnlyLeave, FillsOnlyProceed
<1> QED BY <1>1, <1>2, <1>3

\* No digest is ever cached and being filled at once, so that publishing never
\* replaces the file under an entry.
THEOREM FillsExclude == Spec => []FillExcludesEntry
<1> DEFINE Inv == TypeInv /\ RoomIsOpened /\ FillExcludesEntry
<1>1. Init => Inv
    <2>1. Init => FillExcludesEntry
        BY DEF Init, InitMemory, FillExcludesEntry, Present, NoEntry
    <2> QED BY <2>1, TypeInit, KeyInit
<1>2. Inv /\ [Next]_vars => Inv'
    BY TypeStep, RoomStep, ExclusionStep
<1>3. Inv => FillExcludesEntry
    OBVIOUS
<1> QED BY <1>1, <1>2, <1>3, PTL DEF Spec

-----------------------------------------------------------------------------
(* A file that is being read stays *)

\* PinnedEntryKept, seen from one digest.
PinsOf(d) ==
    /\ Pinning(d) # {} => entries[d].present /\ body[d] = entries[d].epoch
    /\ entries[d].present => entries[d].pins = Cardinality(Pinning(d))

AllPins == \A d \in Digests : PinsOf(d)

(* The pin property, said per reader, is the same as said per digest. *)
LEMMA PinsByDigest == TypeInv => (PinnedEntryKept <=> AllPins)
<1> SUFFICES ASSUME TypeInv PROVE PinnedEntryKept <=> AllPins
    OBVIOUS
<1>1. ASSUME PinnedEntryKept, NEW d \in Digests PROVE PinsOf(d)
    BY <1>1 DEF PinnedEntryKept, PinsOf, Pinning, Present
<1>2. ASSUME \A d \in Digests : PinsOf(d) PROVE PinnedEntryKept
    <2>1. ASSUME NEW r \in Readers, reader[r].pc # "idle"
          PROVE  entries[reader[r].digest].present
                 /\ body[reader[r].digest] = entries[reader[r].digest].epoch
        <3>1. reader[r].digest \in Digests
            BY <2>1 DEF TypeInv, CallsTyped
        <3>2. r \in Pinning(reader[r].digest)
            BY <2>1 DEF Pinning
        <3> QED BY <1>2, <3>1, <3>2 DEF PinsOf
    <2>2. \A d \in Present : entries[d].pins = Cardinality(Pinning(d))
        BY <1>2 DEF PinsOf, Present
    <2> QED BY <2>1, <2>2 DEF PinnedEntryKept
<1> QED BY <1>1, <1>2 DEF AllPins

\* The readers of a file can be counted.
LEMMA PinningFinite ==
    ASSUME NEW d
    PROVE  /\ IsFiniteSet(Pinning(d))
           /\ Cardinality(Pinning(d)) \in Nat
           /\ Cardinality(Pinning(d)) = 0 <=> Pinning(d) = {}
<1>1. Pinning(d) \in SUBSET Readers
    BY DEF Pinning
<1>2. IsFiniteSet(Pinning(d))
    BY <1>1, FS_Subset, ModelAssumption
<1> QED BY <1>2, FS_CardinalityType, FS_EmptySet

\* What a step may do to a digest without a reader coming or going: leave entry and
\* body alone, or anything, when there is no entry or nobody reads it.
Undisturbed(d) ==
    /\ Pinning(d)' = Pinning(d)
    /\ \/ /\ entries'[d].present = entries[d].present /\ entries'[d].pins = entries[d].pins
          /\ entries'[d].epoch = entries[d].epoch /\ body'[d] = body[d]
       \/ /\ ~entries[d].present \/ entries[d].pins = 0
          /\ entries'[d].present => entries'[d].pins = 0

(* A step that leaves a digest undisturbed keeps its pins exact. *)
LEMMA UndisturbedKeeps ==
    ASSUME NEW d \in Digests, PinsOf(d), Undisturbed(d)
    PROVE  PinsOf(d)'
<1>1. CASE /\ entries'[d].present = entries[d].present /\ entries'[d].pins = entries[d].pins
           /\ entries'[d].epoch = entries[d].epoch /\ body'[d] = body[d]
    BY <1>1 DEF PinsOf, Undisturbed
<1>2. CASE /\ ~entries[d].present \/ entries[d].pins = 0
           /\ entries'[d].present => entries'[d].pins = 0
    <2>1. Pinning(d) = {}
        BY <1>2, PinningFinite DEF PinsOf
    <2>2. Pinning(d)' = {} /\ Cardinality(Pinning(d)') = 0
        BY <2>1, FS_EmptySet DEF Undisturbed
    <2> QED BY <1>2, <2>2 DEF PinsOf
<1> QED BY <1>1, <1>2 DEF Undisturbed

\* removeEntryLocked of an unpinned entry touches no other digest.
LEMMA RemoveEntryPins ==
    ASSUME TypeOK, NEW d \in Digests, NEW e \in Entry, NEW s, RemoveEntryLocked(d, e, s),
           e.pins = 0
    PROVE  /\ entries'[d].present => entries'[d].pins = 0
           /\ \A q \in Digests : q # d => entries'[q] = entries[q] /\ body'[q] = body[q]
<1>1. \A q \in Digests : q # d => entries'[q] = entries[q] /\ body'[q] = body[q]
    BY DEF RemoveEntryLocked, TypeOK
<1>2. CASE entries' = [entries EXCEPT ![d] = NoEntry]
    BY <1>1, <1>2 DEF TypeOK, NoEntry
<1>3. CASE entries' = [entries EXCEPT ![d] = [e EXCEPT !.evictPending = TRUE]]
    BY <1>1, <1>3 DEF TypeOK, Entry
<1> QED BY <1>2, <1>3 DEF RemoveEntryLocked

(* markEntryExpiredLocked disturbs no pinned digest: it removes only at pins 0. *)
LEMMA MarkEvictedPins ==
    ASSUME TypeOK, NEW d \in Digests, NEW s, MarkEvicted(d, s), reader' = reader
    PROVE  \A q \in Digests : Undisturbed(q)
<1>1. PICK e \in Entry : e = [entries[d] EXCEPT !.evictPending = TRUE]
    BY DEF TypeOK, Entry
<1>2. e.present = entries[d].present /\ e.pins = entries[d].pins /\ e.epoch = entries[d].epoch
    BY <1>1 DEF TypeOK, Entry
<1>3. \A q \in Digests : Pinning(q)' = Pinning(q)
    BY DEF Pinning
<1>4. CASE e.pins = 0
    <2>1. RemoveEntryLocked(d, e, s)
        BY <1>1, <1>4 DEF MarkEvicted
    <2> QED BY <1>2, <1>3, <1>4, <2>1, RemoveEntryPins DEF Undisturbed
<1>5. CASE e.pins # 0
    <2>1. entries' = [entries EXCEPT ![d] = e] /\ body' = body
        BY <1>1, <1>5 DEF MarkEvicted
    <2> QED BY <1>2, <1>3, <2>1 DEF TypeOK, Undisturbed
<1> QED BY <1>4, <1>5

\* Opening and releasing a cached file are counted.
LEMMA OpenPins ==
    ASSUME TypeInv, NEW r \in Readers, NEW d \in Digests, OpenCached(r, d),
           \A q \in Digests : PinsOf(q)
    PROVE  \A q \in Digests : PinsOf(q)'
<1>1. /\ entries' = [entries EXCEPT ![d].pins = @ + 1]
      /\ reader' = [reader EXCEPT ![r] = [pc |-> "opened", digest |-> d]]
      /\ entries[d].present /\ body[d] = entries[d].epoch /\ body' = body
      /\ reader[r].pc = "idle"
    BY DEF OpenCached, fileVars
<1>2. Pinning(d)' = Pinning(d) \cup {r} /\ r \notin Pinning(d)
    BY <1>1 DEF Pinning, TypeInv, TypeOK
<1>3. Cardinality(Pinning(d)') = Cardinality(Pinning(d)) + 1
    BY <1>2, PinningFinite, FS_AddElement
<1>4. /\ entries'[d].present = entries[d].present /\ entries'[d].pins = entries[d].pins + 1
      /\ entries'[d].epoch = entries[d].epoch
    BY <1>1 DEF TypeInv, TypeOK, Entry
<1>5. PinsOf(d)'
    BY <1>1, <1>3, <1>4 DEF PinsOf
<1>6. ASSUME NEW q \in Digests, q # d PROVE PinsOf(q)'
    <2>1. entries'[q] = entries[q] /\ body'[q] = body[q]
        BY <1>1, <1>6 DEF TypeInv, TypeOK
    <2>2. Pinning(q)' = Pinning(q)
        BY <1>1, <1>6 DEF Pinning, TypeInv, TypeOK
    <2> QED BY <2>1, <2>2 DEF PinsOf
<1> QED BY <1>5, <1>6

(* releaseEntry drops one pin and one reader together. *)
LEMMA ReleasePins ==
    ASSUME TypeInv, NEW r \in Readers, ReleaseEntry(r), \A q \in Digests : PinsOf(q)
    PROVE  \A q \in Digests : PinsOf(q)'
<1>1. PICK d \in Digests : d = reader[r].digest
    BY DEF ReleaseEntry, TypeInv, CallsTyped
<1>2. reader[r].pc = "releasing" /\ reader' = [reader EXCEPT ![r] = NoReader]
    BY DEF ReleaseEntry
<1>3. r \in Pinning(d) /\ Pinning(d)' = Pinning(d) \ {r}
    BY <1>1, <1>2 DEF Pinning, TypeInv, TypeOK, NoReader
<1>4. \A q \in Digests : q # d => Pinning(q)' = Pinning(q)
    BY <1>1, <1>2 DEF Pinning, TypeInv, TypeOK, NoReader
<1>5. entries[d].present /\ body[d] = entries[d].epoch /\ entries[d].pins = Cardinality(Pinning(d))
    BY <1>3 DEF PinsOf
<1>6. Cardinality(Pinning(d)') = entries[d].pins - 1 /\ entries[d].pins > 0
    <2>1. Cardinality(Pinning(d)') = Cardinality(Pinning(d)) - 1
        BY <1>3, PinningFinite, FS_RemoveElement
    <2>2. Cardinality(Pinning(d)) \in Nat /\ Cardinality(Pinning(d)) # 0
        BY <1>3, PinningFinite
    <2> QED BY <1>5, <2>1, <2>2
<1>7. PICK e : e = [entries[d] EXCEPT !.pins = IF @ > 0 THEN @ - 1 ELSE @]
    OBVIOUS
<1>8. e \in Entry
    BY <1>7, ReleasedPin DEF TypeInv, TypeOK
<1>9. e.present /\ e.pins = entries[d].pins - 1 /\ e.epoch = entries[d].epoch
    BY <1>5, <1>6, <1>7 DEF TypeInv, TypeOK, Entry
<1>10. CASE entries[d].present /\ e.pins = 0 /\ e.evictPending /\ ~lockReleased
    <2>1. RemoveEntryLocked(d, e, lru)
        BY <1>1, <1>7, <1>10 DEF ReleaseEntry
    <2>2. /\ entries'[d].present => entries'[d].pins = 0
          /\ \A q \in Digests : q # d => entries'[q] = entries[q] /\ body'[q] = body[q]
        BY <1>8, <1>10, <2>1, RemoveEntryPins DEF TypeInv
    <2>3. Cardinality(Pinning(d)') = 0 /\ Pinning(d)' = {}
        <3>1. Cardinality(Pinning(d)') = 0
            BY <1>6, <1>9, <1>10
        <3>2. IsFiniteSet(Pinning(d) \ {r})
            BY PinningFinite, FS_RemoveElement
        <3> QED BY <1>3, <3>1, <3>2, FS_EmptySet
    <2> QED BY <1>4, <2>2, <2>3 DEF PinsOf
<1>11. CASE ~(entries[d].present /\ e.pins = 0 /\ e.evictPending /\ ~lockReleased)
    <2>1. entries' = [entries EXCEPT ![d] = e] /\ body' = body
        BY <1>1, <1>5, <1>7, <1>11 DEF ReleaseEntry
    <2> QED BY <1>4, <1>5, <1>6, <1>9, <2>1 DEF PinsOf, TypeInv, TypeOK
<1> QED BY <1>10, <1>11

\* Every other step leaves the readers and what they read alone.
LEMMA OthersUndisturbed ==
    ASSUME TypeInv, FillExcludesEntry, [Next]_vars, NEW x \in Digests,
           \A r \in Readers, d \in Digests : ~OpenCached(r, d),
           \A r \in Readers : ~ReleaseEntry(r)
    PROVE  Undisturbed(x)
<1>0. entries' = entries /\ body' = body /\ reader' = reader => Undisturbed(x)
    BY DEF Undisturbed, Pinning
<1>1. ASSUME NEW d \in Digests, OpenExpired(d) PROVE Undisturbed(x)
    BY <1>1, MarkEvictedPins DEF OpenExpired, TypeInv
<1>2. ASSUME NEW r \in Readers, RegisterReader(r) \/ CloseReader(r) PROVE Undisturbed(x)
    <2>1. PICK pc \in {"reading", "releasing"} : reader' = [reader EXCEPT ![r].pc = pc]
        BY <1>2 DEF RegisterReader, CloseReader
    <2>2. reader[r].pc # "idle" /\ entries' = entries /\ body' = body
        BY <1>2 DEF RegisterReader, CloseReader, fileVars
    <2>3. Pinning(x)' = Pinning(x)
        BY <2>1, <2>2 DEF Pinning, TypeInv, TypeOK, Reader
    <2> QED BY <2>2, <2>3 DEF Undisturbed
<1>3. ASSUME NEW d \in Digests, BeginKeyMutation(d) PROVE Undisturbed(x)
    <2>1. CASE entries[d].present
        BY <1>3, <2>1, MarkEvictedPins DEF BeginKeyMutation, TypeInv
    <2>2. CASE ~entries[d].present
        BY <1>0, <1>3, <2>2 DEF BeginKeyMutation
    <2> QED BY <2>1, <2>2
<1>4. ASSUME NEW m \in Mutators, PutEvict(m) PROVE Undisturbed(x)
    <2>1. PICK d \in Digests : d = mut[m].digest
        BY <1>4 DEF PutEvict, TypeInv, CallsTyped
    <2>2. BeginKeyMutation(d) \/ (entries' = entries /\ body' = body /\ reader' = reader)
        BY <1>4, <2>1 DEF PutEvict, fileVars
    <2> QED BY <1>0, <1>3, <2>2
<1>5. ASSUME NEW d \in Digests, NEW e \in Entry, NEW s, RemoveEntryLocked(d, e, s),
             e = entries[d], e.pins = 0, reader' = reader
      PROVE  Undisturbed(x)
    <2>1. Pinning(x)' = Pinning(x)
        BY <1>5 DEF Pinning
    <2> QED BY <1>5, <2>1, RemoveEntryPins DEF Undisturbed, TypeInv
<1>6. ASSUME NEW m \in Mutators, EntryRemoval(m) PROVE Undisturbed(x)
    <2>1. PICK d \in Digests : d = mut[m].digest
        BY <1>6 DEF EntryRemoval, TypeInv, CallsTyped
    <2>2. PICK e \in Entry : e = entries[d]
        BY DEF TypeInv, TypeOK
    <2>3. /\ reader' = reader
          /\ (entries' = entries /\ body' = body) \/ (e.pins = 0 /\ RemoveEntryLocked(d, e, lru))
        BY <1>6, <2>1, <2>2 DEF EntryRemoval
    <2> QED BY <1>0, <1>5, <2>2, <2>3
<1>7. ASSUME EvictForRoom PROVE Undisturbed(x)
    <2>1. PICK i \in 1..Len(lru) :
             OldestUnpinned(i) /\ RemoveEntryLocked(lru[i], entries[lru[i]], Rotated(i))
        BY <1>7 DEF EvictForRoom
    <2>2. PICK d \in Digests : d = lru[i]
        BY ElementOfSeq DEF TypeInv, TypeOK
    <2>3. PICK e \in Entry : e = entries[d]
        BY DEF TypeInv, TypeOK
    <2>4. PICK s : s = Rotated(i)
        OBVIOUS
    <2>5. RemoveEntryLocked(d, e, s) /\ e.pins = 0
        BY <2>1, <2>2, <2>3, <2>4 DEF OldestUnpinned
    <2>6. reader' = reader
        BY <1>7 DEF EvictForRoom
    <2> QED BY <1>5, <2>3, <2>5, <2>6
<1>8. ASSUME NEW d \in Digests, Publishes(d) PROVE Undisturbed(x)
    <2>1. fills[d].phase = "prepared" /\ reader' = reader
        BY <1>8 DEF Publishes, PublishFill, PublishMetadataError
    <2>2. ~entries[d].present
        BY <2>1 DEF FillExcludesEntry, Present, Filling
    <2>3. \/ entries' = entries
          \/ \E e : e.pins = 0 /\ entries' = [entries EXCEPT ![d] = e]
        BY <1>8 DEF Publishes, PublishFill, PublishMetadataError
    <2>4. \E b : body' = [body EXCEPT ![d] = b]
        BY <1>8 DEF Publishes, PublishFill, PublishMetadataError
    <2>5. Pinning(x)' = Pinning(x)
        BY <2>1 DEF Pinning
    <2> QED BY <2>2, <2>3, <2>4, <2>5 DEF Undisturbed, TypeInv, TypeOK
<1>9. ASSUME ReadStep PROVE Undisturbed(x)
    BY <1>1, <1>2, <1>9 DEF ReadStep
<1>10. ASSUME MutationStep PROVE Undisturbed(x)
    BY <1>0, <1>3, <1>4, <1>6, <1>10
       DEF MutationStep, BeginMutation, MutateBackend, FinishMutation, fileVars
<1>11. ASSUME FillStep PROVE Undisturbed(x)
    BY <1>0, <1>7, <1>8, <1>11
       DEF FillStep, Publishes, JoinNewFlight, OpenCanonical, GiveUpFill, StartPrepare,
           RoomRefused, ReserveFill, PublishRenameError, AbortFill, fileVars
<1>12. ASSUME CloseStep \/ UNCHANGED vars PROVE Undisturbed(x)
    BY <1>0, <1>12 DEF CloseStep, MarkClosed, CloseCacheRoot, Terminated, vars, fileVars
<1> QED BY <1>9, <1>10, <1>11, <1>12 DEF Next

\* A reader that has a cached file open keeps the file and its entry until it is
\* closed, and the pins of an entry are its readers: no eviction, mutation, expiry or
\* fill takes a file away under a reader, for any number of them.
THEOREM ReadersKeepFiles == Spec => []PinnedEntryKept
<1> DEFINE Inv == TypeInv /\ RoomIsOpened /\ FillExcludesEntry /\ PinnedEntryKept
<1>1. Init => Inv
    <2>1. Init => FillExcludesEntry /\ PinnedEntryKept
        BY DEF Init, InitMemory, FillExcludesEntry, PinnedEntryKept, Present, NoEntry, NoReader
    <2> QED BY <2>1, TypeInit, KeyInit
<1>2. Inv /\ [Next]_vars => Inv'
    <2> SUFFICES ASSUME Inv, [Next]_vars PROVE Inv'
        OBVIOUS
    <2>1. TypeInv' /\ RoomIsOpened' /\ FillExcludesEntry'
        BY TypeStep, RoomStep, ExclusionStep
    <2>2. \A d \in Digests : PinsOf(d)
        BY PinsByDigest DEF AllPins
    <2>3. \A d \in Digests : PinsOf(d)'
        <3>1. ASSUME NEW r \in Readers, NEW q \in Digests, OpenCached(r, q)
              PROVE  \A d \in Digests : PinsOf(d)'
            BY <2>2, <3>1, OpenPins
        <3>2. ASSUME NEW r \in Readers, ReleaseEntry(r) PROVE \A d \in Digests : PinsOf(d)'
            BY <2>2, <3>2, ReleasePins
        <3>3. CASE /\ \A r \in Readers, q \in Digests : ~OpenCached(r, q)
                   /\ \A r \in Readers : ~ReleaseEntry(r)
            BY <2>2, <3>3, OthersUndisturbed, UndisturbedKeeps
        <3> QED BY <3>1, <3>2, <3>3
    <2>4. PinnedEntryKept'
        <3>1. AllPins'
            BY <2>3 DEF AllPins
        <3> QED BY <2>1, <3>1, PinsByDigest, PTL
    <2> QED BY <2>1, <2>4
<1>3. Inv => PinnedEntryKept
    OBVIOUS
<1> QED BY <1>1, <1>2, <1>3, PTL DEF Spec

-----------------------------------------------------------------------------
(* Sizes of sets of objects *)

\* The bytes of finitely many objects can be counted.
LEMMA BytesFinite ==
    ASSUME NEW S \in SUBSET Digests
    PROVE  IsFiniteSet(S) /\ IsFiniteSet(ObjectBytes(S)) /\ TotalSize(S) \in Nat
<1>1. IsFiniteSet(S)
    BY ModelAssumption, FS_Subset
<1> DEFINE Part(d) == {d} \X (1 .. Size[d])
<1>2. \A d \in S : IsFiniteSet(Part(d))
    <2> TAKE d \in S
    <2>1. Size[d] \in Nat
        BY ModelAssumption
    <2>2. IsFiniteSet(1 .. Size[d])
        BY <2>1, FS_Interval
    <2>3. IsFiniteSet({d})
        BY FS_Singleton
    <2> QED BY <2>2, <2>3, FS_Product
<1>3. IsFiniteSet({Part(d) : d \in S})
    <2> DEFINE Parts == {Part(d) : d \in S}
    <2>1. [d \in S |-> Part(d)] \in Surjection(S, Parts)
        BY DEF Surjection
    <2> QED BY <1>1, <2>1, FS_Surjection
<1>4. IsFiniteSet(UNION {Part(d) : d \in S})
    BY <1>2, <1>3, FS_UNION
<1>5. IsFiniteSet(ObjectBytes(S))
    BY <1>4 DEF ObjectBytes
<1> QED BY <1>1, <1>5, FS_CardinalityType DEF TotalSize

LEMMA NothingHasNoBytes == TotalSize({}) = 0
<1>1. ObjectBytes({}) = {}
    BY DEF ObjectBytes
<1> QED BY <1>1, FS_EmptySet DEF TotalSize

\* One more object adds its size.
LEMMA SizeAdds ==
    ASSUME NEW S \in SUBSET Digests, NEW d \in Digests, d \notin S
    PROVE  TotalSize(S \cup {d}) = TotalSize(S) + Size[d]
<1> DEFINE P == {d} \X (1 .. Size[d])
<1>1. ObjectBytes(S \cup {d}) = ObjectBytes(S) \cup P
    BY DEF ObjectBytes
<1>2. ObjectBytes(S) \cap P = {}
    BY DEF ObjectBytes
<1>3. Size[d] \in Nat
    BY ModelAssumption
<1>4. IsFiniteSet(P) /\ Cardinality(P) = Size[d]
    <2>1. IsFiniteSet({d}) /\ Cardinality({d}) = 1
        BY FS_Singleton
    <2>2. IsFiniteSet(1 .. Size[d]) /\ Cardinality(1 .. Size[d]) = Size[d]
        BY <1>3, FS_Interval
    <2>3. IsFiniteSet(P) /\ Cardinality(P) = Cardinality({d}) * Cardinality(1 .. Size[d])
        BY <2>1, <2>2, FS_Product
    <2> QED BY <1>3, <2>1, <2>2, <2>3
<1>5. Cardinality(ObjectBytes(S) \cup P) = Cardinality(ObjectBytes(S)) + Cardinality(P) - Cardinality({})
    BY <1>2, <1>4, BytesFinite, FS_Union
<1>6. Cardinality({}) = 0
    BY FS_EmptySet
<1>7. Cardinality(ObjectBytes(S)) \in Nat
    BY BytesFinite DEF TotalSize
<1>8. Cardinality(ObjectBytes(S) \cup P) = Cardinality(ObjectBytes(S)) + Size[d]
    <2> DEFINE n == Cardinality(ObjectBytes(S))  all == Cardinality(ObjectBytes(S) \cup P)
    <2>1. all = n + Size[d] - 0 /\ n \in Nat
        BY <1>4, <1>5, <1>6, <1>7
    <2> HIDE DEF n, all
    <2>2. all = n + Size[d]
        BY <1>3, <2>1
    <2> QED BY <2>2 DEF n, all
<1> QED BY <1>1, <1>8 DEF TotalSize

LEMMA SizeLeaves ==
    ASSUME NEW S \in SUBSET Digests, NEW d \in S
    PROVE  TotalSize(S \ {d}) = TotalSize(S) - Size[d] /\ Size[d] <= TotalSize(S) /\ Size[d] \in Nat
<1>1. S \ {d} \in SUBSET Digests /\ d \in Digests /\ d \notin S \ {d} /\ (S \ {d}) \cup {d} = S
    OBVIOUS
<1>2. TotalSize(S) = TotalSize(S \ {d}) + Size[d]
    BY <1>1, SizeAdds
<1> QED BY <1>1, <1>2, BytesFinite, ModelAssumption

LEMMA SizeAtMost ==
    ASSUME NEW S \in SUBSET Digests, NEW d \in Digests
    PROVE  TotalSize(S \cup {d}) <= TotalSize(S) + Size[d]
<1>1. CASE d \in S
    <2>1. S \cup {d} = S BY <1>1
    <2> QED BY <2>1, BytesFinite, ModelAssumption
<1>2. CASE d \notin S
    BY <1>2, SizeAdds, BytesFinite, ModelAssumption
<1> QED BY <1>1, <1>2

-----------------------------------------------------------------------------
(* The recency list names each entry once *)

Lists(s, S) ==
    /\ s \in Seq(Digests)
    /\ \A i, j \in 1 .. Len(s) : s[i] = s[j] => i = j
    /\ {s[i] : i \in 1 .. Len(s)} = S

LEMMA ListLength ==
    ASSUME NEW s, NEW S, Lists(s, S)
    PROVE  IsFiniteSet(S) /\ Len(s) = Cardinality(S) /\ Len(s) \in Nat
<1>1. Len(s) \in Nat /\ s \in [1 .. Len(s) -> Digests] /\ DOMAIN s = 1 .. Len(s)
    BY LenProperties DEF Lists
<1>2. s \in [1 .. Len(s) -> S]
    BY <1>1 DEF Lists
<1>3. s \in Bijection(1 .. Len(s), S)
    BY <1>2 DEF Lists, Bijection, Injection, IsInjective, Surjection
<1>4. ExistsBijection(1 .. Len(s), S)
    BY <1>3 DEF ExistsBijection
<1>5. IsFiniteSet(1 .. Len(s)) /\ Cardinality(1 .. Len(s)) = Len(s)
    BY <1>1, FS_Interval
<1> QED BY <1>1, <1>4, <1>5, FS_Bijection

\* A list without the position i.
LEMMA ListCut ==
    ASSUME NEW s, NEW S, Lists(s, S), NEW i \in 1 .. Len(s)
    PROVE  Lists(SubSeq(s, 1, i - 1) \o SubSeq(s, i + 1, Len(s)), S \ {s[i]})
<1> DEFINE n == Len(s)  x == SubSeq(s, 1, i - 1)  y == SubSeq(s, i + 1, n)  t == x \o y
<1>1. n \in Nat /\ \A j \in 1 .. n : s[j] \in Digests
    BY LenProperties, ElementOfSeq DEF Lists
<1>2. x \in Seq(Digests) /\ Len(x) = i - 1 /\ \A j \in 1 .. i - 1 : x[j] = s[j]
    <2>1. \A j \in 1 .. i - 1 : s[j] \in Digests BY <1>1
    <2>2. x \in Seq(Digests) /\ Len(x) = (IF 1 <= i - 1 THEN i - 1 - 1 + 1 ELSE 0)
          /\ \A j \in 1 .. (i - 1) - 1 + 1 : x[j] = s[1 + j - 1]
        BY <1>1, <2>1, SubSeqProperties
    <2> QED BY <1>1, <2>2
<1>3. y \in Seq(Digests) /\ Len(y) = n - i /\ \A j \in 1 .. n - i : y[j] = s[i + j]
    <2>1. \A j \in i + 1 .. n : s[j] \in Digests BY <1>1
    <2>2. y \in Seq(Digests) /\ Len(y) = (IF i + 1 <= n THEN n - (i + 1) + 1 ELSE 0)
          /\ \A j \in 1 .. n - (i + 1) + 1 : y[j] = s[i + 1 + j - 1]
        BY <1>1, <2>1, SubSeqProperties
    <2> QED BY <1>1, <2>2
<1>4. t \in Seq(Digests) /\ Len(t) = n - 1
      /\ \A j \in 1 .. n - 1 : t[j] = IF j < i THEN s[j] ELSE s[j + 1]
    <2>1. t \in Seq(Digests) /\ Len(t) = Len(x) + Len(y)
          /\ \A j \in 1 .. Len(x) + Len(y) : t[j] = IF j <= Len(x) THEN x[j] ELSE y[j - Len(x)]
        BY <1>2, <1>3, ConcatProperties
    <2>0. i \in 1 .. n OBVIOUS
    <2> HIDE DEF x, y, t, n
    <2>2. Len(x) + Len(y) = n - 1 BY <1>1, <1>2, <1>3, <2>0
    <2>3. ASSUME NEW j \in 1 .. n - 1 PROVE t[j] = IF j < i THEN s[j] ELSE s[j + 1]
        <3>1. CASE j < i
            <4>1. j \in 1 .. i - 1 /\ j <= Len(x) /\ j \in 1 .. Len(x) + Len(y) BY <1>1, <1>2, <2>0, <2>2, <2>3, <3>1
            <4> QED BY <1>2, <2>1, <3>1, <4>1
        <3>2. CASE ~(j < i)
            <4>1. j - (i - 1) \in 1 .. n - i /\ i + (j - (i - 1)) = j + 1 BY <1>1, <2>3, <3>2 DEF n
            <4> QED BY <1>1, <1>2, <1>3, <2>1, <2>2, <2>3, <3>2, <4>1
        <3> QED BY <3>1, <3>2
    <2> QED BY <2>1, <2>2, <2>3
<1>5. \A j, k \in 1 .. n : s[j] = s[k] => j = k
    BY DEF Lists
<1>6. S = {s[j] : j \in 1 .. n}
    BY DEF Lists
<1> HIDE DEF x, y, t, n
<1>7. \A j, k \in 1 .. Len(t) : t[j] = t[k] => j = k
    <2>1. i \in 1 .. n BY DEF n
    <2> SUFFICES ASSUME NEW j \in 1 .. n - 1, NEW k \in 1 .. n - 1, t[j] = t[k] PROVE j = k
        BY <1>1, <1>4
    <2>2. j \in 1 .. n /\ j + 1 \in 1 .. n /\ k \in 1 .. n /\ k + 1 \in 1 .. n BY <1>1
    <2>3. t[j] = (IF j < i THEN s[j] ELSE s[j + 1]) /\ t[k] = (IF k < i THEN s[k] ELSE s[k + 1]) BY <1>4
    <2>4. CASE j < i /\ k < i BY <1>5, <2>2, <2>3, <2>4
    <2>5. CASE j < i /\ ~(k < i)
        <3>1. j = k + 1 BY <1>5, <2>2, <2>3, <2>5
        <3> QED BY <2>1, <2>2, <2>5, <3>1
    <2>6. CASE ~(j < i) /\ k < i
        <3>1. j + 1 = k BY <1>5, <2>2, <2>3, <2>6
        <3> QED BY <2>1, <2>2, <2>6, <3>1
    <2>7. CASE ~(j < i) /\ ~(k < i)
        <3>1. j + 1 = k + 1 BY <1>5, <2>2, <2>3, <2>7
        <3> QED BY <2>2, <3>1
    <2> QED BY <2>4, <2>5, <2>6, <2>7
<1>8. ASSUME NEW j \in 1 .. Len(t) PROVE t[j] \in S \ {s[i]}
    <2>1. i \in 1 .. n BY DEF n
    <2>2. CASE j < i BY <1>1, <1>4, <1>5, <1>6, <1>8, <2>1, <2>2
    <2>3. CASE ~(j < i) BY <1>1, <1>4, <1>5, <1>6, <1>8, <2>1, <2>3
    <2> QED BY <2>2, <2>3
<1>9. ASSUME NEW d \in S \ {s[i]} PROVE \E j \in 1 .. Len(t) : t[j] = d
    <2>1. PICK k \in 1 .. n : s[k] = d BY <1>6, <1>9
    <2>2. k # i BY <1>9, <2>1
    <2>3. i \in 1 .. n BY DEF n
    <2>4. CASE k < i BY <1>1, <1>4, <2>1, <2>3, <2>4
    <2>5. CASE k > i
        <3>1. k - 1 \in 1 .. n - 1 /\ ~(k - 1 < i) /\ (k - 1) + 1 = k BY <1>1, <2>1, <2>3, <2>5
        <3> QED BY <1>1, <1>4, <2>1, <3>1
    <2> QED BY <1>1, <2>1, <2>2, <2>3, <2>4, <2>5
<1>10. {t[j] : j \in 1 .. Len(t)} = S \ {s[i]}
    BY <1>8, <1>9
<1>11. Lists(t, S \ {s[i]})
    BY <1>4, <1>7, <1>10 DEF Lists
<1> QED BY <1>11 DEF t, x, y, n

\* A list with one more digest at its end.
LEMMA ListAppend ==
    ASSUME NEW s, NEW S, Lists(s, S), NEW d \in Digests, d \notin S
    PROVE  Lists(Append(s, d), S \cup {d})
<1> DEFINE n == Len(s)  t == Append(s, d)
<1>1. n \in Nat /\ s \in Seq(Digests)
    BY LenProperties DEF Lists
<1>2. t \in Seq(Digests) /\ Len(t) = n + 1 /\ (\A j \in 1 .. n : t[j] = s[j]) /\ t[n + 1] = d
    BY <1>1, AppendProperties
<1>3. (\A j, k \in 1 .. n : s[j] = s[k] => j = k) /\ S = {s[j] : j \in 1 .. n}
    BY DEF Lists
<1> HIDE DEF t, n
<1>4. \A j \in 1 .. n : t[j] \in S /\ t[j] # d
    BY <1>2, <1>3
<1>5. \A j \in 1 .. Len(t) : j \in 1 .. n \/ j = n + 1
    BY <1>1, <1>2
<1>6. \A j, k \in 1 .. Len(t) : t[j] = t[k] => j = k
    BY <1>2, <1>3, <1>4, <1>5
<1>7. {t[j] : j \in 1 .. Len(t)} = S \cup {d}
    <2>1. 1 .. Len(t) = (1 .. n) \cup {n + 1} BY <1>1, <1>2
    <2> QED BY <1>2, <1>3, <2>1
<1>8. Lists(t, S \cup {d})
    BY <1>2, <1>6, <1>7 DEF Lists
<1> QED BY <1>8 DEF t

\* simplelru: Remove takes out one key, Get moves one, Add does not drop any while there is
\* room.
LEMMA ListRemove ==
    ASSUME NEW s, NEW S, Lists(s, S), NEW d \in S
    PROVE  Lists(LruRemove(s, d), S \ {d})
<1>1. Positions(s, d) # {} BY DEF Positions, Lists
<1> DEFINE i == CHOOSE i \in Positions(s, d) : TRUE
<1>2. i \in 1 .. Len(s) /\ s[i] = d BY <1>1 DEF Positions
<1>3. LruRemove(s, d) = SubSeq(s, 1, i - 1) \o SubSeq(s, i + 1, Len(s)) BY <1>1 DEF LruRemove
<1> HIDE DEF i
<1> QED BY <1>2, <1>3, ListCut

LEMMA ListGet ==
    ASSUME NEW s, NEW S \in SUBSET Digests, Lists(s, S), NEW d
    PROVE  Lists(LruGet(s, d), S)
<1>1. CASE Positions(s, d) = {} BY <1>1 DEF LruGet
<1>2. CASE Positions(s, d) # {}
    <2>1. d \in S BY <1>2 DEF Positions, Lists
    <2>2. Lists(LruRemove(s, d), S \ {d}) BY <2>1, ListRemove
    <2>3. Lists(Append(LruRemove(s, d), d), (S \ {d}) \cup {d}) BY <2>1, <2>2, ListAppend
    <2>4. (S \ {d}) \cup {d} = S BY <2>1
    <2> QED BY <1>2, <2>3, <2>4 DEF LruGet
<1> QED BY <1>1, <1>2

LEMMA ListAdd ==
    ASSUME NEW s, NEW S, Lists(s, S), NEW d \in Digests, d \notin S, Cardinality(S) < MaxEntries
    PROVE  Lists(LruAdd(s, d), S \cup {d})
<1>1. ~(Len(s) >= MaxEntries) BY ListLength, OptionsAssumption
<1> QED BY <1>1, ListAppend DEF LruAdd

LEMMA ListRotated ==
    ASSUME NEW S, Lists(lru, S), NEW i \in 1 .. Len(lru)
    PROVE  Lists(Rotated(i), S)
<1> DEFINE n == Len(lru)  x == SubSeq(lru, i, n)  y == SubSeq(lru, 1, i - 1)  t == x \o y  m == n - i + 1
<1>1. n \in Nat /\ i \in 1 .. n /\ \A j \in 1 .. n : lru[j] \in Digests
    BY LenProperties, ElementOfSeq DEF Lists
<1>2. x \in Seq(Digests) /\ Len(x) = m /\ \A j \in 1 .. m : x[j] = lru[i + j - 1]
    <2>1. \A j \in i .. n : lru[j] \in Digests BY <1>1
    <2>2. x \in Seq(Digests) /\ Len(x) = (IF i <= n THEN m ELSE 0)
          /\ \A j \in 1 .. m : x[j] = lru[i + j - 1]
        BY <1>1, <2>1, SubSeqProperties
    <2> QED BY <1>1, <2>2
<1>3. y \in Seq(Digests) /\ Len(y) = i - 1 /\ \A j \in 1 .. i - 1 : y[j] = lru[j]
    <2>1. \A j \in 1 .. i - 1 : lru[j] \in Digests BY <1>1
    <2>2. y \in Seq(Digests) /\ Len(y) = (IF 1 <= i - 1 THEN i - 1 - 1 + 1 ELSE 0)
          /\ \A j \in 1 .. (i - 1) - 1 + 1 : y[j] = lru[1 + j - 1]
        BY <1>1, <2>1, SubSeqProperties
    <2> QED BY <1>1, <2>2
<1>4. t \in Seq(Digests) /\ Len(t) = Len(x) + Len(y)
      /\ \A j \in 1 .. Len(x) + Len(y) : t[j] = IF j <= Len(x) THEN x[j] ELSE y[j - Len(x)]
    BY <1>2, <1>3, ConcatProperties
<1>5. (\A j, k \in 1 .. n : lru[j] = lru[k] => j = k) /\ S = {lru[j] : j \in 1 .. n}
    BY DEF Lists
<1> DEFINE at(j) == IF j <= m THEN i + j - 1 ELSE j - m
<1>6. m \in 1 .. n /\ m = n - i + 1 BY <1>1
<1> HIDE DEF x, y, t, n, m
<1>7. Len(t) = n BY <1>1, <1>2, <1>3, <1>4, <1>6
<1>8. \A j \in 1 .. n : at(j) \in 1 .. n BY <1>1, <1>6
<1>9. ASSUME NEW j \in 1 .. n PROVE t[j] = lru[at(j)]
    <2>1. j \in 1 .. Len(x) + Len(y) BY <1>4, <1>7
    <2>2. CASE j <= m
        <3>1. j \in 1 .. m BY <1>6, <2>2
        <3> QED BY <1>2, <1>4, <2>1, <2>2, <3>1
    <2>3. CASE ~(j <= m)
        <3>1. j - m \in 1 .. i - 1 BY <1>1, <1>6, <2>3
        <3> QED BY <1>2, <1>3, <1>4, <2>1, <2>3, <3>1
    <2> QED BY <2>2, <2>3
<1>10. \A j, k \in 1 .. n : at(j) = at(k) => j = k BY <1>1, <1>6
<1>11. \A k \in 1 .. n : \E j \in 1 .. n : at(j) = k
    <2> TAKE k \in 1 .. n
    <2>1. CASE k >= i
        <3>1. k - i + 1 \in 1 .. n /\ at(k - i + 1) = k BY <1>1, <1>6, <2>1
        <3> QED BY <3>1
    <2>2. CASE k < i
        <3>1. k + m \in 1 .. n /\ at(k + m) = k BY <1>1, <1>6, <2>2
        <3> QED BY <3>1
    <2> QED BY <1>1, <2>1, <2>2
<1> HIDE DEF at
<1>12. ASSUME NEW j \in 1 .. Len(t), NEW k \in 1 .. Len(t), t[j] = t[k] PROVE j = k
    <2>1. j \in 1 .. n /\ k \in 1 .. n BY <1>7, <1>12
    <2>2. lru[at(j)] = lru[at(k)] /\ at(j) \in 1 .. n /\ at(k) \in 1 .. n BY <1>8, <1>9, <1>12, <2>1
    <2>3. at(j) = at(k) BY <1>5, <2>2
    <2> QED BY <1>10, <2>1, <2>3
<1>13. {t[j] : j \in 1 .. Len(t)} = S
    <2>1. ASSUME NEW j \in 1 .. n PROVE t[j] \in S
        <3>1. t[j] = lru[at(j)] /\ at(j) \in 1 .. n BY <1>8, <1>9
        <3> QED BY <1>5, <3>1
    <2>2. ASSUME NEW d \in S PROVE \E j \in 1 .. n : t[j] = d
        <3>1. PICK k \in 1 .. n : lru[k] = d BY <1>5, <2>2
        <3>2. PICK j \in 1 .. n : at(j) = k BY <1>11
        <3> QED BY <1>9, <3>1, <3>2
    <2> QED BY <1>7, <2>1, <2>2
<1>14. Lists(t, S) BY <1>4, <1>12, <1>13 DEF Lists
<1> QED BY <1>14 DEF t, x, y, n, Rotated

-----------------------------------------------------------------------------
(* The accounts of a running store *)

\* A reserved fill has its place in the index: without this bound the list would drop a key
\* when the fill is published (simplelru's Add).
SlotsKept == Cardinality(Present) + Cardinality(Reserving) <= MaxEntries

Ledger == Lists(lru, Present) /\ BytesAccounted /\ SlotsKept /\ CapacityBound

BodiesIndexed == \A d \in Digests : body[d] # NoFile => d \in Present

\* What a step may do to the index without publishing.
Withdraws ==
    /\ Present' \subseteq Present
    /\ Lists(lru', Present')
    /\ bytes' = TotalSize(Present') /\ bytes' <= bytes
    /\ BodiesIndexed => BodiesIndexed'

\* The reservations, the orphans and the temporary files stay.
Spares ==
    /\ Reserving' = Reserving
    /\ UNCHANGED <<reserved, orphanedBytes, diskFillDisabled, temp, abandoned>>

LEMMA WithdrawingKeeps ==
    ASSUME TypeOK, Ledger, Withdraws, Spares
    PROVE  Ledger' /\ (DiskAccounted => DiskAccounted')
<1>1. IsFiniteSet(Present) /\ IsFiniteSet(Reserving)
    BY BytesFinite DEF Present, Reserving
<1>2. Cardinality(Present') <= Cardinality(Present) /\ Cardinality(Present') \in Nat
      /\ Cardinality(Present) \in Nat /\ Cardinality(Reserving) \in Nat
    BY <1>1, FS_Subset, FS_CardinalityType DEF Withdraws
<1>3. SlotsKept'
    BY <1>2, OptionsAssumption DEF Ledger, SlotsKept, Spares
<1>4. bytes' \in Nat /\ bytes \in Nat /\ reserved \in Nat /\ orphanedBytes \in Nat
    <2>1. Present' \in SUBSET Digests BY DEF Withdraws, Present
    <2> QED BY <2>1, BytesFinite DEF TypeOK, Withdraws
<1>5. CapacityBound'
    BY <1>4, OptionsAssumption DEF Ledger, CapacityBound, Withdraws, Spares
<1>6. BytesAccounted'
    BY DEF Ledger, BytesAccounted, Withdraws, Spares
<1>7. DiskAccounted => DiskAccounted'
    BY DEF DiskAccounted, Withdraws, Spares, BodiesIndexed
<1> QED BY <1>3, <1>5, <1>6, <1>7 DEF Ledger, Withdraws

LEMMA StayingWithdraws ==
    ASSUME TypeOK, Ledger, Present' = Present, Lists(lru', Present), UNCHANGED <<bytes, body>>
    PROVE  Withdraws
BY DEF Withdraws, Ledger, BytesAccounted, TypeOK, BodiesIndexed

\* Which entries there are after one of them changed.
LEMMA PresentAfter ==
    ASSUME TypeOK, NEW d \in Digests, NEW e \in Entry, entries' = [entries EXCEPT ![d] = e]
    PROVE  Present' = IF e.present THEN Present \cup {d} ELSE Present \ {d}
<1>1. entries'[d] = e /\ \A q \in Digests : q # d => entries'[q] = entries[q]
    BY DEF TypeOK
<1> QED BY <1>1 DEF Present

LEMMA MarkedEntry ==
    ASSUME NEW e \in Entry
    PROVE  [e EXCEPT !.evictPending = TRUE] \in Entry /\ [e EXCEPT !.evictPending = TRUE].present = e.present
           /\ NoEntry \in Entry /\ ~NoEntry.present
BY DEF Entry, NoEntry

\* removeEntryLocked, whichever of its file operations fail.
LEMMA RemoveEntryWithdraws ==
    ASSUME TypeOK, Ledger, NEW d \in Present, NEW e \in Entry, e.present, NEW s, Lists(s, Present),
           RemoveEntryLocked(d, e, s)
    PROVE  Withdraws
<1>0. d \in Digests /\ Present \in SUBSET Digests BY DEF Present
<1>1. CASE /\ entries' = [entries EXCEPT ![d] = NoEntry] /\ lru' = LruRemove(s, d)
           /\ bytes' = Minus(bytes, Size[d]) /\ body' = [body EXCEPT ![d] = NoFile]
    <2>1. Present' = Present \ {d} BY <1>0, <1>1, PresentAfter, MarkedEntry
    <2>2. Lists(lru', Present') BY <1>1, <2>1, ListRemove
    <2>3. bytes' = TotalSize(Present') /\ bytes' <= bytes
        <3>1. bytes = TotalSize(Present) BY DEF Ledger, BytesAccounted
        <3>2. TotalSize(Present \ {d}) = bytes - Size[d] /\ Size[d] <= bytes /\ Size[d] \in Nat /\ bytes \in Nat
            BY <1>0, <3>1, SizeLeaves, BytesFinite
        <3> QED BY <1>1, <2>1, <3>2 DEF Minus
    <2>4. BodiesIndexed => BodiesIndexed' BY <1>1, <2>1 DEF BodiesIndexed, TypeOK
    <2> QED BY <2>1, <2>2, <2>3, <2>4 DEF Withdraws
<1>2. CASE /\ entries' = [entries EXCEPT ![d] = [e EXCEPT !.evictPending = TRUE]] /\ lru' = s
           /\ bytes' = bytes /\ (body' = body \/ body' = [body EXCEPT ![d] = NoFile])
    <2>1. Present' = Present
        <3>1. Present' = Present \cup {d} BY <1>0, <1>2, PresentAfter, MarkedEntry
        <3> QED BY <3>1
    <2>2. BodiesIndexed => BodiesIndexed' BY <1>2, <2>1 DEF BodiesIndexed, TypeOK
    <2> QED BY <1>2, <2>1, <2>2 DEF Withdraws, Ledger, BytesAccounted, TypeOK
<1> QED BY <1>1, <1>2 DEF RemoveEntryLocked

LEMMA MarkEvictedWithdraws ==
    ASSUME TypeOK, Ledger, NEW d \in Present, NEW s, Lists(s, Present), MarkEvicted(d, s)
    PROVE  Withdraws
<1>0. d \in Digests /\ entries[d] \in Entry /\ entries[d].present BY DEF Present, TypeOK
<1>1. PICK e \in Entry : e = [entries[d] EXCEPT !.evictPending = TRUE] /\ e.present
    BY <1>0, MarkedEntry
<1>2. CASE e.pins = 0
    <2>1. RemoveEntryLocked(d, e, s) BY <1>1, <1>2 DEF MarkEvicted
    <2> QED BY <1>1, <2>1, RemoveEntryWithdraws
<1>3. CASE e.pins # 0
    <2>1. entries' = [entries EXCEPT ![d] = e] /\ lru' = s /\ UNCHANGED <<bytes, body>>
        BY <1>1, <1>3 DEF MarkEvicted
    <2>2. Present' = Present \cup {d} BY <1>0, <1>1, <2>1, PresentAfter
    <2>3. Present' = Present BY <2>2
    <2> QED BY <2>1, <2>3, StayingWithdraws
<1> QED BY <1>2, <1>3

LEMMA IdleWithdraws ==
    ASSUME TypeOK, Ledger, UNCHANGED <<entries, lru, bytes, body>>
    PROVE  Withdraws
<1>1. Present' = Present BY DEF Present
<1> QED BY <1>1, StayingWithdraws DEF Ledger

LEMMA ReadWithdraws ==
    ASSUME TypeInv, Ledger, ReadStep
    PROVE  Withdraws /\ Spares
<1> USE DEF TypeInv
<1>0. Lists(lru, Present) /\ Present \in SUBSET Digests BY DEF Ledger, Present
<1>1. Spares
    BY DEF ReadStep, OpenCached, OpenExpired, RegisterReader, CloseReader, ReleaseEntry, fileVars,
           Spares, Reserving
<1>2. ASSUME NEW r \in Readers, NEW d \in Digests, OpenCached(r, d) PROVE Withdraws
    <2>1. entries' = [entries EXCEPT ![d].pins = @ + 1] /\ lru' = LruGet(lru, d) /\ UNCHANGED <<bytes, body>>
        BY <1>2 DEF OpenCached, fileVars
    <2>2. \A q \in Digests : entries'[q].present = entries[q].present
        BY <2>1 DEF TypeOK, Entry
    <2>3. Present' = Present BY <2>2 DEF Present
    <2> QED BY <1>0, <2>1, <2>3, ListGet, StayingWithdraws
<1>3. ASSUME NEW d \in Digests, OpenExpired(d) PROVE Withdraws
    <2>1. d \in Present /\ MarkEvicted(d, LruGet(lru, d)) BY <1>3 DEF OpenExpired, Present
    <2> QED BY <1>0, <2>1, ListGet, MarkEvictedWithdraws
<1>4. ASSUME NEW r \in Readers, RegisterReader(r) \/ CloseReader(r) PROVE Withdraws
    BY <1>4, IdleWithdraws DEF RegisterReader, CloseReader, fileVars
<1>5. ASSUME NEW r \in Readers, ReleaseEntry(r) PROVE Withdraws
    <2>1. PICK d \in Digests : d = reader[r].digest BY <1>5 DEF ReleaseEntry, CallsTyped
    <2>2. PICK e \in Entry : e = [entries[d] EXCEPT !.pins = IF @ > 0 THEN @ - 1 ELSE @]
        BY ReleasedPin DEF TypeOK
    <2>3. e.present = entries[d].present BY <2>2 DEF TypeOK, Entry
    <2>4. CASE entries[d].present /\ RemoveEntryLocked(d, e, lru)
        BY <1>0, <2>3, <2>4, RemoveEntryWithdraws DEF Present
    <2>5. CASE (entries' = IF entries[d].present THEN [entries EXCEPT ![d] = e] ELSE entries)
               /\ UNCHANGED <<lru, bytes, body>>
        <3>1. CASE entries[d].present
            <4>1. Present' = Present \cup {d} BY <2>3, <2>5, <3>1, PresentAfter
            <4>2. Present' = Present BY <3>1, <4>1 DEF Present
            <4> QED BY <1>0, <2>5, <4>2, StayingWithdraws
        <3>2. CASE ~entries[d].present BY <2>5, <3>2, IdleWithdraws
        <3> QED BY <3>1, <3>2
    <2> QED BY <1>5, <2>1, <2>2, <2>4, <2>5 DEF ReleaseEntry
<1> QED BY <1>1, <1>2, <1>3, <1>4, <1>5 DEF ReadStep

\* beginKeyMutation withdraws and invalidates.
LEMMA BeginWithdraws ==
    ASSUME TypeOK, Ledger, NEW d \in Digests, BeginKeyMutation(d)
    PROVE  Withdraws /\ Spares
<1>1. Withdraws
    <2>1. CASE entries[d].present
        BY <2>1, MarkEvictedWithdraws DEF BeginKeyMutation, Present, Ledger
    <2>2. CASE ~entries[d].present
        BY <2>2, IdleWithdraws DEF BeginKeyMutation
    <2> QED BY <2>1, <2>2
<1>2. Reserving' = Reserving
    BY BeginKeyMutationProceeds DEF Reserving
<1> QED BY <1>1, <1>2 DEF Spares, BeginKeyMutation

LEMMA MutationWithdraws ==
    ASSUME TypeInv, Ledger, MutationStep
    PROVE  Withdraws /\ Spares
<1> USE DEF TypeInv
<1>1. ASSUME NEW m \in Mutators, NEW op \in {"Put", "Delete", "Evict"}, NEW d \in Digests, BeginMutation(m, op, d)
      PROVE  Withdraws /\ Spares
    BY <1>1, BeginWithdraws DEF BeginMutation
<1>2. ASSUME UNCHANGED <<entries, lru, bytes, fills, reserved, orphanedBytes, diskFillDisabled>>, UNCHANGED fileVars
      PROVE  Withdraws /\ Spares
    BY <1>2, IdleWithdraws DEF fileVars, Spares, Reserving
<1>3. ASSUME NEW m \in Mutators, MutateBackend(m) \/ FinishMutation(m) PROVE Withdraws /\ Spares
    BY <1>2, <1>3 DEF MutateBackend, FinishMutation
<1>4. ASSUME NEW m \in Mutators, PutEvict(m) PROVE Withdraws /\ Spares
    <2>1. PICK d \in Digests : d = mut[m].digest BY <1>4 DEF PutEvict, CallsTyped
    <2> QED BY <1>2, <1>4, <2>1, BeginWithdraws DEF PutEvict
<1>5. ASSUME NEW m \in Mutators, EntryRemoval(m) PROVE Withdraws /\ Spares
    <2>1. PICK d \in Digests : d = mut[m].digest BY <1>5 DEF EntryRemoval, CallsTyped
    <2>2. Spares BY <1>5 DEF EntryRemoval, Spares, Reserving
    <2>3. CASE entries[d].present /\ RemoveEntryLocked(d, entries[d], lru)
        BY <2>2, <2>3, RemoveEntryWithdraws DEF Present, Ledger, TypeOK
    <2>4. CASE UNCHANGED <<entries, lru, bytes, body>> BY <2>2, <2>4, IdleWithdraws
    <2> QED BY <1>5, <2>1, <2>3, <2>4 DEF EntryRemoval
<1> QED BY <1>1, <1>3, <1>4, <1>5 DEF MutationStep

\* Which fills hold a reservation after one of them changed.
LEMMA ReservingAfter ==
    ASSUME NEW d \in Digests, \A q \in Digests : q # d => fills'[q] = fills[q]
    PROVE  Reserving' = IF fills'[d].phase \in {"prepared", "aborting"} THEN Reserving \cup {d} ELSE Reserving \ {d}
BY DEF Reserving

\* endFillLocked of a fill that holds a reservation gives exactly that back.
LEMMA ReservationEnds ==
    ASSUME TypeOK, Ledger, NEW d \in Reserving, EndFillLocked(d)
    PROVE  /\ Reserving' = Reserving \ {d}
           /\ reserved' = TotalSize(Reserving') /\ reserved = reserved' + Size[d]
           /\ reserved' \in Nat /\ Size[d] \in Nat
           /\ Cardinality(Reserving) = Cardinality(Reserving') + 1 /\ Cardinality(Reserving') \in Nat
<1>0. d \in Digests /\ Reserving \in SUBSET Digests /\ IsFiniteSet(Reserving) BY BytesFinite DEF Reserving
<1>1. fills' = [fills EXCEPT ![d] = NoFill] /\ reserved' = Minus(reserved, Size[d]) BY DEF EndFillLocked
<1>2. Reserving' = Reserving \ {d} BY <1>0, <1>1, ReservingAfter DEF TypeOK, NoFill
<1>3. reserved = TotalSize(Reserving) /\ reserved \in Nat BY DEF Ledger, BytesAccounted, TypeOK
<1>4. TotalSize(Reserving \ {d}) = reserved - Size[d] /\ Size[d] <= reserved /\ Size[d] \in Nat
    BY <1>0, <1>3, SizeLeaves
<1>5. Cardinality(Reserving') = Cardinality(Reserving) - 1 /\ Cardinality(Reserving) \in Nat /\ IsFiniteSet(Reserving')
    BY <1>0, <1>2, FS_RemoveElement, FS_CardinalityType
<1>6. Cardinality(Reserving') \in Nat BY <1>5, FS_CardinalityType
<1>7. reserved' = reserved - Size[d] BY <1>1, <1>3, <1>4 DEF Minus
<1> QED BY <1>2, <1>3, <1>4, <1>5, <1>6, <1>7

LEMMA SmallerSum ==
    ASSUME NEW a \in Nat, NEW b \in Nat, NEW c \in Nat, NEW less \in Nat, NEW bound \in Nat,
           less <= b, a + b + c <= bound
    PROVE  a + less + c <= bound
OBVIOUS

\* What a file that stays behind does to the accounts.
Orphans ==
    /\ orphanedBytes' \in Nat
    /\ diskFillDisabled' \/ UNCHANGED <<orphanedBytes, diskFillDisabled>>
    /\ TotalSize(abandoned) <= orphanedBytes => TotalSize(abandoned') <= orphanedBytes'

\* A fill ends without publishing.
LEMMA EndingKeeps ==
    ASSUME TypeOK, Ledger, NEW d \in Reserving, EndFillLocked(d), temp' = temp \ {d}, Orphans,
           UNCHANGED <<entries, lru, bytes>>, body' = body \/ body' = [body EXCEPT ![d] = NoFile]
    PROVE  Ledger' /\ (DiskAccounted => DiskAccounted')
<1>0. d \in Digests BY DEF Reserving
<1>1. Present' = Present BY DEF Present
<1>2. Cardinality(Present) \in Nat BY ListLength DEF Ledger
<1>3. SlotsKept' BY <1>1, <1>2, ReservationEnds, OptionsAssumption DEF Ledger, SlotsKept
<1>4. CapacityBound'
    <2>1. CASE diskFillDisabled' BY <2>1 DEF CapacityBound
    <2>2. CASE UNCHANGED <<orphanedBytes, diskFillDisabled>>
        <3>1. reserved' \in Nat /\ Size[d] \in Nat /\ reserved = reserved' + Size[d] BY ReservationEnds
        <3>2. bytes \in Nat /\ orphanedBytes \in Nat /\ bytes' = bytes /\ orphanedBytes' = orphanedBytes
            BY <2>2 DEF TypeOK
        <3>3. reserved' <= reserved BY <3>1
        <3>4. diskFillDisabled \/ bytes + reserved + orphanedBytes <= MaxBytes BY DEF Ledger, CapacityBound
        <3>5. CASE diskFillDisabled BY <2>2, <3>5 DEF CapacityBound
        <3>6. CASE bytes + reserved + orphanedBytes <= MaxBytes
            <4>1. MaxBytes \in Nat /\ reserved \in Nat BY OptionsAssumption DEF TypeOK
            <4>2. bytes + reserved' + orphanedBytes <= MaxBytes BY <3>1, <3>2, <3>3, <3>6, <4>1, SmallerSum
            <4>3. bytes' + reserved' + orphanedBytes' <= MaxBytes BY <3>2, <4>2
            <4> QED BY <4>3 DEF CapacityBound
        <3> QED BY <3>4, <3>5, <3>6
    <2> QED BY <2>1, <2>2 DEF Orphans
<1>5. BytesAccounted' BY <1>1, ReservationEnds DEF Ledger, BytesAccounted
<1>6. ASSUME DiskAccounted PROVE DiskAccounted'
    <2>1. \A q \in Digests : body'[q] # NoFile => q \in Present'
        BY <1>0, <1>1, <1>6 DEF DiskAccounted, TypeOK
    <2>2. temp' \subseteq Reserving' BY <1>6, ReservationEnds DEF DiskAccounted
    <2> QED BY <1>6, <2>1, <2>2 DEF DiskAccounted, Orphans
<1> QED BY <1>1, <1>3, <1>4, <1>5, <1>6 DEF Ledger

\* A fill is published, servable or not.
LEMMA PublishingKeeps ==
    ASSUME TypeOK, Ledger, FillExcludesEntry, NEW d \in Reserving, EndFillLocked(d), temp' = temp \ {d}, Orphans,
           NEW e \in Entry, e.present, entries' = [entries EXCEPT ![d] = e],
           lru' = LruAdd(lru, d), bytes' = bytes + Size[d], NEW x, body' = [body EXCEPT ![d] = x]
    PROVE  Ledger' /\ (DiskAccounted => DiskAccounted')
<1>0. d \in Digests /\ d \notin Present /\ Present \in SUBSET Digests
    BY DEF Reserving, Present, FillExcludesEntry, Filling
<1>1. Present' = Present \cup {d} BY <1>0, PresentAfter
<1>2. Cardinality(Present) \in Nat /\ IsFiniteSet(Present) BY ListLength DEF Ledger
<1>3. Cardinality(Present') = Cardinality(Present) + 1 BY <1>0, <1>1, <1>2, FS_AddElement
<1>4. SlotsKept' BY <1>2, <1>3, ReservationEnds, OptionsAssumption DEF Ledger, SlotsKept
<1>5. Cardinality(Present) < MaxEntries
    BY <1>2, ReservationEnds, OptionsAssumption DEF Ledger, SlotsKept
<1>6. Lists(lru', Present') BY <1>0, <1>1, <1>5, ListAdd DEF Ledger
<1>7. CapacityBound'
    <2>1. CASE diskFillDisabled' BY <2>1 DEF CapacityBound
    <2>2. CASE UNCHANGED <<orphanedBytes, diskFillDisabled>>
        <3>1. /\ bytes \in Nat /\ orphanedBytes \in Nat /\ reserved = reserved' + Size[d]
              /\ reserved' \in Nat /\ Size[d] \in Nat
            BY ReservationEnds DEF TypeOK
        <3>2. bytes' + reserved' + orphanedBytes = bytes + reserved + orphanedBytes BY <3>1
        <3> QED BY <2>2, <3>2 DEF Ledger, CapacityBound
    <2> QED BY <2>1, <2>2 DEF Orphans
<1>8. BytesAccounted'
    BY <1>0, <1>1, ReservationEnds, SizeAdds DEF Ledger, BytesAccounted
<1>9. ASSUME DiskAccounted PROVE DiskAccounted'
    <2>1. \A q \in Digests : body'[q] # NoFile => q \in Present'
        BY <1>0, <1>1, <1>9 DEF DiskAccounted, TypeOK
    <2>2. temp' \subseteq Reserving' BY <1>9, ReservationEnds DEF DiskAccounted
    <2> QED BY <1>9, <2>1, <2>2 DEF DiskAccounted, Orphans
<1> QED BY <1>4, <1>6, <1>7, <1>8, <1>9 DEF Ledger

\* prepareDiskCacheFlight reserves after it made room.
LEMMA ReservingKeeps ==
    ASSUME TypeOK, Ledger, NEW d \in Digests, fills[d].phase = "opened", Fits(d, 0),
           fills' = [fills EXCEPT ![d].phase = "prepared"], reserved' = reserved + Size[d],
           temp' = temp \cup {d},
           UNCHANGED <<entries, lru, bytes, body, orphanedBytes, diskFillDisabled, abandoned>>
    PROVE  Ledger' /\ (DiskAccounted => DiskAccounted')
<1>1. Present' = Present BY DEF Present
<1>2. fills'[d].phase = "prepared" /\ \A q \in Digests : q # d => fills'[q] = fills[q] BY DEF TypeOK, Fill
<1>3. Reserving' = Reserving \cup {d} /\ d \notin Reserving /\ Reserving \in SUBSET Digests
    BY <1>2, ReservingAfter DEF Reserving
<1>4. Reserving \cup {d} \subseteq Filling /\ Filling \in SUBSET Digests BY <1>3 DEF Reserving, Filling
<1>5. Cardinality(Reserving') <= Cardinality(Filling) /\ Cardinality(Reserving') \in Nat /\ Cardinality(Filling) \in Nat
    <2>1. IsFiniteSet(Filling) BY <1>4, BytesFinite
    <2> QED BY <1>3, <1>4, <2>1, FS_Subset, FS_CardinalityType
<1>6. Cardinality(Present) \in Nat BY ListLength DEF Ledger
<1>7. SlotsKept' BY <1>1, <1>5, <1>6, OptionsAssumption DEF SlotsKept, Fits
<1>8. BytesAccounted' BY <1>1, <1>3, SizeAdds DEF Ledger, BytesAccounted
<1>9. CapacityBound'
    <2>1. Size[d] \in Nat /\ bytes \in Nat /\ reserved \in Nat /\ orphanedBytes \in Nat BY ModelAssumption DEF TypeOK
    <2> QED BY <2>1, OptionsAssumption DEF CapacityBound, Fits
<1>10. DiskAccounted => DiskAccounted' BY <1>1, <1>3 DEF DiskAccounted
<1> QED BY <1>1, <1>7, <1>8, <1>9, <1>10 DEF Ledger

\* When the directory is given up, only fills that their last reader finishes are left.
Drained ==
    lockReleased => closed /\ \A d \in Digests : fills[d].phase \in {"none", "prepared", "aborting"}

LEMMA DrainedRoom ==
    ASSUME TypeOK, RoomIsOpened, Drained
    PROVE  lockReleased => room = NoDigest
BY DEF TypeOK, RoomIsOpened, Drained

LEMMA DrainedStep ==
    ASSUME TypeInv, RoomIsOpened, Drained, [Next]_vars
    PROVE  Drained'
<1> USE DEF TypeInv
<1>0. ASSUME UNCHANGED lockReleased, closed => closed',
             ASSUME lockReleased, closed
             PROVE  \A d \in Digests : fills'[d].phase \in {"none", "prepared", "aborting", fills[d].phase}
      PROVE  Drained'
    BY <1>0 DEF Drained
<1>1. ASSUME UNCHANGED <<lockReleased, closed>>, \A d \in Digests : fills'[d].phase = fills[d].phase PROVE Drained'
    BY <1>0, <1>1
<1>2. ASSUME ReadStep PROVE Drained'
    BY <1>1, <1>2 DEF ReadStep, OpenCached, OpenExpired, RegisterReader, CloseReader, ReleaseEntry
<1>3. ASSUME MutationStep PROVE Drained'
    <2>1. ASSUME NEW d \in Digests, BeginKeyMutation(d) PROVE Drained'
        BY <1>1, <2>1, BeginKeyMutationProceeds DEF BeginKeyMutation
    <2>2. ASSUME NEW m \in Mutators, PutEvict(m) PROVE Drained'
        <3>1. PICK d \in Digests : d = mut[m].digest BY <2>2 DEF PutEvict, CallsTyped
        <3> QED BY <1>1, <2>1, <2>2, <3>1 DEF PutEvict
    <2>3. ASSUME NEW m \in Mutators, MutateBackend(m) \/ EntryRemoval(m) \/ FinishMutation(m) PROVE Drained'
        BY <1>1, <2>3 DEF MutateBackend, EntryRemoval, FinishMutation
    <2>4. ASSUME NEW m \in Mutators, NEW op \in {"Put", "Delete", "Evict"}, NEW d \in Digests, BeginMutation(m, op, d)
          PROVE  Drained'
        BY <2>1, <2>4 DEF BeginMutation
    <2> QED BY <1>3, <2>2, <2>3, <2>4 DEF MutationStep
<1>4. ASSUME NEW d \in Digests,
             GiveUpFill(d) \/ PublishFill(d) \/ PublishMetadataError(d) \/ AbortFill(d)
      PROVE  Drained'
    <2>1. fills' = [fills EXCEPT ![d] = NoFill] /\ UNCHANGED <<lockReleased, closed>>
        BY <1>4 DEF GiveUpFill, PublishFill, PublishMetadataError, AbortFill, EndFillLocked
    <2>2. \A q \in Digests : fills'[q].phase \in {"none", fills[q].phase}
        BY <2>1 DEF TypeOK, NoFill
    <2> QED BY <1>0, <2>1, <2>2
<1>5. ASSUME NEW d \in Digests, PublishRenameError(d) PROVE Drained'
    <2>1. fills' = [fills EXCEPT ![d].phase = "aborting"] /\ UNCHANGED <<lockReleased, closed>>
        BY <1>5 DEF PublishRenameError
    <2>2. \A q \in Digests : fills'[q].phase \in {"aborting", fills[q].phase}
        BY <2>1 DEF TypeOK, Fill
    <2> QED BY <1>0, <2>1, <2>2
<1>6. ASSUME NEW d \in Digests, JoinNewFlight(d) \/ StartPrepare(d) \/ OpenCanonical(d) PROVE Drained'
    <2>1. CASE JoinNewFlight(d) BY <2>1 DEF JoinNewFlight, Drained
    <2>2. CASE StartPrepare(d) BY <1>1, <2>2 DEF StartPrepare
    <2>3. CASE OpenCanonical(d)
        <3>1. fills[d].phase = "opening" /\ UNCHANGED <<lockReleased, closed>> BY <2>3 DEF OpenCanonical
        <3>2. ~lockReleased BY <3>1 DEF Drained
        <3> QED BY <3>1, <3>2 DEF Drained
    <2> QED BY <1>6, <2>1, <2>2, <2>3
<1>7. ASSUME EvictForRoom \/ RoomRefused \/ ReserveFill PROVE Drained'
    <2>1. ~lockReleased /\ lockReleased' = lockReleased
        BY <1>7, DrainedRoom DEF EvictForRoom, RoomRefused, ReserveFill
    <2> QED BY <2>1 DEF Drained
<1>8. ASSUME CloseStep \/ UNCHANGED vars PROVE Drained'
    <2>1. CASE MarkClosed
        <3>1. UNCHANGED lockReleased /\ closed' /\ \A d \in Digests : fills'[d].phase = fills[d].phase
            BY <2>1 DEF MarkClosed, TypeOK, Fill
        <3> QED BY <1>0, <3>1
    <2>2. CASE CloseCacheRoot BY <2>2 DEF CloseCacheRoot, Drained
    <2>3. CASE UNCHANGED vars BY <1>1, <2>3 DEF vars
    <2> QED BY <1>8, <2>1, <2>2, <2>3 DEF CloseStep, Terminated
<1> QED BY <1>2, <1>3, <1>4, <1>5, <1>6, <1>7, <1>8 DEF Next, FillStep

\* A stream that cannot be created and a temporary file that cannot be removed are not met
\* together: after both, the file is charged to nobody (prepareDiskCacheFlight).
NoDoubleFault == ~({"stream", "temp"} \subseteq Faults)

LEMMA FillLedger ==
    ASSUME TypeInv, RoomIsOpened, FillExcludesEntry, Drained, Ledger, FillStep
    PROVE  Ledger' /\ (NoDoubleFault /\ DiskAccounted => DiskAccounted')
<1> USE DEF TypeInv
<1>0. ASSUME NEW d \in Digests, NEW p, fills' = [fills EXCEPT ![d].phase = p],
             p \in {"prepared", "aborting"} <=> fills[d].phase \in {"prepared", "aborting"}
      PROVE  Reserving' = Reserving
    <2>1. fills'[d].phase = p /\ \A q \in Digests : q # d => fills'[q] = fills[q] BY <1>0 DEF TypeOK, Fill
    <2> QED BY <1>0, <2>1 DEF Reserving
<1>1. ASSUME NEW d \in Digests, JoinNewFlight(d) PROVE Withdraws /\ Spares
    <2>1. Reserving' = Reserving
        <3>1. fills[d].phase = "none" /\ fills'[d].phase = "opening" /\ \A q \in Digests : q # d => fills'[q] = fills[q]
            BY <1>1 DEF JoinNewFlight, TypeOK
        <3> QED BY <3>1 DEF Reserving
    <2> QED BY <1>1, <2>1, IdleWithdraws DEF JoinNewFlight, fileVars, Spares
<1>2. ASSUME NEW d \in Digests, OpenCanonical(d) PROVE Withdraws /\ Spares
    <2>1. Reserving' = Reserving
        <3>1. fills[d].phase = "opening" /\ fills'[d].phase = "opened" /\ \A q \in Digests : q # d => fills'[q] = fills[q]
            BY <1>2 DEF OpenCanonical, TypeOK, Fill
        <3> QED BY <3>1 DEF Reserving
    <2> QED BY <1>2, <2>1, IdleWithdraws DEF OpenCanonical, fileVars, Spares
<1>3. ASSUME NEW d \in Digests, GiveUpFill(d) PROVE Withdraws /\ Spares
    <2>1. d \notin Reserving /\ EndFillLocked(d) BY <1>3 DEF GiveUpFill, Reserving
    <2>2. fills' = [fills EXCEPT ![d] = NoFill] /\ reserved' = reserved BY <2>1 DEF EndFillLocked
    <2>3. Reserving' = Reserving
        <3>1. Reserving' = Reserving \ {d} BY <2>2, ReservingAfter DEF TypeOK, NoFill
        <3> QED BY <2>1, <3>1
    <2> QED BY <1>3, <2>2, <2>3, IdleWithdraws DEF GiveUpFill, fileVars, Spares
<1>4. ASSUME NEW d \in Digests, StartPrepare(d) PROVE Withdraws /\ Spares
    BY <1>4, IdleWithdraws DEF StartPrepare, fileVars, Spares, Reserving
<1>5. ASSUME NEW d \in Digests, PublishRenameError(d) PROVE Withdraws /\ Spares
    <2>1. Reserving' = Reserving BY <1>0, <1>5 DEF PublishRenameError
    <2> QED BY <1>5, <2>1, IdleWithdraws DEF PublishRenameError, fileVars, Spares
<1>6. ASSUME room # NoDigest PROVE room \in Digests /\ fills[room].phase = "opened"
    BY <1>6 DEF TypeOK, RoomIsOpened
<1>7. ASSUME RoomRefused PROVE Withdraws /\ Spares
    <2>1. Reserving' = Reserving BY <1>0, <1>6, <1>7 DEF RoomRefused
    <2> QED BY <1>7, <2>1, IdleWithdraws DEF RoomRefused, fileVars, Spares
<1>8. ASSUME EvictForRoom PROVE Withdraws /\ Spares
    <2>1. Reserving' = Reserving BY <1>0, <1>6, <1>8 DEF EvictForRoom, Reserving
    <2>2. PICK i \in 1 .. Len(lru) : RemoveEntryLocked(lru[i], entries[lru[i]], Rotated(i)) BY <1>8 DEF EvictForRoom
    <2>3. lru[i] \in Present BY DEF Ledger, Lists
    <2>4. entries[lru[i]] \in Entry /\ entries[lru[i]].present BY <2>3 DEF Present, TypeOK
    <2>5. Lists(Rotated(i), Present) BY ListRotated DEF Ledger
    <2>6. Withdraws BY <2>2, <2>3, <2>4, <2>5, RemoveEntryWithdraws
    <2> QED BY <1>8, <2>1, <2>6 DEF EvictForRoom, Spares
<1>9. ASSUME ReserveFill PROVE Ledger' /\ (NoDoubleFault /\ DiskAccounted => DiskAccounted')
    <2>1. CASE fills' = [fills EXCEPT ![room].phase = "prepared"]
               /\ reserved' = reserved + Size[room] /\ temp' = temp \cup {room} /\ UNCHANGED abandoned
        BY <1>6, <1>9, <2>1, ReservingKeeps DEF ReserveFill
    <2>2. CASE CanFail("stream") /\ fills' = [fills EXCEPT ![room].phase = "refused"] /\ UNCHANGED <<reserved, temp>>
        <3>1. NoDoubleFault => abandoned' = abandoned
            BY <1>9, <2>2, DrainedRoom DEF CanFail, NoDoubleFault, ReserveFill
        <3>2. Reserving' = Reserving BY <1>0, <1>6, <1>9, <2>2 DEF ReserveFill
        <3>3. Present' = Present BY <1>9 DEF ReserveFill, Present
        <3>4. Ledger'
            BY <1>9, <2>2, <3>2, <3>3 DEF ReserveFill, Ledger, BytesAccounted, SlotsKept, CapacityBound
        <3>5. NoDoubleFault /\ DiskAccounted => DiskAccounted'
            BY <1>9, <2>2, <3>1, <3>2, <3>3 DEF ReserveFill, DiskAccounted
        <3> QED BY <3>4, <3>5
    <2> QED BY <1>9, <2>1, <2>2 DEF ReserveFill
<1>10. ASSUME NEW d \in Digests, PublishFill(d) PROVE Ledger' /\ (DiskAccounted => DiskAccounted')
    <2>1. d \in Reserving /\ EndFillLocked(d) /\ temp' = temp \ {d} /\ Orphans
        BY <1>10 DEF PublishFill, Reserving, Orphans, TypeOK
    <2>2. [present |-> TRUE, pins |-> 0, evictPending |-> FALSE, epoch |-> fills[d].epoch] \in Entry
        BY DEF TypeOK, Fill, Entry
    <2> QED BY <1>10, <2>1, <2>2, PublishingKeeps DEF PublishFill
<1>11. ASSUME NEW d \in Digests, PublishMetadataError(d) PROVE Ledger' /\ (DiskAccounted => DiskAccounted')
    <2>1. d \in Reserving /\ EndFillLocked(d) /\ temp' = temp \ {d} /\ abandoned' = abandoned
        BY <1>11 DEF PublishMetadataError, Reserving
    <2>2. Orphans
        <3>1. CASE UNCHANGED <<orphanedBytes, diskFillDisabled>> BY <2>1, <3>1 DEF Orphans, TypeOK
        <3>2. CASE orphanedBytes' = orphanedBytes + MetaBytes /\ diskFillDisabled' = TRUE
            <4>1. TotalSize(abandoned) \in Nat BY BytesFinite DEF TypeOK
            <4>2. orphanedBytes \in Nat /\ MetaBytes \in Nat BY ModelAssumption DEF TypeOK
            <4> QED BY <2>1, <3>2, <4>1, <4>2 DEF Orphans
        <3> QED BY <1>11, <3>1, <3>2 DEF PublishMetadataError
    <2>3. [present |-> TRUE, pins |-> 0, evictPending |-> TRUE, epoch |-> fills[d].epoch] \in Entry
        BY DEF TypeOK, Fill, Entry
    <2>4. CASE UNCHANGED <<entries, lru, bytes>> /\ body' = [body EXCEPT ![d] = NoFile]
        BY <2>1, <2>2, <2>4, EndingKeeps
    <2>5. CASE /\ entries' = [entries EXCEPT ![d] = [present |-> TRUE, pins |-> 0,
                                                evictPending |-> TRUE, epoch |-> fills[d].epoch]]
               /\ lru' = LruAdd(lru, d) /\ bytes' = bytes + Size[d] /\ body' = [body EXCEPT ![d] = fills[d].epoch]
        BY <2>1, <2>2, <2>3, <2>5, PublishingKeeps
    <2> QED BY <1>11, <2>4, <2>5 DEF PublishMetadataError
<1>12. ASSUME NEW d \in Digests, AbortFill(d) PROVE Ledger' /\ (DiskAccounted => DiskAccounted')
    <2>1. /\ d \in Reserving /\ EndFillLocked(d) /\ temp' = temp \ {d} /\ UNCHANGED <<entries, lru, bytes, body>>
        BY <1>12 DEF AbortFill, Reserving
    <2>2. Orphans
        <3>1. CASE UNCHANGED <<orphanedBytes, diskFillDisabled, abandoned>> BY <3>1 DEF Orphans, TypeOK
        <3>2. CASE orphanedBytes' = orphanedBytes + Size[d] /\ diskFillDisabled' = TRUE /\ abandoned' = abandoned \cup {d}
            <4>1. TotalSize(abandoned) \in Nat /\ TotalSize(abandoned') <= TotalSize(abandoned) + Size[d]
                  /\ TotalSize(abandoned') \in Nat
                BY <3>2, BytesFinite, SizeAtMost DEF TypeOK
            <4>2. orphanedBytes \in Nat /\ Size[d] \in Nat BY ModelAssumption DEF TypeOK
            <4> QED BY <3>2, <4>1, <4>2 DEF Orphans
        <3> QED BY <1>12, <3>1, <3>2 DEF AbortFill
    <2> QED BY <2>1, <2>2, EndingKeeps
<1> QED BY <1>1, <1>2, <1>3, <1>4, <1>5, <1>7, <1>8, <1>9, <1>10, <1>11, <1>12, WithdrawingKeeps DEF FillStep

LEMMA LedgerStep ==
    ASSUME TypeInv, RoomIsOpened, FillExcludesEntry, Drained, Ledger, [Next]_vars
    PROVE  Ledger' /\ (NoDoubleFault /\ DiskAccounted => DiskAccounted')
<1> USE DEF TypeInv
<1>1. ASSUME CloseStep \/ UNCHANGED vars PROVE Withdraws /\ Spares
    <2>1. CASE MarkClosed
        <3>1. \A d \in Digests : fills'[d].phase = fills[d].phase BY <2>1 DEF MarkClosed, TypeOK, Fill
        <3>2. Reserving' = Reserving BY <3>1 DEF Reserving
        <3> QED BY <2>1, <3>2, IdleWithdraws DEF MarkClosed, Spares, fileVars
    <2>2. CASE CloseCacheRoot BY <2>2, IdleWithdraws DEF CloseCacheRoot, Spares, Reserving, fileVars
    <2>3. CASE UNCHANGED vars BY <2>3, IdleWithdraws DEF vars, Spares, Reserving
    <2> QED BY <1>1, <2>1, <2>2, <2>3 DEF CloseStep, Terminated
<1> QED BY <1>1, ReadWithdraws, MutationWithdraws, FillLedger, WithdrawingKeeps DEF Next

-----------------------------------------------------------------------------
(* Crashes and start-up *)

\* Before the store is handed out nothing is filled, reserved or orphaned.
Quiet ==
    status # "up" =>
        /\ fills = [d \in Digests |-> NoFill]
        /\ orphanedBytes = 0 /\ lockReleased = FALSE /\ room = NoDigest /\ temp = {}

\* While the index is rebuilt, what has files is indexed or still to be visited.
Rebuilding ==
    status = "loading" =>
        /\ abandoned = {} /\ toLoad \cap Present = {}
        /\ \A d \in Digests : meta[d] # NoFile => d \in Present \cup toLoad
        /\ \A d \in toLoad : meta[d] # NoFile
        /\ \A d \in Present : ~entries[d].evictPending =>
              body[d] = entries[d].epoch /\ meta[d] = entries[d].epoch

LivesInv ==
    /\ TypeInv /\ RoomIsOpened /\ FillExcludesEntry /\ Drained /\ Ledger
    /\ status \in {"up", "down", "loading"} /\ toLoad \in SUBSET Digests
    /\ Quiet /\ Rebuilding /\ (status = "down" => Present = {})
    /\ NoDoubleFault => FilesAccounted

\* The memory of a new process over any directory.
Fresh ==
    /\ InitMemory
    /\ canon \in [Digests -> Canonical] /\ abandoned \in SUBSET Digests
    /\ body \in [Digests -> Nat \cup {NoFile}] /\ meta \in [Digests -> Nat \cup {NoFile}]

LEMMA FreshAccounts == Fresh => TypeInv /\ RoomIsOpened /\ Drained /\ FillExcludesEntry /\ Ledger
<1> SUFFICES ASSUME Fresh PROVE TypeInv /\ RoomIsOpened /\ Drained /\ FillExcludesEntry /\ Ledger OBVIOUS
<1>1. Present = {} /\ Reserving = {} BY DEF Fresh, InitMemory, Present, Reserving, NoEntry, NoFill
<1>2. <<>> \in Seq(Digests) /\ Len(<<>>) = 0 BY EmptySeq
<1>3. Ledger
    <2>1. Lists(lru, Present) BY <1>1, <1>2 DEF Lists, Fresh, InitMemory
    <2>2. BytesAccounted BY <1>1, NothingHasNoBytes DEF BytesAccounted, Fresh, InitMemory
    <2>3. SlotsKept BY <1>1, FS_EmptySet, OptionsAssumption DEF SlotsKept
    <2>4. CapacityBound BY OptionsAssumption DEF CapacityBound, Fresh, InitMemory
    <2> QED BY <2>1, <2>2, <2>3, <2>4 DEF Ledger
<1>4. NoEntry \in Entry /\ NoFill \in Fill /\ NoKey \in Key /\ NoMutation \in Mutation /\ NoReader \in Reader
    BY DEF NoEntry, Entry, NoFill, Fill, FillPhases, NoKey, Key, NoMutation, Mutation, NoReader, Reader
<1>5. TypeOK BY <1>2, <1>4 DEF Fresh, InitMemory, TypeOK
<1>6. CallsTyped BY DEF Fresh, InitMemory, CallsTyped, NoMutation, NoReader
<1> QED BY <1>1, <1>3, <1>5, <1>6 DEF TypeInv, RoomIsOpened, Drained, FillExcludesEntry, Fresh, InitMemory

LEMMA LivesInit == RInit => LivesInv
<1> SUFFICES ASSUME RInit PROVE LivesInv OBVIOUS
<1>1. Fresh BY DEF RInit, Canonical, Fresh
<1>2. status = "down" /\ toLoad = {} BY DEF RInit
<1>3. Present = {} BY <1>1 DEF Fresh, InitMemory, Present, NoEntry
<1> QED BY <1>1, <1>2, <1>3, FreshAccounts DEF LivesInv, Quiet, Rebuilding, FilesAccounted, Fresh, InitMemory

LEMMA RunKeepsLives ==
    ASSUME LivesInv, Run
    PROVE  LivesInv'
<1>1. TypeInv /\ RoomIsOpened /\ FillExcludesEntry /\ Drained /\ Ledger /\ [Next]_vars BY DEF LivesInv, Run
<1>2. TypeInv' /\ RoomIsOpened' /\ FillExcludesEntry' /\ Drained' /\ Ledger'
    BY <1>1, TypeStep, RoomStep, ExclusionStep, DrainedStep, LedgerStep
<1>3. NoDoubleFault => FilesAccounted'
    BY <1>1, LedgerStep DEF LivesInv, FilesAccounted, Run
<1>4. status' = "up" /\ toLoad' = toLoad BY DEF Run
<1> QED BY <1>2, <1>3, <1>4 DEF LivesInv, Quiet, Rebuilding, NoDoubleFault

LEMMA CrashKeepsLives ==
    ASSUME LivesInv, Crash
    PROVE  LivesInv'
<1>1. InitMemory' BY DEF Crash, LoseMemory, InitMemory
<1>2. status' = "down" /\ toLoad' = {} BY DEF Crash
<1>3. UNCHANGED <<canon, meta>> BY DEF Crash
<1>4. abandoned' \in SUBSET Digests /\ body' \in [Digests -> Nat \cup {NoFile}]
    BY DEF Crash, LivesInv, TypeInv, TypeOK, Fill, Present
<1>5. canon' \in [Digests -> Canonical] /\ meta' \in [Digests -> Nat \cup {NoFile}]
    BY <1>3 DEF LivesInv, TypeInv, TypeOK
<1>6. Fresh' BY <1>1, <1>4, <1>5 DEF Fresh, Canonical
<1>7. (TypeInv /\ RoomIsOpened /\ Drained /\ FillExcludesEntry /\ Ledger)' BY <1>6, FreshAccounts, PTL
<1>8. Present' = {} BY <1>1 DEF InitMemory, Present, NoEntry
<1> QED BY <1>1, <1>2, <1>7, <1>8 DEF LivesInv, Quiet, Rebuilding, FilesAccounted, InitMemory

\* Steps of start-up leave the calls, the fills and the keys alone.
Calls == <<fills, keyStates, reserved, orphanedBytes, diskFillDisabled, closed, lockReleased, room,
           canon, temp, mut, reader, snapshot>>

LEMMA StartUpKeeps ==
    ASSUME LivesInv, status # "up", UNCHANGED Calls, status' \in {"up", "loading"}, toLoad' \in SUBSET Digests,
           entries' \in [Digests -> Entry], lru' \in Seq(Digests), bytes' \in Nat,
           body' \in [Digests -> Nat \cup {NoFile}], meta' \in [Digests -> Nat \cup {NoFile}],
           abandoned' = {}, Ledger', Rebuilding', FilesAccounted'
    PROVE  LivesInv'
<1>1. TypeInv' BY DEF LivesInv, TypeInv, TypeOK, CallsTyped, Calls
<1>2. RoomIsOpened' /\ Drained' BY DEF LivesInv, RoomIsOpened, Drained, Calls
<1>3. Filling' = {} BY DEF LivesInv, Quiet, Calls, Filling, NoFill
<1>4. FillExcludesEntry' BY <1>3 DEF FillExcludesEntry
<1>5. Quiet' BY DEF LivesInv, Quiet, Calls
<1> QED BY <1>1, <1>2, <1>4, <1>5 DEF LivesInv

\* An index that did not change.
LEMMA SameLedger ==
    ASSUME Ledger, UNCHANGED <<entries, lru, bytes, fills, reserved, orphanedBytes, diskFillDisabled>>
    PROVE  Ledger' /\ Present' = Present
<1>1. Present' = Present /\ Reserving' = Reserving BY DEF Present, Reserving
<1> QED BY <1>1 DEF Ledger, BytesAccounted, SlotsKept, CapacityBound

LEMMA StartKeepsLives ==
    ASSUME LivesInv, Start
    PROVE  LivesInv'
<1>1. /\ UNCHANGED Calls /\ UNCHANGED <<entries, lru, bytes, body, meta>> /\ abandoned' = {}
      /\ status = "down" /\ status' = "loading" /\ toLoad' = {d \in Digests : meta[d] # NoFile}
    BY DEF Start, Calls
<1>2. Ledger' /\ Present' = Present BY <1>1, SameLedger DEF LivesInv, Calls
<1>3. Rebuilding' BY <1>1, <1>2 DEF LivesInv, Rebuilding
<1>4. FilesAccounted' BY <1>1 DEF FilesAccounted
<1> QED BY <1>1, <1>2, <1>3, <1>4, StartUpKeeps DEF LivesInv, TypeInv, TypeOK

\* restoreDiskCacheEntry.
LEMMA LoadKeepsLives ==
    ASSUME LivesInv, NEW d \in Digests, LoadEntry(d)
    PROVE  LivesInv'
<1> DEFINE e == [present |-> TRUE, pins |-> 0, evictPending |-> FALSE, epoch |-> meta[d]]
<1>1. /\ UNCHANGED Calls /\ UNCHANGED <<body, meta, abandoned, status>> /\ status = "loading"
      /\ d \in toLoad /\ toLoad' = toLoad \ {d} /\ body[d] = meta[d]
      /\ lru' = LruAdd(lru, d) /\ bytes' = bytes + Size[d] /\ Fits(d, 1)
    BY DEF LoadEntry, Calls, fileVars
<1>2. entries' = [entries EXCEPT ![d] = e] BY DEF LoadEntry
<1>3. meta[d] \in Nat BY <1>1 DEF LivesInv, Rebuilding, TypeInv, TypeOK
<1>4. e \in Entry /\ e.present BY <1>3 DEF Entry
<1>5. d \notin Present /\ Present \in SUBSET Digests BY <1>1 DEF LivesInv, Rebuilding, Present
<1>6. Present' = Present \cup {d}
    BY <1>2, <1>4, PresentAfter DEF LivesInv, TypeInv
<1>7. Reserving = {} /\ Reserving' = {} /\ Filling = {} /\ orphanedBytes = 0
    BY <1>1 DEF LivesInv, Quiet, Reserving, Filling, NoFill, Calls
<1>8. Cardinality({}) = 0 BY FS_EmptySet
<1>9. Cardinality(Present) \in Nat /\ IsFiniteSet(Present) BY ListLength DEF LivesInv, Ledger
<1>10. Cardinality(Present) + 1 <= MaxEntries BY <1>1, <1>7, <1>8, <1>9, OptionsAssumption DEF Fits
<1>11. Lists(lru', Present')
    <2>1. Cardinality(Present) < MaxEntries BY <1>9, <1>10, OptionsAssumption
    <2> QED BY <1>1, <1>5, <1>6, <2>1, ListAdd DEF LivesInv, Ledger
<1>12. SlotsKept'
    <2>1. Cardinality(Present') = Cardinality(Present) + 1 BY <1>5, <1>6, <1>9, FS_AddElement
    <2> QED BY <1>7, <1>8, <1>9, <1>10, <2>1, OptionsAssumption DEF SlotsKept
<1>13. BytesAccounted'
    BY <1>1, <1>5, <1>6, <1>7, SizeAdds DEF LivesInv, Ledger, BytesAccounted, Calls
<1>14. bytes \in Nat /\ reserved \in Nat /\ Size[d] \in Nat /\ lru \in Seq(Digests)
    BY ModelAssumption DEF LivesInv, TypeInv, TypeOK
<1>15. CapacityBound' BY <1>1, <1>7, <1>14, OptionsAssumption DEF CapacityBound, Fits, Calls
<1>16. Ledger' BY <1>11, <1>12, <1>13, <1>15 DEF Ledger
<1>17. Rebuilding'
    <2>1. entries'[d] = e /\ \A q \in Digests : q # d => entries'[q] = entries[q]
        BY <1>2 DEF LivesInv, TypeInv, TypeOK
    <2>2. ASSUME NEW q \in Present', ~entries'[q].evictPending PROVE body[q] = entries'[q].epoch /\ meta[q] = entries'[q].epoch
        <3>1. CASE q = d BY <1>1, <2>1, <3>1
        <3>2. CASE q # d BY <1>1, <1>5, <1>6, <2>1, <2>2, <3>2 DEF LivesInv, Rebuilding
        <3> QED BY <3>1, <3>2
    <2> QED BY <1>1, <1>6, <2>2 DEF LivesInv, Rebuilding
<1>18. FilesAccounted' BY <1>1 DEF FilesAccounted
<1>19. lru' \in Seq(Digests) /\ bytes' \in Nat /\ entries' \in [Digests -> Entry]
    <2>1. lru' \in Seq(Digests) BY <1>11 DEF Lists
    <2>2. bytes' \in Nat BY <1>1, <1>14
    <2>3. entries \in [Digests -> Entry] BY DEF LivesInv, TypeInv, TypeOK
    <2> HIDE DEF e
    <2>4. entries' \in [Digests -> Entry] BY <1>2, <1>4, <2>3
    <2> QED BY <2>1, <2>2, <2>4
<1>20. toLoad' \in SUBSET Digests /\ abandoned' = {} BY <1>1 DEF LivesInv, Rebuilding
<1> QED BY <1>1, <1>16, <1>17, <1>18, <1>19, <1>20, StartUpKeeps DEF LivesInv, TypeInv, TypeOK

\* makeRoomLocked during start-up.
LEMMA EvictKeepsLives ==
    ASSUME LivesInv, NEW d \in Digests, EvictForRestore(d)
    PROVE  LivesInv'
<1>1. /\ UNCHANGED Calls /\ UNCHANGED <<abandoned, status, toLoad>> /\ status = "loading" /\ lru # <<>>
      /\ RemoveEntryLocked(lru[1], entries[lru[1]], lru)
    BY DEF EvictForRestore, Calls
<1>2. 1 \in 1 .. Len(lru) BY <1>1, EmptySeq DEF LivesInv, Ledger, Lists
<1>3. PICK q \in Present : q = lru[1] BY <1>2 DEF LivesInv, Ledger, Lists
<1>4. q \in Digests /\ entries[q] \in Entry /\ entries[q].present BY DEF Present, LivesInv, TypeInv, TypeOK
<1>5. Withdraws BY <1>1, <1>3, <1>4, RemoveEntryWithdraws DEF LivesInv, TypeInv, Ledger
<1>6. Spares BY <1>1 DEF Spares, Reserving, Calls
<1>7. Ledger' BY <1>5, <1>6, WithdrawingKeeps DEF LivesInv, TypeInv
<1>8. /\ entries' \in [Digests -> Entry] /\ lru' \in Seq(Digests) /\ bytes' \in Nat
      /\ body' \in [Digests -> Nat \cup {NoFile}] /\ meta' \in [Digests -> Nat \cup {NoFile}]
    BY <1>1, <1>3, <1>4, RemoveEntryTyped DEF LivesInv, TypeInv, TypeOK
<1>9. Rebuilding'
    <2>1. \A x \in Digests : x # q => entries'[x] = entries[x] /\ body'[x] = body[x] /\ meta'[x] = meta[x]
        BY <1>1, <1>3, <1>4 DEF RemoveEntryLocked, LivesInv, TypeInv, TypeOK
    <2>2. \/ ~entries'[q].present /\ meta'[q] = NoFile
          \/ entries'[q].present /\ entries'[q].evictPending
        <3>1. DOMAIN entries = Digests /\ DOMAIN meta = Digests BY DEF LivesInv, TypeInv, TypeOK
        <3>2. CASE entries' = [entries EXCEPT ![q] = NoEntry] /\ meta' = [meta EXCEPT ![q] = NoFile]
            BY <1>4, <3>1, <3>2 DEF NoEntry
        <3>3. CASE entries' = [entries EXCEPT ![q] = [entries[q] EXCEPT !.evictPending = TRUE]]
            <4>1. entries'[q] = [entries[q] EXCEPT !.evictPending = TRUE] BY <1>4, <3>1, <3>3
            <4>2. [entries[q] EXCEPT !.evictPending = TRUE].evictPending BY <1>4 DEF Entry
            <4> QED BY <1>4, <4>1, <4>2, MarkedEntry
        <3> QED BY <1>1, <1>3, <3>2, <3>3 DEF RemoveEntryLocked
    <2>3. Present' \subseteq Present /\ (\A x \in Present : x # q => x \in Present')
        BY <1>5, <2>1 DEF Present, Withdraws
    <2>4. ASSUME NEW x \in Digests, meta'[x] # NoFile PROVE x \in Present' \cup toLoad
        BY <1>1, <1>4, <2>1, <2>2, <2>3, <2>4 DEF LivesInv, Rebuilding, Present
    <2>5. ASSUME NEW x \in toLoad PROVE meta'[x] # NoFile
        BY <1>1, <1>4, <2>1, <2>5 DEF LivesInv, Rebuilding
    <2>6. ASSUME NEW x \in Present', ~entries'[x].evictPending PROVE body'[x] = entries'[x].epoch /\ meta'[x] = entries'[x].epoch
        BY <1>1, <1>4, <2>1, <2>2, <2>3, <2>6 DEF LivesInv, Rebuilding, Present
    <2> QED BY <1>1, <2>3, <2>4, <2>5, <2>6 DEF LivesInv, Rebuilding
<1>10. FilesAccounted' BY <1>1 DEF FilesAccounted
<1> QED BY <1>1, <1>7, <1>8, <1>9, <1>10, StartUpKeeps DEF LivesInv, Rebuilding

\* removeManagedPair.
LEMMA RejectKeepsLives ==
    ASSUME LivesInv, NEW d \in Digests, RejectEntry(d)
    PROVE  LivesInv'
<1>1. /\ UNCHANGED Calls /\ UNCHANGED <<entries, lru, bytes, abandoned, status>> /\ status = "loading"
      /\ d \in toLoad /\ toLoad' = toLoad \ {d}
      /\ meta' = [meta EXCEPT ![d] = NoFile] /\ body' = [body EXCEPT ![d] = NoFile]
    BY DEF RejectEntry, Calls
<1>2. Ledger' /\ Present' = Present BY <1>1, SameLedger DEF LivesInv, Calls
<1>3. d \notin Present BY <1>1 DEF LivesInv, Rebuilding
<1>4. Rebuilding' BY <1>1, <1>2, <1>3 DEF LivesInv, TypeInv, TypeOK, Rebuilding, Present
<1>5. FilesAccounted' BY <1>1 DEF FilesAccounted
<1>6. body' \in [Digests -> Nat \cup {NoFile}] /\ meta' \in [Digests -> Nat \cup {NoFile}]
    BY <1>1 DEF LivesInv, TypeInv, TypeOK
<1>7. toLoad' \in SUBSET Digests /\ abandoned' = {} BY <1>1 DEF LivesInv, Rebuilding
<1> QED BY <1>1, <1>2, <1>4, <1>5, <1>6, <1>7, StartUpKeeps DEF LivesInv, TypeInv, TypeOK

\* removeOrphanCacheBodies: what is handed out owns exactly what it names.
LEMMA FinishIndexes ==
    ASSUME LivesInv, FinishStart
    PROVE  LivesInv' /\ DirectoryIndexed'
<1>1. /\ UNCHANGED Calls /\ UNCHANGED <<entries, lru, bytes, abandoned, meta, toLoad>> /\ status = "loading"
      /\ toLoad = {} /\ status' = "up"
      /\ body' = [d \in Digests |-> IF meta[d] = NoFile THEN NoFile ELSE body[d]]
    BY DEF FinishStart, Calls
<1>2. Ledger' /\ Present' = Present BY <1>1, SameLedger DEF LivesInv, Calls
<1>3. \A d \in Digests : body'[d] # NoFile \/ meta'[d] # NoFile => d \in Present'
    BY <1>1, <1>2 DEF LivesInv, Rebuilding
<1>4. ASSUME NEW d \in Present, ~entries[d].evictPending PROVE body'[d] = entries[d].epoch /\ meta[d] = entries[d].epoch
    <2>1. d \in Digests /\ body[d] = entries[d].epoch /\ meta[d] = entries[d].epoch /\ entries[d].epoch \in Nat
        BY <1>1, <1>4 DEF LivesInv, Rebuilding, Present, TypeInv, TypeOK, Entry
    <2>2. meta[d] # NoFile BY <2>1 DEF NoFile
    <2> QED BY <1>1, <2>1, <2>2
<1>5. abandoned = {} /\ abandoned' = {} BY <1>1 DEF LivesInv, Rebuilding
<1>6. DirectoryIndexed' BY <1>1, <1>2, <1>3, <1>4, <1>5 DEF DirectoryIndexed
<1>7. FilesAccounted'
    <2>1. temp' = {} /\ orphanedBytes' = 0 BY <1>1 DEF LivesInv, Quiet, Calls
    <2>2. TotalSize(abandoned') <= orphanedBytes' BY <1>5, <2>1, NothingHasNoBytes
    <2> QED BY <1>3, <2>1, <2>2 DEF FilesAccounted, DiskAccounted
<1>8. Rebuilding' BY <1>1 DEF Rebuilding
<1>9. body' \in [Digests -> Nat \cup {NoFile}] BY <1>1 DEF LivesInv, TypeInv, TypeOK
<1>10. LivesInv' BY <1>1, <1>2, <1>5, <1>7, <1>8, <1>9, StartUpKeeps DEF LivesInv, TypeInv, TypeOK
<1> QED BY <1>6, <1>10

LEMMA LivesStep == LivesInv /\ [RNext]_rvars => LivesInv'
<1> SUFFICES ASSUME LivesInv, [RNext]_rvars PROVE LivesInv' OBVIOUS
<1>1. ASSUME UNCHANGED rvars PROVE LivesInv'
    <2>1. UNCHANGED vars /\ UNCHANGED <<status, toLoad>> BY <1>1 DEF rvars
    <2>2. TypeInv' /\ RoomIsOpened' /\ FillExcludesEntry' /\ Drained' /\ Ledger'
        BY <2>1, TypeStep, RoomStep, ExclusionStep, DrainedStep, LedgerStep DEF LivesInv
    <2>3. Present' = Present BY <2>1 DEF vars, Present
    <2>4. Quiet' /\ Rebuilding' BY <2>1, <2>3 DEF LivesInv, Quiet, Rebuilding, vars
    <2>5. NoDoubleFault => FilesAccounted' BY <2>1, <2>2, LedgerStep DEF LivesInv, FilesAccounted
    <2> QED BY <2>1, <2>2, <2>3, <2>4, <2>5 DEF LivesInv, NoDoubleFault
<1> QED BY <1>1, RunKeepsLives, CrashKeepsLives, StartKeepsLives, LoadKeepsLives, EvictKeepsLives,
           RejectKeepsLives, FinishIndexes DEF RNext

LEMMA LivesHold == RSpec => []LivesInv
BY LivesInit, LivesStep, PTL DEF RSpec

LEMMA LedgerBounds == LivesInv => WithinLimits
<1> SUFFICES ASSUME LivesInv PROVE CapacityBound /\ LruIndexesEntries /\ BytesAccounted BY DEF WithinLimits
<1>1. Lists(lru, Present) BY DEF LivesInv, Ledger
<1>2. LruIndexesEntries BY <1>1, ListLength DEF LruIndexesEntries, Lists
<1> QED BY <1>2 DEF LivesInv, Ledger

\* In every life of the process, whichever file operations fail and wherever it crashes, the
\* bytes, reservations and orphans stay within MaxBytes and the entries and fills within
\* MaxEntries, each counter is the sum it stands for, and the recency list names each entry
\* exactly once (persistMetadataLocked, makeRoomLocked, removeEntryLocked, initializeDirectory).
THEOREM LimitsHold == RSpec => []WithinLimits
BY LivesHold, LedgerBounds, PTL

\* Unless a stream can fail together with the removal of its temporary file, every body and
\* temporary file on disk is charged as well, in every life (abortFill, publishFill, restart).
THEOREM FilesStayCharged ==
    ASSUME NoDoubleFault
    PROVE  RSpec => []FilesCharged
<1>1. LivesInv => FilesCharged BY LedgerBounds DEF LivesInv, FilesCharged
<1> QED BY <1>1, LivesHold, PTL

\* Wherever the process crashed, the store that start-up hands out owns exactly the files its
\* index names (loadDiskCacheEntries, removeOrphanCacheBodies).
THEOREM StartsRecover == RSpec => StartRecovers
<1>1. LivesInv /\ [RNext]_rvars => [status = "loading" /\ status' = "up" => DirectoryIndexed']_rvars
    <2> SUFFICES ASSUME LivesInv, RNext, status = "loading", status' = "up" PROVE DirectoryIndexed'
        BY DEF rvars
    <2>1. FinishStart BY DEF RNext, Run, Crash, Start, LoadEntry, EvictForRestore, RejectEntry
    <2> QED BY <2>1, FinishIndexes
<1> QED BY <1>1, LivesHold, PTL DEF RSpec, StartRecovers, DirectoryRecovered

-----------------------------------------------------------------------------
(* What a cleanup pass deletes.  The planner's choices are not needed: the    *)
(* last check before the deletion decides, and every request that writes a    *)
(* manifest row or an object after it marks what it wrote.                    *)

PassType ==
    /\ gc = [pc |-> gc.pc, todo |-> gc.todo, sel |-> gc.sel, cands |-> gc.cands, d |-> gc.d, refs |-> gc.refs]
    /\ DOMAIN row = C!Keys
    /\ dep \in Deployments

SweepInv == PassType /\ C!SweptUnreferenced

\* Bodies that exist can be read, which is what the walk over the manifests relies on.
BodiesReadable == \A x \in Deployments : ~x.unreadable

LEMMA ManifestKey ==
    ASSUME NEW p \in Repos, NEW m \in Contents
    PROVE C!Manifest(p, m) \in C!Keys
BY DEF C!Manifest, C!Keys, C!Relation

(* A step that leaves the pass alone may add rows and objects only as marked. *)
LEMMA MarkedKeeps ==
    ASSUME SweepInv, DOMAIN row' = C!Keys, UNCHANGED <<dep, gc>>,
           gc.pc = "delete" =>
              /\ dirty \subseteq dirty'
              /\ \A p \in Repos, m \in Contents :
                    C!Has(row', C!Manifest(p, m)) => C!Has(row, C!Manifest(p, m)) \/ C!Manifest(p, m) \in dirty'
              /\ \A m \in Contents : m \in objects' => m \in objects \/ C!Object(m) \in dirty'
    PROVE SweepInv'
<1>1. PassType' BY DEF SweepInv, PassType
<1>2. ASSUME gc'.pc = "delete", NEW p \in Repos, NEW m \in Contents, C!Refers(p, m, gc.d)'
      PROVE ({C!Manifest(p, m), C!Object(m)} \cap dirty # {})'
  <2>1. gc.pc = "delete" BY <1>2
  <2>2. C!Has(row', C!Manifest(p, m)) /\ m \in objects' /\ (m = gc.d \/ gc.d \in dep.children[m])
    BY <1>2 DEF C!Refers, C!Children, C!Has, C!Manifest
  <2>3. CASE C!Has(row, C!Manifest(p, m)) /\ m \in objects
    <3>1. C!Refers(p, m, gc.d) BY <2>2, <2>3 DEF C!Refers, C!Children
    <3>2. {C!Manifest(p, m), C!Object(m)} \cap dirty # {} BY <2>1, <3>1 DEF SweepInv, C!SweptUnreferenced
    <3> QED BY <2>1, <3>2 DEF C!Manifest, C!Object
  <2>4. CASE C!Manifest(p, m) \in dirty' BY <2>4 DEF C!Manifest, C!Object
  <2>5. CASE C!Object(m) \in dirty' BY <2>5 DEF C!Manifest, C!Object
  <2> QED BY <2>1, <2>2, <2>3, <2>4, <2>5
<1> QED BY <1>1, <1>2 DEF SweepInv, C!SweptUnreferenced

(* A step of the pass that does not lead to a deletion has nothing to show. *)
LEMMA PassMoves ==
    ASSUME SweepInv, DOMAIN row' = C!Keys, UNCHANGED dep, gc'.pc # "delete",
           gc' = [pc |-> gc'.pc, todo |-> gc'.todo, sel |-> gc'.sel, cands |-> gc'.cands, d |-> gc'.d, refs |-> gc'.refs]
    PROVE SweepInv'
BY DEF SweepInv, PassType, C!SweptUnreferenced

LEMMA RequestsMark ==
    ASSUME SweepInv,
           \/ \E w \in Writers :
                 \/ C!PutObject(w) \/ C!UpsertWrite(w) \/ C!PutDone(w) \/ C!PutFails(w)
                 \/ \E put \in dep.puts : C!BeginPut(w, put)
           \/ \E d \in Contents : C!BeginTouch(d) \/ C!EndTouch(d)
           \/ \E p \in Repos, r \in Refs \cup Contents : C!RecordPull(p, r)
    PROVE SweepInv'
<1> USE DEF SweepInv, PassType
<1>1. ASSUME UNCHANGED <<dep, gc, row, objects, dirty>> PROVE SweepInv'
  <2>1. C!SweptUnreferenced' BY <1>1 DEF C!SweptUnreferenced, C!Refers, C!Has, C!Manifest, C!Object, C!Children
  <2> QED BY <1>1, <2>1
<1>2. ASSUME NEW w \in Writers, C!PutObject(w) PROVE SweepInv'
  <2>1. gc.pc = "delete" => dirty' = dirty \cup {C!Object(writer[w].put.digest)} BY <1>2 DEF C!PutObject, C!Marked
  <2>2. objects' = objects \cup {writer[w].put.digest} /\ UNCHANGED <<dep, row, gc>> BY <1>2 DEF C!PutObject
  <2>3. gc.pc = "delete" =>
          /\ dirty \subseteq dirty'
          /\ \A m \in Contents : m \in objects' => m \in objects \/ C!Object(m) \in dirty'
    BY <2>1, <2>2
  <2> QED BY <2>2, <2>3, MarkedKeeps DEF C!Has
<1>3. ASSUME NEW w \in Writers, C!UpsertWrite(w) PROVE SweepInv'
  <2> DEFINE k == C!KeyOf(writer[w].put, C!Step(w))
  <2>1. row' \in C!Upserted(w, k) /\ UNCHANGED <<dep, objects, gc>>
        /\ dirty' = IF row' = row /\ ~C!Has(row, k) THEN dirty ELSE C!Marked({k})
    BY <1>3 DEF C!UpsertWrite
  <2>2. row' = row \/ row' = [row EXCEPT ![k] = C!Fresh(C!ValueOf(writer[w].put, C!Step(w)))]
    BY <2>1 DEF C!Upserted
  <2>3. DOMAIN row' = C!Keys /\ \A j \in C!Keys : j # k => row'[j] = row[j]
    BY <2>2
  <2>4. gc.pc = "delete" => dirty \subseteq dirty' /\ (row' = row \/ k \in dirty')
    BY <2>1 DEF C!Marked
  <2>5. \A p \in Repos, m \in Contents : gc.pc = "delete" /\ C!Has(row', C!Manifest(p, m)) =>
            C!Has(row, C!Manifest(p, m)) \/ C!Manifest(p, m) \in dirty'
    BY <2>3, <2>4, ManifestKey DEF C!Has
  <2> HIDE DEF k
  <2> QED BY <2>1, <2>3, <2>4, <2>5, MarkedKeeps
<1>4. ASSUME NEW k \in C!Keys, NEW v, k[1] # "manifest", row' = [row EXCEPT ![k] = v],
             gc.pc = "delete" => dirty \subseteq dirty', UNCHANGED <<dep, objects, gc>>
      PROVE SweepInv'
  <2>1. DOMAIN row' = C!Keys BY <1>4
  <2>2. \A p \in Repos, m \in Contents : row'[C!Manifest(p, m)] = row[C!Manifest(p, m)]
    <3> TAKE p \in Repos, m \in Contents
    <3>1. C!Manifest(p, m) \in C!Keys BY ManifestKey
    <3>2. C!Manifest(p, m)[1] = "manifest" BY DEF C!Manifest
    <3> QED BY <1>4, <3>1, <3>2
  <2>3. \A p \in Repos, m \in Contents : C!Has(row', C!Manifest(p, m)) => C!Has(row, C!Manifest(p, m))
    BY <2>2 DEF C!Has
  <2> QED BY <1>4, <2>1, <2>3, MarkedKeeps
<1>5. ASSUME NEW d \in Contents, C!EndTouch(d) PROVE SweepInv'
  <2>1. C!Blob(d) \in C!Keys /\ C!Blob(d)[1] # "manifest" BY DEF C!Blob, C!Keys, C!Relation
  <2>2. CASE row' = [row EXCEPT ![C!Blob(d)] = C!Fresh(None)] /\ dirty' = C!Marked({C!Blob(d)})
    <3>1. gc.pc = "delete" => dirty \subseteq dirty' BY <2>2 DEF C!Marked
    <3>2. UNCHANGED <<dep, objects, gc>> BY <1>5 DEF C!EndTouch
    <3> QED BY <1>4, <2>1, <2>2, <3>1, <3>2
  <2>3. CASE UNCHANGED <<row, dirty>> BY <1>1, <1>5, <2>3 DEF C!EndTouch
  <2> QED BY <1>5, <2>2, <2>3 DEF C!EndTouch
<1>6. ASSUME NEW p \in Repos, NEW r \in Refs \cup Contents, C!RecordPull(p, r) PROVE SweepInv'
  <2>1. C!Pull(p, r) \in C!Keys /\ C!Pull(p, r)[1] # "manifest" BY DEF C!Pull, C!Keys, C!Relation
  <2> QED BY <1>4, <1>6, <2>1 DEF C!RecordPull
<1>7. ASSUME NEW w \in Writers, NEW put, C!BeginPut(w, put) PROVE SweepInv' BY <1>1, <1>7 DEF C!BeginPut
<1>8. ASSUME NEW w \in Writers, C!PutDone(w) \/ C!PutFails(w) PROVE SweepInv'
  BY <1>1, <1>8 DEF C!PutDone, C!PutFails
<1>9. ASSUME NEW d \in Contents, C!BeginTouch(d) PROVE SweepInv' BY <1>1, <1>9 DEF C!BeginTouch
<1> QED BY <1>2, <1>3, <1>5, <1>6, <1>7, <1>8, <1>9

(* confirmEligibleBlob: what passes the last check is protected by no manifest *)
(* whose body is there.                                                        *)
LEMMA ConfirmProtects ==
    ASSUME SweepInv, BodiesReadable, C!SweepConfirm
    PROVE SweepInv'
<1>1. UNCHANGED <<dep, row, objects>> BY DEF C!SweepConfirm
<1>2. C!Readable = {objects} BY DEF SweepInv, PassType, BodiesReadable, C!Readable
<1>3. CASE gc' = [gc EXCEPT !.pc = "sweep", !.d = None]
  <2>1. /\ gc'.pc # "delete" /\ DOMAIN row' = C!Keys
        /\ gc' = [pc |-> gc'.pc, todo |-> gc'.todo, sel |-> gc'.sel, cands |-> gc'.cands, d |-> gc'.d, refs |-> gc'.refs]
    BY <1>1, <1>3 DEF SweepInv, PassType
  <2> QED BY <1>1, <2>1, PassMoves
<1>4. ASSUME NEW over, C!Eligible(gc.d, C!Protected(objects), over),
             gc' = [gc EXCEPT !.pc = "delete", !.refs = C!Protected(objects)]
      PROVE SweepInv'
  <2>1. gc.d \notin C!Protected(objects) BY <1>4 DEF C!Eligible
  <2>2. PassType' BY <1>1, <1>4 DEF SweepInv, PassType
  <2>3. gc'.d = gc.d BY <1>4 DEF SweepInv, PassType
  <2>4. \A p \in Repos, m \in Contents : ~C!Refers(p, m, gc.d)
    BY <2>1 DEF C!Refers, C!Protected, C!Children
  <2>5. \A p \in Repos, m \in Contents : ~C!Refers(p, m, gc.d)'
    BY <1>1, <2>3, <2>4 DEF C!Refers, C!Has, C!Manifest, C!Children
  <2> QED BY <2>2, <2>5 DEF SweepInv, C!SweptUnreferenced
<1> QED BY <1>2, <1>3, <1>4 DEF C!SweepConfirm

LEMMA PassKeeps ==
    ASSUME SweepInv, BodiesReadable, C!Pass \/ C!PassAborts \/ C!Age
    PROVE SweepInv'
<1> DEFINE Shape(g) == g = [pc |-> g.pc, todo |-> g.todo, sel |-> g.sel, cands |-> g.cands, d |-> g.d, refs |-> g.refs]
<1> USE DEF SweepInv, PassType
<1>1. Shape(C!IdlePass) /\ C!IdlePass.pc = "idle" BY DEF C!IdlePass
<1>2. ASSUME NEW t, NEW pc, C!Enter(pc, t) PROVE Shape(gc') /\ gc'.pc = pc BY <1>2 DEF C!Enter
<1>3. ASSUME NEW k, C!DeleteRow(k) PROVE DOMAIN row' = C!Keys BY <1>3 DEF C!DeleteRow
<1>4. ASSUME C!StartPass \/ C!ReconcileObject \/ C!ReconcileEnds PROVE SweepInv'
  <2>1. C!GcOnly /\ UNCHANGED dep /\ DOMAIN row' = C!Keys
    BY <1>4 DEF C!StartPass, C!ReconcileObject, C!ReconcileEnds
  <2>2. Shape(gc') /\ gc'.pc # "delete"
    BY <1>2, <1>4 DEF C!StartPass, C!ReconcileObject, C!ReconcileEnds
  <2> QED BY <2>1, <2>2, PassMoves
<1>5. ASSUME C!ReadRelation PROVE SweepInv'
  <2>1. gc.pc \in {"manifest", "tag", "blob", "link", "pull"} BY <1>5 DEF C!ReadRelation, C!NextRelation
  <2>2. C!NextRelation[gc.pc] # "delete" BY <2>1 DEF C!NextRelation
  <2>3. Shape(gc') /\ gc'.pc # "delete" BY <1>2, <1>5, <2>2 DEF C!ReadRelation
  <2> QED BY <1>5, <2>3, PassMoves DEF C!ReadRelation
<1>6. ASSUME C!Plan PROVE SweepInv' BY <1>2, <1>6, PassMoves DEF C!Plan
<1>7. ASSUME NEW x, C!SelectGroup(x) PROVE SweepInv'
  <2>1. Shape(gc') /\ gc'.pc # "delete" BY <1>7 DEF C!SelectGroup
  <2> QED BY <1>7, <2>1, PassMoves DEF C!SelectGroup
<1>8. ASSUME C!SelectEnds PROVE SweepInv'
  <2>1. Shape(gc') /\ gc'.pc # "delete" BY <1>8 DEF C!SelectEnds
  <2> QED BY <1>8, <2>1, PassMoves DEF C!SelectEnds
<1>9. ASSUME NEW k, C!RetireRow(k) PROVE SweepInv'
  <2>1. Shape(gc') /\ gc'.pc # "delete" BY <1>1, <1>9 DEF C!RetireRow
  <2>2. DOMAIN row' = C!Keys /\ UNCHANGED dep BY <1>3, <1>9 DEF C!RetireRow
  <2> QED BY <2>1, <2>2, PassMoves
<1>10. ASSUME C!SweepStarts PROVE SweepInv'
  <2>1. Shape(gc') /\ gc'.pc # "delete" BY <1>10 DEF C!SweepStarts
  <2> QED BY <1>10, <2>1, PassMoves DEF C!SweepStarts
<1>11. ASSUME NEW d, C!SweepLoad(d) PROVE SweepInv'
  <2>1. Shape(gc') /\ gc'.pc # "delete" BY <1>11 DEF C!SweepLoad
  <2> QED BY <1>11, <2>1, PassMoves DEF C!SweepLoad
<1>12. ASSUME C!DeleteObject \/ C!DropBlob PROVE SweepInv'
  <2>1. Shape(gc') /\ gc'.pc # "delete" BY <1>12 DEF C!DeleteObject, C!DropBlob
  <2>2. DOMAIN row' = C!Keys /\ UNCHANGED dep BY <1>3, <1>12 DEF C!DeleteObject, C!DropBlob
  <2> QED BY <2>1, <2>2, PassMoves
<1>13. ASSUME C!PassEnds \/ C!PassAborts PROVE SweepInv'
  <2>1. gc' = C!IdlePass /\ UNCHANGED <<dep, row>> BY <1>13 DEF C!PassEnds, C!PassAborts
  <2>2. Shape(gc') /\ gc'.pc # "delete" BY <1>1, <2>1
  <2> QED BY <2>1, <2>2, PassMoves
<1>14. ASSUME C!Age PROVE SweepInv'
  <2>1. Shape(gc') /\ gc'.pc # "delete" BY <1>14 DEF C!Age
  <2> QED BY <1>14, <2>1, PassMoves DEF C!Age
<1> QED BY <1>4, <1>5, <1>6, <1>7, <1>8, <1>9, <1>10, <1>11, <1>12, <1>13, <1>14, ConfirmProtects DEF C!Pass

\* CleanupBlobs sweeps an object only when, at its last check, no manifest row whose body
\* is there names it or lists it; one that refers to it at the deletion was written, or its
\* body was, after that check.  For all repositories, digests and requests, whatever the
\* planners chose, retired or failed to, for every deployment in which the bodies that
\* exist can be read (the run cleanup_unreadable shows what happens when they cannot).
THEOREM SweepsUnreferenced ==
    ASSUME BodiesReadable
    PROVE C!Spec => []SweptUnreferenced
<1>1. C!Init => SweepInv
  BY DEF C!Init, SweepInv, PassType, C!SweptUnreferenced, C!IdlePass
<1>2. SweepInv /\ [C!Next]_(C!vars) => SweepInv'
  <2>1. CASE C!Next
    <3> SUFFICES ASSUME SweepInv, C!Next PROVE SweepInv' BY <2>1
    <3> QED BY RequestsMark, PassKeeps DEF C!Next
  <2>2. CASE UNCHANGED C!vars
    BY <2>2 DEF C!vars, SweepInv, PassType, C!SweptUnreferenced, C!Refers, C!Has, C!Manifest, C!Object, C!Children
  <2> QED BY <2>1, <2>2
<1>3. SweepInv => SweptUnreferenced BY DEF SweepInv, SweptUnreferenced
<1> QED BY <1>1, <1>2, <1>3, PTL DEF C!Spec
=============================================================================
