----------------------------- MODULE DiskCache -----------------------------
(***************************************************************************)
(* The state that DiskCacheStore keeps under its mutex `mu': the index of  *)
(* cached objects, the admission of fills, the byte accounting, the key    *)
(* tokens that fence a fill against Put, Delete and Evict, the pins of     *)
(* open readers, and the files of the cache directory that stand behind    *)
(* them (src/internal/store/object/disk_cache*.go).                        *)
(*                                                                         *)
(* Every critical section of `mu' is one action, except makeRoomLocked,    *)
(* whose loop is one action per evicted entry while `room' holds the lock. *)
(* One fill of a digest is seen here as a whole (join, open, reserve,      *)
(* publish or give up); DiskCacheFlight models the readers, the producer   *)
(* and the reference counts inside one fill.                               *)
(***************************************************************************)
EXTENDS Integers, Sequences, FiniteSets

CONSTANTS
    Digests,             \* digests of the objects that are read and written
    Size,                \* Size[d]: bytes of the object with digest d
    MaxBytes, MaxObjectBytes, MaxEntries, MaxConcurrentFills,  \* DiskCacheOptions
    MetaBytes,           \* bytes of one metadata file
    Readers,             \* callers of Get that may hold a cached file open
    Mutators,            \* callers of Put, Delete and Evict
    MaxEpoch,            \* bound: canonical writes per digest
    MaxGeneration,       \* bound: overlapping key mutations per digest
    Faults               \* file operations that may fail in this instance

\* A size for instances in which every object is one unit.
UnitSize == [d \in Digests |-> 1]

FaultKinds == {"body", "meta", "temp", "rename", "publish", "stream"}

\* validateDiskCacheOptions refuses any other configuration.
ASSUME OptionsAssumption ==
    /\ MaxBytes \in Nat \ {0}
    /\ MaxObjectBytes \in Nat \ {0}
    /\ MaxEntries \in Nat \ {0}
    /\ MaxConcurrentFills \in Nat \ {0}
    /\ MaxObjectBytes <= MaxBytes

ASSUME ModelAssumption ==
    /\ Size \in [Digests -> Nat]
    /\ MetaBytes \in Nat
    /\ MaxEpoch \in Nat
    /\ MaxGeneration \in Nat
    /\ Faults \subseteq FaultKinds
    /\ IsFiniteSet(Digests) /\ IsFiniteSet(Mutators) /\ IsFiniteSet(Readers)
    /\ "no_digest" \notin Digests

VARIABLES
    entries,             \* entries[d]: the diskCacheEntry of d, or NoEntry
    lru,                 \* simplelru: digests, the oldest first
    fills,               \* fills[d]: the diskCacheFill of d, or NoFill
    keyStates,           \* keyStates[d]: diskCacheKeyState; users = 0 when absent
    bytes, reserved, orphanedBytes,
    diskFillDisabled, closed, lockReleased,
    room,                \* the digest whose fill runs makeRoomLocked, or NoDigest
    canon,               \* the canonical object store behind the cache
    body, meta,          \* files of objects/: the epoch they were written from
    temp,                \* digests whose running fill has a temporary file
    abandoned,           \* digests with a temporary file no fill owns any more
    mut,                 \* mut[m]: the mutation that m is executing
    reader,              \* reader[r]: the cached file that r has open
    snapshot             \* the open readers that Close found and waits for

fileVars == <<body, meta, temp, abandoned>>
vars == <<entries, lru, fills, keyStates, bytes, reserved, orphanedBytes,
          diskFillDisabled, closed, lockReleased, room, canon, body, meta,
          temp, abandoned, mut, reader, snapshot>>

NoDigest == "no_digest"
NoFile == -1
NoEntry == [present |-> FALSE, pins |-> 0, evictPending |-> FALSE, epoch |-> 0]
NoFill == [phase |-> "none", generation |-> 0, blocked |-> FALSE,
           invalid |-> FALSE, epoch |-> 0]
NoKey == [users |-> 0, generation |-> 0, mutations |-> 0]
NoMutation == [pc |-> "idle", op |-> "none", digest |-> NoDigest, depth |-> 0]
NoReader == [pc |-> "idle", digest |-> NoDigest]

FillPhases == {"none", "opening", "opened", "refused", "prepared", "aborting"}
Present == {d \in Digests : entries[d].present}
Filling == {d \in Digests : fills[d].phase # "none"}
Reserving == {d \in Digests : fills[d].phase \in {"prepared", "aborting"}}

-----------------------------------------------------------------------------
(* Clamped subtraction, as every decrement of a byte counter is written.    *)
Minus(a, b) == IF a < b THEN 0 ELSE a - b

(* A file operation can fail when the instance allows the fault, and always *)
(* does once closeCacheRoot has closed the directory.                       *)
CanFail(kind) == kind \in Faults \/ lockReleased

Unlocked == room = NoDigest

-----------------------------------------------------------------------------
(* simplelru *)
Positions(s, d) == {i \in 1..Len(s) : s[i] = d}

LruRemove(s, d) ==
    IF Positions(s, d) = {} THEN s
    ELSE LET i == CHOOSE i \in Positions(s, d) : TRUE
         IN  SubSeq(s, 1, i - 1) \o SubSeq(s, i + 1, Len(s))

\* Get moves the key to the newest end.
LruGet(s, d) == IF Positions(s, d) = {} THEN s ELSE Append(LruRemove(s, d), d)

\* Add drops the oldest key when the list is full, whatever it belongs to.
LruAdd(s, d) == IF Len(s) >= MaxEntries THEN Append(Tail(s), d) ELSE Append(s, d)

-----------------------------------------------------------------------------
(* Key tokens *)

\* acquireKeyTokenLocked for a new fill.
AcquiredKey(k) == [k EXCEPT !.users = @ + 1]

\* Mutant: the state of an unused key is kept.
MutantReleasedKeyKept(k) == [k EXCEPT !.users = @ - 1]

\* releaseKeyTokenLocked: the state of a digest nobody uses is dropped.
ReleasedKey(k) ==
    IF k.users - 1 <= 0 /\ k.mutations = 0 THEN NoKey ELSE [k EXCEPT !.users = @ - 1]

BegunKey(k) ==
    [users |-> k.users + 1, generation |-> k.generation + 1, mutations |-> k.mutations + 1]

FinishedKey(k) ==
    ReleasedKey([users |-> k.users, generation |-> k.generation + 1,
                 mutations |-> k.mutations - 1])

\* keyTokenValidLocked. The state a token points to is the one in the map as
\* long as the token is held, because the holder is one of its users (KeyUsers).
KeyTokenValid(d) ==
    /\ ~fills[d].blocked
    /\ ~closed
    /\ keyStates[d].users > 0
    /\ keyStates[d].generation = fills[d].generation
    /\ keyStates[d].mutations = 0

\* diskCacheFlightValidLocked and fillCanBePublishedLocked.
FillValid(d) == ~closed /\ ~fills[d].invalid /\ fills[d].phase # "none" /\ KeyTokenValid(d)

-----------------------------------------------------------------------------
(* removeEntryLocked on the unpinned entry e of d (every caller tests pins  *)
(* first), with the recency list s: the body goes before the metadata, and  *)
(* an entry whose files cannot be removed stays, marked evictPending.       *)
RemoveEntryLocked(d, e, s) ==
    \/ /\ ~lockReleased
       /\ entries' = [entries EXCEPT ![d] = NoEntry]
       /\ lru' = LruRemove(s, d)
       /\ bytes' = Minus(bytes, Size[d])
       /\ body' = [body EXCEPT ![d] = NoFile]
       /\ meta' = [meta EXCEPT ![d] = NoFile]
    \/ /\ lockReleased \/ (CanFail("body") /\ body[d] # NoFile)
       /\ entries' = [entries EXCEPT ![d] = [e EXCEPT !.evictPending = TRUE]]
       /\ lru' = s
       /\ UNCHANGED <<bytes, body, meta>>
    \/ /\ CanFail("meta") /\ ~lockReleased /\ meta[d] # NoFile
       /\ entries' = [entries EXCEPT ![d] = [e EXCEPT !.evictPending = TRUE]]
       /\ body' = [body EXCEPT ![d] = NoFile]
       /\ lru' = s
       /\ UNCHANGED <<bytes, meta>>

\* Mutant: the pins of the entry are not looked at.
MutantMarkEvictedPinned(d, s) ==
    RemoveEntryLocked(d, [entries[d] EXCEPT !.evictPending = TRUE], s)

\* markEntryExpiredLocked, and the same statement inside beginKeyMutation.
MarkEvicted(d, s) ==
    LET e == [entries[d] EXCEPT !.evictPending = TRUE]
    IN  IF e.pins = 0
        THEN RemoveEntryLocked(d, e, s)
        ELSE /\ entries' = [entries EXCEPT ![d] = e]
             /\ lru' = s
             /\ UNCHANGED <<bytes, body, meta>>

-----------------------------------------------------------------------------
(* Reads served from the cache *)

\* openPinnedCachedFileLocked with a fresh entry and a verified body.
OpenCached(r, d) ==
    /\ Unlocked
    /\ reader[r].pc = "idle"
    /\ ~closed
    /\ entries[d].present /\ ~entries[d].evictPending
    /\ Positions(lru, d) # {}
    /\ body[d] = entries[d].epoch
    /\ entries' = [entries EXCEPT ![d].pins = @ + 1]
    /\ lru' = LruGet(lru, d)
    /\ reader' = [reader EXCEPT ![r] = [pc |-> "opened", digest |-> d]]
    /\ UNCHANGED <<fills, keyStates, bytes, reserved, orphanedBytes, diskFillDisabled,
                   closed, lockReleased, room, canon, mut, snapshot>>
    /\ UNCHANGED fileVars

\* The same call when the entry is past its TTL or its body does not match its
\* metadata (an outside change of the file): the caller goes on as for a miss.
OpenExpired(d) ==
    /\ Unlocked
    /\ ~closed
    /\ entries[d].present /\ ~entries[d].evictPending
    /\ Positions(lru, d) # {}
    /\ MarkEvicted(d, LruGet(lru, d))
    /\ UNCHANGED <<fills, keyStates, reserved, orphanedBytes, diskFillDisabled, closed,
                   lockReleased, room, canon, temp, abandoned, mut, reader, snapshot>>

\* finishCachedOpen registers the reader; when the store was closed in between,
\* or the requested range or the seek fails, the file is closed and released.
RegisterReader(r) ==
    /\ Unlocked
    /\ reader[r].pc = "opened"
    /\ \/ ~closed /\ reader' = [reader EXCEPT ![r].pc = "reading"]
       \/ reader' = [reader EXCEPT ![r].pc = "releasing"]
    /\ UNCHANGED <<entries, lru, fills, keyStates, bytes, reserved, orphanedBytes,
                   diskFillDisabled, closed, lockReleased, room, canon, mut, snapshot>>
    /\ UNCHANGED fileVars

\* diskCacheFileReader.Close, first critical section: the reader is forgotten.
CloseReader(r) ==
    /\ Unlocked
    /\ reader[r].pc = "reading"
    /\ reader' = [reader EXCEPT ![r].pc = "releasing"]
    /\ UNCHANGED <<entries, lru, fills, keyStates, bytes, reserved, orphanedBytes,
                   diskFillDisabled, closed, lockReleased, room, canon, mut, snapshot>>
    /\ UNCHANGED fileVars

\* Mutant: the last release forgets the eviction that waits for it.
MutantReleaseEntryForgets(r) ==
    /\ Unlocked
    /\ reader[r].pc = "releasing"
    /\ reader' = [reader EXCEPT ![r] = NoReader]
    /\ entries' = [entries EXCEPT ![reader[r].digest].pins = @ - 1]
    /\ UNCHANGED <<lru, fills, keyStates, bytes, reserved, orphanedBytes, diskFillDisabled,
                   closed, lockReleased, room, canon, mut, snapshot>>
    /\ UNCHANGED fileVars

\* releaseEntry: drop the pin; the last one removes an entry marked evictPending,
\* unless the directory was already given up.
ReleaseEntry(r) ==
    LET d == reader[r].digest
        e == [entries[d] EXCEPT !.pins = IF @ > 0 THEN @ - 1 ELSE @]
    IN  /\ Unlocked
        /\ reader[r].pc = "releasing"
        /\ reader' = [reader EXCEPT ![r] = NoReader]
        /\ IF entries[d].present /\ e.pins = 0 /\ e.evictPending /\ ~lockReleased
           THEN RemoveEntryLocked(d, e, lru)
           ELSE /\ entries' = IF entries[d].present THEN [entries EXCEPT ![d] = e] ELSE entries
                /\ UNCHANGED <<lru, bytes, body, meta>>
        /\ UNCHANGED <<fills, keyStates, reserved, orphanedBytes, diskFillDisabled, closed,
                       lockReleased, room, canon, temp, abandoned, mut, snapshot>>

-----------------------------------------------------------------------------
(* Put, Delete and Evict *)

\* Mutant: the cached entry is left alone until the canonical store has changed.
MutantBeginKeepsEntry(d) ==
    /\ keyStates' = [keyStates EXCEPT ![d] = BegunKey(@)]
    /\ fills' = [fills EXCEPT ![d].invalid = (@ \/ fills[d].phase # "none")]
    /\ UNCHANGED <<entries, lru, bytes, reserved, orphanedBytes, diskFillDisabled, closed,
                   lockReleased, room, canon, reader, snapshot>>
    /\ UNCHANGED fileVars

\* beginKeyMutation: running fills and the cached entry are invalidated before
\* the canonical store is touched.
BeginKeyMutation(d) ==
    /\ keyStates' = [keyStates EXCEPT ![d] = BegunKey(@)]
    /\ fills' = [fills EXCEPT ![d].invalid = (@ \/ fills[d].phase # "none")]
    /\ IF entries[d].present THEN MarkEvicted(d, lru)
       ELSE UNCHANGED <<entries, lru, bytes, body, meta>>
    /\ UNCHANGED <<reserved, orphanedBytes, diskFillDisabled, closed, lockReleased, room,
                   canon, temp, abandoned, reader, snapshot>>

\* Put and Delete go on to the canonical store, Evict to its own removal.
BeginMutation(m, op, d) ==
    /\ Unlocked
    /\ mut[m].pc = "idle"
    /\ ~closed
    /\ canon[d].epoch < MaxEpoch
    /\ keyStates[d].generation < MaxGeneration
    /\ BeginKeyMutation(d)
    /\ mut' = [mut EXCEPT ![m] = [pc |-> IF op = "Evict" THEN "removing" ELSE "backend",
                                  op |-> op, digest |-> d, depth |-> 1]]

\* backend.Put or backend.Delete; a call that reports an error may have had its
\* effect all the same. A Put that succeeded goes on to Evict.
MutateBackend(m) ==
    LET d == mut[m].digest
    IN  /\ mut[m].pc = "backend"
        /\ \/ /\ canon' = [canon EXCEPT ![d] = [exists |-> mut[m].op = "Put",
                                                epoch |-> @.epoch + 1]]
              /\ \/ mut' = [mut EXCEPT ![m].pc = IF mut[m].op = "Put" THEN "evict" ELSE "finish"]
                 \/ mut' = [mut EXCEPT ![m].pc = "finish"]
           \/ /\ mut' = [mut EXCEPT ![m].pc = "finish"]
              /\ UNCHANGED canon
        /\ UNCHANGED <<entries, lru, fills, keyStates, bytes, reserved, orphanedBytes,
                       diskFillDisabled, closed, lockReleased, room, reader, snapshot>>
        /\ UNCHANGED fileVars

\* The Evict inside Put: a second key mutation, refused once the store is closed.
PutEvict(m) ==
    /\ Unlocked
    /\ mut[m].pc = "evict"
    /\ IF closed
       THEN /\ mut' = [mut EXCEPT ![m].pc = "finish"]
            /\ UNCHANGED <<entries, lru, fills, keyStates, bytes, reserved, orphanedBytes,
                           diskFillDisabled, closed, lockReleased, room, canon, reader, snapshot>>
            /\ UNCHANGED fileVars
       ELSE /\ BeginKeyMutation(mut[m].digest)
            /\ mut' = [mut EXCEPT ![m].pc = "removing", ![m].depth = @ + 1]

\* entryRemovalError: one more attempt to remove what beginKeyMutation marked.
EntryRemoval(m) ==
    LET d == mut[m].digest
    IN  /\ Unlocked
        /\ mut[m].pc = "removing"
        /\ mut' = [mut EXCEPT ![m].pc = "finish"]
        /\ IF entries[d].present /\ entries[d].pins = 0 /\ entries[d].evictPending
           THEN RemoveEntryLocked(d, entries[d], lru)
           ELSE UNCHANGED <<entries, lru, bytes, body, meta>>
        /\ UNCHANGED <<fills, keyStates, reserved, orphanedBytes, diskFillDisabled, closed,
                       lockReleased, room, canon, temp, abandoned, reader, snapshot>>

\* finishKeyMutation, for the inner mutation of a Put before the outer one.
FinishMutation(m) ==
    LET d == mut[m].digest
    IN  /\ Unlocked
        /\ mut[m].pc = "finish"
        /\ keyStates' = [keyStates EXCEPT ![d] = FinishedKey(@)]
        /\ mut' = IF mut[m].depth > 1 THEN [mut EXCEPT ![m].depth = @ - 1]
                                      ELSE [mut EXCEPT ![m] = NoMutation]
        /\ UNCHANGED <<entries, lru, fills, bytes, reserved, orphanedBytes, diskFillDisabled,
                       closed, lockReleased, room, canon, reader, snapshot>>
        /\ UNCHANGED fileVars

-----------------------------------------------------------------------------
(* Fills *)

\* joinDiskCacheFlight when it starts a fill; a caller it turns away reads the
\* canonical store directly and changes nothing here.
JoinNewFlight(d) ==
    /\ Unlocked
    /\ ~closed
    /\ fills[d].phase = "none"
    /\ ~entries[d].present
    /\ ~diskFillDisabled
    /\ Cardinality(Filling) < MaxConcurrentFills
    /\ fills' = [fills EXCEPT ![d] = [phase |-> "opening",
                                      generation |-> keyStates[d].generation,
                                      blocked |-> keyStates[d].mutations > 0,
                                      invalid |-> FALSE, epoch |-> 0]]
    /\ keyStates' = [keyStates EXCEPT ![d] = AcquiredKey(@)]
    /\ UNCHANGED <<entries, lru, bytes, reserved, orphanedBytes, diskFillDisabled, closed,
                   lockReleased, room, canon, mut, reader, snapshot>>
    /\ UNCHANGED fileVars

\* endFillLocked.
EndFillLocked(d) ==
    /\ fills' = [fills EXCEPT ![d] = NoFill]
    /\ reserved' = IF d \in Reserving THEN Minus(reserved, Size[d]) ELSE reserved
    /\ keyStates' = [keyStates EXCEPT ![d] = ReleasedKey(@)]

\* openDiskCacheFlight: the canonical object as it is at this moment.
OpenCanonical(d) ==
    /\ fills[d].phase = "opening"
    /\ canon[d].exists
    /\ fills' = [fills EXCEPT ![d].phase = "opened", ![d].epoch = canon[d].epoch]
    /\ UNCHANGED <<entries, lru, keyStates, bytes, reserved, orphanedBytes, diskFillDisabled,
                   closed, lockReleased, room, canon, mut, reader, snapshot>>
    /\ UNCHANGED fileVars

\* finishDiskCacheFlightOpenError and finishDiskCacheFlightBypass: the canonical
\* read failed, was cancelled or is of an object this cache will not hold.
GiveUpFill(d) ==
    /\ Unlocked
    /\ fills[d].phase \in {"opening", "opened", "refused"}
    /\ EndFillLocked(d)
    /\ UNCHANGED <<entries, lru, bytes, orphanedBytes, diskFillDisabled, closed,
                   lockReleased, room, canon, mut, reader, snapshot>>
    /\ UNCHANGED fileVars

\* prepareDiskCacheFlight takes the lock and enters makeRoomForExistingFillLocked.
StartPrepare(d) ==
    /\ Unlocked
    /\ fills[d].phase = "opened"
    /\ Size[d] <= MaxObjectBytes
    /\ FillValid(d)
    /\ room' = d
    /\ UNCHANGED <<entries, lru, fills, keyStates, bytes, reserved, orphanedBytes,
                   diskFillDisabled, closed, lockReleased, canon, mut, reader, snapshot>>
    /\ UNCHANGED fileVars

\* The condition of the loop of makeRoomLockedWithFillSlot: extra is 0 for a fill,
\* which is counted among the fills already, and 1 for an entry being restored.
Fits(d, extra) ==
    /\ bytes + reserved + orphanedBytes + Size[d] <= MaxBytes
    /\ Cardinality(Present) + Cardinality(Filling) + extra <= MaxEntries

\* oldestUnpinnedEntryLocked finds position i; the pinned entries before it have
\* been moved to the newest end.
OldestUnpinned(i) ==
    /\ entries[lru[i]].pins = 0
    /\ \A j \in 1..(i - 1) : entries[lru[j]].pins > 0

Rotated(i) == SubSeq(lru, i, Len(lru)) \o SubSeq(lru, 1, i - 1)

\* One round of the loop; an entry that cannot be removed ends it without room.
EvictForRoom ==
    /\ room # NoDigest
    /\ ~Fits(room, 0)
    /\ \E i \in 1..Len(lru) :
          /\ OldestUnpinned(i)
          /\ RemoveEntryLocked(lru[i], entries[lru[i]], Rotated(i))
          /\ IF entries'[lru[i]].present
             THEN /\ fills' = [fills EXCEPT ![room].phase = "refused"]
                  /\ room' = NoDigest
             ELSE UNCHANGED <<fills, room>>
    /\ UNCHANGED <<keyStates, reserved, orphanedBytes, diskFillDisabled, closed, lockReleased,
                   canon, temp, abandoned, mut, reader, snapshot>>

\* Nothing left to evict.
RoomRefused ==
    /\ room # NoDigest
    /\ ~Fits(room, 0)
    /\ \A i \in 1..Len(lru) : entries[lru[i]].pins > 0
    /\ fills' = [fills EXCEPT ![room].phase = "refused"]
    /\ room' = NoDigest
    /\ UNCHANGED <<entries, lru, keyStates, bytes, reserved, orphanedBytes, diskFillDisabled,
                   closed, lockReleased, canon, mut, reader, snapshot>>
    /\ UNCHANGED fileVars

\* The rest of prepareDiskCacheFlight: create the temporary file and reserve its
\* bytes. When the stream cannot be created the fill is bypassed, and a temporary
\* file that cannot be removed either is left behind.
ReserveFill ==
    /\ room # NoDigest
    /\ Fits(room, 0)
    /\ \/ /\ fills' = [fills EXCEPT ![room].phase = "prepared"]
          /\ reserved' = reserved + Size[room]
          /\ temp' = temp \cup {room}
          /\ UNCHANGED abandoned
       \/ /\ CanFail("stream")
          /\ fills' = [fills EXCEPT ![room].phase = "refused"]
          /\ abandoned' \in {abandoned} \cup
                {abandoned \cup {d} : d \in IF CanFail("temp") THEN {room} ELSE {}}
          /\ UNCHANGED <<reserved, temp>>
    /\ room' = NoDigest
    /\ UNCHANGED <<entries, lru, keyStates, bytes, orphanedBytes, diskFillDisabled, closed,
                   lockReleased, canon, body, meta, mut, reader, snapshot>>

\* publishFill for a fill that one of its readers consumed to the end and whose
\* bytes matched the digest: rename the body, persist the metadata, index it.
PublishFill(d) ==
    /\ Unlocked
    /\ fills[d].phase = "prepared"
    /\ FillValid(d)
    /\ entries' = [entries EXCEPT ![d] = [present |-> TRUE, pins |-> 0,
                                          evictPending |-> FALSE, epoch |-> fills[d].epoch]]
    /\ lru' = LruAdd(lru, d)
    /\ bytes' = bytes + Size[d]
    /\ body' = [body EXCEPT ![d] = fills[d].epoch]
    /\ meta' = [meta EXCEPT ![d] = fills[d].epoch]
    /\ temp' = temp \ {d}
    /\ EndFillLocked(d)
    /\ UNCHANGED <<orphanedBytes, diskFillDisabled, closed, lockReleased, room, canon,
                   abandoned, mut, reader, snapshot>>

\* publishFill when the body cannot be renamed: the fill is aborted next.
PublishRenameError(d) ==
    /\ Unlocked
    /\ fills[d].phase = "prepared"
    /\ FillValid(d)
    /\ CanFail("rename")
    /\ fills' = [fills EXCEPT ![d].phase = "aborting"]
    /\ UNCHANGED <<entries, lru, keyStates, bytes, reserved, orphanedBytes, diskFillDisabled,
                   closed, lockReleased, room, canon, mut, reader, snapshot>>
    /\ UNCHANGED fileVars

\* publishFill when the renamed body cannot be inspected or its metadata not be
\* persisted: the body is removed again (removePublishedBodyLocked), or kept as an
\* entry that is never served (trackUnpublishedEntryLocked). A metadata temporary
\* file that cannot be removed is charged and stops further fills.
PublishMetadataError(d) ==
    /\ Unlocked
    /\ fills[d].phase = "prepared"
    /\ FillValid(d)
    /\ CanFail("publish")
    /\ \/ /\ UNCHANGED <<entries, lru, bytes>>
          /\ body' = [body EXCEPT ![d] = NoFile]
       \/ /\ CanFail("body")
          /\ entries' = [entries EXCEPT ![d] = [present |-> TRUE, pins |-> 0,
                                                evictPending |-> TRUE, epoch |-> fills[d].epoch]]
          /\ lru' = LruAdd(lru, d)
          /\ bytes' = bytes + Size[d]
          /\ body' = [body EXCEPT ![d] = fills[d].epoch]
    /\ \/ UNCHANGED <<orphanedBytes, diskFillDisabled>>
       \/ /\ CanFail("temp")
          /\ orphanedBytes' = orphanedBytes + MetaBytes
          /\ diskFillDisabled' = TRUE
    /\ temp' = temp \ {d}
    /\ EndFillLocked(d)
    /\ UNCHANGED <<meta, closed, lockReleased, room, canon, abandoned, mut, reader, snapshot>>

\* Mutant: a temporary file that cannot be removed is no longer charged.
MutantAbortUncharged(d) ==
    /\ Unlocked
    /\ fills[d].phase \in {"prepared", "aborting"}
    /\ temp' = temp \ {d}
    /\ EndFillLocked(d)
    /\ abandoned' = IF CanFail("temp") THEN abandoned \cup {d} ELSE abandoned
    /\ UNCHANGED <<entries, lru, bytes, orphanedBytes, diskFillDisabled, closed, lockReleased,
                   room, canon, body, meta, mut, reader, snapshot>>

\* abortFill (and discardUnpublishableFillLocked): the copy failed, nobody read it
\* to the end, the fill was invalidated, or publication failed. A temporary file
\* that cannot be removed keeps its bytes charged and stops further fills.
AbortFill(d) ==
    /\ Unlocked
    /\ fills[d].phase \in {"prepared", "aborting"}
    /\ temp' = temp \ {d}
    /\ EndFillLocked(d)
    /\ \/ /\ ~lockReleased
          /\ UNCHANGED <<orphanedBytes, diskFillDisabled, abandoned>>
       \/ /\ CanFail("temp")
          /\ orphanedBytes' = orphanedBytes + Size[d]
          /\ diskFillDisabled' = TRUE
          /\ abandoned' = abandoned \cup {d}
    /\ UNCHANGED <<entries, lru, bytes, closed, lockReleased, room, canon, body, meta, mut,
                   reader, snapshot>>

-----------------------------------------------------------------------------
(* Close *)

\* markClosed: refuse new work, invalidate the running fills and remember the
\* readers that are open.
MarkClosed ==
    /\ Unlocked
    /\ ~closed
    /\ closed' = TRUE
    /\ fills' = [d \in Digests |-> [fills[d] EXCEPT !.invalid = (@ \/ fills[d].phase # "none")]]
    /\ snapshot' = {r \in Readers : reader[r].pc = "reading"}
    /\ UNCHANGED <<entries, lru, keyStates, bytes, reserved, orphanedBytes, diskFillDisabled,
                   lockReleased, room, canon, mut, reader>>
    /\ UNCHANGED fileVars

\* closeCacheRoot, after the snapshot's readers have been closed and every
\* producer has returned. The last reader of a prepared fill may still have to
\* finish it: its reference is gone before the fill is.
CloseCacheRoot ==
    /\ Unlocked
    /\ closed
    /\ ~lockReleased
    /\ \A r \in snapshot : reader[r].pc = "idle"
    /\ \A d \in Digests : fills[d].phase \in {"none", "prepared", "aborting"}
    /\ lockReleased' = TRUE
    /\ UNCHANGED <<entries, lru, fills, keyStates, bytes, reserved, orphanedBytes,
                   diskFillDisabled, closed, room, canon, mut, reader, snapshot>>
    /\ UNCHANGED fileVars

\* A closed store with nothing left to do.
Terminated ==
    /\ lockReleased
    /\ Filling = {}
    /\ \A m \in Mutators : mut[m].pc = "idle"
    /\ \A r \in Readers : reader[r].pc = "idle"
    /\ UNCHANGED vars

-----------------------------------------------------------------------------
\* The memory of a store that NewDiskCache has just allocated.
InitMemory ==
    /\ entries = [d \in Digests |-> NoEntry]
    /\ lru = <<>>
    /\ fills = [d \in Digests |-> NoFill]
    /\ keyStates = [d \in Digests |-> NoKey]
    /\ bytes = 0 /\ reserved = 0 /\ orphanedBytes = 0
    /\ diskFillDisabled = FALSE /\ closed = FALSE /\ lockReleased = FALSE
    /\ room = NoDigest
    /\ temp = {}
    /\ mut = [m \in Mutators |-> NoMutation]
    /\ reader = [r \in Readers |-> NoReader]
    /\ snapshot = {}

\* An empty directory in front of any canonical store.
Init ==
    /\ InitMemory
    /\ canon \in [Digests -> [exists : BOOLEAN, epoch : {0}]]
    /\ body = [d \in Digests |-> NoFile]
    /\ meta = [d \in Digests |-> NoFile]
    /\ abandoned = {}

ReadStep ==
    \/ \E r \in Readers, d \in Digests : OpenCached(r, d)
    \/ \E d \in Digests : OpenExpired(d)
    \/ \E r \in Readers : RegisterReader(r) \/ CloseReader(r) \/ ReleaseEntry(r)

MutationStep ==
    \/ \E m \in Mutators, op \in {"Put", "Delete", "Evict"}, d \in Digests : BeginMutation(m, op, d)
    \/ \E m \in Mutators : MutateBackend(m) \/ PutEvict(m) \/ EntryRemoval(m) \/ FinishMutation(m)

FillStep ==
    \/ \E d \in Digests : JoinNewFlight(d) \/ OpenCanonical(d) \/ GiveUpFill(d) \/ StartPrepare(d)
    \/ EvictForRoom \/ RoomRefused \/ ReserveFill
    \/ \E d \in Digests :
          PublishFill(d) \/ PublishRenameError(d) \/ PublishMetadataError(d) \/ AbortFill(d)

CloseStep == MarkClosed \/ CloseCacheRoot \/ Terminated

Next == ReadStep \/ MutationStep \/ FillStep \/ CloseStep

Spec == Init /\ [][Next]_vars

-----------------------------------------------------------------------------
(* Properties *)

Entry == [present : BOOLEAN, pins : Nat, evictPending : BOOLEAN, epoch : Nat]
Fill == [phase : FillPhases, generation : Nat, blocked : BOOLEAN, invalid : BOOLEAN, epoch : Nat]
Key == [users : Int, generation : Nat, mutations : Int]
Canonical == [exists : BOOLEAN, epoch : Nat]
Mutation == [pc : {"idle", "backend", "evict", "removing", "finish"},
             op : {"none", "Put", "Delete", "Evict"},
             digest : Digests \cup {NoDigest}, depth : 0..2]
Reader == [pc : {"idle", "opened", "reading", "releasing"}, digest : Digests \cup {NoDigest}]

\* Every variable has its type.
TypeOK ==
    /\ entries \in [Digests -> Entry]
    /\ lru \in Seq(Digests)
    /\ fills \in [Digests -> Fill]
    /\ keyStates \in [Digests -> Key]
    /\ bytes \in Nat /\ reserved \in Nat /\ orphanedBytes \in Nat
    /\ diskFillDisabled \in BOOLEAN /\ closed \in BOOLEAN /\ lockReleased \in BOOLEAN
    /\ room \in Digests \cup {NoDigest}
    /\ canon \in [Digests -> Canonical]
    /\ body \in [Digests -> Nat \cup {NoFile}]
    /\ meta \in [Digests -> Nat \cup {NoFile}]
    /\ temp \subseteq Digests /\ abandoned \subseteq Digests
    /\ mut \in [Mutators -> Mutation]
    /\ reader \in [Readers -> Reader]
    /\ snapshot \subseteq Readers

\* Cached, reserved and orphaned bytes together stay within MaxBytes. Only the
\* metadata files that could not be removed can exceed it, and by then fills are
\* disabled (makeRoomLocked, prepareDiskCacheFlight, persistMetadataLocked).
CapacityBound == diskFillDisabled \/ bytes + reserved + orphanedBytes <= MaxBytes

\* The recency list names every entry once: simplelru, which drops its oldest key
\* when it is full, never loses one that is still in the index.
LruIndexesEntries ==
    /\ {lru[i] : i \in 1..Len(lru)} = Present
    /\ Len(lru) = Cardinality(Present)

\* The bytes of the objects in S.
ObjectBytes(S) == UNION {{d} \X (1 .. Size[d]) : d \in S}
TotalSize(S) == Cardinality(ObjectBytes(S))

\* The byte counters are the sums they stand for: no decrement was clamped and no
\* fill was charged twice.
BytesAccounted ==
    /\ bytes = TotalSize(Present)
    /\ reserved = TotalSize(Reserving)

\* What is on disk is charged: every body and every temporary file belongs to an
\* entry, a reservation or the orphaned bytes.
DiskAccounted ==
    /\ \A d \in Digests : body[d] # NoFile => d \in Present
    /\ temp \subseteq Reserving
    /\ TotalSize(abandoned) <= orphanedBytes

\* An entry that can be served holds the canonical object as the last completed or
\* running Put or Delete of this store left it: a fill that overlaps a mutation of
\* its digest is never published, and an entry is withdrawn before the mutation.
ServableIsCurrent ==
    \A d \in Digests :
        entries[d].present /\ ~entries[d].evictPending =>
            canon[d].exists /\ entries[d].epoch = canon[d].epoch

\* The readers that have the cached file of d open.
Pinning(d) == {r \in Readers : reader[r].pc # "idle" /\ reader[r].digest = d}

\* A reader that has a cached file open keeps its entry in the index and the file in
\* place, whatever evictions, mutations and fills happen meanwhile, and the entry
\* counts exactly its readers.
PinnedEntryKept ==
    /\ \A r \in Readers : reader[r].pc # "idle" =>
          LET d == reader[r].digest
          IN  entries[d].present /\ body[d] = entries[d].epoch
    /\ \A d \in Present :
          entries[d].pins = Cardinality(Pinning(d))

\* The calls inside at least k mutations of d that have begun and not finished.
Inside(d, k) == {m \in Mutators : mut[m].digest = d /\ mut[m].depth >= k}
Mutations(d) == Cardinality(Inside(d, 1)) + Cardinality(Inside(d, 2))

\* The state of a key counts its holders and lives exactly as long as it has one, so
\* generations cannot restart under a token that is still held, and nothing leaks.
KeyUsers ==
    \A d \in Digests :
        /\ keyStates[d].mutations = Mutations(d)
        /\ keyStates[d].users = Mutations(d) + (IF d \in Filling THEN 1 ELSE 0)
        /\ keyStates[d].users = 0 => keyStates[d] = NoKey

\* A digest is never both cached and being filled, so publishing cannot replace the
\* file under an entry (joinDiskCacheFlight, trackUnpublishedEntryLocked).
FillExcludesEntry == Present \cap Filling = {}

-----------------------------------------------------------------------------
(* Liveness. A goroutine that waits for `mu' gets it, although others keep  *)
(* taking it in between: sync.Mutex hands over to a starving waiter. That   *)
(* is strong fairness of every critical section a call still has to enter.  *)
(* No fairness makes callers start anything, publish or stop reading.       *)
Fairness ==
    /\ WF_vars(EvictForRoom \/ RoomRefused \/ ReserveFill)
    /\ SF_vars(CloseCacheRoot)
    /\ \A d \in Digests : SF_vars(closed /\ (GiveUpFill(d) \/ AbortFill(d)))
    /\ \A r \in Readers :
          SF_vars(RegisterReader(r) \/ ReleaseEntry(r) \/ (closed /\ CloseReader(r)))
    /\ \A m \in Mutators :
          SF_vars(MutateBackend(m) \/ PutEvict(m) \/ EntryRemoval(m) \/ FinishMutation(m))

FairSpec == Spec /\ Fairness

\* Close completes: the directory is given up and every fill, mutation and reader
\* that was running has ended.
CloseCompletes ==
    closed ~> /\ lockReleased /\ Filling = {}
              /\ \A m \in Mutators : mut[m].pc = "idle"
              /\ \A r \in Readers : reader[r].pc = "idle"

\* An entry that Delete or Evict found in use goes away, unless one of its readers
\* is never closed.
EvictionCompletes ==
    \A d \in Digests :
        entries[d].evictPending ~>
            \/ ~entries[d].evictPending
            \/ \E r \in Readers : reader[r] = [pc |-> "reading", digest |-> d]
            \/ closed

\* Close drains fills, mutations and readers and gives the directory up, and an entry that
\* Delete or Evict found in use goes away once its readers do (DiskCache.Close,
\* removeEntryLocked, release).
CallsComplete == CloseCompletes /\ EvictionCompletes
=============================================================================
