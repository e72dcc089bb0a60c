-------------------------- MODULE DiskCacheRestart --------------------------
(***************************************************************************)
(* DiskCache with a process that can stop at any moment, also between two  *)
(* file operations of one critical section, and start again on the same    *)
(* directory: NewDiskCache, initializeDirectory and the index that         *)
(* loadDiskCacheEntries rebuilds (disk_cache.go, disk_cache_files.go,      *)
(* disk_cache_index.go). Start-up runs before the store is shared, so its  *)
(* steps interleave with nothing but another crash.                        *)
(***************************************************************************)
EXTENDS DiskCache

VARIABLES
    status,      \* "up", "down" or "loading"
    toLoad       \* metadata files that loadMetadataEntries has not visited yet

rvars == <<vars, status, toLoad>>

\* The files an earlier process, possibly with larger limits, may have left:
\* complete pairs, bodies whose metadata was not published yet, and metadata
\* whose body was removed first.
RInit ==
    /\ InitMemory
    /\ canon = [d \in Digests |-> [exists |-> TRUE, epoch |-> 0]]
    /\ body \in [Digests -> {NoFile, 0}]
    /\ meta \in [Digests -> {NoFile, 0}]
    /\ abandoned \in SUBSET Digests
    /\ status = "down"
    /\ toLoad = {}

\* A step of the running store.
Run ==
    /\ status = "up"
    /\ Next
    /\ UNCHANGED <<status, toLoad>>

\* InitMemory, in the next state.
LoseMemory ==
    /\ entries' = [d \in Digests |-> NoEntry]
    /\ lru' = <<>>
    /\ fills' = [d \in Digests |-> NoFill]
    /\ keyStates' = [d \in Digests |-> NoKey]
    /\ bytes' = 0 /\ reserved' = 0 /\ orphanedBytes' = 0
    /\ diskFillDisabled' = FALSE /\ closed' = FALSE /\ lockReleased' = FALSE
    /\ room' = NoDigest
    /\ temp' = {}
    /\ mut' = [m \in Mutators |-> NoMutation]
    /\ reader' = [r \in Readers |-> NoReader]
    /\ snapshot' = {}

\* The process dies between two steps, or inside publishFill after the body was
\* renamed, or inside removeEntryLocked after the body was removed.
Crash ==
    /\ status # "down"
    /\ status' = "down"
    /\ toLoad' = {}
    /\ LoseMemory
    /\ \/ /\ abandoned' = abandoned \cup temp
          /\ UNCHANGED body
       \/ \E d \in Digests :
             /\ fills[d].phase = "prepared" /\ FillValid(d)
             /\ body' = [body EXCEPT ![d] = fills[d].epoch]
             /\ abandoned' = abandoned \cup (temp \ {d})
       \/ \E d \in Present :
             /\ entries[d].pins = 0
             /\ body' = [body EXCEPT ![d] = NoFile]
             /\ abandoned' = abandoned \cup temp
    /\ UNCHANGED <<canon, meta>>

\* initializeDirectory up to the index: removeOwnedTemporaryFiles.
Start ==
    /\ status = "down"
    /\ status' = "loading"
    /\ abandoned' = {}
    /\ toLoad' = {d \in Digests : meta[d] # NoFile}
    /\ UNCHANGED <<entries, lru, fills, keyStates, bytes, reserved, orphanedBytes,
                   diskFillDisabled, closed, lockReleased, room, canon, body, meta, temp, mut,
                   reader, snapshot>>

\* loadDiskCacheEntry accepts the pair of d (restoreDiskCacheEntry).
LoadEntry(d) ==
    /\ status = "loading"
    /\ d \in toLoad
    /\ body[d] = meta[d]
    /\ Size[d] <= MaxObjectBytes
    /\ Fits(d, 1)
    /\ entries' = [entries EXCEPT ![d] = [present |-> TRUE, pins |-> 0,
                                          evictPending |-> FALSE, epoch |-> meta[d]]]
    /\ lru' = LruAdd(lru, d)
    /\ bytes' = bytes + Size[d]
    /\ toLoad' = toLoad \ {d}
    /\ UNCHANGED <<fills, keyStates, reserved, orphanedBytes, diskFillDisabled, closed,
                   lockReleased, room, canon, mut, reader, snapshot, status>>
    /\ UNCHANGED fileVars

\* makeRoomLocked evicts an entry that was restored before d; when that fails, d
\* is refused (RejectEntry), here possibly after trying again.
EvictForRestore(d) ==
    /\ status = "loading"
    /\ d \in toLoad
    /\ body[d] = meta[d]
    /\ Size[d] <= MaxObjectBytes
    /\ ~Fits(d, 1)
    /\ lru # <<>>
    /\ RemoveEntryLocked(lru[1], entries[lru[1]], lru)
    /\ UNCHANGED <<fills, keyStates, reserved, orphanedBytes, diskFillDisabled, closed,
                   lockReleased, room, canon, temp, abandoned, mut, reader, snapshot, status,
                   toLoad>>

\* A pair that does not match, is expired or is too large is removed by
\* removeManagedPair; the TTL makes every pair a candidate.
RejectEntry(d) ==
    /\ status = "loading"
    /\ d \in toLoad
    /\ meta' = [meta EXCEPT ![d] = NoFile]
    /\ body' = [body EXCEPT ![d] = NoFile]
    /\ toLoad' = toLoad \ {d}
    /\ UNCHANGED <<entries, lru, bytes, fills, keyStates, reserved, orphanedBytes,
                   diskFillDisabled, closed, lockReleased, room, canon, temp, abandoned, mut,
                   reader, snapshot, status>>

\* Mutant: bodies without metadata are not looked for.
MutantFinishStartKeepsOrphans ==
    /\ status = "loading"
    /\ toLoad = {}
    /\ status' = "up"
    /\ UNCHANGED <<vars, toLoad>>

\* removeOrphanCacheBodies; the store is handed to its callers.
FinishStart ==
    /\ status = "loading"
    /\ toLoad = {}
    /\ status' = "up"
    /\ body' = [d \in Digests |-> IF meta[d] = NoFile THEN NoFile ELSE body[d]]
    /\ UNCHANGED <<entries, lru, bytes, fills, keyStates, reserved, orphanedBytes,
                   diskFillDisabled, closed, lockReleased, room, canon, meta, temp, abandoned,
                   mut, reader, snapshot, toLoad>>

RNext ==
    \/ Run
    \/ Crash
    \/ Start
    \/ \E d \in Digests : LoadEntry(d) \/ EvictForRestore(d) \/ RejectEntry(d)
    \/ FinishStart

RSpec == RInit /\ [][RNext]_rvars

-----------------------------------------------------------------------------
(* Properties *)

\* Every file of objects/ belongs to an entry, every entry that can be served matches its
\* files, and tmp/ is empty.
DirectoryIndexed ==
    /\ \A d \in Digests :
          /\ body[d] # NoFile \/ meta[d] # NoFile => d \in Present
          /\ d \in Present /\ ~entries[d].evictPending =>
                body[d] = entries[d].epoch /\ meta[d] = entries[d].epoch
    /\ abandoned = {}

\* A store that start-up hands out owns exactly what its index names: what a crash
\* between two file operations left behind was either indexed or removed.
DirectoryRecovered == [][status = "loading" /\ status' = "up" => DirectoryIndexed']_rvars

\* In every life of the process the limits hold, also for a directory that an earlier
\* life filled beyond them, and the counters are the sums they stand for.
WithinLimits ==
    status = "up" => CapacityBound /\ LruIndexesEntries /\ BytesAccounted

\* While the store is up every body and temporary file on disk is charged to an entry, a
\* reservation or the orphaned bytes, whichever file operation failed.
FilesAccounted == status = "up" => DiskAccounted
=============================================================================
