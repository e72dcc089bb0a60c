------------------------------- MODULE Storage -------------------------------
(* What outlives a process, its parts side by side over variables of their    *)
(* own: the directory of the disk cache (DiskCacheRestart) and the rows and   *)
(* objects that cleanup passes collect (CacheCleanup, as C).                  *)
EXTENDS DiskCacheRestart

CONSTANTS Repos, Refs, Contents, Writers, Deployments, Faulty, MaxRequests, None
VARIABLES dep, row, objects, writer, touching, gc, inv, dirty, requests, disturbed, settled
C == INSTANCE CacheCleanup WITH Digests <- Contents

ASSUME CleanupAssumption == C!CleanupConstants

\* An entry that a request completed undisturbed, or that was pulled, stays complete: no
\* pass retires its rows or deletes its objects (CleanupBlobs, retirePackage).
EntrySurvives == C!EntrySurvives

\* An object that is deleted is referred to only by manifests that were written, or whose
\* body was, after the last check (confirmEligibleBlob).
SweptUnreferenced == C!SweptUnreferenced

\* While the store is up, its limits hold, its counters are the sums they stand for and
\* every file is charged, also for a directory that an earlier life filled beyond them
\* (initializeDirectory, restoreDiskCacheEntry, makeRoomLocked, persistMetadataLocked).
FilesCharged == WithinLimits /\ FilesAccounted

\* A store that start-up hands out owns exactly what its index names: what a crash between
\* two file operations left behind was indexed or removed (loadDiskCacheEntries).
StartRecovers == DirectoryRecovered
=============================================================================
