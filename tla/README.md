# TLA+ models of regimux

regimux is a read-only dependency proxy written in Go. Front ends for container
registries, Maven, PyPI, npm, Go modules and plain files ("dist") answer from one
shared cache and fill it from the configured upstreams. The cache is a metadata store
(SQLite, MySQL or PostgreSQL), an object store addressed by digest (a directory or S3,
the latter optionally behind a local disk cache) and an optional Valkey/Redis backend
for short-lived entries and distributed leases. A scheduler runs cleanup, prefetch and
synchronisation jobs.

This directory holds TLA+ models of the parts in which goroutines, processes, file
operations or network answers can interleave, TLC configurations that check them on
small instances, and TLAPS proofs for every instance. Paths below are relative to
`src/internal/` unless they begin with `src/`.

Contents: [inventory](#inventory) · [modules](#modules) · [runs](#runs) ·
[fairness](#fairness) · [proofs](#proofs) · [findings](#findings) ·
[limits](#what-is-not-modelled) · [further work](#further-work)

## Inventory

| component | state | operations | hard behaviour | what makes it correct |
|---|---|---|---|---|
| object disk cache, `store/object/disk_cache*.go` | index, LRU list, byte counters, key generations, fills, pins, files | Get, Put, Delete, Evict, expiry, Close | `mu` is released around canonical I/O; every file operation may fail | never serves an overwritten or deleted object; never removes a file under a reader; stays within its limits; Close ends |
| its shared fills, `disk_cache_flight*.go`, `disk_cache_shared.go` | one `diskCacheFill`: references, readers, producer, finalizer | join, wait, read, close, publish, abort | reader, producer and Close may close the same reader; publish or abort is decided by whoever comes last | exact references; readers are not disturbed by others leaving; only complete, verified copies are published; nothing stays open |
| its start-up, `disk_cache_index.go`, `disk_cache_files.go` | what an earlier process left in the directory | rebuild the index, remove the rest | crash between any two file operations | the directory is indexed or removed, within the limits |
| object stores, `store/object/local*.go`, `s3*.go` | objects | Put, Get, Stat, Delete, Walk | uploads, ranges, admission | digest-addressed writes are atomic |
| metadata store, `store/meta` | tables for manifests, tags, blobs, repository links, pulls, catalog | upserts, conditional deletes, catalog refresh, pull counting, cleanup snapshot | batching over singleflight with cancellable callers; read-then-write upserts | a caller's success covers its own mutation; a pull is counted once; coordination state does not leak |
| artifact cache fills, `artifactcache`, `coalescer`, `worker` | tracker of running fills, lease, renewal goroutine | CoalesceRequest, lease acquire/renew/release | one process' requests share a fill, processes share a lease, contexts end, leases expire | an outcome reaches only those it is meant for; one live fill under the lease; every call returns |
| cache backends, `cache/backend` | key/value entries with TTL, leases | Get, Set, Delete, Acquire, Extend, Release | lost answers, expiry | compare-token release and extension |
| garbage collection, `cachegc`, the planners in `artifactcache/cleanup_plan.go` and `ecosystems/container/cleanup_plan*.go`, `scheduler/cleanup_shared.go` | inventory, plan, candidates | reconcile, snapshot, plan, select, retire, sweep | everything it read may have changed when it deletes; a pass may stop anywhere | activity keeps an entry whole; shared objects go last; everything unused is reclaimed |
| transfer recovery, `transfer`, `artifactstream`, `spool` | current body, bytes read, retry budget | Read, Close, reopen | Close during a reopen; another version on the continuation | bytes in order, of one version, complete; no body leaks |
| container upstream, `ecosystems/container/upstream` | endpoint health, in-flight counts, layer reservations, token cache, health buffer | select, fail over or race, retry, answer a challenge, record and flush health | racing attempts of which one wins; cancelled waits for a slot; callers that share a token fetch; overlapping flushes | slots are exact; the winner stays alive; a request fails only when all endpoints did; no health change is lost |
| container cache, `ecosystems/container/cache` | manifest rows, tags, envelopes with TTL; blob rows, objects, fills, leases, permits | manifest Get/Head/Refresh, blob Get, stale-if-error, revalidation | metadata writes deferred until a response is spooled; a lease left without an owner; a blob streamed to client and store at once; a client that leaves | a tag leads to a manifest; fresh means recent; writes once; fills and leases have an owner |
| container front, `reference`, `suggestion`, `auth` | none shared | routing, parsing | completes deferred writes | parsing |
| prefetch, `ecosystems/container/prefetch`, `depprefetch`, `dependencyproxy/prefetch` | run records, outcomes, controls, the active run's cancel | plan, run, record, cancel, retry | two jobs share one cancel and one outcome table; budgets reserved by concurrent tasks | a run can be cancelled, keeps to its budget, waits for the backoff |
| package ecosystems, `ecosystems/{maven,pypi,npm,golang,dist}`, `ecosystem` | rows and objects of artifacts, fills, rewriting slots, replay files, spool slots | Get, Head, Refresh, group fetch, merge, rewrite, store | fall-back between endpoints and upstreams with an open response in hand; Maven's callers share a task's replay file; a PyPI file is verified only at its end | no body, slot or fill is left; only whole, verified artifacts are stored; a miss is authoritative |
| scheduler, `scheduler`, `manualsync` | jobs, background tasks, cleanup gate, manual statuses, refresh intents | Start, Stop, RunNow, RunSyncJob, queue and drain intents | Stop against tasks that outlive their requests; intents drained by several instances | nothing runs after Stop; one cleanup at a time; an intent is refreshed once |
| events, probe health, observability | subscribers, probe results, metrics | publish, probe, record | probes write the endpoint health too | with the upstream |
| configuration, admin, authentication, policy, wiring | options | validate, serve | none | validation |

The parts meet as follows. A front end's request calls `artifactcache.CoalesceRequest`
(or the container cache's own proxy), which reads metadata and object store, and on a
miss fetches upstream through a body that `transfer.Recover` resumes, streams it into
`object.Put` and then writes the metadata rows one by one. Every metadata mutation
triggers a catalog refresh; every pull goes through the pull batch. Cleanup reads all
rows, deletes rows conditionally and then objects; the disk cache observes its deletes
as `Delete` calls.

## Modules

| module | models | composes |
|---|---|---|
| `DiskCache` | the state of `DiskCacheStore` under `mu` and the files behind it | |
| `DiskCacheRestart` | crash and start-up on the same directory | extends `DiskCache` |
| `DiskCacheFlight` | one shared fill with its callers, producer, finalizer and Close | the inside of one fill of `DiskCache` |
| `ArtifactFill` | tracker, lease and renewal for one artifact key over several processes | `coalescer`, `worker`, `cache/backend` |
| `CacheCleanup` | cleanup passes against Puts, touches and pulls | `cachegc`, both planners, the scheduler's order, the upserts of `store/meta` |
| `CatalogRefresh` | batched catalog refresh of one alias | |
| `PullWriteBatch` | batched pull counting of one reference | |
| `TransferRecover` | the resuming response body | implements `ByteStream` |
| `ByteStream` | what the consumer of a body relies on | abstract specification |
| `UpstreamFailover` | blob requests over the endpoints of one upstream | health tracker counts, limiter, layer scheduler, `GetBlob`'s selection |
| `UpstreamRequest` | one call of `Client.do` with retries, challenge, token and confirming GET | token cache and its singleflight |
| `EndpointHealth` | the health of one endpoint and one of its repositories | tracker, buffer, flushes, start-up, probes |
| `ManifestCache` | one tag: lookup, fetch, revalidation, stale answers, deferred writes | singleflight, gate, rows, envelope |
| `BlobProxy` | one blob over several nodes: lookups, lease, streamed fill, fallback | tracker and lease of `artifactcache`, the store task |
| `PackageProxy` | the request flow of npm, Go, PyPI indexes and dist | coalescing, fall-back, rewriting, store |
| `MavenFill`, `MavenFetch` | Maven's fill pool with replay files; one fetch of an upstream or group, version order and merged metadata | |
| `PypiPackage` | one PyPI file: fill, spool, hash, takeover, idle limit | |
| `PackageRoutes` | the names under which paths are recorded and what later jobs rebuild from them | route parsers and runtime adapters of the five ecosystems |
| `PrefetchCandidates`, `Prefetch` | which tags are candidates; the runs of container prefetch | outcome and control records |
| `DependencyPrefetch` | the prefetcher that the package ecosystems share | |
| `SchedulerRuntime` | start, Stop, background tasks, cleanup gate, manual synchronisation | the third-party scheduler as an external service |
| `RefreshIntents` | intents that pulls queue and instances drain | `scheduler/refresh.go`, `store/meta` |
| `Fills` | three ways to fill once for many callers, side by side | `ArtifactFill`, `MavenFill`, `DiskCacheFlight` |
| `Records` | the two batches of the metadata store | `PullWriteBatch`, `CatalogRefresh` |
| `Upstream` | the parts of the container upstream | `UpstreamFailover`, `UpstreamRequest`, `EndpointHealth` |
| `Bodies` | the bodies that outlive a handler | `TransferRecover`, `BlobProxy` |
| `Jobs` | the background work | `SchedulerRuntime`, `Prefetch`, `DependencyPrefetch`, `RefreshIntents` |
| `Storage` | what is kept on disk and in the store, and what reclaims it | `DiskCacheRestart`, `CacheCleanup` |
| `Packages` | the package ecosystems | `PackageProxy`, `MavenFetch`, `PypiPackage`, `PackageRoutes` |
| `ManifestCacheProofs` | theorems about `ManifestCache` | |
| `StorageProofs`, `FillsProofs`, `RecordsProofs`, `UpstreamProofs`, `BodiesProofs`, `JobsProofs`, `PackagesProofs` | theorems about each of the modules that the module of the name composes | |
| `MC*` | instances for TLC | |

### DiskCache

One action per critical section of `mu`; `makeRoomLockedWithFillSlot`, a loop that may
fail at each eviction, is one action per evicted entry while `room` holds the lock
(`EvictForRoom`, `RoomRefused`, `ReserveFill`). `entries`, `lru`, `fills`, `keyStates`,
`bytes`, `reserved`, `orphanedBytes`, `diskFillDisabled`, `closed` are the fields of the
same names. Object contents are the `epoch` of the canonical object they were read from:
each canonical write is a new epoch, so serving an old object is visible. `body`, `meta`,
`temp` and `abandoned` are the files. `Faults` names the file operations that may fail.
A fill is seen as a whole: join, open canonical, make room, reserve, publish or give up;
what happens between is in `DiskCacheFlight`. `MaxEpoch` and `MaxGeneration` bound the
canonical writes and the generations.

### DiskCacheRestart

Adds `status` and `toLoad`. `Crash` may happen in any state, and also between the two
file operations of `publishFill` and of `removeEntryLocked`, which `DiskCache` executes
in one critical section. The initial directory is any mixture of pairs, bodies without
metadata, metadata without a body and temporary files, also more than the limits allow
(an earlier process with larger limits). Start-up is `Start`, one `LoadEntry`,
`EvictForRestore` or `RejectEntry` per metadata file, and `FinishStart` for orphan bodies.

### DiskCacheFlight

Every unlock is a step: `JoinLeader`, `JoinFollower`, `TakeReader`, `RegisterReader`,
`BeginClose`, `RecordRelease`, `FinishRelease`, `BeginFinalize`, `Publish`, `Abort`,
`StopFlight` on the side of readers; `ProducerGet`, `ProducerCheck`, `ProducerPrepare`,
`ProducerCopy`, `ProducerCopied`, `ProducerInvalidate` and the error and bypass paths on
the side of the producer; `MarkClosed`, `CloseActiveFill`, `CloserCloseReader`,
`CloseCacheRoot` for Close. The captured `diskCacheFlightRelease` of a release is part of
the caller's state, because it is read under the lock and acted on after it.

### ArtifactFill

`caller` walks through `Coalesce`, `coalesceFillOwner`, `fillAsLeaseOwner`,
`fillWithLease` and `finishTrackedFill`; `tracker` is `coalescer.Tracker` of each process,
`outcome` the `Fill`. `lease` is the Valkey key with its remaining life in ticks, `renewal`
the goroutine of `worker.StartLeaseRenewal`. `Faulty` lets every backend call fail or take
effect with its answer lost; `Crashable` processes may die at any step, leaving the lease.
`Prompt` means that a due renewal is executed before the next tick.

### CacheCleanup

`row` maps the key of each metadata row to its age and value, `objects` is the object
store. Abstractions, and why they keep what the properties need:

* A row's last activity is *fresh* or *stale* against the cutoff of the current pass;
  `Age` turns all rows stale and happens only between passes and requests, because
  `unused_for` is hours or days and a pass or request far shorter.
* "Row unchanged" compares revisions and times; `dirty` is the set of rows written since
  the pass last read them, which is what those comparisons decide.
* The recheck of one group (`packageUnchanged`) is one step. Between its reads rows can
  only become dirty or recently pulled, and a group that passes its reads one by one
  passes them at the moment of the first read; the writes after that moment are handled
  by the conditional deletes.
* An upsert looks its row up and writes in a second statement. If the pass deletes the row
  between the two, `patchRowByKey` updates nothing and reports success: flag `lost`.
* `settled` and `disturbed` are history variables of the property `EntrySurvives`: an entry
  counts once a Put or pull finished without a pass selecting, retiring or doing its last
  check of the same object meanwhile. That window is inherent in the code, which has no lock
  between requests and cleanup; what is checked is everything outside it.
* `Deployments` are records of what is cached and how cleanup is configured; a run may
  have several, chosen in `Init`, with entries that earlier requests cached. `MaxRequests` bounds Puts, touches and pulls.

### CatalogRefresh and PullWriteBatch

`singleflightx.Group.DoContext` is external: a flight runs with a context that ends when
all its callers have left, a caller whose context ends leaves at once, and the key is free
as soon as a flight is abandoned, so an abandoned flight runs beside its successor. States,
flights and receipts are named by the caller that created them, which bounds them without
a counter. `Touches` are the repositories a mutation changes. A transaction may fail, or
commit and lose its answer.

### TransferRecover and ByteStream

One reader and one closer of a body of `Size` bytes. A body records the offset it starts
at, what it gave and whether it is of another version. `etag` and `digest` (which identity
the first response offered) are chosen in `Init`; without either nothing is resumed.
Reads may give any number of bytes, end early, overrun or fail, with or without bytes.
`ByteStream` is the abstract stream: bytes are delivered in order and up to the declared
length, a successful end comes only after all of them and only if none was of another
version, and nothing follows an end. `DeliversStream` is its specification under the
mapping `outcome <- terminal, foreign <- mixed`.

### UpstreamFailover, UpstreamRequest, EndpointHealth

`UpstreamFailover` follows a blob request through `doWithFailover`: `selectRuntimes`, the
concurrent runner that starts further attempts (`GetBlob`) or the sequential one
(`ConsumeBlob`), `runAgainstRuntime`, `acquireRuntime`, the classification of errors and the
selection of a response. Requests for manifests, tags and referrers, which take the sequential
runner and no slots, are not modelled.
`inflight`, `slots`, `layer` are the tracker's counts, the limiter and the layer scheduler;
they are given back when the body that a client reads is closed. `FailuresOf` names the
kinds of failure an endpoint shows, `Broken` endpoints whose client cannot be built.
A score has a fixed latency, the endpoint's consecutive failures, the failures of the repository
(which raise no failure of the endpoint, and which nothing resets), the double penalty of an
endpoint that is degraded in both, and the counts; a list is any arrangement of the candidates
that the policy's order allows.

`UpstreamRequest` is what one attempt does inside: retries of idempotent calls, draining,
the 401 challenge, the token cache looked at twice, the shared token fetch that ends when
all its callers left, and the confirming GET after a 403. Tokens are numbered, `issued`
counts what the realm gave out, `lost` what expired, was evicted or fetched for nobody.

`EndpointHealth` has one endpoint and one repository of it. An update changes the tracker's
state under its lock and enqueues the record after it; flushes drain the buffer and write
record by record to the SQL store or the hot one; a failed write requeues unless a newer
record is there; start-up reads back. `fate` says which changes are on their way.

### ManifestCache and BlobProxy

`ManifestCache` has one tag over versions that the upstream moves through, with `until[v]`
the time when it moved on. `flight` runs lookup, revalidation, fetch and the writes: the
manifest row, the tag, the envelope. `resp` are responses that share a flight and complete
what was prepared (`CompleteResponse`), each when its body has been spooled and before it is
streamed to the client. Upstream's answer (`Fetch`, `Head`) and the stamping of the expiry
(`ReadBody` once the body is read and verified, `Renew`) are different steps: time passes and the
tag may move between them. A row expires `TTL` after that stamp, the envelope `TTL` after its
write; `lag` is the longest time an answer has waited for its stamp, and `FreshIsRecent` bounds
the life of the rows by `TTL + lag` after upstream last had the digest. The code puts no bound on
`lag` but the timeouts of its transport. `now` is bounded by `MaxTime`.

`BlobProxy` has one blob and requests on several nodes. `req` walks through the small cache,
the rows, the tracker, the lease, the check after the lease, the fetch; `task` is the store
task behind the pipe, which writes object, blob row and repository row; `permits` is the gate
of `acquireOpenFallback`, taken before the fallback fetch and given back when that fails, at the end or
a failed read of the body, when the context ends, or by Close. A lease may expire under its
owner. A release that fails, or an acquisition that takes effect and reports an error, leaves the
key without an owner (`"lost"`): its requests go on, the others poll until its TTL ends
(`LostLeaseExpires`). `MaxExpiries` bounds both.

### PackageProxy, MavenFill, MavenFetch, PypiPackage, PackageRoutes

`PackageProxy` is one flow with the differences between npm, Go, PyPI and dist as guards on
`eco`: lookup, coalescing, upstreams and endpoints in order, pass-through, the rewriting
slot, the writes, the answer. `open` is the set of bodies a request holds. A store that fails may
have written its rows (`artifactcache/put.go:54`). An upstream is assumed not to answer a GET
without a range with 206: npm and Go would store such an answer (`npm/service.go:211`,
`golang/service_helpers.go:45`).

`MavenFill` is the pool of `async_fill.go` and `fill_task.go`: a task has counted callers, a
replay file with readers, and workers; clients may leave at any point. `MavenFetch` is one
fetch over the members of a group and their endpoints, with the remembered miss and failure,
and the merge of metadata. It compares versions at the first token where they differ.
`MergedIsNewest` says that a merged document lists exactly the versions the members' documents
list, that none of these, or of the members' `latest` and `release` fields, is newer than its
`latest`, and that no listed or named release is newer than its `release`. The comparison is not transitive, so the second half is claimed
for candidates which it orders (`Ordered`); the instance has a triple which it does not. The
listing is compared as a set.

`PypiPackage` is a file request: fill of its key, range and pass-through, the body that
hashes and spools while it is read, the idle limit, takeover by another request. A route is a
direct address, whose alternatives the index names once it has failed, or has the addresses of
registry and mirrors (`urls`), tried in order. Addresses carry project and hash together, as
`addPackageIdentity` writes them; one with a hash alone would lose it at the first failure when
the index does not know the file (`pypi/package.go:163`).

`PackageRoutes` parses a path of segments in each ecosystem, records the pull and rebuilds a
request from the record as prefetch, synchronisation and refresh do. Queries are left out and
`RecordsIdentify` says nothing about requests that have one: npm and PyPI ask the upstream with
the query (`npm/fetch.go:20`, `pypi/fetch.go:28`), npm's cache key (`npm/cache.go:63`) and all
pull records have none, PyPI's cache identity has its digest (`pypi/identity.go:30`). `Alphabet`
is the set of segments the paths are made of; unescaping one of its segments twice gives what once
gives, so what `url.PathUnescape` does to a rebuilt tail with a further level of escapes is not seen.

### PrefetchCandidates, Prefetch, DependencyPrefetch

`PrefetchCandidates` has the selection of tags: flavour, order of versions, distance.
`Prefetch` has two jobs whose runs share outcomes, controls and the one cancel function, with
the tasks of a run reserving from its budgets. `DependencyPrefetch` has the simpler runs of
the package ecosystems. `now` counts ticks; backoff and retry window are ticks.

### SchedulerRuntime and RefreshIntents

`SchedulerRuntime` has recurring jobs and calls (RunNow, RunSyncJob, probes, Stop) over
`backgroundMu`, `backgroundTasks`, the cleanup gate and the third-party scheduler, which is
external: it runs a job at a time and waits for running ones on shutdown. `RefreshIntents`
has the row of each key with its revision, pulls that read and then create or patch it, and
instances that list, claim by deleting, and refresh. The claim rests on the external repository
reporting `ErrNotFound` when a delete finds no row.

## Runs

A run is one question, or several about parts that meet; in the latter case its MC module
has the modules over disjoint variables and `part`, chosen in the initial state,
says which of them a behaviour is of (the others keep their first value).

| run | properties | instance |
|---|---|---|
| `disk` | `ServableIsCurrent`, `PinnedEntryKept`, `KeyUsers`, `CallsComplete` | two digests of which one fits, one reader, one mutator, four generations, failing publications |
| `storage` | `EntrySurvives`, `SweptUnreferenced`, `FilesCharged`, `StartRecovers` | cleanup: two ecosystems with the same bytes under a capacity target, or two images that share a layer, one of each cached before, two requests, passes that stop anywhere; restart: two digests of sizes 2 and 1 in two bytes, two fill slots, failing file operations, any initial directory |
| `fills` | `JoinsRunningFill`, `HealthyCallsSurvive`, `LeaseHonoured`, `ReplaysKept`, `FlightsSound`, `FillsReturn` | live: two requests in one process and one in another, prompt renewals, a cancelled owner, a crash; faulty: two requests with backend faults; Maven: two clients, two keys, three tasks, one worker; flight: two callers and Close |
| `records` | `PullsExact`, `RefreshCovers`, `WorkIsFinished` | three pulls, one cancellable, failing statements; two mutations with overlapping repositories, both cancellable, SQLite semaphore; a package of two artifacts and a budget of one object |
| `upstream` | `SlotsExact`, `OutcomeEarned`, `CallsAccounted`, `HealthKept`, `EverythingReleased` | a cancellable request and a blob consumer over two endpoints with four kinds of failure, one slot each, two policies; two calls with two attempts and two tokens; one updater with two updates and two flushers |
| `manifest` | `TagResolves`, `FreshIsRecent`, `SavedOnce` | two flights, two responses, two versions, two ticks |
| `bodies` | `NoBodyLeaks`, `BlobsOwned`, `DeliversStream`, `CloseMeansStored`, `BodiesEnd` | four bytes, three continuations, every identity; two requests on one node and one on another, one lease that expires or loses its owner |
| `packages` | `HoldingsExact`, `MissesAuthoritative`, `MergedIsNewest`, `RecordsIdentify`, `StoresVerified`, `PackagesEnd` | two requests of all kinds, two upstreams of two endpoints, one rewriting slot; a group of two members, documents with versions that the comparison does not order; PyPI files with and without a hash, one address or two; paths of up to four segments |
| `jobs` | `TasksContained`, `RunsAccounted`, `StartsAreDue`, `JobsEnd` | a cleanup, a probe, a synchronisation and Stop; one and two prefetch jobs; dependency prefetch; two pulls, two keys and two instances |
| `cleanup_copies` | `EntrySurvives` is violated | three packages of one repository with the same bytes, two of them cached |
| `cleanup_unreadable` | `SweptUnreferenced` is violated | two images with a layer, bodies that cannot be read for a moment |
| `dependency_backoff` | `BackoffHonoured` is violated | one job, two candidates, a backoff of two ticks |

Why the bounds suffice. The hazards are races of few parties. A mutation against a fill and
a reader (`disk`; a Put nests an Evict, so generations of one key overlap, and four of them
let two mutations pass under one fill; any number of mutators and readers is left to the
theorems, which cover all three safety properties of this run). Eviction against
reservations (`storage`; the smallest sizes with which one object fits only without the
other); two requests add the second owner of shared bytes to the cached first one, and one
more activity on either during a pass; passes repeat without bound. Leaver against joiner
against producer, and owner, waiter and a second process (`fills`). In `records` the second
mutation can join a flight whose snapshot was taken before its ticket, and three pulls are
needed for a follower of a batch that an abandoned flight took. In `upstream` two endpoints
give a winner and a loser, one slot each makes a request wait for another, and a second
flusher overlaps the first. In `manifest` two versions let an old flight write after a new
one, two responses complete one flight. In `bodies` four bytes give room to three
interruptions inside the body, and the third request meets the lease of the first. In
`packages` two upstreams of two endpoints have every order of failure, miss and answer, and
four segments reach the longest form of each route. In `jobs` two jobs are what the code
registers, and two instances are what claims race with. A run there has one candidate, so that
its byte budget is at stake and its task budget is not: with two candidates TLC exceeds its time,
and for the task budget the theorem `RunsAreAccounted` stands alone. The double failure `"stream"` is
left out of `storage` (see the observed deviations below).

Deadlock is checked where the system never has to stop or ends in an explicit step
(`disk`, `storage`, `upstream`, `manifest`, `packages`); the parts of `fills`, `records`,
`bodies` and `jobs` are finite protocols that end when all calls have returned.

Every property of a passing run is paired in `PROJECT.json` with a change of the model that
a plausible bug would make, under which TLC finds the property violated.

## Fairness

* `DiskCache`: a goroutine waiting for `mu` gets it although others keep taking it —
  `sync.Mutex` hands over to a waiter that starved for a millisecond — hence strong
  fairness of the critical sections a call still has to enter. Nobody is made to start a
  call, to stop reading before Close, or to publish.
* `DiskCacheFlight`: goroutines run (weak fairness). The canonical store is not assumed to
  answer unless the context of the fill is cancelled; callers are not assumed to close.
* `ArtifactFill`: goroutines run, upstream fetches end because the transport has timeouts,
  and time passes.
* `CacheCleanup`: requests and passes make progress; retention time passes again and again
  (strong fairness of `Age`, which is disabled while a pass runs).
* `CatalogRefresh`, `PullWriteBatch`: some goroutine that can run runs, and transactions end.
  The modules state more (`FairSpec`); the run needs no more, because a call takes finitely
  many steps.
* `TransferRecover`: goroutines run; reads and opens end.
* `UpstreamFailover`, `BlobProxy`, `MavenFill`, `PackageProxy`, `PypiPackage`: weak fairness of
  `Progress`, the steps of goroutines that can run. It includes that the HTTP server, which
  copies a body to its client, reads on or closes it: it does so when the connection is gone.
  Of the clients of a PyPI file nothing is assumed, because the read lease ends their bodies.
  A cancellation that only the client decides on is not made to happen, also that of a request
  which waits for another's fill.
* `BlobProxy`, besides: a lease without an owner runs out (weak fairness of `LostLeaseExpires`),
  because nobody renews it.
* `Prefetch`, `SchedulerRuntime`: runs and background tasks make progress; nobody is made to
  start a run, and control requests and Stop may come or not.

## Proofs

All theorems hold for every value of the constants that satisfies the named assumptions.
Assumptions of the modules, which TLC evaluates on every run that extends them:
`OptionsAssumption` (what `validateDiskCacheOptions` accepts) and `ModelAssumption` (finite
sets, natural numbers) for `DiskCache`, `FillAssumption` (lease of at least two ticks) for
`ArtifactFill`, `RecoveryAssumption` (a declared length of at least one byte) for
`TransferRecover`, `SchedulerAssumption` (a call is not a recurring job) for
`SchedulerRuntime`, `BatchAssumption` (the callers that can be cancelled are callers) for
`PullWriteBatch`, `ManifestAssumption` (positive bounds and gate, finitely many responses)
for `ManifestCache`, `UpstreamAssumption` (endpoints are numbered in their configured order,
requests are finitely many, policies and kinds of failure are those of the code) for
`UpstreamFailover`, `PackageAssumption` (at least one upstream, endpoint and slot) for
`PackageProxy`, and `CleanupAssumption` (the shape of the deployments) for `Storage`.

The components that `Fills`, `Records`, `Upstream`, `Bodies`, `Jobs`, `Storage` and `Packages`
instantiate share no variable with one another; a theorem is about the specification of one of
them (`M!Spec`, `H!Spec`, ...) or about the conjunction of several, and states its hypotheses
about constants: finitely many callers for `DiskCacheFlight`, a natural `Threshold` for
`EndpointHealth`, `CatalogSetting` (finitely many callers, each touching some of the
repositories) for `CatalogRefresh`, `BodiesReadable` (no deployment with unreadable manifest
bodies, for which the property is false: finding `cleanup_unreadable`) for `CacheCleanup`,
`BlobSetting` (finitely many requests, each on a node, none named like the absence of one) for `BlobProxy` and `MavenSetting`
(finitely many clients, tasks and clients apart, because both name files) for `MavenFill`,
`PrefetchSetting` (natural limits, backoff and time), `DependencySetting` and `IntentSetting` (finitely
many pulls) for the parts of `Jobs`, `PypiSetting` (finitely many requests, of the kinds there
are) for `PypiPackage` and `PackageProxy`, `GroupSetting` (natural numbers of members and endpoints)
for `MavenFetch`, and a natural `MaxSegments` for `PackageRoutes`. `FilesStayCharged` assumes
`NoDoubleFault`: the stream of a fill and the removal of its temporary file do not both fail. In
that case the code leaves a file that nothing is charged for, the first of the observed deviations
below; the other theorems about the disk cache do without it.
The instances of the runs satisfy all of them.

* `StorageProofs!TypeCorrect`. `TypeOK` alone is not inductive: to remove an entry, release
  a key or end a fill, the digest that a call works on must be one. `TypeInv` adds
  `CallsTyped`, which says so for mutations and readers.
* `StorageProofs!KeysCounted`, `ServesCurrent`, `FillsExclude`, `ReadersKeepFiles`. The
  central invariant is `CoherenceInv == TypeInv /\ RoomIsOpened /\ KeyUsers /\ Fence`.
  `KeyUsers` (a key state counts its fill and its mutations and is dropped exactly when both
  are zero) makes a generation identify its fill; `Fence` says for each digest that while a
  mutation is inside, no entry is servable and every fill is invalid or blocked, and that a
  fill which is neither has read the current object. Steps are split into those that publish
  (`Publishes`) and the rest, which only withdraw entries (`OthersOnlyWithdraw`) and only move
  fills forward (`OthersOnlyProceed`), so each conjunct has a handful of cases. The pins
  (`ReadersKeepFiles`) are proved per digest (`AllPins`), with the library's facts about
  cardinality for a reader entering and leaving.
* `StorageProofs!LimitsHold`, `FilesStayCharged`, `StartsRecover`, about all the lives of a process
  on one directory (`DiskCacheRestart`). Sums of sizes are cardinalities of sets of numbered bytes
  (`TotalSize`), so the library's facts about cardinality replace an induction. `LivesInv` has the
  types, `Ledger` (each counter is the sum it stands for, and the recency list names every entry
  once), `Quiet` (outside of a life there is no fill, reservation or temporary file) and `Rebuilding`
  (what has metadata is indexed or still to be visited, and an indexed entry has its files). What makes
  the ledger inductive is `SlotsKept`: a reservation holds its place in the bounded list, so adding
  the published entry never drops another key from it behind the index's back.
* `FillsProofs!JoinsRunning`, `HealthySurvive`, `FillTypeCorrect` from
  `Inv`, which adds to the properties that an outcome exists only after the owner returned and
  is never a request's own context error. `LeaseStaysHonoured` needs `LeaseInv` too: a live fill
  under the lease holds the token, with more life left than its renewal timer has to wait. The
  crash of a process and any number of processes are included.
* `BodiesProofs!ResumesInOrder`, `ServesWhole`, `ClosesAll`, `RecoverTypeCorrect` from
  `Inv == TypeOK /\ Places /\ Bytes /\ Versions /\ WholeRepresentation /\ Ownership`: where Read
  is, which bytes the current body continues, which bodies can be of another version, and who
  owns each open body. `ImplementsStream` is the refinement of `ByteStream`: `QuietStep` shows
  that every step but the read of a body maps to a stutter or an end, `ReadBodyStreams` that
  a read delivers bytes in order or ends as the abstract stream may.
* `JobsProofs!TasksAreContained` and `SchedulerTypeCorrect`. `Inv` adds to the types the order in which
  Stop goes (`Lifecycle`), which task runs where (`Homes`), that nothing active is left where
  Stop has waited (`Stopped`), and that the gate holds exactly the task that cleans (`Gated`).
* `JobsProofs!RunsAreAccounted`, `PrefetchStartsAreDue`. For prefetch, `PrefetchInv` says which run
  is at which place with what it has loaded (`RunsKept`), that the shared cancel function is of a
  run that is still between its registration and its end (`Registered`), that what the tasks of a
  run reserved is what its budget counters say (`WorkKept`), and that a stored outcome carries the
  retry time of the last failure through every skip (`OutcomesKept`): the step that starts a
  candidate has just read that outcome, so it starts when the backoff is over. For dependency
  prefetch `ReportsKept` follows a report's counts to the artifacts behind them. For refresh
  intents `IntentInv` numbers the revisions of a row: a revision is created by one pull, claimed by
  the one instance whose delete found it, and refreshed only by that instance.
* `RecordsProofs!PullsAreExact` from `Inv == Types /\ Accounts /\ Results /\ Waits`.
  Neither half of `PullsExact` is inductive: that a receipt tells the truth depends on where
  each pull is. `Placed` says it waits in the pending row of its receipt or is in the row of
  the flight that took that receipt, `Receipts` that an open receipt belongs to one state or
  one flight, `Fresh` that a new caller brings a receipt nobody holds, `Counts` that a receipt
  closed as stored counted every pull that followed it. `Waits` ties a flight to the callers
  that wait for it, whatever is cancelled meanwhile.
* `RecordsProofs!RefreshesCover`. That a successful call is covered depends on where its
  repositories are: each touched one is in the catalog already, pending in the state, or taken
  by the batch that holds the gate. Besides, a batch that ended without error clears the
  tickets it took, a flight outlives its caller only if it was cancelled, and the counts of a
  state are the cardinalities of its users, from which `StateRemoved` follows.
* `StorageProofs!SweepsUnreferenced`. The planners play no part: the last check before a
  deletion walks the graph of every manifest there is (`ConfirmProtects`), and whoever writes a
  manifest row or body after it marks what it wrote (`RequestsMark`, `MarkedKeeps`); so
  `SweptUnreferenced` with the types of a pass is inductive for any plan.
* `ManifestCacheProofs!TagsResolve`, `FreshStaysRecent`, `SavesOnce` from `Inv`. An expiry
  is decided when the answer has been read and not when a row is written. From upstream's answer
  to the stamp a flight carries a digest that upstream had when it was asked (`Had`); the stamp raises
  `lag` to the time since (`StampRecent`), after which every expiry that a flight or a response
  carries is `Recent`, so a save may come arbitrarily late. A tag is written
  only by a flight that has written its manifest row; a flight's save is in one of the stages
  from owed to done, and only its success lets a response count.
* `UpstreamProofs!SlotsStayExact`, `OutcomesEarned`. Slots, in-flight counts and reservations
  are cardinalities of the attempts and requests that hold them, with one lemma for each way an
  attempt moves. For the outcomes the invariant adds that a list names each endpoint once and
  only its first `next` entries were started, and that while a request waits a selected result
  is still to be taken. How endpoints are ranked is not used.
* `UpstreamProofs!HealthStaysKept`. `Carries` says where a change that is on its way is (an
  updater, the buffer or a batch, or superseded by a later one that is), `Unblamed` that no state
  or record of the endpoint holds a failure of its repository.
* `UpstreamProofs!CallsStayAccounted`. `Balanced` is the account of open bodies at each place of
  `Client.do`; for the tokens, what was issued, abandoned or is being fetched is at most one more
  than what was lost, and callers wait only for a running fetch.
* `FillsProofs!FlightsStaySound`. `FlightsSound` names what holders and finalizer may
  rely on; the invariant adds for every place of callers, producer, finalizer and Close who has
  begun, copied, registered as a reader, cancelled, released and finalized.
* `BodiesProofs!BlobsStayOwned`, `ClosesMeanStored` from `BlobInv`: which kind of request
  gets to which place (`Routed`), that only full GETs own fills and a request does not hold the
  lease it waits for (`Owning`), that permits are those of the requests which fetch or serve a
  fallback body (`PermitsExact`), and that a store task past a write has written (`Wrote`), which
  makes the successful end of a streamed body the end of all its writes.
* `FillsProofs!ReplaysStayKept` from `MavenInv`. `Tallied` equates the references of a task
  with the clients that have not released it, and the readers of its file with the open bodies and
  the worker that stores it; `TaskKept` says that a published file can be opened until the last
  caller of a finished task has left, and that afterwards only readers keep it. Each action is
  then a step of one client (`ClientStep`) or one worker (`WorkerStep`); only Close touches
  several tasks, and what it changes nobody's file depends on.
* `PackagesProofs!HoldingsStayExact`, `StoresStayVerified`, `MissesStayAuthoritative`. Three
  invariants, one for each part. `ProxyInv` lists what a request may have open at each place
  (`Holds`), where a partial answer can be (`Partial`: only with a range request, which is passed
  through) and counts the rewriting slots as those of the requests in "transform". `FileInv` says
  that only a streaming request has a body, that the fill is owned by a request or body that will
  finish it (`Owns`), and that content which fails a known hash is marked (`Checked`), also when the
  hash is learnt from the index halfway. `GroupInv` names the open bodies at each place of a group
  fetch (`OpenIs`), keeps those of different members apart (`Remembered`), and follows misses:
  while a member is asked, each endpoint so far has answered 404 or something stronger than a miss is
  remembered (`Asking`), so that `take` returns a miss only of a member that missed; of the members
  before, each missed or left an error, a failure or a document behind (`Missing`).
* `PackagesProofs!RecordsReadBack`. `ReadsBack` is proved for each parser and its inverse from the
  library's facts about subsequences; that two paths with one record agree follows, because both
  are rebuilt from it. npm is left out: its paths are unescaped by a recursive definition.

Only model-checked: all liveness properties; `EntrySurvives`, which is false for the deployment of
the finding `cleanup_copies` and whose window is a history of whole passes; `MergedIsNewest`, which
is about a fold over the versions, and npm's part of `RecordsIdentify`. Fairness, ENABLED and
induction over data are outside what the proof system's backends can do.

## Findings

`cleanup_copies`. `packageRetirements` (`cachegc/plan_apply.go:32`) keeps the manifests named
by the tags of the inventory. The inventory is read relation by relation: it can hold the
manifest of a Put and miss its tag. When three packages of a repository have the same bytes,
access to the shared blob is evidence for none of them, so two stale ones are selected and the
manifest row that the third one's tag names is retired although that Put completed before
selection began. The comment at `cachegc/plan_apply.go:30` says such a manifest is kept.

`cleanup_unreadable`. `readManifestChildren` (`cachegc/references_graph.go:141`) answers an
empty list when a body cannot be read and the walk is not strict, as in the sweep. A read that
fails for a moment leaves the layers unprotected, and they are deleted while the manifest's row
and body remain. `ecosystems/container/cleanup_recovery.go:14` says "Never infer an empty graph
from a missing body".

`dependency_backoff`. `recordSkippedCandidate` (`depprefetch/run.go:117`) stores the skip of a
candidate in backoff as its latest outcome and leaves `NextRetryAt` empty, so the run after
next fetches inside the backoff that the stored reason ("failure backoff until ...",
`depprefetch/run.go:206`) announced. The container prefetcher carries the time through its
skips (`ecosystems/container/prefetch/policy.go:110`), which `StartsAreDue` of the run `jobs`
checks.

Observed deviations without a run:

* `prepareDiskCacheFlight` (`store/object/disk_cache_flight_producer.go:91`): when the stream
  cannot be created and its temporary file cannot be removed, the file is neither charged nor
  are fills stopped; `src/docs/object-disk-cache.md:54` says fills stop. `Faults` has the kind
  `"stream"` for it, which `storage` leaves out.
* Deleting an object whose cached file is open only marks the entry in memory
  (`disk_cache_key_state.go:54`); after a crash before the last reader closes, start-up
  (`disk_cache_index.go:168`) serves it again; `src/docs/object-disk-cache.md:46` says Delete
  removes the local copy.
* `finishReleasedDiskCacheFlight` (`disk_cache_flight_lifecycle.go:161`) does not take a flight
  that ended in a bypass or a failed canonical read out of `activeFlights`; the map grows until
  Close. `NothingLeftBehind` states it for the other flights only.
* `coalesceFillOwner` (`artifactcache/fill.go:174`) reads the store before it acquires the lease
  and not again after it, so a process can fetch an artifact that another stored in between.
* A tag whose upsert raced with the retirement of its manifest row can stay behind for good, and
  so can repository links: `Clean` covers objects, manifests and blob rows only.
* `UpstreamRequest`: a cached bearer token that the registry rejects with 401 is not dropped
  before its expiry, so every call of the scope pays for a challenge until then.
* `EndpointHealth`: a flush that runs out of its 15 seconds drops the records it drained and did
  not visit (`endpoint_health_buffer.go:36`); overlapping flushes, and enqueueing outside of the
  tracker's lock, can write an older record over a newer one; the snapshot combined from endpoint
  and repository is stored as the repository's.
* `ManifestCache`: a slow flight that fetched the old digest can overwrite a tag that was refreshed
  meanwhile (`manifest_store.go:98`), which heals within a TTL; the envelope's TTL counts from its
  write; a failing metadata or backend read fails the request although the upstream answers;
  `lookupAnyStored` is tried before `lookupStale`, so `max_stale` is hardly ever reached; a
  revalidation whose object is then missing counts two upstream pulls.
* `BlobProxy`: requests that wait for a streamed fill depend on its owner's client to read on
  (`blob_proxy.go:112`).
* `MavenFill`: a task whose last caller left stays in `active` until it finishes, so a healthy
  client that joins it gets the cancellation error (`maven/fill_task.go:196`).
* Packages: a refresh of npm or Maven looks up the cached copy and never closes its body
  (`npm/service.go:59`, `maven/service.go:45`), which `BodiesOwned` leaves out by name; the artifact
  key uses the unscoped alias, so two ecosystems with the same alias can share rows and fill keys;
  Go's store can fail on reopening with its rows in place; `compareMavenVersions` is not transitive
  (1 < 1.foo < 1.0-alpha < 1, `maven/version.go:80`) and neither is `compareTagNames` of prefetch
  (1.2 < 1-a < 1.1-b < 1.2), so `StartsAreDue` is stated with the comparison the code makes and
  `MergedIsNewest` for versions that it orders.
* Maven paths `_root/x` and `x`, and dist paths `dist/x` and `x`, share a cache key; dist pulls are
  recorded under the unscoped alias (`dist/pull_history.go:14`), which `depprefetch.rawAlias`
  (`depprefetch/service.go:114`) never accepts, so prefetch of dist has no candidates.
* `Prefetch`: a cancel request between `consumeRunControls` and `setActiveCancel` cancels the next
  run, one between the final record and `clearActiveCancel` is swallowed; the timeout of one
  candidate cancels its siblings; a skip because of a recent success overwrites the success; a
  shutdown leaves the run's record "running".
* `SchedulerRuntime`: `r.scheduler` is read without the lock that Stop clears it under
  (`scheduler/control.go:58`); a synchronisation that is never launched keeps the status "queued",
  and statuses are never removed.
* `RefreshIntents`: an intent is claimed before it is refreshed, so a crash or a failed refresh loses
  it; a stale listing can claim an intent that was queued again before it is due; a late patch writes
  an older due time onto a newer row.

## What is not modelled

* Direct (bypass) readers of the disk cache are summarised; their tracker
  (`disk_cache_direct_tracker*.go`) is not.
* Local files and S3 requests of the object stores: a canonical call succeeds, fails or takes
  effect with its answer lost.
* Plain queries, row mapping, SQL dialects; the digest-keyed refresh
  (`refreshCatalogMetadata`) of `catalog_refresh_batch.go`.
* Cleanup: the dry run and its metadata view, `PruneReferences`, invalidation of in-memory
  caches, `MaxScan`; the order of groups beyond "stale before recent".
* Range parsing of served responses, header formats, spooling to files beyond the slot it takes.
* Referrers and tag lists of the container cache; how probes compute the latency of an endpoint;
  event payloads, metrics, logs.
* The third-party job runner and its distributed locker: external, as the scheduler uses them.
* HTTP routing, name parsing of the registry, suggestions, configuration, administration,
  authentication, policy and wiring: sequential code without shared state of its own.

## Further work

1. A proof of `EntrySurvives` for the deployments without copies.
2. The direct-reader tracker inside `DiskCacheFlight`; S3 admission; the digest-keyed refresh.
3. Further abstract specifications: a *register with invalidation* that `DiskCache` implements, a
   *mutual exclusion with timeout* for the lease, *exactly-once counting* for the pull batch.
