---------------------------- MODULE PypiPackage ----------------------------
(***************************************************************************)
(* Requests for one PyPI package file (ecosystems/pypi: package,           *)
(* package_cache, body, body_idle, identity, mirror_resolver).  A plain    *)
(* GET that misses the cache owns the fill of its key until its response   *)
(* body is closed: by the client, by the end of its context, or by the     *)
(* read lease when the client stops reading.  The body is streamed, copied *)
(* into a spool when one of the service's spool slots is free, and         *)
(* written to the cache when it closes complete and verified.              *)
(***************************************************************************)
EXTENDS Integers, FiniteSets

CONSTANTS
    Requests,
    Kinds,      \* Kinds[r]: "get", "partial" or "refresh", what the request r may be
    Slots,      \* capacity of cacheSlots
    MaxURLs,    \* bound: addresses tried, the first and its alternatives
    MaxReads    \* bound: reads of a body that leave it unfinished

VARIABLES
    row,        \* what the cache holds: "none", "same" or "other" than the hash says
    fill,       \* FillTracker: the owner of the key's fill
    slots,      \* cacheSlots in use
    req

vars == <<row, fill, slots, req>>
None == "none"
NoBody ==
    [state |-> None, slot |-> FALSE, spool |-> FALSE, read |-> 0, got |-> None, failed |-> FALSE,
     lease |-> "off", queued |-> FALSE, owner |-> FALSE]
NewRequest ==
    [pc |-> "idle", kind |-> None, hash |-> FALSE, recheck |-> TRUE, rounds |-> 0, follows |-> None,
     at |-> 1, urls |-> 1, open |-> FALSE, status |-> 0, body |-> NoBody]

Init ==
    /\ row \in {"none", "same", "other"}
    /\ fill = None
    /\ slots = 0
    /\ req = [r \in Requests |-> NewRequest]

Set(r, new) == req' = [req EXCEPT ![r] = new]
Goto(r, pc) == Set(r, [req[r] EXCEPT !.pc = pc])
Done(r) == Set(r, [NewRequest EXCEPT !.pc = "done"])
Body(r) == req[r].body
SetBody(r, new) == Set(r, [req[r] EXCEPT !.body = new])
Client(r) == req[r].kind # "refresh"
Finish(r) == fill' = IF fill = r THEN None ELSE fill

-----------------------------------------------------------------------------
(* getPackage.                                                             *)

\* packageIdentity: the address may carry the project and the hash.  A HEAD or a
\* range request ("partial") fills nothing.
\* packageURLs: the file's own address, or one at the registry and each mirror.
Arrive(r, kind, hash, urls) ==
    /\ req[r].pc = "idle"
    /\ Set(r, [NewRequest EXCEPT !.pc = "lookup", !.kind = kind, !.hash = hash, !.urls = urls])
    /\ UNCHANGED <<row, fill, slots>>

\* cachedPackage: only what the hash names; a failed read is remembered.
Matches(r) == row = "same" \/ (row = "other" /\ ~req[r].hash)
LookupHit(r) ==
    /\ req[r].pc \in {"lookup", "woken", "recheck"} /\ Client(r) /\ Matches(r)
    /\ Done(r) /\ Finish(r)
    /\ UNCHANGED <<row, slots>>
AfterLookup(r) ==
    IF req[r].pc = "recheck" \/ req[r].kind = "partial" THEN "fetch" ELSE "begin"
LookupMiss(r) ==
    /\ req[r].pc \in {"lookup", "woken", "recheck"} /\ ~(Client(r) /\ Matches(r))
    /\ Set(r, [req[r] EXCEPT !.pc = AfterLookup(r), !.recheck = TRUE])
    /\ UNCHANGED <<row, fill, slots>>
LookupFails(r) ==
    /\ req[r].pc \in {"lookup", "woken", "recheck"} /\ Client(r)
    /\ Set(r, [req[r] EXCEPT !.pc = AfterLookup(r), !.recheck = AfterLookup(r) = "fetch"])
    /\ UNCHANGED <<row, fill, slots>>

\* beginPackageFill: at most two fills are waited for, then the request goes
\* on without one.
Fetching(r, pc) == [req[r] EXCEPT !.pc = pc, !.recheck = TRUE, !.rounds = 0, !.follows = None]
Begin(r) ==
    /\ req[r].pc = "begin"
    /\ \/ /\ req[r].rounds < 2 /\ fill = None
          /\ fill' = r /\ Set(r, Fetching(r, IF req[r].recheck THEN "recheck" ELSE "fetch"))
       \/ /\ req[r].rounds < 2 /\ fill # None
          /\ Set(r, [req[r] EXCEPT !.pc = "wait", !.rounds = @ + 1, !.follows = fill]) /\ UNCHANGED fill
       \/ req[r].rounds = 2 /\ Set(r, Fetching(r, "fetch")) /\ UNCHANGED fill
    /\ UNCHANGED <<row, slots>>
Wait(r) ==
    /\ req[r].pc = "wait" /\ fill # req[r].follows
    /\ Set(r, [req[r] EXCEPT !.pc = "woken", !.follows = None])
    /\ UNCHANGED <<row, fill, slots>>
\* pypiFillWaitTimeout, or the end of the request's own context.
WaitEnds(r) ==
    /\ req[r].pc = "wait"
    /\ \/ Set(r, Fetching(r, "fetch")) \/ Done(r)
    /\ UNCHANGED <<row, fill, slots>>

\* fetchPackage: the answer of the address before is closed first; the first
\* failure looks for alternatives, with the hash the index gives.
Tries(r) == req[r].pc = "fetch" /\ req[r].at <= req[r].urls
\* legacyPackageIdentity finds the hash in the cached or the upstream index.
LegacyPackageIdentity(r, found) == req[r].hash \/ found
\* resolvePackageMirrors knows other addresses only of a file whose hash it knows.
ResolvePackageMirrors(r, found) == IF LegacyPackageIdentity(r, found) /\ found THEN MaxURLs ELSE req[r].urls
PackageAlternatives(r, found) ==
    IF req[r].at = 1
    THEN [urls |-> ResolvePackageMirrors(r, found), hash |-> LegacyPackageIdentity(r, found)]
    ELSE [urls |-> req[r].urls, hash |-> req[r].hash]
\* Only for a file with an address of its own are alternatives looked for.
Found(r) == IF req[r].at = 1 /\ req[r].urls = 1 THEN BOOLEAN ELSE {FALSE}
TryNext(r, last, alternatives) ==
    [req[r] EXCEPT !.at = @ + 1, !.open = last,
                   !.urls = alternatives.urls, !.hash = alternatives.hash]
Fetched(r, status) == [req[r] EXCEPT !.pc = "fetched", !.at = 1, !.urls = 1, !.open = FALSE, !.status = status]
FetchPackageURL(r, found) ==
    /\ Tries(r)
    /\ \E status \in {200, 404, 500} :
          IF status = 500 THEN Set(r, TryNext(r, TRUE, PackageAlternatives(r, found)))
          ELSE Set(r, Fetched(r, status))
    /\ UNCHANGED <<row, fill, slots>>
FetchFails(r, found) ==
    /\ Tries(r)
    /\ Set(r, TryNext(r, FALSE, PackageAlternatives(r, found)))
    /\ UNCHANGED <<row, fill, slots>>
\* finishPyPIFetch, or the end of the context: an error gives the fill back.
FetchEnds(r) ==
    /\ req[r].pc = "fetch" /\ req[r].at > req[r].urls
    /\ IF req[r].open THEN Set(r, Fetched(r, 500)) /\ UNCHANGED fill
       ELSE Done(r) /\ Finish(r)
    /\ UNCHANGED <<row, slots>>
FetchCanceled(r) ==
    /\ req[r].pc = "fetch"
    /\ Done(r) /\ Finish(r)
    /\ UNCHANGED <<row, slots>>

-----------------------------------------------------------------------------
(* packageBody.                                                            *)

Cacheable(r) == req[r].status = 200 /\ req[r].kind \in {"get", "refresh"}
\* packageCacheBody takes the fill over; Get suspends the read lease until the
\* pull is recorded.  A full set of slots, or no temporary file, is no spool.
HandOver(r) ==
    /\ req[r].pc = "fetched" /\ Cacheable(r)
    /\ \E slot, spool \in BOOLEAN :
          /\ slot <=> slots < Slots
          /\ spool => slot
          /\ slots' = IF slot THEN slots + 1 ELSE slots
          /\ Set(r, [req[r] EXCEPT !.pc = "streaming", !.status = 0,
                       !.body = [NoBody EXCEPT !.state = "open", !.slot = slot, !.spool = spool,
                                               !.owner = fill = r]])
    /\ UNCHANGED <<row, fill>>
\* Any other answer has no body to cache, and the fill ends here.
MutantPassThrough(r) ==
    /\ req[r].pc = "fetched" /\ ~Cacheable(r)
    /\ Done(r)
    /\ UNCHANGED <<row, fill, slots>>
PassThrough(r) ==
    /\ req[r].pc = "fetched" /\ ~Cacheable(r)
    /\ Done(r) /\ Finish(r)
    /\ UNCHANGED <<row, slots>>
Arm(b) == [b EXCEPT !.lease = "armed"]
ResumeReadLease(r) ==
    /\ Body(r).state = "open" /\ Body(r).lease = "off"
    /\ SetBody(r, Arm(Body(r)))
    /\ UNCHANGED <<row, fill, slots>>

\* Read holds the body's lock; what ends it is verified before it is handed on.
Readable(r) == Body(r).state = "open" /\ Body(r).lease # "off" /\ Body(r).got = None
ReadPart(r) ==
    /\ Readable(r) /\ Body(r).read < MaxReads
    /\ SetBody(r, Arm([Body(r) EXCEPT !.read = @ + 1]))
    /\ UNCHANGED <<row, fill, slots>>
MutantReadEnd(r) ==
    /\ Readable(r)
    /\ \E got \in {"same", "other"} : SetBody(r, Arm([Body(r) EXCEPT !.got = got]))
    /\ UNCHANGED <<row, fill, slots>>
ReadEnd(r) ==
    /\ Readable(r)
    /\ \E got \in {"same", "other"} :
          SetBody(r, Arm([Body(r) EXCEPT !.got = got, !.failed = @ \/ (got = "other" /\ req[r].hash)]))
    /\ UNCHANGED <<row, fill, slots>>
\* A read error, too many or too few bytes, or a spool that cannot be written.
\* Readers stop at the first error.
ReadFails(r) ==
    /\ Readable(r)
    /\ SetBody(r, Arm([Body(r) EXCEPT !.got = "error", !.failed = TRUE]))
    /\ UNCHANGED <<row, fill, slots>>

\* The lease runs out and its callback is queued.  A read that comes first
\* arms the lease again, and the callback finds a newer deadline.
LeaseElapses(r) ==
    /\ Body(r).state = "open" /\ Body(r).lease = "armed"
    /\ SetBody(r, [Body(r) EXCEPT !.lease = "elapsed", !.queued = TRUE])
    /\ UNCHANGED <<row, fill, slots>>
Closing(b) == [b EXCEPT !.state = "closing", !.lease = "off", !.queued = FALSE, !.read = 0]
ExpireReadLease(r) ==
    /\ Body(r).state = "open" /\ Body(r).queued
    /\ SetBody(r, IF Body(r).lease = "elapsed" THEN Closing(Body(r)) ELSE [Body(r) EXCEPT !.queued = FALSE])
    /\ UNCHANGED <<row, fill, slots>>
\* The client closes the body, or its context ends and closes it.
CloseBody(r) ==
    /\ Body(r).state = "open"
    /\ SetBody(r, Closing(Body(r)))
    /\ UNCHANGED <<row, fill, slots>>

\* cacheComplete: a complete and unfailed spool is written, unless the context
\* has ended or the write fails.
Writable(r) == Body(r).spool /\ Body(r).got # None /\ ~Body(r).failed
CacheComplete(r) ==
    /\ Body(r).state = "closing"
    /\ row' \in {row} \cup (IF Writable(r) THEN {Body(r).got} ELSE {})
    /\ SetBody(r, [Body(r) EXCEPT !.state = "written"])
    /\ UNCHANGED <<fill, slots>>
\* The deferred steps: the spool goes, the fill ends, the slot is given back.
Release(r) ==
    /\ Body(r).state = "written"
    /\ Finish(r)
    /\ slots' = IF Body(r).slot THEN slots - 1 ELSE slots
    /\ Done(r)
    /\ UNCHANGED row

\* The cache cleanup.
Evict == row # "none" /\ row' = "none" /\ UNCHANGED <<fill, slots, req>>

Progress ==
    \E r \in Requests :
       \/ \E kind \in Kinds[r], hash \in BOOLEAN, urls \in 1 .. MaxURLs : Arrive(r, kind, hash, urls)
       \/ LookupHit(r) \/ LookupMiss(r) \/ LookupFails(r) \/ Begin(r) \/ Wait(r)
       \/ \E found \in Found(r) : FetchPackageURL(r, found) \/ FetchFails(r, found)
       \/ FetchEnds(r) \/ HandOver(r) \/ PassThrough(r) \/ ResumeReadLease(r)
       \/ LeaseElapses(r) \/ ExpireReadLease(r) \/ CacheComplete(r) \/ Release(r)
Clients ==
    \E r \in Requests :
       WaitEnds(r) \/ FetchCanceled(r) \/ ReadPart(r) \/ ReadEnd(r) \/ ReadFails(r) \/ CloseBody(r)
Next ==
    \/ Progress
    \/ Clients
    \/ Evict
    \/ (\A r \in Requests : req[r].pc = "done") /\ UNCHANGED vars

\* Attempts and cache operations are bounded by timeouts.  Nothing is assumed
\* of the clients: they may never read on and never close.
Spec == Init /\ [][Next]_vars /\ WF_vars(Progress)

-----------------------------------------------------------------------------
TypeOK ==
    /\ row \in {"none", "same", "other"}
    /\ fill \in Requests \cup {None}
    /\ slots \in 0 .. Slots

\* A spool slot in use belongs to a body that has not been released, and the
\* key's fill to a request that is on its way: however a body ends, by its
\* client, its context or its lease, it gives back what it holds exactly once.
HoldingsExact ==
    /\ slots = Cardinality({r \in Requests : Body(r).slot})
    /\ fill # None => req[fill].pc \in {"recheck", "fetch", "fetched"} \/ Body(fill).owner

\* A request that knew the hash, from its own address or from the index, never
\* puts another file into the cache.
OnlyVerified ==
    [][row' = "other" /\ row # "other" => \E r \in Requests : Body(r).state = "closing" /\ ~req[r].hash]_vars

\* Every request has ended and given back what it held.
AllEnded == fill = None /\ slots = 0 /\ \A r \in Requests : req[r].pc = "done"

\* Every request ends, even when clients stop reading and never close: the
\* read lease ends their bodies, and with them the fill the others wait for.
PackagesEnd == <>[]AllEnded
=============================================================================
