----------------------------- MODULE CacheCleanup -----------------------------
(* The shared cleanup pass (internal/scheduler/cleanup_shared.go,             *)
(* internal/cachegc, internal/artifactcache/cleanup_plan.go,                  *)
(* internal/ecosystems/container/cleanup_plan*.go) against the requests that  *)
(* store, touch and pull entries at the same time.                            *)
(*                                                                            *)
(* A row is missing, stale (its last activity is before the cutoff of a pass  *)
(* that starts now) or fresh.  Rows carry no clock: a conditional delete and  *)
(* a recheck ask whether the row was written since the pass read it (dirty).  *)
(* An object is stored once per digest and shared by all repositories.        *)
EXTENDS Naturals, Sequences, FiniteSets
LOCAL INSTANCE Functions

CONSTANTS
    Repos,       \* an upstream alias and a repository
    Refs,        \* tags and artifact paths
    Digests,
    Writers,     \* requests in progress
    Deployments, \* what is cached and how cleanup is configured
    Faulty,      \* TRUE: a step of a pass may fail, or the process stop
    MaxRequests, \* bound: Puts, touches and pulls in a behaviour
    None

(* A deployment:                                                                *)
(*   ecosystem   the ecosystem of a repository; "container" has its own planner *)
(*   group       groupKey: the package an artifact path belongs to              *)
(*   children    the descriptors in the body of an image manifest               *)
(*   puts        what a request may store                                       *)
(*   cached      what earlier requests have stored                              *)
(*   pulled      <<repo, reference>> of the pull records that requests write    *)
(*   touched     digests whose access time the reads update                     *)
(*   maxDeletes  scheduler.cleanup.max_deletes, 0 for no limit                  *)
(*   capacity    TRUE: the candidates are larger than max_bytes                 *)
(*   unreadable  TRUE: reading an object may fail although it exists            *)
Entry == [kind : {"artifact", "image", "head", "layer"}, repo : Repos,
          ref : Refs \cup Digests, digest : Digests]

\* What the configuration and the stored manifests can be: manifests list at most an index,
\* its images and their layers.
CleanupConstants ==
    /\ \A x \in Deployments :
          /\ x.ecosystem \in [Repos -> STRING] /\ x.group \in [Refs -> STRING]
          /\ x.children \in [Digests -> SUBSET Digests]
          /\ \A d \in Digests : \A e \in x.children[d] : \A f \in x.children[e] : x.children[f] = {}
          /\ x.puts \subseteq Entry /\ x.cached \subseteq Entry /\ x.pulled \subseteq Repos \X (Refs \cup Digests)
          /\ x.touched \subseteq Digests /\ x.maxDeletes \in Nat /\ {x.capacity, x.unreadable} \subseteq BOOLEAN
    /\ MaxRequests \in Nat /\ Faulty \in BOOLEAN

VARIABLES
    dep,       \* the deployment
    row,       \* metadata rows by key: age, and the digest of a tag or the reference of a manifest
    objects,   \* digests in the object store
    writer,    \* a request: what it stores, the steps left, whether the row of the next one was deleted
    touching,  \* access updates under way
    gc,        \* the cleanup pass
    inv,       \* its inventory
    dirty,     \* rows and objects written since the pass last read them
    requests,  \* Puts, touches and pulls so far
    disturbed, \* writers that a pass selected, retired or swept beside
    settled    \* entries whose last Put was not disturbed, or that were pulled

vars == <<dep, row, objects, writer, touching, gc, inv, dirty, requests, disturbed, settled>>

Ecosystem == dep.ecosystem
GroupOf == dep.group
Children == dep.children
MaxDeletes == dep.maxDeletes

-----------------------------------------------------------------------------
(* Keys and rows. *)

Tag(p, r) == <<"tag", p, r>>
Manifest(p, d) == <<"manifest", p, d>>
Link(p, d) == <<"link", p, d>>
Blob(d) == <<"blob", None, d>>
Pull(p, r) == <<"pull", p, r>>
Object(d) == <<"object", None, d>>

Relation(kind) ==
    CASE kind = "tag"                     -> {kind} \X Repos \X Refs
      [] kind \in {"manifest", "link"}    -> {kind} \X Repos \X Digests
      [] kind = "blob"                    -> {kind} \X {None} \X Digests
      [] kind = "pull"                    -> {kind} \X Repos \X (Refs \cup Digests)
Keys == UNION {Relation(k) : k \in {"tag", "manifest", "link", "blob", "pull"}}

NoRow == [age |-> "none", val |-> None]
Fresh(v) == [age |-> "fresh", val |-> v]
Has(I, k) == I[k].age # "none"
Recent(I, k) == I[k].age = "fresh"

IdleWriter == [put |-> None, todo |-> <<>>, lost |-> FALSE]
IdlePass == [pc |-> "idle", todo |-> {}, sel |-> {}, cands |-> {}, d |-> None, refs |-> {}]
EmptyInv == [k \in Keys |-> NoRow]

\* What is written while a pass runs differs from what the pass read before.
Marked(ks) == IF gc.pc \in {"idle", "reconcile"} THEN {} ELSE dirty \cup ks

Request == requests < MaxRequests /\ requests' = requests + 1

-----------------------------------------------------------------------------
(* A request stores an entry: the object first, then one upsert per row. *)

PutSteps(kind) ==
    CASE kind = "artifact" -> <<"object", "manifest", "tag", "blob", "link">>
      [] kind = "image"    -> <<"object", "manifest", "tag">>
      [] kind = "head"     -> <<"manifest", "tag">>
      [] kind = "layer"    -> <<"object", "blob", "link">>

\* A reference that is a digest has no tag.
StepsOf(put) == SelectSeq(PutSteps(put.kind), LAMBDA s : s = "tag" => put.ref \in Refs)

KeyOf(put, step) ==
    CASE step = "manifest" -> Manifest(put.repo, put.digest)
      [] step = "tag"      -> Tag(put.repo, put.ref)
      [] step = "blob"     -> Blob(put.digest)
      [] step = "link"     -> Link(put.repo, put.digest)

ValueOf(put, step) == CASE step = "manifest" -> put.ref [] step = "tag" -> put.digest [] OTHER -> None

\* The values that the cached entries give to a row.
Cached(k) ==
    {ValueOf(x[1], x[2]) :
        x \in {y \in dep.cached \X {"manifest", "tag", "blob", "link"} :
                y[2] \in Range(StepsOf(y[1])) /\ KeyOf(y[1], y[2]) = k}}

Init ==
    /\ dep \in Deployments
    /\ row = [k \in Keys |-> IF Cached(k) = {} THEN NoRow ELSE Fresh(CHOOSE v \in Cached(k) : TRUE)]
    /\ objects = {put.digest : put \in dep.cached}
    /\ writer = [w \in Writers |-> IdleWriter]
    /\ touching = {}
    /\ gc = IdlePass
    /\ inv = EmptyInv
    /\ dirty = {}
    /\ requests = 0
    /\ disturbed = {}
    /\ settled = {}

Sweeping == {"delete", "drop"}
\* A pass that is choosing, retiring or past its last check of the same object.
Disturbs(put) == gc.pc \in {"select", "retire"} \/ (gc.pc \in Sweeping /\ gc.d = put.digest)

BeginPut(w, put) ==
    /\ Request /\ writer[w] = IdleWriter
    /\ writer' = [writer EXCEPT ![w] = [put |-> put, todo |-> StepsOf(put), lost |-> FALSE]]
    /\ IF Disturbs(put)
       THEN disturbed' = disturbed \cup {w} /\ settled' = settled \ {<<put.repo, put.ref>>}
       ELSE UNCHANGED <<disturbed, settled>>
    /\ UNCHANGED <<dep, row, objects, touching, gc, inv, dirty>>

Step(w) == Head(writer[w].todo)
Storing(w) == writer[w].put # None /\ writer[w].todo # <<>>
Advance(w) == writer' = [writer EXCEPT ![w].todo = Tail(@), ![w].lost = FALSE]

PutObject(w) ==
    /\ Storing(w) /\ Step(w) = "object"
    /\ objects' = objects \cup {writer[w].put.digest}
    /\ dirty' = Marked({Object(writer[w].put.digest)})
    /\ Advance(w)
    /\ UNCHANGED <<dep, row, touching, gc, inv, requests, disturbed, settled>>

(* An upsert looks the row up and then inserts or updates it in another statement.   *)
(* patchRowByKey does not look at the number of rows it changed: if the pass deleted *)
(* the row after the lookup (lost), the update does nothing.                         *)
Upserted(w, k) ==
    {[row EXCEPT ![k] = Fresh(ValueOf(writer[w].put, Step(w)))]}
        \cup (IF writer[w].lost /\ ~Has(row, k) THEN {row} ELSE {})

UpsertWrite(w) ==
    LET k == KeyOf(writer[w].put, Step(w)) IN
    /\ Storing(w) /\ Step(w) # "object"
    /\ row' \in Upserted(w, k)
    /\ dirty' = IF row' = row /\ ~Has(row, k) THEN dirty ELSE Marked({k})
    /\ IF Step(w) = "blob" /\ ~Has(row', k)
       THEN writer' = [writer EXCEPT ![w] = IdleWriter] /\ disturbed' = disturbed \ {w}
       ELSE Advance(w) /\ UNCHANGED disturbed
    /\ UNCHANGED <<dep, objects, touching, gc, inv, requests, settled>>

Complete(p, r) ==
    /\ Has(row, Tag(p, r))
    /\ Has(row, Manifest(p, row[Tag(p, r)].val))
    /\ row[Tag(p, r)].val \in objects

EntriesOf(W) == {<<writer[w].put.repo, writer[w].put.ref>> : w \in W}

\* Activity on an artifact keeps it, and between two passes its whole package.
Kin(p, r) == IF gc.pc = "idle" /\ Ecosystem[p] # "container" THEN {x \in Refs : GroupOf[x] = GroupOf[r]} ELSE {r}
Kept(p, r) == {<<p, x>> : x \in {y \in Kin(p, r) : Complete(p, y)}} \ EntriesOf(disturbed)

PutDone(w) ==
    LET put == writer[w].put IN
    /\ put # None /\ writer[w].todo = <<>>
    /\ writer' = [writer EXCEPT ![w] = IdleWriter]
    /\ disturbed' = disturbed \ {w}
    /\ settled' = IF w \notin disturbed /\ put.kind \in {"artifact", "image"} /\ put.ref \in Refs
                  THEN settled \cup {<<put.repo, put.ref>>} \cup Kept(put.repo, put.ref) ELSE settled
    /\ UNCHANGED <<dep, row, objects, touching, gc, inv, dirty, requests>>

(* A Put that fails at any step leaves what it has written. *)
PutFails(w) ==
    /\ Storing(w)
    /\ writer' = [writer EXCEPT ![w] = IdleWriter]
    /\ disturbed' = disturbed \ {w}
    /\ UNCHANGED <<dep, row, objects, touching, gc, inv, dirty, requests, settled>>

(* A read that found the manifest updates the access time of its blob later, or *)
(* seeds the row; one whose row went meanwhile changes nothing.                 *)
BeginTouch(d) ==
    /\ Request /\ d \in dep.touched \ touching
    /\ \E p \in Repos : Has(row, Manifest(p, d))
    /\ touching' = touching \cup {d}
    /\ UNCHANGED <<dep, row, objects, writer, gc, inv, dirty, disturbed, settled>>

EndTouch(d) ==
    /\ d \in touching
    /\ touching' = touching \ {d}
    /\ \/ row' = [row EXCEPT ![Blob(d)] = Fresh(None)] /\ dirty' = Marked({Blob(d)})
       \/ ~Has(row, Blob(d)) /\ UNCHANGED <<row, dirty>>
    /\ UNCHANGED <<dep, objects, writer, gc, inv, requests, disturbed, settled>>

(* The pull record of a request; writes of pull records are batched and may be late. *)
RecordPull(p, r) ==
    /\ Request /\ <<p, r>> \in dep.pulled
    /\ row' = [row EXCEPT ![Pull(p, r)] = Fresh(None)]
    /\ settled' = IF /\ r \in Refs /\ Complete(p, r)
                     /\ ~Disturbs([digest |-> row[Tag(p, r)].val])
                  THEN settled \cup Kept(p, r) ELSE settled
    /\ UNCHANGED <<dep, objects, writer, touching, gc, inv, dirty, disturbed>>

(* scheduler.cleanup.unused_for passes: it is far longer than a pass or a Put. *)
Age ==
    /\ gc.pc = "idle" /\ touching = {} /\ \A w \in Writers : writer[w] = IdleWriter
    /\ \E k \in Keys : Recent(row, k)
    /\ row' = [k \in Keys |-> IF Recent(row, k) THEN [row[k] EXCEPT !.age = "stale"] ELSE row[k]]
    /\ settled' = {}
    /\ UNCHANGED <<dep, objects, writer, touching, gc, inv, dirty, requests, disturbed>>

-----------------------------------------------------------------------------
(* The planners. They see only the inventory I. *)

Tagged(I, p, r) == Has(I, Tag(p, r)) /\ Has(I, Manifest(p, I[Tag(p, r)].val))
TaggedDigests(I, p) == {I[Tag(p, r)].val : r \in {x \in Refs : Tagged(I, p, x)}}
Rows(I, kind, p) == {d \in Digests : Has(I, <<kind, p, d>>)}

\* groupTags and groupUntaggedManifests: the tags of a package, its manifests without a tag.
PackageTags(I, p, g) == {r \in Refs : GroupOf[r] = g /\ Tagged(I, p, r)}
LooseManifests(I, p, g) ==
    {d \in Rows(I, "manifest", p) \ TaggedDigests(I, p) : GroupOf[I[Manifest(p, d)].val] = g}
PackageDigests(I, p, g) == {I[Tag(p, r)].val : r \in PackageTags(I, p, g)} \cup LooseManifests(I, p, g)

Packages(I) ==
    {x \in {q \in Repos : Ecosystem[q] # "container"} \X {GroupOf[r] : r \in Refs} :
        PackageDigests(I, x[1], x[2]) # {}}

\* Access to shared bytes is no evidence for any one of the packages that own them.
SoleOwner(I, p, g, d) ==
    /\ \A x \in Packages(I) :
          Ecosystem[x[1]] = Ecosystem[p] /\ d \in PackageDigests(I, x[1], x[2]) => x = <<p, g>>
    /\ \A q \in Repos : Ecosystem[q] # Ecosystem[p] => ~Has(I, Manifest(q, d))

PackageGroup(I, p, g) ==
    LET tags == PackageTags(I, p, g)
        loose == LooseManifests(I, p, g)
        digests == PackageDigests(I, p, g) IN
    [tags |-> {<<p, r>> : r \in tags},
     manifests |-> {<<p, d>> : d \in digests},
     links |-> {<<p, d>> : d \in digests \cap Rows(I, "link", p)},
     digests |-> digests,
     recent |->
        \/ \E r \in tags : LET m == Manifest(p, I[Tag(p, r)].val) IN
              Recent(I, Tag(p, r)) \/ (I[m].val = r /\ Recent(I, m))
        \/ \E d \in loose : Recent(I, Manifest(p, d))
        \/ \E d \in digests : SoleOwner(I, p, g, d) /\ (Recent(I, Blob(d)) \/ Recent(I, Link(p, d)))
        \/ \E r \in tags \cup {I[Manifest(p, d)].val : d \in loose} : Recent(I, Pull(p, r))]

\* An image owns the graph under its root manifest, through manifests of any repository.
ImageRepos == {p \in Repos : Ecosystem[p] = "container"}
Expand(I, S) == S \cup UNION {Children[d] : d \in {e \in S : \E q \in ImageRepos : Has(I, Manifest(q, e))}}
ImageGraph(I, d) == Expand(I, Expand(I, {d}))
GraphManifests(I, p, d) ==
    {<<p, d>>} \cup {x \in ImageRepos \X (ImageGraph(I, d) \ {d}) : Has(I, Manifest(x[1], x[2]))}

TaggedImages(I) == UNION {{<<p, d>> : d \in TaggedDigests(I, p)} : p \in ImageRepos}
LooseImages(I) ==
    {x \in ImageRepos \X Digests : Has(I, Manifest(x[1], x[2]))}
        \ UNION {GraphManifests(I, x[1], x[2]) : x \in TaggedImages(I)}
StandaloneImages(I) == {x \in LooseImages(I) : \A y \in LooseImages(I) : x[2] \notin Children[y[2]]}

ImageGroup(I, p, d) ==
    LET tags == {r \in Refs : I[Tag(p, r)].val = d}
        named == IF tags = {} THEN {I[Manifest(p, d)].val, d} ELSE tags \cup {d}
        graph == ImageGraph(I, d) IN
    [tags |-> {<<p, r>> : r \in tags},
     manifests |-> GraphManifests(I, p, d),
     links |-> {<<p, e>> : e \in graph \cap Rows(I, "link", p)},
     digests |-> graph,
     recent |-> \/ \E r \in tags : Recent(I, Tag(p, r))
                \/ \E r \in named : Recent(I, Pull(p, r))
                \/ Recent(I, Manifest(p, d))
                \/ tags = {} /\ Recent(I, Link(p, d))]

Images(I) == TaggedImages(I) \cup StandaloneImages(I)
Groups(I) == Packages(I) \cup Images(I)
Group(I, x) == IF x[1] \in ImageRepos THEN ImageGroup(I, x[1], x[2]) ELSE PackageGroup(I, x[1], x[2])
\* The tags, manifests, links or digests of the groups of S.
OfGroups(I, S, field) == UNION {Group(I, x)[field] : x \in S}

-----------------------------------------------------------------------------
(* ApplyCleanupPlan: which rows a selection retires. *)

RetiredTags(I, S) == OfGroups(I, S, "tags") \ OfGroups(I, Groups(I) \ S, "tags")

\* A tag retained by any package keeps its manifest.
RetiredManifests(I, S) ==
    OfGroups(I, S, "manifests")
        \ (OfGroups(I, Groups(I) \ S, "manifests")
             \cup {<<t[1], I[Tag(t[1], t[2])].val>> :
                     t \in {x \in Repos \X Refs : Has(I, Tag(x[1], x[2])) /\ x \notin RetiredTags(I, S)}})

\* addOrphanCandidates: stale blobs of no group, while the budget lasts.
Orphans(I) == {d \in Digests : I[Blob(d)].age = "stale" /\ d \notin OfGroups(I, Groups(I), "digests")}
OrphanChoices(I, cands) ==
    {X \in SUBSET Orphans(I) :
        \/ X = Orphans(I)
        \/ MaxDeletes > 0 /\ Cardinality(cands \cup X) >= MaxDeletes
             /\ \A x \in X : Cardinality(cands \cup (X \ {x})) < MaxDeletes}

RetiredLinks(I, S, cands) ==
    LET keptRepos == {p \in Repos : \E d \in Rows(I, "manifest", p) : <<p, d>> \notin RetiredManifests(I, S)} IN
    (OfGroups(I, S, "links") \ OfGroups(I, Groups(I) \ S, "links"))
        \cup {x \in (Repos \ keptRepos) \X cands : I[Link(x[1], x[2])].age = "stale"}

Retired(I, S, cands) ==
    {Tag(t[1], t[2]) : t \in RetiredTags(I, S)}
        \cup {Manifest(m[1], m[2]) : m \in RetiredManifests(I, S)}
        \cup {Link(l[1], l[2]) : l \in RetiredLinks(I, S, cands)}

-----------------------------------------------------------------------------
(* The pass: reconcile objects without metadata, read the inventory relation by *)
(* relation, plan, select packages, retire their rows, sweep the objects.       *)

GcOnly == UNCHANGED <<objects, writer, touching, requests, settled>>

\* A conditional delete that matches the row.
DeleteRow(k) ==
    /\ row' = [row EXCEPT ![k] = NoRow]
    /\ writer' = [w \in Writers |->
                    IF Storing(w) /\ Step(w) # "object" /\ KeyOf(writer[w].put, Step(w)) = k
                    THEN [writer[w] EXCEPT !.lost = TRUE] ELSE writer[w]]
Enter(pc, todo) == gc' = [gc EXCEPT !.pc = pc, !.todo = todo]

StartPass ==
    /\ gc.pc = "idle"
    /\ Enter("reconcile", Digests)
    /\ UNCHANGED <<dep, row, inv, dirty, disturbed>> /\ GcOnly

\* WalkObjects lists the store in one order.
ReconcileObject ==
    LET d == CHOOSE x \in gc.todo : TRUE IN
    /\ gc.pc = "reconcile" /\ gc.todo # {}
    /\ gc' = [gc EXCEPT !.todo = @ \ {d}]
    /\ row' = IF d \in objects /\ ~Has(row, Blob(d)) THEN [row EXCEPT ![Blob(d)] = Fresh(None)] ELSE row
    /\ UNCHANGED <<dep, inv, dirty, disturbed>> /\ GcOnly

ReconcileEnds ==
    /\ gc.pc = "reconcile" /\ gc.todo = {}
    /\ Enter("manifest", {})
    /\ UNCHANGED <<dep, row, inv, dirty, disturbed>> /\ GcOnly

NextRelation == [manifest |-> "tag", tag |-> "blob", blob |-> "link", link |-> "pull", pull |-> "plan"]

ReadRelation ==
    /\ gc.pc \in DOMAIN NextRelation
    /\ inv' = [k \in Keys |-> IF k[1] = gc.pc THEN row[k] ELSE inv[k]]
    /\ dirty' = {k \in dirty : k[1] # gc.pc}
    /\ Enter(NextRelation[gc.pc], {})
    /\ UNCHANGED <<dep, row, disturbed>> /\ GcOnly

\* The container planner fetches the bodies of manifests that are gone from upstream,
\* by digest; a body that cannot be restored ends the pass.
Bodiless == {d \in Digests : d \notin objects /\ \E p \in ImageRepos : Has(inv, Manifest(p, d))}
Active == {w \in Writers : writer[w].put # None}

Plan ==
    /\ gc.pc = "plan"
    /\ objects' = objects \cup Bodiless
    /\ dirty' = dirty \cup {Object(d) : d \in Bodiless}
    /\ Enter("select", Groups(inv))
    /\ disturbed' = disturbed \cup Active
    /\ settled' = settled \ EntriesOf(Active)
    /\ UNCHANGED <<dep, row, inv, writer, touching, requests>>

\* packageTagsUnchanged, packageManifestsUnchanged, packageBlobsUnchanged.
RowsUnchanged(g) ==
    /\ \A t \in g.tags : Has(row, Tag(t[1], t[2])) /\ Tag(t[1], t[2]) \notin dirty
    /\ \A m \in g.manifests : Has(row, Manifest(m[1], m[2])) /\ Manifest(m[1], m[2]) \notin dirty
    /\ \A d \in g.digests :
          IF Has(inv, Blob(d)) THEN Has(row, Blob(d)) /\ Blob(d) \notin dirty
          ELSE ~Has(row, Blob(d)) /\ d \notin objects

\* packageHasRecentPull: the pull records are read again, of the tags, of the references
\* that the manifests were stored under and of their digests.
RecentlyPulled(g) ==
    \/ \E t \in g.tags : Recent(row, Pull(t[1], t[2]))
    \/ \E m \in g.manifests : \E r \in {inv[Manifest(m[1], m[2])].val, m[2]} : Recent(row, Pull(m[1], r))

MutantUnchangedNoPulls(g) == RowsUnchanged(g)
Unchanged(g) == RowsUnchanged(g) /\ ~RecentlyPulled(g)

\* packageFitsBudget: the first package is taken whatever its size.
Fits(g) == MaxDeletes = 0 \/ gc.sel = {} \/ Cardinality(gc.cands \cup g.digests) <= MaxDeletes

\* Groups are taken by age: none that is recent before one that is not.
SelectGroup(x) ==
    LET g == Group(inv, x) IN
    /\ gc.pc = "select" /\ x \in gc.todo
    /\ g.recent => \A y \in gc.todo : Group(inv, y).recent
    /\ gc' = IF ~g.recent /\ Fits(g) /\ Unchanged(g)
             THEN [gc EXCEPT !.todo = @ \ {x}, !.sel = @ \cup {x}, !.cands = @ \cup g.digests]
             ELSE [gc EXCEPT !.todo = @ \ {x}]
    /\ UNCHANGED <<dep, row, inv, dirty, disturbed>> /\ GcOnly

SelectEnds ==
    /\ gc.pc = "select" /\ gc.todo = {}
    /\ \E X \in OrphanChoices(inv, gc.cands) :
          LET cands == gc.cands \cup X IN
          gc' = [gc EXCEPT !.pc = "retire", !.cands = cands, !.sel = {}, !.todo = Retired(inv, gc.sel, cands)]
    /\ inv' = EmptyInv
    /\ UNCHANGED <<dep, row, dirty, disturbed>> /\ GcOnly

\* retirePackageMetadata: tags, then manifests, then links.
RetireOrder(k) == CASE k[1] = "tag" -> 1 [] k[1] = "manifest" -> 2 [] k[1] = "link" -> 3

\* A row that changed since the inventory ends the pass before any object is deleted.
RetireRow(k) ==
    /\ gc.pc = "retire" /\ k \in gc.todo
    /\ \A j \in gc.todo : RetireOrder(k) <= RetireOrder(j)
    /\ IF Has(row, k) /\ k \notin dirty
       THEN DeleteRow(k) /\ gc' = [gc EXCEPT !.todo = @ \ {k}] /\ UNCHANGED dirty
       ELSE gc' = IdlePass /\ dirty' = {} /\ UNCHANGED <<row, writer>>
    /\ UNCHANGED <<dep, inv, disturbed, objects, touching, requests, settled>>

-----------------------------------------------------------------------------
(* CleanupBlobs. *)

MutantProtectedRowsOnly(readable) == {d \in Digests : \E p \in Repos : Has(row, Manifest(p, d))}

\* protectAllManifestReferences: all manifests and what their bodies list, as far as
\* they can be read.
Protected(readable) ==
    LET rows == {d \in Digests : \E p \in Repos : Has(row, Manifest(p, d))} IN
    rows \cup UNION {Children[d] : d \in rows \cap readable}

Readable == IF dep.unreadable THEN SUBSET objects ELSE {objects}

\* classify and candidateEligible: while the candidates exceed the target, a recent
\* blob that nothing refers to may go too.
Idle(d, over) == Has(row, Blob(d)) /\ (Recent(row, Blob(d)) => over)
Eligible(d, refs, over) == Idle(d, over) /\ d \notin refs

SweepStarts ==
    /\ gc.pc = "retire" /\ gc.todo = {}
    /\ \E bodies \in Readable :
          gc' = [gc EXCEPT !.pc = "sweep", !.refs = Protected(bodies),
                           !.todo = {d \in gc.cands : Idle(d, dep.capacity)}]
    /\ dirty' = {}
    /\ UNCHANGED <<dep, row, inv, disturbed>> /\ GcOnly

\* loadEligibleBlob.
SweepLoad(d) ==
    /\ gc.pc = "sweep" /\ d \in gc.todo
    /\ \E bodies \in Readable, over \in {FALSE, dep.capacity} :
          gc' = IF d \notin gc.refs /\ Eligible(d, Protected(bodies), over)
                THEN [gc EXCEPT !.pc = "confirm", !.todo = @ \ {d}, !.d = d, !.refs = Protected(bodies)]
                ELSE [gc EXCEPT !.todo = @ \ {d}]
    /\ dirty' = {}
    /\ UNCHANGED <<dep, row, inv, disturbed>> /\ GcOnly

\* confirmEligibleBlob, after Stat: the row is unchanged and still unprotected.
SweepConfirm ==
    /\ gc.pc = "confirm"
    /\ \E bodies \in Readable, over \in {FALSE, dep.capacity} :
          IF Blob(gc.d) \notin dirty /\ Eligible(gc.d, Protected(bodies), over)
          THEN /\ gc' = [gc EXCEPT !.pc = "delete", !.refs = Protected(bodies)]
               /\ LET beside == {w \in Active : writer[w].put.digest = gc.d} IN
                  disturbed' = disturbed \cup beside /\ settled' = settled \ EntriesOf(beside)
          ELSE gc' = [gc EXCEPT !.pc = "sweep", !.d = None] /\ UNCHANGED <<disturbed, settled>>
    /\ dirty' = {}
    /\ UNCHANGED <<dep, row, inv, objects, writer, touching, requests>>

DeleteObject ==
    /\ gc.pc = "delete"
    /\ objects' = objects \ {gc.d}
    /\ gc' = [gc EXCEPT !.pc = "drop"]
    /\ UNCHANGED <<dep, row, inv, dirty, disturbed, writer, touching, requests, settled>>

\* DeleteBlobIfUnchanged.
DropBlob ==
    /\ gc.pc = "drop"
    /\ IF Blob(gc.d) \in dirty THEN UNCHANGED <<row, writer>> ELSE DeleteRow(Blob(gc.d))
    /\ gc' = [gc EXCEPT !.pc = "sweep", !.d = None]
    /\ dirty' = {}
    /\ UNCHANGED <<dep, inv, disturbed, objects, touching, requests, settled>>

PassEnds ==
    /\ gc.pc = "sweep" /\ gc.todo = {}
    /\ gc' = IdlePass
    /\ dirty' = {}
    /\ UNCHANGED <<dep, row, inv, disturbed>> /\ GcOnly

(* Every step may fail or be the last before the process stops; what is done stays. *)
PassAborts ==
    /\ gc.pc # "idle"
    /\ Faulty \/ (gc.pc = "plan" /\ Bodiless # {})
    /\ gc' = IdlePass
    /\ inv' = EmptyInv
    /\ dirty' = {}
    /\ UNCHANGED <<dep, row, disturbed>> /\ GcOnly

-----------------------------------------------------------------------------
Pass ==
    \/ StartPass \/ ReconcileObject \/ ReconcileEnds \/ ReadRelation \/ Plan \/ SelectEnds
    \/ SweepStarts \/ SweepConfirm \/ DeleteObject \/ DropBlob \/ PassEnds
    \/ \E d \in Digests : SweepLoad(d)
    \/ \E x \in gc.todo : SelectGroup(x) \/ RetireRow(x)

Put(w) == PutObject(w) \/ UpsertWrite(w) \/ PutDone(w)

Next ==
    \/ \E w \in Writers :
          \/ PutObject(w) \/ UpsertWrite(w) \/ PutDone(w) \/ PutFails(w)
          \/ \E put \in dep.puts : BeginPut(w, put)
    \/ \E d \in Digests : BeginTouch(d) \/ EndTouch(d)
    \/ \E p \in Repos, r \in Refs \cup Digests : RecordPull(p, r)
    \/ Age \/ Pass \/ PassAborts

Spec == Init /\ [][Next]_vars

(* Requests end (their I/O has timeouts), the scheduler starts passes and time passes. *)
Fairness ==
    /\ \A w \in Writers : WF_vars(Put(w))
    /\ \A d \in Digests : WF_vars(EndTouch(d))
    /\ WF_vars(Pass)
    /\ SF_vars(Age)

FairSpec == Spec /\ Fairness

-----------------------------------------------------------------------------
(* Properties *)

\* README.md, "Cache cleanup": activity keeps an artifact, and its package, whole.  An
\* entry that was stored or pulled within the retention time, with no pass selecting or
\* retiring packages or checking the same object for the last time meanwhile, stays
\* complete: its tag, the manifest the tag names and the object, whatever the inventory
\* of a running pass had or had not seen of it.
EntrySurvives == \A e \in settled : Complete(e[1], e[2])

\* README.md:62, "sweeps shared content-addressed objects only when no remaining metadata
\* references them": an object that is deleted is referred to only by manifests that were
\* written, or whose body was, after the last check.
Refers(p, m, d) == Has(row, Manifest(p, m)) /\ m \in objects /\ (m = d \/ d \in Children[m])
SweptUnreferenced ==
    gc.pc = "delete" =>
        \A p \in Repos, m \in Digests :
            Refers(p, m, gc.d) => {Manifest(p, m), Object(m)} \cap dirty # {}

\* Once requests stop, every object, and every manifest and blob row, that complete or
\* failed requests and stopped passes left behind is reclaimed, whatever the budget.
\* Tags and repository links hold no bytes and may stay: an upsert that lost its manifest
\* row to a pass leaves a tag that no planner groups.
Clean == objects = {} /\ \A k \in Keys : k[1] \in {"manifest", "blob"} => ~Has(row, k)
=============================================================================
