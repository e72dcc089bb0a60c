----------------------------- MODULE MCRecords ------------------------------
(* TLC's instances of what keeps the metadata in order: "pulls", the batched  *)
(* writes of one pull record, "catalog", the refreshes of an alias that       *)
(* follow committed mutations, and "cleanup", passes that retire a package of *)
(* two artifacts with a budget of one object.  A behaviour is of one part;    *)
(* the variables of the other modules keep their first value.                 *)
EXTENDS Records, TLC

CONSTANTS
    c1, c2, r1, r2,
    p1, a1, a2, d1, d2, Repos, Refs, Digests, Writers, MaxRequests
VARIABLES
    part,
    dep, row, objects, writer, touching, gc, inv, dirty, requests, disturbed, settled

refreshes == <<mutation, refresh, newest, batch, catalogMu, committed, catalog>>
passes == <<dep, row, objects, writer, touching, gc, inv, dirty, requests, disturbed, settled>>

\* A mutation of one repository, and one that touches it and another.
MCTouches == (c1 :> {r1}) @@ (c2 :> {r1, r2})

Package ==
    [ecosystem |-> [p \in Repos |-> "maven"], group |-> [r \in Refs |-> "release"],
     children |-> [d \in Digests |-> {}], cached |-> {}, touched |-> {},
     puts |-> {[kind |-> "artifact", repo |-> p1, ref |-> a1, digest |-> d1],
               [kind |-> "artifact", repo |-> p1, ref |-> a2, digest |-> d2]},
     pulled |-> {<<p1, a1>>}, maxDeletes |-> 1, capacity |-> FALSE, unreadable |-> FALSE]

G == INSTANCE CacheCleanup WITH Deployments <- {Package}, Faulty <- FALSE

MCInit == part \in {"pulls", "catalog", "cleanup"} /\ Init /\ C!Init /\ G!Init

MCNext ==
    \/ part = "pulls" /\ Next /\ UNCHANGED <<part, refreshes, passes>>
    \/ part = "catalog" /\ C!Next /\ UNCHANGED <<part, vars, passes>>
    \/ part = "cleanup" /\ G!Next /\ UNCHANGED <<part, vars, refreshes>>

\* Some goroutine that can run runs, which is less than the modules assume of each;
\* the passes are as in CacheCleanup.
MCFairness ==
    /\ WF_vars(part = "pulls" /\ \E c \in Callers : Calling(c) \/ Flying(c))
    /\ WF_refreshes(part = "catalog" /\ \E c \in Committers : C!Calling(c) \/ C!Flying(c))
    /\ WF_passes(part = "cleanup" /\ \E w \in Writers : G!Put(w))
    /\ WF_passes(part = "cleanup" /\ \E d \in Digests : G!EndTouch(d))
    /\ WF_passes(part = "cleanup" /\ G!Pass)
    /\ SF_passes(part = "cleanup" /\ G!Age)

MCSpec == MCInit /\ [][MCNext]_<<part, vars, refreshes, passes>> /\ MCFairness

-----------------------------------------------------------------------------
\* Calls that record a pull or refresh the catalog return, whatever fails or is
\* cancelled; once requests stop, every object and every manifest and blob row that is
\* not needed is reclaimed, whatever the budget of a pass.
WorkIsFinished ==
    <>[](/\ part = "pulls" => AllReturned
         /\ part = "catalog" => C!AllReturned
         /\ part = "cleanup" => G!Clean)
=============================================================================
