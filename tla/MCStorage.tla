------------------------------ MODULE MCStorage ------------------------------
(* TLC's instances of what outlives a process: "cleanup", the garbage         *)
(* collection of rows and objects beside requests that write them, and        *)
(* "restart", several lives of the disk cache on one directory in which every *)
(* file operation may fail, for objects of two sizes.  A behaviour is of one  *)
(* part; the variables of the other module keep their first value.            *)
EXTENDS Storage, TLC

CONSTANTS Parts, a, b, p1, p2, r1, r2, r3, d1, d2, d3
VARIABLE part

cleanup == <<dep, row, objects, writer, touching, gc, inv, dirty, requests, disturbed, settled>>

TwoSizes == (a :> 2) @@ (b :> 1)

Artifact(p, r, d) == [kind |-> "artifact", repo |-> p, ref |-> r, digest |-> d]
Image(r, d) == [kind |-> "image", repo |-> p1, ref |-> r, digest |-> d]

Maven == [ecosystem |-> [p \in Repos |-> "maven"], group |-> [r \in Refs |-> "release"],
          children |-> [d \in Contents |-> {}], puts |-> {}, cached |-> {}, pulled |-> {}, touched |-> {},
          maxDeletes |-> 0, capacity |-> FALSE, unreadable |-> FALSE]

\* Two ecosystems that store the same bytes; one of them has.
Shared == [Maven EXCEPT !.ecosystem = [p \in Repos |-> IF p = p1 THEN "maven" ELSE "npm"],
                        !.puts = {Artifact(p1, r1, d1), Artifact(p2, r1, d1)},
                        !.cached = {Artifact(p1, r1, d1)},
                        !.pulled = {<<p2, r1>>}, !.touched = {d1}, !.capacity = TRUE]

\* Two images that share a layer; one of them is cached.
Images2 == [Maven EXCEPT !.ecosystem = [p \in Repos |-> "container"],
                         !.children = [d \in Contents |-> IF d = d3 THEN {} ELSE {d3}],
                         !.puts = {Image(r2, d2),
                                   [kind |-> "head", repo |-> p1, ref |-> r2, digest |-> d2],
                                   [kind |-> "layer", repo |-> p1, ref |-> d3, digest |-> d3]},
                         !.cached = {Image(r1, d1), [kind |-> "layer", repo |-> p1, ref |-> d3, digest |-> d3]},
                         !.maxDeletes = 2]

\* Packages of one repository that store the same bytes; two of them have.
Copies == [Maven EXCEPT !.group = [r \in Refs |-> CASE r = r1 -> "a" [] r = r2 -> "b" [] OTHER -> "c"],
                        !.puts = {Artifact(p1, r, d1) : r \in Refs},
                        !.cached = {Artifact(p1, r1, d1), Artifact(p1, r2, d1)}]

SharedDeployments == {Shared, Images2}
CopiesDeployment == {Copies}
UnreadableDeployment == {[Images2 EXCEPT !.unreadable = TRUE]}

-----------------------------------------------------------------------------
MCInit ==
    /\ part \in Parts
    /\ C!Init /\ (part = "restart" => dep = CHOOSE x \in Deployments : TRUE)
    /\ RInit /\ (part = "cleanup" => abandoned = {} /\ \A d \in Digests : body[d] = NoFile /\ meta[d] = NoFile)

MCNext ==
    \/ part = "cleanup" /\ C!Next /\ UNCHANGED <<part, rvars>>
    \/ part = "restart" /\ RNext /\ UNCHANGED <<part, cleanup>>

MCSpec == MCInit /\ [][MCNext]_<<part, rvars, cleanup>>
=============================================================================
