------------------------------ MODULE MCBodies ------------------------------
(* TLC's instances of response bodies: "recover", one that resumes after      *)
(* interrupted reads, and "blob", blobs that are streamed to clients while    *)
(* they are stored, for three requests of which two are on one instance.  A   *)
(* behaviour is of one part; the variables of the other module keep their     *)
(* first value.                                                               *)
EXTENDS Bodies, TLC

VARIABLE part

blobs == <<small, object, blobRow, repoRow, lease, fill, filled, req, task, permits, expiries>>

MCNodeOf == [q \in Requests |-> IF q = "remote" THEN "b" ELSE "a"]
MCKinds == [q \in Requests |->
            CASE q = "first" -> {"full"} [] q = "second" -> {"full", "range"} [] OTHER -> {"full", "head"}]

MCInit ==
    /\ part \in {"recover", "blob"}
    /\ Init /\ (part = "blob" => etag /\ digest)
    /\ B!Init

MCNext ==
    \/ part = "recover" /\ Next /\ UNCHANGED <<part, blobs>>
    \/ part = "blob" /\ B!Next /\ UNCHANGED <<part, vars>>

MCSpec ==
    /\ MCInit /\ [][MCNext]_<<part, vars, blobs>>
    /\ WF_vars(part = "recover" /\ Reading) /\ WF_vars(part = "recover" /\ Closing)
    /\ WF_blobs(part = "blob" /\ B!Progress) /\ WF_blobs(part = "blob" /\ B!LostLeaseExpires)

-----------------------------------------------------------------------------
\* Every Read and Close of a resumed body returns, and every blob request ends once the
\* clients of streamed bodies read on or close them and lost leases run out.
BodiesEnd ==
    []<>(/\ part = "recover" => Returned
         /\ part = "blob" => B!AllEnded)
=============================================================================
