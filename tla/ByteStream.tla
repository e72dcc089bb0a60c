----------------------------- MODULE ByteStream -----------------------------
(* What a consumer sees of a response body whose length was declared: the     *)
(* bytes arrive in order and end once.  Bytes of another version of the       *)
(* resource may be among them, but a stream that got any is never completed.  *)
EXTENDS Naturals

CONSTANT Size        \* the declared length
VARIABLES delivered, \* bytes the consumer has
          outcome,   \* "none" while it may read on, "eof" or "error" afterwards
          foreign    \* bytes of another version have been read

Init == delivered = 0 /\ outcome = "none" /\ foreign = FALSE

\* A Read: some of the bytes that are missing, and perhaps the end.
Read ==
    /\ outcome = "none"
    /\ delivered' \in delivered .. Size
    /\ foreign' \in {foreign, TRUE}
    /\ foreign' => delivered' < Size
    /\ outcome' \in {"none", "eof", "error"}
    /\ outcome' = "eof" => delivered' = Size

Spec == Init /\ [][Read]_<<delivered, outcome, foreign>>
=============================================================================
