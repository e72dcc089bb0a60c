--------------------------- MODULE TransferRecover ---------------------------
(* A response body that resumes after interrupted reads                       *)
(* (internal/transfer/recover.go, http.go).                                   *)
(*                                                                            *)
(* One goroutine reads, another may close.  A body is named by the number of  *)
(* continuations opened before it; the upstream may answer a continuation     *)
(* with another version of the resource.                                      *)
EXTENDS Naturals

CONSTANT Size     \* declared length of the response

ASSUME RecoveryAssumption == Size \in Nat \ {0}

Budget == 3
Bodies == 0..Budget

VARIABLES
    etag,       \* the response has a strong ETag
    digest,     \* the response is whole and its SHA-256 is known
    pc,         \* where Read is
    body,       \* the bodies: open, the offset they start at, bytes they gave, of another version or not
    cur,        \* recoveryBody.body
    read,       \* recoveryBody.read
    retries,
    pending,    \* recoveryBody.pending: the last read was interrupted
    terminal,   \* the error that every later Read returns
    recovered,  \* a continuation was opened
    closed, ctxDone,
    closer,     \* Close
    closing,    \* the body Close will close
    delivered,  \* bytes handed to the consumer
    mixed       \* one of the bytes read is of another version

vars == <<etag, digest, pc, body, cur, read, retries, pending, terminal, recovered, closed, ctxDone, closer, closing,
          delivered, mixed>>
others == <<closed, closer, closing, etag, digest>>

Unopened == [open |-> FALSE, at |-> 0, given |-> 0, other |-> FALSE]

\* recoveryIdentityFrom: without an ETag or a digest nothing is resumed.
Init ==
    /\ etag \in BOOLEAN /\ digest \in BOOLEAN /\ (etag \/ digest)
    /\ pc = "idle"
    /\ body = [b \in Bodies |-> [Unopened EXCEPT !.open = (b = 0)]]
    /\ cur = 0 /\ read = 0 /\ retries = 0 /\ delivered = 0
    /\ pending = FALSE /\ terminal = "none" /\ recovered = FALSE /\ mixed = FALSE
    /\ closed = FALSE /\ ctxDone = FALSE /\ closer = "idle" /\ closing = 0

Returns(err) == pc' = "idle" /\ terminal' = err

-----------------------------------------------------------------------------
(* Read *)

StartRead ==
    /\ pc = "idle" /\ terminal = "none"
    /\ pc' = "ready"
    /\ UNCHANGED <<body, cur, read, retries, pending, terminal, recovered, ctxDone, delivered, mixed>> /\ UNCHANGED others

\* ready
Ready ==
    /\ pc = "ready"
    /\ \/ ctxDone /\ Returns("error")
       \/ ~ctxDone /\ pending /\ pc' = "reopen" /\ UNCHANGED terminal
       \/ ~ctxDone /\ ~pending /\ closed /\ Returns("error")
       \/ ~ctxDone /\ ~pending /\ ~closed /\ pc' = "reading" /\ UNCHANGED terminal
    /\ UNCHANGED <<body, cur, read, retries, pending, recovered, ctxDone, delivered, mixed>> /\ UNCHANGED others

\* reopen closes the interrupted body first.
Reopen ==
    /\ pc = "reopen"
    /\ IF retries >= Budget \/ closed
       THEN Returns("error") /\ UNCHANGED body
       ELSE /\ body' = [body EXCEPT ![cur].open = FALSE]
            /\ \/ pc' = "opening" /\ UNCHANGED terminal
               \/ ctxDone /\ Returns("error")
    /\ UNCHANGED <<cur, read, retries, pending, recovered, ctxDone, delivered, mixed>> /\ UNCHANGED others

\* recoveryIdentity.validate: the range is the one asked for, and the ETag the same.
Validated(other) == etag => ~other

Offset == read

MutantOpenUncounted ==
    /\ pc = "opening" /\ retries < Budget
    /\ \E other \in BOOLEAN :
          /\ Validated(other)
          /\ body' = [body EXCEPT ![retries] = [open |-> TRUE, at |-> Offset, given |-> 0, other |-> other]]
    /\ recovered' = TRUE
    /\ pc' = "swap"
    /\ UNCHANGED <<cur, read, retries, pending, terminal, ctxDone, delivered, mixed>> /\ UNCHANGED others

\* openNext: the attempt succeeds, or fails for good, or will be repeated after a pause.
OpenSucceeds ==
    /\ pc = "opening" /\ retries < Budget
    /\ retries' = retries + 1
    /\ \E other \in BOOLEAN :
          /\ Validated(other)
          /\ body' = [body EXCEPT ![retries + 1] = [open |-> TRUE, at |-> Offset, given |-> 0, other |-> other]]
    /\ recovered' = TRUE
    /\ pc' = "swap"
    /\ UNCHANGED <<cur, read, pending, terminal, ctxDone, delivered, mixed>> /\ UNCHANGED others

OpenFails ==
    /\ pc = "opening" /\ retries < Budget
    /\ retries' = retries + 1
    /\ \/ Returns("error")
       \/ retries + 1 < Budget /\ UNCHANGED <<pc, terminal>>
    /\ UNCHANGED <<body, cur, read, pending, recovered, ctxDone, delivered, mixed>> /\ UNCHANGED others

\* The context ends before an attempt or during the pause.
OpenCancelled ==
    /\ pc = "opening" /\ ctxDone
    /\ Returns("error")
    /\ UNCHANGED <<body, cur, read, retries, pending, recovered, ctxDone, delivered, mixed>> /\ UNCHANGED others

MutantSwapUnchecked ==
    /\ pc = "swap"
    /\ cur' = retries /\ pending' = FALSE /\ pc' = "reading"
    /\ UNCHANGED <<body, read, retries, terminal, recovered, ctxDone, delivered, mixed>> /\ UNCHANGED others

\* The continuation replaces the body, unless Close came first.
Swap ==
    /\ pc = "swap"
    /\ IF closed
       THEN /\ body' = [body EXCEPT ![retries].open = FALSE]
            /\ Returns("error") /\ UNCHANGED <<cur, pending>>
       ELSE cur' = retries /\ pending' = FALSE /\ pc' = "current" /\ UNCHANGED <<body, terminal>>
    /\ UNCHANGED <<read, retries, recovered, ctxDone, delivered, mixed>> /\ UNCHANGED others

\* current, once more after a continuation.
Current ==
    /\ pc = "current"
    /\ IF closed THEN Returns("error") ELSE pc' = "reading" /\ UNCHANGED terminal
    /\ UNCHANGED <<body, cur, read, retries, pending, recovered, ctxDone, delivered, mixed>> /\ UNCHANGED others

Remaining == Size - read

MutantEarlyEnd(n, err) == IF n > Remaining THEN "permanent" ELSE err
\* readBody: bytes beyond the declared length are an error, and so is an early end.
Checked(n, err) ==
    IF n > Remaining THEN "permanent"
    ELSE IF err = "eof" /\ n < Remaining THEN "transient" ELSE err

Taken(n) == IF n > Remaining THEN Remaining ELSE n

\* shouldRecover
Recovers(err) == read' < Size /\ retries < Budget /\ err = "transient"

\* digestBody.Read keeps the last bytes back when the hash does not match.
Rejected == digest /\ read' = Size /\ recovered /\ mixed'

ReadBody(n, raw) ==
    LET err == Checked(n, raw)
        taken == Taken(n) IN
    /\ pc = "reading"
    /\ ~body[cur].open => n = 0 /\ raw \in {"transient", "permanent"}
    /\ n = 0 => raw # "none"
    /\ body' = [body EXCEPT ![cur].given = @ + taken]
    /\ read' = read + taken
    /\ mixed' = (mixed \/ (taken > 0 /\ body[cur].other))
    /\ pending' = Recovers(err)
    /\ \/ Recovers(err) /\ taken = 0 /\ pc' = "ready" /\ UNCHANGED <<terminal, delivered>>
       \/ Recovers(err) /\ taken > 0 /\ Returns("none") /\ delivered' = delivered + taken
       \/ ~Recovers(err) /\ Rejected /\ Returns("error") /\ UNCHANGED delivered
       \/ /\ ~Recovers(err) /\ ~Rejected /\ delivered' = delivered + taken
          /\ Returns(CASE err = "none" -> "none" [] err = "eof" -> "eof" [] OTHER -> "error")
    /\ UNCHANGED <<cur, retries, recovered, ctxDone>> /\ UNCHANGED others

-----------------------------------------------------------------------------
(* Close, and the context of the caller. *)

CloseMark ==
    /\ closer = "idle"
    /\ closed' = TRUE /\ closing' = cur /\ closer' = "cancel"
    /\ UNCHANGED <<pc, body, cur, read, retries, pending, terminal, recovered, ctxDone, delivered, mixed, etag, digest>>

CloseCancel ==
    /\ closer = "cancel"
    /\ ctxDone' = TRUE /\ closer' = "close"
    /\ UNCHANGED <<pc, body, cur, read, retries, pending, terminal, recovered, closed, closing, delivered, mixed, etag, digest>>

CloseBody ==
    /\ closer = "close"
    /\ body' = [body EXCEPT ![closing].open = FALSE]
    /\ closer' = "done"
    /\ UNCHANGED <<pc, cur, read, retries, pending, terminal, recovered, closed, ctxDone, closing, delivered, mixed, etag, digest>>

CallerCancels ==
    /\ ~ctxDone /\ ctxDone' = TRUE
    /\ UNCHANGED <<pc, body, cur, read, retries, pending, terminal, recovered, closed, closer, closing, delivered, mixed, etag, digest>>

-----------------------------------------------------------------------------
Errors == {"none", "eof", "transient", "permanent"}
Reading == Ready \/ Reopen \/ OpenSucceeds \/ OpenFails \/ OpenCancelled \/ Swap \/ Current
              \/ \E n \in 0..(Remaining + 1), err \in Errors : ReadBody(n, err)
Closing == CloseCancel \/ CloseBody

Next == StartRead \/ Reading \/ CloseMark \/ Closing \/ CallerCancels

Spec == Init /\ [][Next]_vars

\* The network answers or times out.
FairSpec == Spec /\ WF_vars(Reading) /\ WF_vars(Closing)

-----------------------------------------------------------------------------
(* Properties *)

\* Every variable has its type: no Read counts more bytes than were declared (readBody),
\* and no more continuations are opened than the budget allows (shouldRecover).
TypeOK ==
    /\ pc \in {"idle", "ready", "reopen", "opening", "swap", "current", "reading"}
    /\ body \in [Bodies -> [open : BOOLEAN, at : Nat, given : Nat, other : BOOLEAN]]
    /\ cur \in Bodies /\ closing \in Bodies /\ retries \in 0..Budget
    /\ read \in 0..Size /\ delivered \in 0..Size
    /\ terminal \in {"none", "eof", "error"}
    /\ closer \in {"idle", "cancel", "close", "done"}
    /\ pending \in BOOLEAN /\ recovered \in BOOLEAN /\ mixed \in BOOLEAN
    /\ closed \in BOOLEAN /\ ctxDone \in BOOLEAN
    /\ etag \in BOOLEAN /\ digest \in BOOLEAN /\ (etag \/ digest)

\* Recover, "without replaying bytes": what a body is about to give continues exactly
\* where the consumer's bytes end, whatever was interrupted and reopened before.
InOrder ==
    pc = "reading" => body[cur].at + body[cur].given = read /\ delivered = read

\* A consumer that got every byte, or the end of the body, has one version of the
\* resource, complete: the ETag is compared on every continuation and the digest of a
\* resumed body before its last bytes are handed out.
WholeRepresentation ==
    /\ delivered = Size => ~mixed
    /\ terminal = "eof" => delivered = Size

\* What the consumer of Recover sees, in spite of interruptions, continuations, Close and
\* cancellation, is a plain stream of the declared length.
Stream == INSTANCE ByteStream WITH outcome <- terminal, foreign <- mixed
DeliversStream == Stream!Spec

\* Recover, "Close may interrupt a blocked Read": once both have returned, every body that
\* was ever opened is closed, also the one of a continuation that Close overtook.
NoBodyLeaks == closer = "done" /\ pc = "idle" => \A b \in Bodies : ~body[b].open

\* Every Read returns and every Close.
Returned == pc = "idle" /\ closer \in {"idle", "done"}
=============================================================================
