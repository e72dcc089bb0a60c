---------------------------- MODULE BodiesProofs ----------------------------
(* Theorems about response bodies.  First resumed bodies, for every declared  *)
(* length, with either kind of identity; then, from BlobSetting on, blobs     *)
(* that are streamed to clients while they are stored (BlobProxy, as B).      *)
EXTENDS Bodies, FiniteSetTheorems, TLAPS

(* Read stays in recovery exactly while an interruption is pending, and works  *)
(* only when no earlier Read ended for good.                                   *)
Places ==
    /\ pc # "idle" => terminal = "none"
    /\ pc \in {"reopen", "opening", "swap"} => pending
    /\ pc \in {"current", "reading"} => ~pending
    /\ pending => read < Size

(* Bytes: nothing is held back but by a final rejection, the current body      *)
(* continues them, and so does the continuation that is about to replace it.   *)
Bytes ==
    /\ delivered <= read
    /\ terminal = "none" => delivered = read
    /\ terminal = "none" /\ ~pending => body[cur].at + body[cur].given = read
    /\ pc = "swap" => body[retries].at = read /\ body[retries].given = 0

(* Only a continuation is of another version, and never with an ETag.          *)
Versions ==
    /\ \A b \in Bodies : body[b].other => recovered
    /\ mixed => recovered
    /\ etag => ~mixed /\ \A b \in Bodies : ~body[b].other

(* Only the current body and a continuation in hand can be open, and what      *)
(* Close took to close is the current body for good.                           *)
Ownership ==
    /\ cur <= retries /\ (pc = "swap" => cur < retries)
    /\ \A b \in Bodies : body[b].open => b = cur \/ (pc = "swap" /\ b = retries)
    /\ pc \in {"opening", "swap"} => ~body[cur].open
    /\ closer = "idle" \/ closed
    /\ closed => closing = cur
    /\ closer = "done" => ~body[cur].open

Inv == TypeOK /\ Places /\ Bytes /\ Versions /\ WholeRepresentation /\ Ownership

BodyType == [open : BOOLEAN, at : Nat, given : Nat, other : BOOLEAN]

(* The first body is open and nothing has been read. *)
LEMMA InvInit == Init => Inv
<1> SUFFICES ASSUME Init PROVE Inv
    OBVIOUS
<1> USE RecoveryAssumption DEF Init, Bodies, Budget, Unopened
<1>1. body \in [Bodies -> BodyType] /\ \A b \in Bodies : ~body[b].other /\ (body[b].open => b = 0)
    BY DEF BodyType
<1>2. body[0].at = 0 /\ body[0].given = 0
    OBVIOUS
<1>3. TypeOK
    <2>1. /\ pc = "idle" /\ cur = 0 /\ read = 0 /\ retries = 0 /\ delivered = 0 /\ closing = 0
          /\ terminal = "none" /\ closer = "idle"
          /\ pending \in BOOLEAN /\ recovered \in BOOLEAN /\ mixed \in BOOLEAN
          /\ closed \in BOOLEAN /\ ctxDone \in BOOLEAN
          /\ etag \in BOOLEAN /\ digest \in BOOLEAN /\ (etag \/ digest)
        OBVIOUS
    <2> HIDE DEF Init
    <2> QED BY <1>1, <2>1 DEF TypeOK, BodyType
<1>4. Places /\ Bytes
    BY <1>2 DEF Places, Bytes
<1>5. Versions /\ WholeRepresentation /\ Ownership
    BY <1>1 DEF Versions, WholeRepresentation, Ownership
<1> QED BY <1>3, <1>4, <1>5 DEF Inv

(* What a read adds is at most what remains, and an end it reports is the end. *)
LEMMA ReadFits ==
    ASSUME TypeOK, NEW n \in Nat, NEW raw \in Errors
    PROVE  /\ Taken(n) \in Nat /\ read + Taken(n) <= Size
           /\ Checked(n, raw) \in Errors
           /\ Checked(n, raw) = "eof" => read + Taken(n) = Size
BY RecoveryAssumption DEF TypeOK, Taken, Checked, Remaining, Errors

(* One read of the current body. *)
LEMMA ReadBodyKeeps ==
    ASSUME Inv, NEW n \in Nat, NEW raw \in Errors, ReadBody(n, raw)
    PROVE  Inv'
<1> DEFINE taken == Taken(n)
           err == Checked(n, raw)
<1>1. /\ taken \in Nat /\ read + taken <= Size /\ err \in Errors
      /\ err = "eof" => read + taken = Size
    BY ReadFits DEF Inv
<1> HIDE DEF taken, err
<1>2. /\ pc = "reading" /\ terminal = "none" /\ ~pending
      /\ read' = read + taken /\ cur' = cur /\ retries' = retries /\ recovered' = recovered
      /\ ctxDone' = ctxDone /\ closed' = closed /\ closer' = closer /\ closing' = closing /\ etag' = etag /\ digest' = digest
      /\ mixed' = (mixed \/ (taken > 0 /\ body[cur].other))
      /\ pending' = Recovers(err)
      /\ body' = [body EXCEPT ![cur].given = @ + taken]
    BY DEF Inv, Places, ReadBody, others, taken, err
<1>3. \/ Recovers(err) /\ taken = 0 /\ pc' = "ready" /\ terminal' = terminal /\ delivered' = delivered
      \/ Recovers(err) /\ taken > 0 /\ Returns("none") /\ delivered' = delivered + taken
      \/ ~Recovers(err) /\ Rejected /\ Returns("error") /\ delivered' = delivered
      \/ /\ ~Recovers(err) /\ ~Rejected /\ delivered' = delivered + taken
         /\ Returns(CASE err = "none" -> "none" [] err = "eof" -> "eof" [] OTHER -> "error")
    BY DEF ReadBody, taken, err
<1>4. PICK r \in BodyType : r = body[cur]
    BY DEF Inv, TypeOK, BodyType
<1>5. /\ body' \in [Bodies -> BodyType]
      /\ body'[cur].given = r.given + taken /\ body'[cur].at = r.at
      /\ \A b \in Bodies : body'[b].open = body[b].open /\ body'[b].other = body[b].other
      /\ \A b \in Bodies : b # cur => body'[b] = body[b]
    BY <1>1, <1>2, <1>4 DEF Inv, TypeOK, BodyType
<1>6. delivered = read /\ r.at + r.given = read /\ read \in Nat /\ Size \in Nat
    BY <1>2, <1>4, RecoveryAssumption DEF Inv, Bytes, TypeOK
<1>7. /\ pc' \in {"idle", "ready"} /\ terminal' \in {"none", "eof", "error"}
      /\ pc' = "ready" => terminal' = "none"
      /\ terminal' = "eof" => ~Rejected /\ delivered' = delivered + taken /\ err = "eof"
      /\ delivered' = delivered + taken \/ (taken = 0 /\ delivered' = delivered)
            \/ (Rejected /\ terminal' = "error" /\ delivered' = delivered)
      /\ Rejected => ~(delivered' = delivered + taken) \/ Recovers(err) \/ taken = 0
    BY <1>1, <1>2, <1>3, <1>6 DEF Returns, Errors
<1>8. TypeOK'
    <2>1. mixed' \in BOOLEAN /\ pending' \in BOOLEAN
        BY <1>2 DEF Inv, TypeOK, Recovers
    <2> QED BY <1>1, <1>2, <1>5, <1>6, <1>7, <2>1 DEF Inv, TypeOK, BodyType
<1>9. Places'
    BY <1>2, <1>7 DEF Inv, Places, Recovers
<1>10. Bytes'
    <2>1. delivered \in Nat /\ delivered' \in Nat /\ r.given \in Nat /\ r.at \in Nat
        BY <1>4, <1>8 DEF Inv, TypeOK, BodyType
    <2>2. /\ delivered' <= read'
          /\ terminal' = "none" => delivered' = read'
        BY <1>1, <1>2, <1>6, <1>7, <2>1
    <2>3. body'[cur'].at + body'[cur'].given = read'
        BY <1>1, <1>2, <1>5, <1>6, <2>1
    <2> QED BY <1>7, <2>2, <2>3 DEF Bytes
<1>11. Versions'
    BY <1>2, <1>5, <1>4 DEF Inv, Versions, TypeOK
<1>12. WholeRepresentation'
    <2>1. ASSUME delivered' = Size, mixed' PROVE FALSE
        <3>1. ~etag /\ recovered' /\ digest
            BY <1>2, <1>11, <2>1 DEF Versions, Inv, TypeOK
        <3>2. CASE read = Size
            <4>1. taken = 0 /\ ~mixed
                BY <1>1, <1>6, <3>2 DEF Inv, WholeRepresentation
            <4>2. mixed' = mixed
                <5>1. ~(taken > 0)
                    BY <4>1
                <5> QED BY <5>1, <1>2 DEF Inv, TypeOK
            <4> QED BY <4>1, <4>2, <2>1
        <3>3. CASE read # Size
            <4>1. delivered' = delivered + taken /\ read' = Size /\ taken > 0
                BY <1>1, <1>2, <1>6, <1>7, <2>1, <3>3
            <4>2. Rejected
                BY <4>1, <3>1, <2>1, <1>2 DEF Rejected
            <4>3. ~Recovers(err)
                BY <4>1, <1>6 DEF Recovers
            <4> QED BY <4>1, <4>2, <4>3, <1>6, <1>7
        <3> QED BY <3>2, <3>3
    <2>2. terminal' = "eof" => delivered' = Size
        BY <1>1, <1>6, <1>7
    <2> QED BY <2>1, <2>2 DEF WholeRepresentation
<1>13. Ownership'
    BY <1>2, <1>5, <1>7 DEF Inv, Ownership, TypeOK
<1> QED BY <1>8, <1>9, <1>10, <1>11, <1>12, <1>13 DEF Inv

(* The other steps of a Read. *)
LEMMA ReadingKeeps ==
    ASSUME Inv, StartRead \/ Ready \/ Reopen \/ OpenSucceeds \/ OpenFails \/ OpenCancelled \/ Swap \/ Current
    PROVE  Inv'
<1> USE DEF Inv, others, Returns
<1>0. body \in [Bodies -> BodyType] /\ cur \in Bodies /\ retries \in 0..Budget
    BY DEF TypeOK, BodyType
<1>1. CASE StartRead
    BY <1>1 DEF StartRead, TypeOK, Places, Bytes, Versions, WholeRepresentation, Ownership
<1>2. CASE Ready
    BY <1>2 DEF Ready, TypeOK, Places, Bytes, Versions, WholeRepresentation, Ownership
<1>3. CASE Reopen
    <2>1. /\ pc = "reopen" /\ terminal = "none" /\ pending
          /\ UNCHANGED <<cur, read, retries, pending, recovered, ctxDone, delivered, mixed, closed, closer, closing, etag, digest>>
          /\ \/ pc' = "idle" /\ terminal' = "error"
             \/ pc' = "opening" /\ terminal' = "none" /\ body' = [body EXCEPT ![cur].open = FALSE]
          /\ body' = body \/ body' = [body EXCEPT ![cur].open = FALSE]
        BY <1>3 DEF Reopen, Places
    <2>2. /\ body' \in [Bodies -> BodyType]
          /\ \A b \in Bodies : body'[b].other = body[b].other /\ (body'[b].open => body[b].open)
          /\ pc' = "opening" => ~body'[cur].open
        <3>1. CASE body' = [body EXCEPT ![cur].open = FALSE]
            BY <3>1, <1>0 DEF BodyType
        <3>2. CASE body' = body /\ body' # [body EXCEPT ![cur].open = FALSE]
            BY <3>2, <2>1, <1>0
        <3> QED BY <2>1, <3>1, <3>2
    <2> HIDE DEF Inv
    <2>3. TypeOK'
        BY <2>1, <2>2 DEF Inv, TypeOK, BodyType
    <2>4. Places' /\ Bytes' /\ WholeRepresentation'
        BY <2>1 DEF Inv, Places, Bytes, WholeRepresentation
    <2>5. Versions' /\ Ownership'
        BY <2>1, <2>2, <1>0 DEF Inv, Versions, Ownership
    <2> QED BY <2>3, <2>4, <2>5 DEF Inv
<1>4. CASE OpenSucceeds
    <2>1. /\ pc = "opening" /\ terminal = "none" /\ pending /\ pc' = "swap" /\ recovered' = TRUE
          /\ retries < Budget /\ retries' = retries + 1
          /\ UNCHANGED <<cur, read, pending, terminal, ctxDone, delivered, mixed, closed, closer, closing, etag, digest>>
        BY <1>4 DEF OpenSucceeds, Places
    <2>2. PICK other \in BOOLEAN :
              /\ Validated(other)
              /\ body' = [body EXCEPT ![retries + 1] = [open |-> TRUE, at |-> Offset, given |-> 0, other |-> other]]
        BY <1>4 DEF OpenSucceeds
    <2>3. retries + 1 \in Bodies /\ read \in Nat /\ cur <= retries /\ cur \in Nat /\ retries \in Nat
        BY <2>1, <1>0, RecoveryAssumption DEF Bodies, Budget, TypeOK, Ownership
    <2>4. /\ body' \in [Bodies -> BodyType]
          /\ body'[retries + 1] = [open |-> TRUE, at |-> read, given |-> 0, other |-> other]
          /\ \A b \in Bodies : b # retries + 1 => body'[b] = body[b]
        BY <2>2, <2>3, <1>0 DEF BodyType, Offset
    <2> HIDE DEF Inv
    <2>5. TypeOK'
        BY <2>1, <2>3, <2>4 DEF Inv, TypeOK, BodyType, Bodies, Budget
    <2>6. Places' /\ WholeRepresentation'
        BY <2>1 DEF Inv, Places, WholeRepresentation
    <2>7. Bytes'
        BY <2>1, <2>3, <2>4 DEF Inv, Places, Bytes
    <2>8. Versions'
        BY <2>1, <2>2, <2>4 DEF Inv, Versions, Validated
    <2>9. Ownership'
        <3>1. cur' < retries' /\ cur' <= retries'
            BY <2>1, <2>3
        <3>2. \A b \in Bodies : body'[b].open => b = cur' \/ (pc' = "swap" /\ b = retries')
            BY <2>1, <2>4 DEF Inv, Ownership
        <3>3. body'[cur] = body[cur]
            BY <2>3, <2>4, <1>0
        <3> QED BY <2>1, <3>1, <3>2, <3>3 DEF Inv, Ownership
    <2> QED BY <2>5, <2>6, <2>7, <2>8, <2>9 DEF Inv
<1>5. CASE OpenFails
    BY <1>5, <1>0 DEF OpenFails, TypeOK, Places, Bytes, Versions, WholeRepresentation, Ownership, Bodies, Budget
<1>6. CASE OpenCancelled
    BY <1>6 DEF OpenCancelled, TypeOK, Places, Bytes, Versions, WholeRepresentation, Ownership
<1>7. CASE Swap
    <2>1. pc = "swap" /\ terminal = "none" /\ pending /\ retries \in Bodies
          /\ UNCHANGED <<read, retries, recovered, ctxDone, delivered, mixed, closed, closer, closing, etag, digest>>
        BY <1>7, <1>0 DEF Swap, Places, Bodies
    <2>2. CASE closed
        <3>1. /\ body' = [body EXCEPT ![retries].open = FALSE]
              /\ pc' = "idle" /\ terminal' = "error" /\ cur' = cur /\ pending' = pending
            BY <1>7, <2>2 DEF Swap
        <3>2. /\ body' \in [Bodies -> BodyType]
              /\ \A b \in Bodies : body'[b].other = body[b].other /\ (body'[b].open => body[b].open /\ b # retries)
            BY <3>1, <2>1, <1>0 DEF BodyType
        <3> HIDE DEF Inv
        <3>3. TypeOK'
            BY <2>1, <3>1, <3>2 DEF Inv, TypeOK, BodyType
        <3>4. Places' /\ Bytes' /\ WholeRepresentation'
            BY <2>1, <3>1 DEF Inv, Places, Bytes, WholeRepresentation
        <3>5. Versions' /\ Ownership'
            BY <2>1, <3>1, <3>2, <1>0 DEF Inv, Versions, Ownership
        <3> QED BY <3>3, <3>4, <3>5 DEF Inv
    <2>3. CASE ~closed
        <3>1. cur' = retries /\ pending' = FALSE /\ pc' = "current" /\ body' = body /\ terminal' = terminal
            BY <1>7, <2>3 DEF Swap
        <3> HIDE DEF Inv
        <3>2. TypeOK' /\ Places' /\ WholeRepresentation'
            BY <2>1, <3>1 DEF Inv, TypeOK, Places, WholeRepresentation
        <3>3. Bytes'
            BY <2>1, <3>1, RecoveryAssumption DEF Inv, Bytes, TypeOK
        <3>4. Versions'
            BY <2>1, <3>1 DEF Inv, Versions
        <3>5. Ownership'
            <4>1. retries \in Nat /\ closer = "idle" /\ \A b \in Bodies : body[b].open => b = retries
                BY <2>1, <2>3, <1>0 DEF Inv, Ownership, Bodies, Budget
            <4> QED BY <4>1, <2>1, <2>3, <3>1 DEF Ownership
        <3> QED BY <3>2, <3>3, <3>4, <3>5 DEF Inv
    <2> QED BY <2>2, <2>3
<1>8. CASE Current
    BY <1>8 DEF Current, TypeOK, Places, Bytes, Versions, WholeRepresentation, Ownership
<1> QED BY <1>1, <1>2, <1>3, <1>4, <1>5, <1>6, <1>7, <1>8

(* Close, in its three steps, and a caller that cancels. *)
LEMMA ClosingKeeps ==
    ASSUME Inv, CloseMark \/ CloseCancel \/ CloseBody \/ CallerCancels
    PROVE  Inv'
<1>0. body \in [Bodies -> BodyType] /\ cur \in Bodies /\ closing \in Bodies
    BY DEF Inv, TypeOK, BodyType
<1>a. CASE CloseMark
    <2>1. TypeOK'
        BY <1>a DEF CloseMark, Inv, TypeOK
    <2>2. Places' /\ Bytes' /\ Versions' /\ WholeRepresentation'
        BY <1>a DEF CloseMark, Inv, Places, Bytes, Versions, WholeRepresentation
    <2>3. Ownership'
        BY <1>a DEF CloseMark, Inv, Ownership
    <2> QED BY <2>1, <2>2, <2>3 DEF Inv
<1>b. CASE CloseCancel
    <2>1. TypeOK'
        BY <1>b DEF CloseCancel, Inv, TypeOK
    <2>2. Places' /\ Bytes' /\ Versions' /\ WholeRepresentation'
        BY <1>b DEF CloseCancel, Inv, Places, Bytes, Versions, WholeRepresentation
    <2>3. Ownership'
        BY <1>b DEF CloseCancel, Inv, Ownership
    <2> QED BY <2>1, <2>2, <2>3 DEF Inv
<1>c. CASE CallerCancels
    <2>1. TypeOK'
        BY <1>c DEF CallerCancels, Inv, TypeOK
    <2>2. Places' /\ Bytes' /\ Versions' /\ WholeRepresentation'
        BY <1>c DEF CallerCancels, Inv, Places, Bytes, Versions, WholeRepresentation
    <2>3. Ownership'
        BY <1>c DEF CallerCancels, Inv, Ownership
    <2> QED BY <2>1, <2>2, <2>3 DEF Inv
<1>2. CASE CloseBody
    <2>1. /\ closer = "close" /\ closer' = "done" /\ closed
          /\ body' = [body EXCEPT ![closing].open = FALSE]
          /\ UNCHANGED <<pc, cur, read, retries, pending, terminal, recovered, closed, ctxDone, closing, delivered, mixed, etag, digest>>
        BY <1>2 DEF CloseBody, Inv, Ownership
    <2>2. closing = cur
        BY <2>1 DEF Inv, Ownership
    <2>3. /\ body' \in [Bodies -> BodyType] /\ ~body'[cur].open
          /\ \A b \in Bodies : /\ body'[b].other = body[b].other /\ (body'[b].open => body[b].open)
                             /\ body'[b].at = body[b].at /\ body'[b].given = body[b].given
        BY <2>1, <2>2, <1>0 DEF BodyType
    <2>4. TypeOK'
        BY <2>1, <2>3 DEF Inv, TypeOK, BodyType
    <2>5. Places' /\ WholeRepresentation'
        BY <2>1 DEF Inv, Places, WholeRepresentation
    <2>6. Bytes'
        BY <2>1, <2>3, <1>0 DEF Inv, TypeOK, Bytes, Bodies
    <2>7. Versions'
        BY <2>1, <2>3 DEF Inv, Versions
    <2>8. Ownership'
        BY <2>1, <2>2, <2>3 DEF Inv, Ownership
    <2> QED BY <2>4, <2>5, <2>6, <2>7, <2>8 DEF Inv
<1> QED BY <1>a, <1>b, <1>c, <1>2

(* Every behaviour keeps the invariant. *)
LEMMA Invariance == Spec => []Inv
<1>1. Inv /\ [Next]_vars => Inv'
    <2> SUFFICES ASSUME Inv, [Next]_vars PROVE Inv'
        OBVIOUS
    <2>1. CASE StartRead \/ Ready \/ Reopen \/ OpenSucceeds \/ OpenFails \/ OpenCancelled \/ Swap \/ Current
        BY <2>1, ReadingKeeps
    <2>2. CASE \E n \in 0..(Remaining + 1), err \in Errors : ReadBody(n, err)
        <3>1. PICK n \in 0..(Remaining + 1), err \in Errors : ReadBody(n, err)
            BY <2>2
        <3>2. n \in Nat
            OBVIOUS
        <3> QED BY <3>1, <3>2, ReadBodyKeeps
    <2>3. CASE CloseMark \/ CloseCancel \/ CloseBody \/ CallerCancels
        BY <2>3, ClosingKeeps
    <2>4. CASE UNCHANGED vars
        BY <2>4 DEF vars, Inv, TypeOK, Places, Bytes, Versions, WholeRepresentation, Ownership
    <2> QED BY <2>1, <2>2, <2>3, <2>4 DEF Next, Reading, Closing
<1> QED BY InvInit, <1>1, PTL DEF Spec

(* Types: no read ever counts more bytes than the response declared, and no     *)
(* more continuations are opened than the budget allows.                        *)
THEOREM RecoverTypeCorrect == Spec => []TypeOK
<1>1. Inv => TypeOK
    BY DEF Inv
<1> QED BY Invariance, <1>1, PTL

(* Recover, "without replaying bytes": for every length, whatever was           *)
(* interrupted, the body that is read continues where the consumer's bytes end. *)
THEOREM ResumesInOrder == Spec => []InOrder
<1>1. Inv => InOrder
    BY DEF Inv, Places, Bytes, InOrder
<1> QED BY Invariance, <1>1, PTL

(* A consumer that was given every byte, or the end, has one whole version of   *)
(* the resource: validate compares the ETag and digestBody the hash.            *)
THEOREM ServesWhole == Spec => []WholeRepresentation
<1>1. Inv => WholeRepresentation
    BY DEF Inv
<1> QED BY Invariance, <1>1, PTL

(* When Close and Read have both returned every body ever opened is closed.     *)
THEOREM ClosesAll == Spec => []NoBodyLeaks
<1>1. Inv => NoBodyLeaks
    BY DEF Inv, Ownership, NoBodyLeaks
<1> QED BY Invariance, <1>1, PTL

(* A step that hands out no bytes leaves the consumer's view as it is, or ends  *)
(* it with an error.                                                            *)
LEMMA QuietStep ==
    ASSUME Inv, Inv', delivered' = delivered, mixed' = mixed,
           terminal' = terminal \/ (terminal = "none" /\ terminal' = "error")
    PROVE  [Stream!Read]_<<delivered, terminal, mixed>>
<1>1. CASE terminal' = terminal
    BY <1>1
<1>2. CASE terminal = "none" /\ terminal' = "error"
    <2>1. delivered' \in delivered .. Size
        BY RecoveryAssumption DEF Inv, TypeOK
    <2>2. mixed' => delivered' < Size
        BY RecoveryAssumption DEF Inv, TypeOK, WholeRepresentation
    <2> QED BY <1>2, <2>1, <2>2 DEF Stream!Read
<1> QED BY <1>1, <1>2

(* A read of a body hands out bytes that were missing, and ends the stream only *)
(* with an error or after the last one.                                         *)
LEMMA ReadBodyStreams ==
    ASSUME Inv, Inv', NEW n \in Nat, NEW raw \in Errors, ReadBody(n, raw)
    PROVE  Stream!Read
<1>1. Taken(n) \in Nat
    BY ReadFits DEF Inv
<1>2. terminal = "none"
    BY DEF Inv, Places, ReadBody
<1>3. delivered' = delivered \/ delivered' = delivered + Taken(n)
    BY DEF ReadBody
<1>4. delivered' \in delivered .. Size
    BY <1>1, <1>3, RecoveryAssumption DEF Inv, TypeOK
<1>5. mixed' \in {mixed, TRUE}
    BY DEF ReadBody, Inv, TypeOK
<1>6. mixed' => delivered' < Size
    BY RecoveryAssumption DEF Inv, TypeOK, WholeRepresentation
<1>7. terminal' \in {"none", "eof", "error"} /\ (terminal' = "eof" => delivered' = Size)
    BY DEF Inv, TypeOK, WholeRepresentation
<1> QED BY <1>2, <1>4, <1>5, <1>6, <1>7 DEF Stream!Read

(* Recover implements a plain stream of the declared length (ByteStream):       *)
(* whatever is interrupted, reopened, cancelled or closed, the consumer sees    *)
(* bytes that only grow, one end, and no end of a mixture of two versions.      *)
THEOREM ImplementsStream == Spec => DeliversStream
<1>1. Init => Stream!Init
    BY DEF Init, Stream!Init
<1>2. Inv /\ Inv' /\ [Next]_vars => [Stream!Read]_<<delivered, terminal, mixed>>
    <2> SUFFICES ASSUME Inv, Inv', [Next]_vars PROVE [Stream!Read]_<<delivered, terminal, mixed>>
        OBVIOUS
    <2>1. CASE StartRead \/ Ready \/ Reopen \/ OpenSucceeds \/ OpenFails \/ OpenCancelled \/ Swap \/ Current
        <3>1. /\ delivered' = delivered /\ mixed' = mixed
              /\ terminal' = terminal \/ (terminal = "none" /\ terminal' = "error")
            BY <2>1 DEF StartRead, Ready, Reopen, OpenSucceeds, OpenFails, OpenCancelled, Swap, Current,
                        Returns, Inv, Places
        <3> QED BY <3>1, QuietStep
    <2>2. CASE \E n \in 0..(Remaining + 1), err \in Errors : ReadBody(n, err)
        <3>1. PICK n \in 0..(Remaining + 1), err \in Errors : ReadBody(n, err)
            BY <2>2
        <3>2. n \in Nat
            OBVIOUS
        <3> QED BY <3>1, <3>2, ReadBodyStreams
    <2>3. CASE CloseMark \/ CloseCancel \/ CloseBody \/ CallerCancels \/ UNCHANGED vars
        <3>1. delivered' = delivered /\ mixed' = mixed /\ terminal' = terminal
            BY <2>3 DEF CloseMark, CloseCancel, CloseBody, CallerCancels, vars
        <3> QED BY <3>1, QuietStep
    <2> QED BY <2>1, <2>2, <2>3 DEF Next, Reading, Closing
<1> QED BY Invariance, <1>1, <1>2, PTL DEF Spec, DeliversStream, Stream!Spec
-----------------------------------------------------------------------------
(* Blobs.  Requests are named, each belongs to an instance and is one of the  *)
(* three kinds; "none" stands for nobody, "lost" for a lease nobody has.      *)
BlobSetting ==
    /\ IsFiniteSet(Requests) /\ "none" \notin Requests /\ "lost" \notin Requests
    /\ NodeOf \in [Requests -> Nodes]
    /\ \A q \in Requests : Kinds[q] \subseteq {"full", "range", "head"}

BlobAt == {"idle", "look", "bypass", "begin", "wait", "ongoing", "waitRange", "lease", "recheck", "fetch",
           "storing", "open", "fallback", "fallbackFetch", "serving", "done"}
RequestType ==
    [pc : BlobAt, kind : {"none", "full", "range", "head"}, on : Requests \cup {"none"},
     body : {"none", "small", "stored", "raw", "tee", "fallback", "spent"}, eof : BOOLEAN, result : {"none", "ok", "error"}]
TaskType == {"off", "receive", "whole", "broken", "blobRow", "repoRow", "ok", "error"}

BlobTypes ==
    /\ req \in [Requests -> RequestType]
    /\ task \in [Requests -> TaskType]
    /\ fill \in [Nodes -> Requests \cup {"none"}]
    /\ filled \in [Requests -> {"none", "running", "ok", "error"}]
    /\ lease \in Requests \cup {"none", "lost"}
    /\ permits \in Int

\* The store task of a request is at work.
Working(q) == task[q] \in {"receive", "whole", "broken", "blobRow", "repoRow"}

(* Which kind of request gets where, and that a store task comes last. *)
Routed(q) ==
    /\ req[q].pc = "look" => req[q].kind \in {"full", "range", "head"}
    /\ req[q].pc \in {"begin", "wait"} => req[q].kind = "full"
    /\ req[q].pc \in {"ongoing", "waitRange", "storing", "open"} => req[q].kind = "range"
    /\ req[q].pc \in {"lease", "recheck", "fetch", "fallback", "fallbackFetch"} => req[q].kind \in {"full", "range"}
    /\ req[q].pc \in {"idle", "look", "bypass", "begin", "wait", "ongoing", "waitRange", "lease", "recheck", "fetch"}
          => task[q] = "off"

(* A result comes with the end, when the body has been given up. *)
Resulting(q) ==
    /\ req[q].pc # "done" => req[q].result = "none"
    /\ req[q].body = "tee" => req[q].result = "none"

(* A store task is past what it has written. *)
Wrote(q) ==
    /\ task[q] = "blobRow" => object
    /\ task[q] = "repoRow" => object /\ blobRow
    /\ task[q] = "ok" => object /\ blobRow /\ repoRow

(* Only a full GET registers a fill; whoever owns one, or the lease, will pass *)
(* the place where it is given back.                                           *)
Owning(q) ==
    /\ \A n \in Nodes : fill[n] = q =>
          /\ filled[q] = "running"
          /\ (req[q].pc \in {"lease", "recheck", "fetch"} /\ req[q].kind = "full") \/ Working(q)
    /\ lease = q => req[q].pc \in {"recheck", "fetch"} \/ Working(q)

RequestInv(q) == Routed(q) /\ Resulting(q) /\ Wrote(q) /\ Owning(q)
BlobInv == BlobTypes /\ (\A q \in Requests : RequestInv(q)) /\ B!PermitsExact /\ B!RowsFollowObject

(* What a step of another request leaves of a request. *)
LEMMA OthersKept ==
    ASSUME NEW p \in Requests, RequestInv(p),
           req'[p] = req[p], task'[p] = task[p], filled'[p] = filled[p],
           \A n \in Nodes : fill'[n] = p => fill[n] = p,
           lease' = p => lease = p,
           object => object', blobRow => blobRow', repoRow => repoRow'
    PROVE RequestInv(p)'
<1>1. Routed(p)' BY DEF RequestInv, Routed
<1>2. Resulting(p)' BY DEF RequestInv, Resulting
<1>3. Wrote(p)' BY DEF RequestInv, Wrote
<1>4. Owning(p)' BY DEF RequestInv, Owning, Working
<1> QED BY <1>1, <1>2, <1>3, <1>4 DEF RequestInv

\* The instance counts as this module does.
LEMMA SameCount == ASSUME NEW S PROVE B!Cardinality(S) = Cardinality(S)
BY DEF B!Cardinality, Cardinality

(* The permits are counted right after a step that moves one request. *)
Holds(r) == r.pc = "fallbackFetch" \/ (r.pc = "serving" /\ r.body = "fallback")
LEMMA PermitsMove ==
    ASSUME BlobSetting, B!PermitsExact, NEW q \in Requests,
           \A p \in Requests \ {q} : req'[p] = req[p],
           permits' = permits + (IF Holds(req'[q]) THEN 1 ELSE 0) - (IF Holds(req[q]) THEN 1 ELSE 0)
    PROVE B!PermitsExact' /\ permits' \in Int
<1> DEFINE H == {p \in Requests : B!HoldsPermit(p)}
<1> DEFINE K == {p \in Requests : B!HoldsPermit(p)'}
<1>1. permits = Cardinality(H) BY SameCount DEF B!PermitsExact
<1>2. IsFiniteSet(H) BY FS_Subset DEF BlobSetting
<1>3. Cardinality(H) \in Nat BY <1>2, FS_CardinalityType
<1>5. q \in H <=> Holds(req[q]) BY DEF Holds, B!HoldsPermit
<1>6. q \in K <=> Holds(req'[q]) BY DEF Holds, B!HoldsPermit
<1>7. H \ {q} = K \ {q} BY DEF B!HoldsPermit
<1> HIDE DEF H, K
<1>8. CASE Holds(req'[q]) /\ ~Holds(req[q])
  <2>1. K = H \cup {q} /\ q \notin H BY <1>5, <1>6, <1>7, <1>8
  <2>2. Cardinality(K) = Cardinality(H) + 1 BY <1>2, <2>1, FS_AddElement
  <2>3. permits' = Cardinality(K) BY <1>1, <1>3, <1>8, <2>2
  <2> QED BY <1>1, <1>3, <2>2, <2>3, SameCount DEF B!PermitsExact, K
<1>9. CASE ~Holds(req'[q]) /\ Holds(req[q])
  <2>1. K = H \ {q} /\ q \in H BY <1>5, <1>6, <1>7, <1>9
  <2>2. Cardinality(K) = Cardinality(H) - 1 BY <1>2, <2>1, FS_RemoveElement
  <2>3. permits' = Cardinality(K) BY <1>1, <1>3, <1>9, <2>2
  <2> QED BY <1>1, <1>3, <2>2, <2>3, SameCount DEF B!PermitsExact, K
<1>10. CASE Holds(req'[q]) <=> Holds(req[q])
  <2>1. K = H BY <1>5, <1>6, <1>7, <1>10
  <2>2. permits' = Cardinality(K) BY <1>1, <1>3, <1>10, <2>1
  <2> QED BY <1>1, <1>3, <2>1, <2>2, SameCount DEF B!PermitsExact, K
<1> QED BY <1>8, <1>9, <1>10

(* What a step of request q may change of the state of all requests. *)
OnlyReq(q) == req' \in [Requests -> RequestType] /\ \A p \in Requests \ {q} : req'[p] = req[p]
OnlyTask(q) == task' \in [Requests -> TaskType] /\ \A p \in Requests \ {q} : task'[p] = task[p]
OnlyFill(q) ==
    /\ fill' \in [Nodes -> Requests \cup {"none"}] /\ \A n \in Nodes : fill'[n] \in {fill[n], "none", q}
    /\ filled' \in [Requests -> {"none", "running", "ok", "error"}]
    /\ \A p \in Requests \ {q} : filled'[p] = filled[p]
OnlyLease(q) == lease' \in {lease, "none", "lost", q}
RowsGrow == (object => object') /\ (blobRow => blobRow') /\ (repoRow => repoRow') /\ B!RowsFollowObject'
PermitsFollow(q) ==
    permits' = permits + (IF Holds(req'[q]) THEN 1 ELSE 0) - (IF Holds(req[q]) THEN 1 ELSE 0)

(* Such a step that keeps q's own part of the invariant keeps all of it. *)
LEMMA StepKeeps ==
    ASSUME BlobSetting, BlobInv, NEW q \in Requests,
           OnlyReq(q), OnlyTask(q), OnlyFill(q), OnlyLease(q), RowsGrow, PermitsFollow(q), RequestInv(q)'
    PROVE BlobInv'
<1>1. B!PermitsExact' /\ permits' \in Int BY PermitsMove DEF BlobInv, OnlyReq, PermitsFollow
<1>2. lease' \in Requests \cup {"none", "lost"} BY DEF BlobInv, BlobTypes, OnlyLease
<1>3. BlobTypes' BY <1>1, <1>2 DEF BlobTypes, OnlyReq, OnlyTask, OnlyFill
<1>4. ASSUME NEW p \in Requests, p # q PROVE RequestInv(p)'
  <2>1. req'[p] = req[p] /\ task'[p] = task[p] /\ filled'[p] = filled[p]
    BY <1>4 DEF OnlyReq, OnlyTask, OnlyFill
  <2>2. p # "none" /\ p # "lost" BY DEF BlobSetting
  <2>3. (\A n \in Nodes : fill'[n] = p => fill[n] = p) /\ (lease' = p => lease = p)
    BY <1>4, <2>2 DEF OnlyFill, OnlyLease
  <2> QED BY <2>1, <2>3, OthersKept DEF BlobInv, RowsGrow
<1> QED BY <1>1, <1>3, <1>4 DEF BlobInv, RowsGrow

(* What is left alone is left to everybody. *)
LEMMA Alone ==
    ASSUME BlobInv, NEW q \in Requests
    PROVE /\ UNCHANGED task => OnlyTask(q)
          /\ UNCHANGED <<fill, filled>> => OnlyFill(q)
          /\ UNCHANGED lease => OnlyLease(q)
          /\ UNCHANGED <<object, blobRow, repoRow>> => RowsGrow
          /\ UNCHANGED req => OnlyReq(q)
BY DEF BlobInv, BlobTypes, OnlyTask, OnlyFill, OnlyLease, OnlyReq, RowsGrow, B!RowsFollowObject

(* The helpers of the actions. *)
LEMMA GoFacts ==
    ASSUME BlobInv, NEW q \in Requests, NEW at \in BlobAt, B!Go(q, at)
    PROVE /\ OnlyReq(q) /\ req'[q].pc = at /\ req'[q].kind = req[q].kind
          /\ req'[q].body = req[q].body /\ req'[q].result = req[q].result
BY DEF BlobInv, BlobTypes, RequestType, OnlyReq, B!Go

LEMMA FailFacts ==
    ASSUME BlobInv, NEW q \in Requests, B!Fail(q)
    PROVE /\ OnlyReq(q) /\ req'[q].pc = "done" /\ req'[q].body = "none" /\ ~Holds(req'[q])
<1> DEFINE r == [B!NewRequest EXCEPT !.pc = "done", !.result = "error"]
<1>1. r \in RequestType /\ r.pc = "done" /\ r.body = "none" BY DEF B!NewRequest, RequestType, BlobAt
<1>2. req' = [req EXCEPT ![q] = r] BY DEF B!Fail
<1> QED BY <1>1, <1>2 DEF BlobInv, BlobTypes, OnlyReq, Holds

LEMMA ServeFacts ==
    ASSUME BlobInv, NEW q \in Requests, NEW b \in {"none", "small", "stored", "raw", "tee", "fallback"}, B!Serve(q, b)
    PROVE /\ OnlyReq(q) /\ req'[q].pc = (IF req[q].kind = "head" THEN "done" ELSE "serving")
          /\ req'[q].kind = req[q].kind /\ req'[q].body = b /\ req'[q].result = req[q].result
<1> DEFINE x == IF req[q].kind = "head" THEN "done" ELSE "serving"
<1> DEFINE r == [req[q] EXCEPT !.pc = x, !.body = b]
<1>1. req[q] \in RequestType /\ x \in BlobAt BY DEF BlobInv, BlobTypes, BlobAt
<1>2. r \in RequestType /\ r.pc = x /\ r.kind = req[q].kind /\ r.body = b /\ r.result = req[q].result
  <2> HIDE DEF x
  <2> QED BY <1>1 DEF RequestType
<1>3. req' = [req EXCEPT ![q] = r] BY DEF B!Serve
<1> HIDE DEF r
<1> QED BY <1>2, <1>3 DEF BlobInv, BlobTypes, OnlyReq

LEMMA FinishFacts ==
    ASSUME BlobSetting, BlobInv, NEW q \in Requests, NEW o \in {"ok", "error"}, B!Finish(q, o)
    PROVE OnlyFill(q) /\ \A n \in Nodes : fill'[n] # q
BY DEF BlobSetting, BlobInv, BlobTypes, OnlyFill, B!Finish

LEMMA ReleaseFacts ==
    ASSUME BlobSetting, BlobInv, NEW q \in Requests, B!Release(q)
    PROVE OnlyLease(q) /\ lease' # q
BY DEF BlobSetting, BlobInv, BlobTypes, OnlyLease, B!Release, B!LoseLease

LEMMA LookFacts ==
    ASSUME BlobInv, B!SmallHit \/ B!StoredHit \/ B!OpenFails \/ B!LookFails \/ B!Missing
    PROVE RowsGrow
<1>1. CASE UNCHANGED <<object, blobRow, repoRow>> BY <1>1 DEF BlobInv, RowsGrow, B!RowsFollowObject
<1>2. CASE B!StoredHit
  <2>1. object /\ object' = object /\ blobRow' BY <1>2 DEF B!StoredHit, B!Touched
  <2>2. PICK verified \in BOOLEAN : repoRow' = (repoRow \/ verified) BY <1>2 DEF B!StoredHit, B!Touched
  <2>3. repoRow => repoRow' BY <2>2
  <2> QED BY <2>1, <2>3 DEF RowsGrow, B!RowsFollowObject
<1> QED BY <1>1, <1>2 DEF B!rows, B!SmallHit, B!OpenFails, B!LookFails, B!Missing
(* A request that owns nothing, and whose store task did not move, has only   *)
(* its place and its result to account for.                                   *)
LEMMA FreeKeeps ==
    ASSUME BlobSetting, BlobInv, NEW q \in Requests, OnlyReq(q), UNCHANGED task, OnlyFill(q), OnlyLease(q), RowsGrow,
           PermitsFollow(q), \A n \in Nodes : fill'[n] # q, lease' # q, Routed(q)', Resulting(q)'
    PROVE BlobInv'
<1>1. Wrote(q)' BY DEF BlobInv, RequestInv, Wrote, RowsGrow
<1>2. Owning(q)' BY DEF Owning
<1>3. OnlyTask(q) BY Alone
<1>4. RequestInv(q)' BY <1>1, <1>2 DEF RequestInv
<1> QED BY <1>3, <1>4, StepKeeps

(* Where a request is before it fills, it owns nothing. *)
LEMMA OwnsNothing ==
    ASSUME BlobInv, NEW q \in Requests, req[q].pc \notin {"lease", "recheck", "fetch"}, ~Working(q)
    PROVE lease # q /\ \A n \in Nodes : fill[n] # q
BY DEF BlobInv, RequestInv, Owning

LEMMA NothingHeld ==
    ASSUME BlobInv, NEW q \in Requests, req[q].pc \notin {"serving", "fallbackFetch"}, req'[q].pc # "fallbackFetch",
           req'[q].pc # "serving" \/ req'[q].body # "fallback", UNCHANGED permits
    PROVE PermitsFollow(q)
BY DEF BlobInv, BlobTypes, PermitsFollow, Holds

(* The steps of a request before it fills. *)
LEMMA EarlyKeeps ==
    ASSUME BlobSetting, BlobInv, NEW q \in Requests,
           \/ B!Look(q) \/ B!Bypass(q) \/ B!WaitFill(q) \/ B!WaitRange(q) \/ B!Ongoing(q)
           \/ \E kind \in Kinds[q] : B!Start(q, kind)
    PROVE BlobInv'
<1>1. /\ req[q].pc \in {"idle", "look", "bypass", "wait", "waitRange", "ongoing"}
      /\ UNCHANGED <<lease, fill, filled, task, permits>>
  BY DEF B!Look, B!Bypass, B!WaitFill, B!WaitRange, B!Ongoing, B!Start
<1>2. Routed(q) /\ Resulting(q) /\ req[q].result = "none" /\ task[q] = "off" /\ req[q] \in RequestType
  BY <1>1 DEF BlobInv, BlobTypes, RequestInv, Routed, Resulting
<1>3. lease' # q /\ \A n \in Nodes : fill'[n] # q BY <1>1, <1>2, OwnsNothing DEF Working
<1>4. OnlyFill(q) /\ OnlyLease(q) BY <1>1, Alone
<1>5. RowsGrow
  <2>1. CASE B!Look(q) BY <2>1, LookFacts DEF B!Look
  <2>2. CASE UNCHANGED <<object, blobRow, repoRow>> BY <2>2, Alone
  <2> QED BY <2>1, <2>2 DEF B!Bypass, B!WaitFill, B!WaitRange, B!Ongoing, B!Start, B!rows
<1>6. SUFFICES OnlyReq(q) /\ Routed(q)' /\ Resulting(q)' /\ ~Holds(req'[q])
  BY <1>1, <1>3, <1>4, <1>5, FreeKeeps, NothingHeld DEF Holds
<1>7. CASE B!Fail(q)
  BY <1>7, FailFacts DEF Routed, Resulting
<1>8. CASE \E b \in {"small", "stored", "none"} : B!Serve(q, b)
  BY <1>2, <1>8, ServeFacts DEF Routed, Resulting, Holds
<1>9. ASSUME NEW at \in BlobAt, B!Go(q, at), at \notin {"idle", "look", "fallbackFetch", "serving", "done"},
             at \in {"begin", "wait"} => req[q].kind = "full",
             at \in {"ongoing", "waitRange", "storing", "open"} => req[q].kind = "range",
             at \in {"lease", "recheck", "fetch", "fallback"} => req[q].kind \in {"full", "range"}
      PROVE OnlyReq(q) /\ Routed(q)' /\ Resulting(q)' /\ ~Holds(req'[q])
  <2>1. /\ OnlyReq(q) /\ req'[q].pc = at /\ req'[q].kind = req[q].kind
        /\ req'[q].body = req[q].body /\ req'[q].result = req[q].result BY <1>9, GoFacts
  <2>2. Routed(q)' BY <1>1, <1>2, <1>9, <2>1 DEF Routed
  <2>3. Resulting(q)' BY <1>2, <2>1 DEF Resulting
  <2> QED BY <1>9, <2>1, <2>2, <2>3 DEF Holds
<1>10. CASE B!Look(q)
  <2>1. req[q].kind \in {"full", "range", "head"} BY <1>2, <1>10 DEF B!Look, Routed
  <2>2. CASE B!Go(q, "fallback") /\ req[q].kind # "head" BY <1>9, <2>1, <2>2 DEF BlobAt
  <2>3. CASE B!Go(q, CASE req[q].kind = "full" -> "begin" [] req[q].kind = "range" -> "ongoing"
                       [] req[q].kind = "head" -> "bypass")
    <3>1. CASE req[q].kind = "full" BY <1>9, <2>3, <3>1 DEF BlobAt
    <3>2. CASE req[q].kind = "range" BY <1>9, <2>3, <3>2 DEF BlobAt
    <3>3. CASE req[q].kind = "head" BY <1>9, <2>3, <3>3 DEF BlobAt
    <3> QED BY <2>1, <3>1, <3>2, <3>3
  <2> QED BY <1>7, <1>8, <1>10, <2>2, <2>3 DEF B!Look
<1>11. CASE B!Bypass(q) BY <1>7, <1>8, <1>11 DEF B!Bypass
<1>12. ASSUME NEW at \in BlobAt, NEW o \in Requests \cup {"none"}, req' = [req EXCEPT ![q].pc = at, ![q].on = o],
              at \in {"look", "begin", "lease", "waitRange"},
              at = "look" => req[q].kind \in {"full", "range", "head"},
              at = "begin" => req[q].kind = "full", at = "lease" => req[q].kind \in {"full", "range"},
              at = "waitRange" => req[q].kind = "range"
       PROVE OnlyReq(q) /\ Routed(q)' /\ Resulting(q)' /\ ~Holds(req'[q])
  <2>1. /\ OnlyReq(q) /\ req'[q].pc = at /\ req'[q].kind = req[q].kind
        /\ req'[q].body = req[q].body /\ req'[q].result = req[q].result
    <3> DEFINE r == [req[q] EXCEPT !.pc = at, !.on = o]
    <3>1. r \in RequestType /\ r.pc = at /\ r.kind = req[q].kind /\ r.body = req[q].body /\ r.result = req[q].result
      BY <1>2 DEF RequestType
    <3>2. req' = [req EXCEPT ![q] = r] BY <1>12
    <3> HIDE DEF r
    <3> QED BY <3>1, <3>2 DEF BlobInv, BlobTypes, OnlyReq
  <2>2. Routed(q)' BY <1>1, <1>2, <1>12, <2>1 DEF Routed
  <2>3. Resulting(q)' BY <1>2, <2>1 DEF Resulting
  <2> QED BY <1>12, <2>1, <2>2, <2>3 DEF Holds
<1>13. CASE B!WaitFill(q)
  <2>1. req[q].kind = "full" BY <1>2, <1>13 DEF B!WaitFill, Routed
  <2> QED BY <1>12, <1>13, <2>1 DEF B!WaitFill, BlobAt
<1>14. CASE B!WaitRange(q)
  <2>1. req[q].kind = "range" BY <1>2, <1>14 DEF B!WaitRange, Routed
  <2> QED BY <1>12, <1>14, <2>1 DEF B!WaitRange, BlobAt
<1>15. CASE B!Ongoing(q)
  <2>1. req[q].kind = "range" BY <1>2, <1>15 DEF B!Ongoing, Routed
  <2>2. fill[NodeOf[q]] \in Requests \cup {"none"} BY DEF BlobSetting, BlobInv, BlobTypes
  <2> DEFINE at == IF fill[NodeOf[q]] = "none" THEN "lease" ELSE "waitRange"
  <2>3. at \in BlobAt /\ at \in {"lease", "waitRange"} BY DEF BlobAt
  <2>4. req' = [req EXCEPT ![q].pc = at, ![q].on = fill[NodeOf[q]]] BY <1>15 DEF B!Ongoing
  <2> HIDE DEF at
  <2> QED BY <1>12, <2>1, <2>2, <2>3, <2>4
<1>16. ASSUME NEW kind \in Kinds[q], B!Start(q, kind) PROVE OnlyReq(q) /\ Routed(q)' /\ Resulting(q)' /\ ~Holds(req'[q])
  <2>1. kind \in {"full", "range", "head"} BY DEF BlobSetting
  <2>2. /\ OnlyReq(q) /\ req'[q].pc = "look" /\ req'[q].kind = kind
        /\ req'[q].body = req[q].body /\ req'[q].result = req[q].result
    <3> DEFINE r == [req[q] EXCEPT !.pc = "look", !.kind = kind]
    <3>1. r \in RequestType /\ r.pc = "look" /\ r.kind = kind /\ r.body = req[q].body /\ r.result = req[q].result
      BY <1>2, <2>1 DEF RequestType, BlobAt
    <3>2. req' = [req EXCEPT ![q] = r] BY <1>16 DEF B!Start
    <3> HIDE DEF r
    <3> QED BY <3>1, <3>2 DEF BlobInv, BlobTypes, OnlyReq
  <2> QED BY <1>1, <1>2, <2>1, <2>2 DEF Routed, Resulting, Holds
<1> QED BY <1>10, <1>11, <1>13, <1>14, <1>15, <1>16
(* fills.Begin: the owner of a fill goes for the lease, the others wait. *)
LEMMA BeginFillKeeps ==
    ASSUME BlobSetting, BlobInv, NEW q \in Requests, B!Begin(q)
    PROVE BlobInv'
<1>1. /\ req[q].pc = "begin" /\ UNCHANGED <<lease, task, permits, object, blobRow, repoRow>>
      /\ q # "none" /\ NodeOf[q] \in Nodes
  BY DEF B!Begin, B!rows, BlobSetting
<1>2. Routed(q) /\ Resulting(q) /\ req[q].kind = "full" /\ req[q].result = "none" /\ task[q] = "off" /\ req[q] \in RequestType
  BY <1>1 DEF BlobInv, BlobTypes, RequestInv, Routed, Resulting
<1>3. lease # q /\ \A n \in Nodes : fill[n] # q BY <1>1, <1>2, OwnsNothing DEF Working
<1>4. OnlyTask(q) /\ OnlyLease(q) /\ RowsGrow BY <1>1, Alone
<1>5. CASE fill[NodeOf[q]] = "none"
  <2>1. fill' = [fill EXCEPT ![NodeOf[q]] = q] /\ filled' = [filled EXCEPT ![q] = "running"] /\ B!Go(q, "lease")
    BY <1>5 DEF B!Begin
  <2>2. OnlyFill(q) /\ filled'[q] = "running" BY <2>1 DEF OnlyFill, BlobInv, BlobTypes
  <2>3. /\ OnlyReq(q) /\ req'[q].pc = "lease" /\ req'[q].kind = "full"
        /\ req'[q].body = req[q].body /\ req'[q].result = "none"
    BY <1>2, <2>1, GoFacts DEF BlobAt
  <2>4. Routed(q)' /\ Resulting(q)' BY <1>1, <1>2, <2>3 DEF Routed, Resulting
  <2>5. Owning(q)' BY <1>1, <1>3, <2>2, <2>3 DEF Owning
  <2>6. Wrote(q)' BY <1>1, <1>2 DEF Wrote
  <2> QED BY <1>1, <1>4, <2>2, <2>3, <2>4, <2>5, <2>6, StepKeeps, NothingHeld DEF RequestInv
<1>6. CASE fill[NodeOf[q]] # "none"
  <2> DEFINE r == [req[q] EXCEPT !.pc = "wait", !.on = fill[NodeOf[q]]]
  <2>1. req' = [req EXCEPT ![q] = r] /\ UNCHANGED <<fill, filled>> BY <1>6 DEF B!Begin
  <2>2. r \in RequestType /\ r.pc = "wait" /\ r.kind = "full" /\ r.body = req[q].body /\ r.result = "none"
    <3>1. fill[NodeOf[q]] \in Requests \cup {"none"} BY <1>1 DEF BlobInv, BlobTypes
    <3> QED BY <1>2, <3>1 DEF RequestType, BlobAt
  <2> HIDE DEF r
  <2>3. OnlyReq(q) /\ req'[q] = r BY <2>1, <2>2 DEF BlobInv, BlobTypes, OnlyReq
  <2>4. Routed(q)' /\ Resulting(q)' BY <1>1, <1>2, <2>2, <2>3 DEF Routed, Resulting
  <2>5. OnlyFill(q) /\ lease' # q /\ \A n \in Nodes : fill'[n] # q BY <1>1, <1>3, <2>1, Alone
  <2> QED BY <1>1, <1>4, <2>2, <2>3, <2>4, <2>5, FreeKeeps, NothingHeld
<1> QED BY <1>5, <1>6

(* acquireBlobFillLease: with or without the lease the request goes on. *)
LEMMA LeaseKeeps ==
    ASSUME BlobSetting, BlobInv, NEW q \in Requests, B!AcquireLease(q) \/ B!LeaseUnavailable(q)
    PROVE BlobInv'
<1>1. /\ req[q].pc = "lease" /\ UNCHANGED <<task, permits, object, blobRow, repoRow, fill, filled>> /\ B!Go(q, "recheck")
      /\ OnlyLease(q)
  BY DEF B!AcquireLease, B!LeaseUnavailable, B!LoseLease, B!rows, OnlyLease
<1>2. /\ Routed(q) /\ Resulting(q) /\ Owning(q) /\ req[q].kind \in {"full", "range"} /\ req[q].result = "none"
      /\ task[q] = "off"
  BY <1>1 DEF BlobInv, RequestInv, Routed, Resulting
<1>3. /\ OnlyReq(q) /\ req'[q].pc = "recheck" /\ req'[q].kind = req[q].kind
      /\ req'[q].body = req[q].body /\ req'[q].result = "none"
  BY <1>1, <1>2, GoFacts DEF BlobAt
<1>4. Routed(q)' /\ Resulting(q)' BY <1>1, <1>2, <1>3 DEF Routed, Resulting
<1>5. Owning(q)' BY <1>1, <1>2, <1>3 DEF Owning, Working
<1>6. Wrote(q)' BY <1>1, <1>2 DEF Wrote
<1>7. OnlyTask(q) /\ OnlyFill(q) /\ RowsGrow BY <1>1, Alone
<1> QED BY <1>1, <1>3, <1>4, <1>5, <1>6, <1>7, StepKeeps, NothingHeld DEF RequestInv

(* A request that gives back what it owns, by the end of its check or fetch. *)
LEMMA GivesBack ==
    ASSUME BlobSetting, BlobInv, NEW q \in Requests, req[q].pc \notin {"serving", "fallbackFetch"}, UNCHANGED <<task, permits>>, RowsGrow,
           B!Release(q), NEW o \in {"ok", "error"}, B!Finish(q, o), OnlyReq(q), Routed(q)', Resulting(q)', ~Holds(req'[q])
    PROVE BlobInv'
<1>1. OnlyLease(q) /\ lease' # q BY ReleaseFacts
<1>2. OnlyFill(q) /\ \A n \in Nodes : fill'[n] # q BY FinishFacts
<1> QED BY <1>1, <1>2, FreeKeeps, NothingHeld DEF Holds

LEMMA RecheckKeeps ==
    ASSUME BlobSetting, BlobInv, NEW q \in Requests, B!Recheck(q)
    PROVE BlobInv'
<1>1. req[q].pc = "recheck" /\ UNCHANGED <<task, permits>> BY DEF B!Recheck
<1>2. RowsGrow BY LookFacts DEF B!Recheck
<1>3. /\ Routed(q) /\ Resulting(q) /\ Owning(q) /\ req[q].kind \in {"full", "range"} /\ req[q].result = "none"
      /\ task[q] = "off"
  BY <1>1 DEF BlobInv, RequestInv, Routed, Resulting
<1>4. ASSUME B!Release(q), B!Finish(q, "ok") \/ B!Finish(q, "error"),
             \/ \E b \in {"small", "stored"} : B!Serve(q, b)
             \/ req[q].kind # "full" /\ B!Go(q, "open")
             \/ B!Go(q, "fallback")
             \/ B!Fail(q)
      PROVE BlobInv'
  <2>1. OnlyReq(q) /\ Routed(q)' /\ Resulting(q)' /\ ~Holds(req'[q])
    <3>1. CASE \E b \in {"small", "stored"} : B!Serve(q, b)
      BY <1>3, <3>1, ServeFacts DEF Routed, Resulting, Holds
    <3>2. CASE B!Fail(q) BY <3>2, FailFacts DEF Routed, Resulting
    <3>3. CASE req[q].kind # "full" /\ B!Go(q, "open")
      <4>1. /\ OnlyReq(q) /\ req'[q].pc = "open" /\ req'[q].kind = "range"
            /\ req'[q].body = req[q].body /\ req'[q].result = "none"
        BY <1>3, <3>3, GoFacts DEF BlobAt
      <4> QED BY <1>1, <1>3, <4>1 DEF Routed, Resulting, Holds
    <3>4. CASE B!Go(q, "fallback")
      <4>1. /\ OnlyReq(q) /\ req'[q].pc = "fallback" /\ req'[q].kind = req[q].kind
            /\ req'[q].body = req[q].body /\ req'[q].result = "none"
        BY <1>3, <3>4, GoFacts DEF BlobAt
      <4> QED BY <1>1, <1>3, <4>1 DEF Routed, Resulting, Holds
    <3> QED BY <1>4, <3>1, <3>2, <3>3, <3>4
  <2> QED BY <1>1, <1>2, <1>4, <2>1, GivesBack
<1>5. CASE B!Go(q, "fetch") /\ UNCHANGED <<lease, fill, filled>>
  <2>1. /\ OnlyReq(q) /\ req'[q].pc = "fetch" /\ req'[q].kind = req[q].kind
        /\ req'[q].body = req[q].body /\ req'[q].result = "none"
    BY <1>3, <1>5, GoFacts DEF BlobAt
  <2>2. Routed(q)' /\ Resulting(q)' BY <1>1, <1>3, <2>1 DEF Routed, Resulting
  <2>3. Owning(q)' BY <1>1, <1>3, <1>5, <2>1 DEF Owning, Working
  <2>4. Wrote(q)' BY <1>1, <1>3 DEF Wrote
  <2>5. OnlyTask(q) /\ OnlyFill(q) /\ OnlyLease(q) BY <1>1, <1>5, Alone
  <2> QED BY <1>1, <1>2, <2>1, <2>2, <2>3, <2>4, <2>5, StepKeeps, NothingHeld DEF RequestInv
<1> QED BY <1>4, <1>5 DEF B!Recheck
(* The fetch of a full GET: given up, served without the task, or teed into it. *)
LEMMA StreamKeeps ==
    ASSUME BlobSetting, BlobInv, NEW q \in Requests, B!Stream(q)
    PROVE BlobInv'
<1>1. req[q].pc = "fetch" /\ req[q].kind = "full" /\ UNCHANGED <<permits, object, blobRow, repoRow>>
  BY DEF B!Stream, B!rows
<1>2. Routed(q) /\ Resulting(q) /\ Owning(q) /\ req[q].result = "none" /\ task[q] = "off"
  BY <1>1 DEF BlobInv, RequestInv, Routed, Resulting
<1>3. RowsGrow BY <1>1, Alone
<1>4. CASE B!Fail(q) /\ B!Release(q) /\ B!Finish(q, "error") /\ UNCHANGED task
  <2>1. OnlyReq(q) /\ Routed(q)' /\ Resulting(q)' /\ ~Holds(req'[q])
    BY <1>4, FailFacts DEF Routed, Resulting
  <2> QED BY <1>1, <1>3, <1>4, <2>1, GivesBack
<1>5. CASE B!Serve(q, "raw") /\ B!Release(q) /\ B!Finish(q, "error") /\ UNCHANGED task
  <2>1. OnlyReq(q) /\ Routed(q)' /\ Resulting(q)' /\ ~Holds(req'[q])
    BY <1>1, <1>2, <1>5, ServeFacts DEF Routed, Resulting, Holds
  <2> QED BY <1>1, <1>3, <1>5, <2>1, GivesBack
<1>6. CASE B!Serve(q, "tee") /\ task' = [task EXCEPT ![q] = "receive"] /\ UNCHANGED <<lease, fill, filled>>
  <2>1. OnlyReq(q) /\ req'[q].pc = "serving" /\ req'[q].body = "tee" /\ req'[q].result = "none"
    BY <1>1, <1>2, <1>6, ServeFacts
  <2>2. OnlyTask(q) /\ task'[q] = "receive" BY <1>6 DEF BlobInv, BlobTypes, OnlyTask, TaskType
  <2>3. Routed(q)' /\ Resulting(q)' BY <2>1 DEF Routed, Resulting
  <2>4. Owning(q)' BY <1>2, <1>6, <2>2 DEF Owning, Working
  <2>5. Wrote(q)' BY <2>2 DEF Wrote
  <2>6. OnlyFill(q) /\ OnlyLease(q) BY <1>6, Alone
  <2> QED BY <1>1, <1>3, <2>1, <2>2, <2>3, <2>4, <2>5, <2>6, StepKeeps, NothingHeld DEF RequestInv
<1> QED BY <1>4, <1>5, <1>6 DEF B!Stream

(* The fetch of a range request: it owns no fill, only perhaps the lease. *)
LEMMA FetchAndStoreKeeps ==
    ASSUME BlobSetting, BlobInv, NEW q \in Requests, B!FetchAndStore(q)
    PROVE BlobInv'
<1>1. /\ req[q].pc = "fetch" /\ req[q].kind = "range"
      /\ UNCHANGED <<permits, object, blobRow, repoRow, fill, filled>>
  BY DEF B!FetchAndStore, B!rows
<1>2. Routed(q) /\ Resulting(q) /\ Owning(q) /\ req[q].result = "none" /\ task[q] = "off"
  BY <1>1 DEF BlobInv, RequestInv, Routed, Resulting
<1>3. \A n \in Nodes : fill[n] # q BY <1>1, <1>2 DEF Owning, Working
<1>4. RowsGrow /\ OnlyFill(q) BY <1>1, Alone
<1>5. CASE B!Go(q, "storing") /\ task' = [task EXCEPT ![q] = "whole"] /\ UNCHANGED lease
  <2>1. /\ OnlyReq(q) /\ req'[q].pc = "storing" /\ req'[q].kind = "range"
        /\ req'[q].body = req[q].body /\ req'[q].result = "none"
    BY <1>1, <1>2, <1>5, GoFacts DEF BlobAt
  <2>2. OnlyTask(q) /\ task'[q] = "whole" BY <1>5 DEF BlobInv, BlobTypes, OnlyTask, TaskType
  <2>3. Routed(q)' /\ Resulting(q)' BY <2>1 DEF Routed, Resulting
  <2>4. Owning(q)' BY <1>1, <1>3, <2>2 DEF Owning, Working
  <2>5. Wrote(q)' BY <2>2 DEF Wrote
  <2>6. OnlyLease(q) BY <1>5, Alone
  <2> QED BY <1>1, <1>4, <2>1, <2>2, <2>3, <2>4, <2>5, <2>6, StepKeeps, NothingHeld DEF RequestInv
<1>6. CASE B!Fail(q) /\ B!Release(q) /\ UNCHANGED task
  <2>1. OnlyReq(q) /\ Routed(q)' /\ Resulting(q)' /\ ~Holds(req'[q])
    BY <1>6, FailFacts DEF Routed, Resulting
  <2>2. OnlyLease(q) /\ lease' # q BY <1>6, ReleaseFacts
  <2> QED BY <1>1, <1>3, <1>4, <1>6, <2>1, <2>2, FreeKeeps, NothingHeld DEF Holds
<1> QED BY <1>5, <1>6 DEF B!FetchAndStore

(* The store task: it works until it gives back the fill and the lease. *)
LEMMA TaskKeeps ==
    ASSUME BlobSetting, BlobInv, NEW q \in Requests, Working(q), UNCHANGED <<req, permits>>, RowsGrow,
           NEW s \in TaskType \ {"off"}, task' = [task EXCEPT ![q] = s],
           s = "blobRow" => object', s = "repoRow" => object' /\ blobRow',
           s = "ok" => object' /\ blobRow' /\ repoRow',
           \/ s \in {"receive", "whole", "broken", "blobRow", "repoRow"} /\ UNCHANGED <<lease, fill, filled>>
           \/ B!Release(q) /\ (B!Finish(q, "ok") \/ B!Finish(q, "error"))
    PROVE BlobInv'
<1>1. OnlyTask(q) /\ task'[q] = s BY DEF BlobInv, BlobTypes, OnlyTask
<1>2. Wrote(q)' BY <1>1 DEF Wrote
<1>3. Routed(q)' /\ Resulting(q)' BY <1>1 DEF BlobInv, RequestInv, Routed, Resulting, Working
<1>4. OnlyReq(q) BY Alone
<1>5. PermitsFollow(q) BY DEF BlobInv, BlobTypes, PermitsFollow
<1>6. Owning(q)' /\ OnlyFill(q) /\ OnlyLease(q)
  <2>1. CASE s \in {"receive", "whole", "broken", "blobRow", "repoRow"} /\ UNCHANGED <<lease, fill, filled>>
    <3>1. OnlyFill(q) /\ OnlyLease(q) BY <2>1, Alone
    <3> QED BY <1>1, <2>1, <3>1 DEF BlobInv, RequestInv, Owning, Working
  <2>2. CASE B!Release(q) /\ (B!Finish(q, "ok") \/ B!Finish(q, "error"))
    <3>1. OnlyLease(q) /\ lease' # q BY <2>2, ReleaseFacts
    <3>2. OnlyFill(q) /\ \A n \in Nodes : fill'[n] # q BY <2>2, FinishFacts
    <3> QED BY <3>1, <3>2 DEF Owning
  <2> QED BY <2>1, <2>2
<1> QED BY <1>1, <1>2, <1>3, <1>4, <1>5, <1>6, StepKeeps DEF RequestInv

LEMMA StoreKeeps ==
    ASSUME BlobSetting, BlobInv, NEW q \in Requests,
           B!PutObject(q) \/ B!PutFails(q) \/ B!RecordBlob(q) \/ B!RecordRepoBlob(q)
    PROVE BlobInv'
<1>1. Working(q) /\ UNCHANGED <<req, permits>>
  BY DEF Working, B!PutObject, B!PutFails, B!RecordBlob, B!RecordRepoBlob
<1>2. Wrote(q) /\ B!RowsFollowObject BY DEF BlobInv, RequestInv
<1>3. CASE B!PutObject(q)
  <2>1. /\ object' /\ UNCHANGED <<blobRow, repoRow, lease, fill, filled>>
        /\ task' = [task EXCEPT ![q] = "blobRow"] BY <1>3 DEF B!PutObject
  <2>2. RowsGrow BY <1>2, <2>1 DEF RowsGrow, B!RowsFollowObject
  <2> QED BY <1>1, <2>1, <2>2, TaskKeeps DEF TaskType
<1>4. ASSUME B!Done(q, "error"), UNCHANGED <<object, blobRow, repoRow>> PROVE BlobInv'
  <2>1. RowsGrow BY <1>4, Alone
  <2> QED BY <1>1, <1>4, <2>1, TaskKeeps DEF TaskType, B!Done
<1>5. CASE B!PutFails(q) BY <1>4, <1>5 DEF B!PutFails, B!rows
<1>6. CASE B!RecordBlob(q)
  <2>1. object /\ object' = object /\ repoRow' = repoRow BY <1>2, <1>6 DEF B!RecordBlob, Wrote
  <2>2. CASE blobRow' = TRUE /\ task' = [task EXCEPT ![q] = "repoRow"] /\ UNCHANGED <<lease, fill, filled>>
    <3>1. RowsGrow BY <1>2, <2>1, <2>2 DEF RowsGrow, B!RowsFollowObject
    <3> QED BY <1>1, <2>1, <2>2, <3>1, TaskKeeps DEF TaskType
  <2> QED BY <1>4, <1>6, <2>1, <2>2 DEF B!RecordBlob
<1>7. CASE B!RecordRepoBlob(q)
  <2>1. object /\ blobRow /\ UNCHANGED <<object, blobRow>> BY <1>2, <1>7 DEF B!RecordRepoBlob, Wrote
  <2>2. CASE repoRow' = TRUE /\ B!Done(q, "ok")
    <3>1. RowsGrow BY <1>2, <2>1, <2>2 DEF RowsGrow, B!RowsFollowObject
    <3> QED BY <1>1, <2>1, <2>2, <3>1, TaskKeeps DEF TaskType, B!Done
  <2> QED BY <1>4, <1>7, <2>1, <2>2 DEF B!RecordRepoBlob
<1> QED BY <1>3, <1>5, <1>6, <1>7
(* A request that is past its fill leaves what its task owns to the task. *)
LEMMA LateKeeps ==
    ASSUME BlobSetting, BlobInv, NEW q \in Requests, req[q].pc \notin {"lease", "recheck", "fetch"},
           OnlyReq(q), OnlyTask(q), Working(q) => Working(q)', UNCHANGED <<lease, fill, filled>>, RowsGrow, PermitsFollow(q),
           task'[q] \in {task[q], "whole", "broken"}, Routed(q)', Resulting(q)'
    PROVE BlobInv'
<1>1. Wrote(q)' BY DEF BlobInv, RequestInv, Wrote, RowsGrow
<1>2. Owning(q)' BY DEF BlobInv, RequestInv, Owning
<1>3. OnlyFill(q) /\ OnlyLease(q) BY Alone
<1> QED BY <1>1, <1>2, <1>3, StepKeeps DEF RequestInv

LEMMA OpenKeeps ==
    ASSUME BlobSetting, BlobInv, NEW q \in Requests, B!Stored(q) \/ B!OpenStored(q) \/ B!Fallback(q) \/ B!FetchFallback(q)
    PROVE BlobInv'
<1>1. req[q].pc \in {"storing", "open", "fallback", "fallbackFetch"} /\ UNCHANGED <<lease, fill, filled, task>>
  BY DEF B!Stored, B!OpenStored, B!Fallback, B!FetchFallback
<1>2. /\ Routed(q) /\ Resulting(q) /\ req[q].result = "none" /\ req[q].kind \in {"full", "range"}
      /\ (Holds(req[q]) <=> req[q].pc = "fallbackFetch") /\ permits \in Int
  BY <1>1 DEF BlobInv, BlobTypes, RequestInv, Routed, Resulting, Holds
<1>3. OnlyTask(q) /\ (Working(q) => Working(q)') /\ task'[q] = task[q] BY <1>1, Alone DEF Working
<1>4. RowsGrow
  <2>1. CASE B!OpenStored(q) BY <2>1, LookFacts DEF B!OpenStored
  <2>2. CASE UNCHANGED <<object, blobRow, repoRow>> BY <2>2, Alone
  <2> QED BY <2>1, <2>2 DEF B!Stored, B!Fallback, B!FetchFallback, B!rows
<1>5. ASSUME OnlyReq(q), Routed(q)', Resulting(q)', PermitsFollow(q) PROVE BlobInv'
  BY <1>1, <1>3, <1>4, <1>5, LateKeeps
<1>6. CASE B!Fail(q) /\ permits' = IF req[q].pc = "fallbackFetch" THEN permits - 1 ELSE permits
  <2>1. OnlyReq(q) /\ Routed(q)' /\ Resulting(q)' /\ ~Holds(req'[q]) BY <1>6, FailFacts DEF Routed, Resulting
  <2>2. PermitsFollow(q) BY <1>2, <1>6, <2>1 DEF PermitsFollow
  <2> QED BY <1>5, <2>1, <2>2
<1>7. CASE req[q].pc = "storing" /\ B!Go(q, "open") /\ UNCHANGED permits
  <2>1. /\ OnlyReq(q) /\ req'[q].pc = "open" /\ req'[q].kind = req[q].kind
        /\ req'[q].body = req[q].body /\ req'[q].result = "none"
    BY <1>2, <1>7, GoFacts DEF BlobAt
  <2>2. Routed(q)' /\ Resulting(q)' BY <1>2, <1>7, <2>1 DEF Routed, Resulting
  <2>3. PermitsFollow(q) BY <1>2, <1>7, <2>1 DEF PermitsFollow, Holds
  <2> QED BY <1>5, <2>1, <2>2, <2>3
<1>8. CASE B!Go(q, "fallback") /\ UNCHANGED permits /\ req[q].pc # "fallbackFetch"
  <2>1. /\ OnlyReq(q) /\ req'[q].pc = "fallback" /\ req'[q].kind = req[q].kind
        /\ req'[q].body = req[q].body /\ req'[q].result = "none"
    BY <1>2, <1>8, GoFacts DEF BlobAt
  <2>2. Routed(q)' /\ Resulting(q)' BY <1>2, <2>1 DEF Routed, Resulting
  <2>3. PermitsFollow(q) BY <1>2, <1>8, <2>1 DEF PermitsFollow, Holds
  <2> QED BY <1>5, <2>1, <2>2, <2>3
<1>9. ASSUME NEW b \in {"stored", "fallback"}, B!Serve(q, b), UNCHANGED permits, b = "fallback" <=> req[q].pc = "fallbackFetch"
      PROVE BlobInv'
  <2>1. OnlyReq(q) /\ req'[q].pc = "serving" /\ req'[q].body = b /\ req'[q].result = "none" BY <1>2, <1>9, ServeFacts
  <2>2. Routed(q)' /\ Resulting(q)' BY <2>1 DEF Routed, Resulting
  <2>3. PermitsFollow(q) BY <1>2, <1>9, <2>1 DEF PermitsFollow, Holds
  <2> QED BY <1>5, <2>1, <2>2, <2>3
<1>10. CASE req[q].pc = "fallback" /\ B!Go(q, "fallbackFetch") /\ permits' = permits + 1
  <2>1. /\ OnlyReq(q) /\ req'[q].pc = "fallbackFetch" /\ req'[q].kind = req[q].kind
        /\ req'[q].body = req[q].body /\ req'[q].result = "none"
    BY <1>2, <1>10, GoFacts DEF BlobAt
  <2>2. Routed(q)' /\ Resulting(q)' BY <1>2, <2>1 DEF Routed, Resulting
  <2>3. PermitsFollow(q) BY <1>2, <1>10, <2>1 DEF PermitsFollow, Holds
  <2> QED BY <1>5, <2>1, <2>2, <2>3
<1>11. CASE B!Stored(q) BY <1>6, <1>7, <1>11 DEF B!Stored
<1>12. CASE B!OpenStored(q) BY <1>6, <1>8, <1>9, <1>12 DEF B!OpenStored
<1>13. CASE B!FetchFallback(q) BY <1>6, <1>9, <1>13 DEF B!FetchFallback
<1> QED BY <1>10, <1>11, <1>12, <1>13 DEF B!Fallback

LEMMA PipedFacts ==
    ASSUME BlobInv, NEW q \in Requests, NEW s \in {"whole", "broken"}, task' = B!Piped(q, s)
    PROVE OnlyTask(q) /\ (Working(q) => Working(q)') /\ task'[q] \in {task[q], "whole", "broken"}
<1>1. CASE task' = [task EXCEPT ![q] = s] /\ task[q] = "receive"
  BY <1>1 DEF BlobInv, BlobTypes, OnlyTask, TaskType, Working
<1>2. CASE task' = task BY <1>2 DEF BlobInv, BlobTypes, OnlyTask, Working
<1> QED BY <1>1, <1>2 DEF B!Piped

(* Read to the end, a fallback body that ends by itself, and Close. *)
LEMMA BodyKeeps ==
    ASSUME BlobSetting, BlobInv, NEW q \in Requests, B!ReadEOF(q) \/ B!FallbackEnds(q) \/ B!CloseBody(q)
    PROVE BlobInv'
<1>1. req[q].pc = "serving" /\ UNCHANGED <<lease, fill, filled, object, blobRow, repoRow>>
  BY DEF B!ReadEOF, B!FallbackEnds, B!CloseBody, B!rows
<1>2. Resulting(q) /\ req[q].result = "none" /\ req[q] \in RequestType /\ permits \in Int
  BY <1>1 DEF BlobInv, BlobTypes, RequestInv, Resulting
<1>3. RowsGrow BY <1>1, Alone
<1>4. OnlyTask(q) /\ (Working(q) => Working(q)') /\ task'[q] \in {task[q], "whole", "broken"}
  <2>1. CASE UNCHANGED task BY <2>1, Alone DEF Working
  <2>2. CASE task' = B!Piped(q, "whole") \/ task' = B!Piped(q, "broken") BY <2>2, PipedFacts
  <2> QED BY <2>1, <2>2 DEF B!ReadEOF, B!FallbackEnds, B!CloseBody
<1>5. CASE B!ReadEOF(q) \/ B!FallbackEnds(q)
  <2>1. PICK eof \in BOOLEAN : req' = [req EXCEPT ![q] = [req[q] EXCEPT !.eof = eof, !.body = B!Spent(req[q].body)]]
    <3>1. CASE B!ReadEOF(q) BY <1>2, <3>1 DEF B!ReadEOF
    <3>2. CASE B!FallbackEnds(q)
      <4>1. req' = [req EXCEPT ![q] = [req[q] EXCEPT !.eof = req[q].eof, !.body = B!Spent(req[q].body)]]
        BY <1>2, <3>2 DEF B!FallbackEnds, RequestType, BlobInv, BlobTypes
      <4>2. req[q].eof \in BOOLEAN BY <1>2 DEF RequestType
      <4> QED BY <4>1, <4>2
    <3> QED BY <1>5, <3>1, <3>2
  <2> DEFINE b == B!Spent(req[q].body)
  <2>2. /\ b \in {"none", "small", "stored", "raw", "tee", "spent"} /\ (b = "tee" <=> req[q].body = "tee")
        /\ permits' = IF req[q].body = "fallback" THEN permits - 1 ELSE permits
    BY <1>2, <1>5 DEF B!Spent, B!GiveBack, B!ReadEOF, B!FallbackEnds, RequestType
  <2> DEFINE r == [req[q] EXCEPT !.eof = eof, !.body = b]
  <2>3. req' = [req EXCEPT ![q] = r] BY <2>1
  <2> HIDE DEF b
  <2>4. r \in RequestType /\ r.pc = "serving" /\ r.body = b /\ r.result = "none" BY <1>1, <1>2, <2>2 DEF RequestType
  <2> HIDE DEF r
  <2>5. OnlyReq(q) /\ req'[q] = r BY <2>3, <2>4 DEF BlobInv, BlobTypes, OnlyReq
  <2>6. Routed(q)' /\ Resulting(q)' BY <2>4, <2>5 DEF Routed, Resulting
  <2>7. PermitsFollow(q) BY <1>1, <1>2, <2>2, <2>4, <2>5 DEF PermitsFollow, Holds
  <2> QED BY <1>1, <1>3, <1>4, <2>5, <2>6, <2>7, LateKeeps
<1>6. CASE B!CloseBody(q)
  <2>1. PICK ok \in BOOLEAN : req' = B!Closed(q, ok) BY <1>6 DEF B!CloseBody
  <2> DEFINE res == IF ok /\ (req[q].body = "tee" => task[q] = "ok") THEN "ok" ELSE "error"
  <2> DEFINE r == [B!NewRequest EXCEPT !.pc = "done", !.kind = req[q].kind, !.result = res]
  <2>2. res \in {"ok", "error"} OBVIOUS
  <2>3. req' = [req EXCEPT ![q] = r] BY <2>1 DEF B!Closed
  <2> HIDE DEF res
  <2>4. r \in RequestType /\ r.pc = "done" /\ r.body = "none" BY <1>2, <2>2 DEF B!NewRequest, RequestType, BlobAt
  <2> HIDE DEF r
  <2>5. OnlyReq(q) /\ req'[q] = r BY <2>3, <2>4 DEF BlobInv, BlobTypes, OnlyReq
  <2>6. Routed(q)' /\ Resulting(q)' BY <2>4, <2>5 DEF Routed, Resulting
  <2>7. permits' = IF req[q].body = "fallback" THEN permits - 1 ELSE permits BY <1>6 DEF B!CloseBody, B!GiveBack
  <2>8. PermitsFollow(q) BY <1>1, <1>2, <2>4, <2>5, <2>7 DEF PermitsFollow, Holds
  <2> QED BY <1>1, <1>3, <1>4, <2>5, <2>6, <2>8, LateKeeps
<1> QED BY <1>5, <1>6

(* A context that ends: for the owner of a fill the fill ends with it, and it *)
(* does not hold the lease that it waits for.                                 *)
LEMMA ContextEndKeeps ==
    ASSUME BlobSetting, BlobInv, NEW q \in Requests, B!ContextEnds(q)
    PROVE BlobInv'
<1>1. /\ req[q].pc \in {"wait", "waitRange", "lease", "fallback"} /\ B!Fail(q)
      /\ UNCHANGED <<lease, task, permits, object, blobRow, repoRow>>
  BY DEF B!ContextEnds, B!rows
<1>2. RowsGrow /\ OnlyTask(q) /\ OnlyLease(q) BY <1>1, Alone
<1>3. OnlyReq(q) /\ Routed(q)' /\ Resulting(q)' /\ ~Holds(req'[q]) BY <1>1, FailFacts DEF Routed, Resulting
<1>4. PermitsFollow(q) BY <1>1, <1>3, NothingHeld DEF Holds
<1>5. CASE UNCHANGED <<fill, filled>> /\ req[q].pc # "lease"
  <2>1. (Working(q) => Working(q)') /\ task'[q] = task[q] BY <1>1 DEF Working
  <2> QED BY <1>1, <1>2, <1>3, <1>4, <1>5, <2>1, LateKeeps
<1>6. CASE req[q].pc = "lease" /\ B!Finish(q, "error")
  <2>1. OnlyFill(q) /\ \A n \in Nodes : fill'[n] # q BY <1>6, FinishFacts
  <2>2. lease # q
    <3>1. task[q] = "off" BY <1>6 DEF BlobInv, RequestInv, Routed
    <3> QED BY <1>6, <3>1 DEF BlobInv, RequestInv, Owning, Working
  <2> QED BY <1>1, <1>2, <1>3, <1>4, <2>1, <2>2, FreeKeeps
<1> QED BY <1>5, <1>6 DEF B!ContextEnds

(* The lease runs out, under its holder or lost; and nothing happens. *)
LEMMA RestKeeps ==
    ASSUME BlobSetting, BlobInv, B!LeaseExpires \/ B!LostLeaseExpires \/ UNCHANGED B!vars
    PROVE BlobInv'
<1>1. UNCHANGED <<object, blobRow, repoRow, fill, filled, req, task, permits>> /\ lease' \in {lease, "none"}
  BY DEF B!LeaseExpires, B!LostLeaseExpires, B!vars, B!rows
<1>2. BlobTypes' BY <1>1 DEF BlobInv, BlobTypes
<1>3. ASSUME NEW p \in Requests PROVE RequestInv(p)'
  <2>1. lease' = p => lease = p BY <1>1 DEF BlobSetting
  <2> QED BY <1>1, <2>1, OthersKept DEF BlobInv
<1>4. B!PermitsExact' BY <1>1 DEF BlobInv, B!PermitsExact, B!HoldsPermit
<1>5. B!RowsFollowObject' BY <1>1 DEF BlobInv, B!RowsFollowObject
<1> QED BY <1>2, <1>3, <1>4, <1>5 DEF BlobInv

LEMMA BlobInit ==
    ASSUME BlobSetting, B!Init
    PROVE BlobInv
<1>1. B!NewRequest \in RequestType BY DEF B!NewRequest, RequestType, BlobAt
<1>2. BlobTypes BY <1>1 DEF B!Init, BlobTypes, TaskType
<1>3. ASSUME NEW q \in Requests PROVE RequestInv(q)
  <2>1. req[q].pc = "idle" /\ req[q].result = "none" /\ task[q] = "off" BY DEF B!Init, B!NewRequest
  <2>2. lease # q /\ \A n \in Nodes : fill[n] # q BY DEF B!Init, BlobSetting
  <2> QED BY <2>1, <2>2 DEF RequestInv, Routed, Resulting, Wrote, Owning
<1>4. {q \in Requests : B!HoldsPermit(q)} = {} BY DEF B!Init, B!NewRequest, B!HoldsPermit
<1>5. B!PermitsExact BY <1>4, SameCount, FS_EmptySet DEF B!Init, B!PermitsExact
<1>6. B!RowsFollowObject BY DEF B!Init, B!RowsFollowObject
<1> QED BY <1>2, <1>3, <1>5, <1>6 DEF BlobInv

LEMMA BlobNext ==
    ASSUME BlobSetting, BlobInv, [B!Next]_B!vars
    PROVE BlobInv'
<1>1. ASSUME NEW q \in Requests, B!Step(q) PROVE BlobInv'
  BY <1>1, EarlyKeeps, BeginFillKeeps, LeaseKeeps, RecheckKeeps, StreamKeeps, FetchAndStoreKeeps, StoreKeeps, OpenKeeps,
     BodyKeeps DEF B!Step
<1>2. ASSUME NEW q \in Requests, B!Fault(q) PROVE BlobInv'
  BY <1>2, ContextEndKeeps, LeaseKeeps, BodyKeeps DEF B!Fault
<1> QED BY <1>1, <1>2, EarlyKeeps, RestKeeps DEF B!Next, B!Finished

\* Nobody waits for a fill that no one is working on: a fill that is registered belongs to
\* a request on its way or to its store task, and so does the lease, unless a failed call
\* of the backend left its key behind.  The permits of the fallback gate are those of the
\* fetches and of the bodies being read, and a row is written only after what it stands
\* for.  For any number of requests and instances, whichever check, fetch, submission,
\* write, client or context ends a request (blob_proxy.go, blob_stream_cache.go,
\* blob_open_fallback.go), although the lease may run out under its holder and although its
\* acquisition and its release may fail (blob_lease.go).
THEOREM BlobsStayOwned ==
    ASSUME BlobSetting
    PROVE B!Spec => []BlobsOwned
<1>1. B!Init => BlobInv BY BlobInit
<1>2. BlobInv /\ [B!Next]_B!vars => BlobInv' BY BlobNext
<1>3. BlobInv => BlobsOwned
  <2> SUFFICES ASSUME BlobInv PROVE BlobsOwned OBVIOUS
  <2>1. ASSUME NEW n \in Nodes, fill[n] # "none" PROVE B!Filling(fill[n]) /\ filled[fill[n]] = "running"
    <3>1. fill[n] \in Requests BY <2>1 DEF BlobInv, BlobTypes
    <3> QED BY <3>1 DEF BlobInv, RequestInv, Owning, Working, B!Filling
  <2>2. lease \notin {"none", "lost"} => B!Filling(lease)
    <3>1. lease \notin {"none", "lost"} => lease \in Requests BY DEF BlobInv, BlobTypes
    <3> QED BY <3>1 DEF BlobInv, RequestInv, Owning, Working, B!Filling
  <2> QED BY <2>1, <2>2 DEF BlobsOwned, B!BlobsOwned, B!FillsOwned, BlobInv
<1> QED BY <1>1, <1>2, <1>3, PTL DEF B!Spec
(* Only Close makes a result of a request that is not an error. *)
LEMMA ResultsComeFromClose ==
    ASSUME BlobInv, NEW q \in Requests,
           \/ (\E at : B!Go(q, at)) \/ B!Fail(q) \/ (\E b \in {"none", "small", "stored", "raw", "tee", "fallback"} : B!Serve(q, b))
           \/ B!Begin(q) \/ B!WaitFill(q) \/ B!WaitRange(q) \/ B!Ongoing(q) \/ B!ReadEOF(q) \/ B!FallbackEnds(q) \/ UNCHANGED req
           \/ \E kind \in Kinds[q] : B!Start(q, kind),
           NEW p \in Requests
    PROVE req'[p].result \in {req[p].result, "error"}
<1>1. req \in [Requests -> RequestType] BY DEF BlobInv, BlobTypes
<1>2. CASE B!Fail(q) BY <1>1, <1>2 DEF B!Fail, B!NewRequest, RequestType
<1>3. CASE \E b \in {"none", "small", "stored", "raw", "tee", "fallback"} : B!Serve(q, b)
  BY <1>1, <1>3 DEF B!Serve, RequestType
<1>4. ASSUME NEW at, B!Go(q, at) PROVE req'[p].result \in {req[p].result, "error"} BY <1>1, <1>4 DEF B!Go, RequestType
<1>5. ASSUME NEW at, NEW o, req' = [req EXCEPT ![q].pc = at, ![q].on = o] PROVE req'[p].result \in {req[p].result, "error"}
  BY <1>1, <1>5 DEF RequestType
<1>6. CASE B!Begin(q) \/ B!WaitFill(q) \/ B!WaitRange(q) \/ B!Ongoing(q)
  <2>1. CASE B!Begin(q) BY <1>4, <1>5, <2>1 DEF B!Begin
  <2>2. CASE B!WaitFill(q) BY <1>5, <2>2 DEF B!WaitFill
  <2>3. CASE B!WaitRange(q) BY <1>5, <2>3 DEF B!WaitRange
  <2>4. CASE B!Ongoing(q) BY <1>5, <2>4 DEF B!Ongoing
  <2> QED BY <1>6, <2>1, <2>2, <2>3, <2>4
<1>7. CASE B!ReadEOF(q) \/ B!FallbackEnds(q) BY <1>1, <1>7 DEF B!ReadEOF, B!FallbackEnds, RequestType
<1>8. ASSUME NEW kind, req' = [req EXCEPT ![q].pc = "look", ![q].kind = kind] PROVE req'[p].result \in {req[p].result, "error"}
  BY <1>1, <1>8 DEF RequestType
<1>9. CASE \E kind \in Kinds[q] : B!Start(q, kind) BY <1>8, <1>9 DEF B!Start
<1> QED BY <1>2, <1>3, <1>4, <1>6, <1>7, <1>9

\* A client that reads a streamed blob to its end and closes it without an error knows that
\* the blob is stored, its row and the repository's row included: blobTeeReadCloser waits
\* for the commit, and the store task ends well only after the last row.
THEOREM ClosesMeanStored ==
    ASSUME BlobSetting
    PROVE B!Spec => CloseMeansStored
<1>1. ASSUME BlobInv, [B!Next]_B!vars, NEW p \in Requests, req[p].body = "tee", req'[p].result = "ok"
      PROVE object /\ blobRow /\ repoRow
  <2>1. req[p].result = "none" BY <1>1 DEF BlobInv, RequestInv, Resulting
  <2>2. ASSUME NEW q \in Requests, B!CloseBody(q) PROVE object /\ blobRow /\ repoRow
    <3>1. PICK ok \in BOOLEAN : req' = B!Closed(q, ok) BY <2>2 DEF B!CloseBody
    <3>2. p = q BY <1>1, <2>1, <3>1 DEF B!Closed, BlobInv, BlobTypes
    <3> DEFINE res == IF ok /\ (req[q].body = "tee" => task[q] = "ok") THEN "ok" ELSE "error"
    <3>3. req'[q] = [B!NewRequest EXCEPT !.pc = "done", !.kind = req[q].kind, !.result = res]
      BY <1>1, <3>1 DEF B!Closed, BlobInv, BlobTypes
    <3>4. req'[q].result = res
      <4> HIDE DEF res
      <4> QED BY <3>3 DEF B!NewRequest
    <3>5. task[q] = "ok" BY <1>1, <3>2, <3>4
    <3> QED BY <1>1, <3>5 DEF BlobInv, RequestInv, Wrote
  <2>3. ASSUME NEW q \in Requests,
               \/ (\E at : B!Go(q, at)) \/ B!Fail(q)
               \/ (\E b \in {"none", "small", "stored", "raw", "tee", "fallback"} : B!Serve(q, b))
               \/ B!Begin(q) \/ B!WaitFill(q) \/ B!WaitRange(q) \/ B!Ongoing(q) \/ B!ReadEOF(q) \/ B!FallbackEnds(q) \/ UNCHANGED req
               \/ \E kind \in Kinds[q] : B!Start(q, kind)
        PROVE FALSE
    BY <1>1, <2>1, <2>3, ResultsComeFromClose
  <2>4. ASSUME NEW q \in Requests, B!Look(q) \/ B!Bypass(q) \/ B!AcquireLease(q) \/ B!LeaseUnavailable(q) \/ B!Recheck(q) \/ B!Stream(q) PROVE FALSE
    BY <2>3, <2>4 DEF B!Look, B!Bypass, B!AcquireLease, B!LeaseUnavailable, B!Recheck, B!Stream
  <2>5. ASSUME NEW q \in Requests,
               \/ B!PutObject(q) \/ B!PutFails(q) \/ B!RecordBlob(q) \/ B!RecordRepoBlob(q)
               \/ B!FetchAndStore(q) \/ B!Stored(q) \/ B!OpenStored(q) \/ B!Fallback(q) \/ B!FetchFallback(q) \/ B!ContextEnds(q)
        PROVE FALSE
    BY <2>3, <2>5 DEF B!PutObject, B!PutFails, B!RecordBlob, B!RecordRepoBlob, B!FetchAndStore, B!Stored, B!OpenStored,
       B!Fallback, B!FetchFallback, B!ContextEnds
  <2>6. CASE B!LeaseExpires \/ B!LostLeaseExpires \/ B!Finished \/ UNCHANGED B!vars
    BY <1>1, <2>3, <2>6 DEF B!LeaseExpires, B!LostLeaseExpires, B!Finished, B!vars
  <2> QED BY <1>1, <2>2, <2>3, <2>4, <2>5, <2>6 DEF B!Next, B!Step, B!Fault
<1>2. BlobInv /\ [B!Next]_B!vars =>
        [\A q \in Requests : req[q].body = "tee" /\ req'[q].result = "ok" => object /\ blobRow /\ repoRow]_B!vars
  BY <1>1
<1>3. B!Init => BlobInv BY BlobInit
<1>4. BlobInv /\ [B!Next]_B!vars => BlobInv' BY BlobNext
<1> QED BY <1>2, <1>3, <1>4, PTL DEF B!Spec, CloseMeansStored, B!CloseMeansStored
=============================================================================
