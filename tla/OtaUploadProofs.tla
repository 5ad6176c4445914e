--------------------------- MODULE OtaUploadProofs ---------------------------
(***************************************************************************)
(* NoFirmwareLost and ExactImage hold for every length of header, image and *)
(* delimiter and every way of cutting the body into chunks.                 *)
(***************************************************************************)
EXTENDS OtaUpload, TLAPS

(* Between two chunks the flash ends where the tail begins, the tail ends    *)
(* where the body received so far ends, and before the first chunk both are  *)
(* empty at the end of the part header.                                      *)
Receiving ==
    /\ flash.end = tail.lo
    /\ tail.lo <= tail.hi
    /\ IF header_skipped THEN tail.hi = Received ELSE tail.hi = Hdr /\ tail.lo = Hdr

(* The last chunk's tail reaches back to the image if the chunk did.         *)
AllReceived ==
    /\ flash.end = tail.lo
    /\ tail.lo <= tail.hi
    /\ tail.hi = Body
    /\ lastFrom <= ImageEnd => tail.lo <= ImageEnd

Written ==
    /\ flash.end >= ImageEnd
    /\ lastFrom <= ImageEnd => flash.end = ImageEnd

IInv ==
    /\ TypeOK
    /\ ~flash.torn
    /\ pc \in {"check", "recv"} => Receiving
    /\ pc = "finish" => AllReceived
    /\ Flashed => Written

(* The body's layout: every offset is a natural number and the trailer fits  *)
(* in what is held back.                                                     *)
LEMMA Layout ==
    /\ ImageEnd \in Nat /\ MarkAt \in Nat /\ Body \in Nat
    /\ Hdr <= ImageEnd /\ MarkAt = ImageEnd + 2
    /\ MarkAt + Mark < Body
    /\ Body <= ImageEnd + HoldBack
    /\ HoldBack \in Nat
  BY OtaAssumption DEF ImageEnd, MarkAt, Body, HoldBack

(* A write that starts where the flash ends extends it without a hole.       *)
LEMMA WriteExtends ==
    ASSUME NEW f \in [end : Nat, torn : BOOLEAN], NEW lo \in Nat, NEW hi \in Nat,
           f.end = lo, ~f.torn
    PROVE  /\ Write(f, lo, hi).end = hi
           /\ ~Write(f, lo, hi).torn
           /\ Write(f, lo, hi) = [end |-> hi, torn |-> FALSE]
  BY DEF Write

(* Initially nothing has been received, held back or written.                *)
LEMMA InitIInv == Init => IInv
<1> SUFFICES ASSUME Init PROVE IInv
  OBVIOUS
<1>1. Hdr \in 0..Body /\ Body \in 0..Body /\ 0 \in 0..Body
  BY Layout, OtaAssumption
<1>2. TypeOK
  BY <1>1 DEF Init, TypeOK
<1>3. Receiving
  BY OtaAssumption DEF Init, Receiving
<1> QED BY <1>2, <1>3 DEF IInv, Init, Flashed

(* A chunk keeps the flash and the tail contiguous.                          *)
LEMMA ChunkIInv ==
    ASSUME IInv, NEW n \in 1..RecvBufSize, RecvChunk(n)
    PROVE  IInv'
<1> DEFINE to == Received + n
<1> USE Layout, OtaAssumption
<1>1. /\ pc = "recv" /\ Receiving /\ TypeOK /\ ~flash.torn
      /\ n \in Nat /\ n >= 1 /\ n <= remaining
      /\ remaining \in Nat /\ remaining <= Body
  BY DEF IInv, RecvChunk, TypeOK
<1>2. /\ Received \in Nat /\ to \in Nat /\ to <= Body
      /\ to = Body - (remaining - n)
  BY <1>1 DEF Received
<1>3. /\ DataFrom \in Nat /\ DataFrom = tail.hi /\ DataFrom <= to
      /\ DataFrom = Received \/ DataFrom = Hdr
  BY <1>1, <1>2 DEF RecvChunk, Receiving, DataFrom, TypeOK, Received
<1>4. /\ TailFrom(to) \in Nat /\ DataFrom <= TailFrom(to) /\ TailFrom(to) <= to
      /\ TailFrom(to) = DataFrom \/ TailFrom(to) = to - HoldBack
  <2>1. CASE to - DataFrom <= HoldBack
    BY <2>1, <1>2, <1>3 DEF TailFrom
  <2>2. CASE ~(to - DataFrom <= HoldBack)
    BY <2>2, <1>2, <1>3 DEF TailFrom
  <2> QED BY <2>1, <2>2
<1>5. /\ flash' = Write(FlushTail(flash), DataFrom, TailFrom(to))
      /\ tail' = [lo |-> TailFrom(to), hi |-> to]
      /\ lastFrom' = Received
      /\ header_skipped' = TRUE
      /\ remaining' = remaining - n
      /\ pc' = IF n = remaining THEN "finish" ELSE "recv"
      /\ ota' = ota /\ boot' = boot
  BY DEF RecvChunk
<1>6. flash' = [end |-> TailFrom(to), torn |-> FALSE]
  <2>1. /\ flash \in [end : Nat, torn : BOOLEAN]
        /\ tail.lo \in Nat /\ tail.hi \in Nat /\ flash.end = tail.lo
    BY <1>1 DEF TypeOK, Receiving
  <2>2. FlushTail(flash) = [end |-> tail.hi, torn |-> FALSE]
    BY <2>1, <1>1 DEF FlushTail, Write
  <2> DEFINE g == [end |-> DataFrom, torn |-> FALSE]
  <2>3. g \in [end : Nat, torn : BOOLEAN] /\ g.end = DataFrom /\ ~g.torn
    BY <1>3
  <2>4. Write(g, DataFrom, TailFrom(to)) = [end |-> TailFrom(to), torn |-> FALSE]
    BY <2>3, <1>3, <1>4, WriteExtends
  <2> QED BY <2>2, <2>4, <1>3, <1>5
<1>7. TypeOK'
  <2>1. /\ TailFrom(to) \in 0..Body /\ to \in 0..Body
        /\ Received \in 0..Body /\ remaining - n \in 0..Body
    BY <1>1, <1>2, <1>3, <1>4
  <2>2. pc' \in {"recv", "finish"}
    BY <1>5
  <2>3. /\ tail' \in [lo : 0..Body, hi : 0..Body]
        /\ flash' \in [end : 0..Body, torn : BOOLEAN]
    <3> HIDE Layout, OtaAssumption DEF to
    <3>1. tail' = [lo |-> TailFrom(to), hi |-> to]
      BY <1>5
    <3>2. flash' = [end |-> TailFrom(to), torn |-> FALSE]
      BY <1>6
    <3> QED BY <2>1, <3>1, <3>2
  <2> QED BY <2>1, <2>2, <2>3, <1>1, <1>5 DEF TypeOK
<1>8. Received' = to
  BY <1>2, <1>5 DEF Received, Body, MarkAt, ImageEnd
<1>9. pc' \in {"check", "recv"} => Receiving'
  BY <1>4, <1>5, <1>6, <1>8 DEF Receiving
<1>10. pc' = "finish" => AllReceived'
  <2> SUFFICES ASSUME pc' = "finish" PROVE AllReceived'
    OBVIOUS
  <2>1. to = Body
    BY <1>1, <1>2, <1>5
  <2>2. Received <= ImageEnd => TailFrom(to) <= ImageEnd
    BY <2>1, <1>2, <1>3, <1>4
  <2> QED BY <2>1, <2>2, <1>4, <1>5, <1>6 DEF AllReceived, Body, ImageEnd, MarkAt
<1>11. ~Flashed'
  BY <1>5 DEF Flashed
<1> QED BY <1>6, <1>7, <1>9, <1>10, <1>11 DEF IInv

(* What Finish writes ends at the image's end, or in the trailer when the    *)
(* last chunk began there.                                                   *)
LEMMA FinishIInv == ASSUME IInv, Finish PROVE IInv'
<1> USE Layout, OtaAssumption
<1>1. /\ AllReceived /\ TypeOK /\ ~flash.torn
      /\ flash' = Write(flash, tail.lo, Stripped) /\ pc' = "end"
      /\ UNCHANGED <<ota, remaining, header_skipped, tail, lastFrom, boot>>
  BY DEF IInv, Finish
<1>2. /\ tail.lo \in Nat /\ tail.hi = Body /\ tail.lo <= Body /\ flash.end = tail.lo
      /\ flash \in [end : Nat, torn : BOOLEAN]
  BY <1>1 DEF AllReceived, TypeOK
<1>3. /\ Stripped \in Nat /\ tail.lo <= Stripped /\ Stripped <= Body
      /\ tail.lo <= ImageEnd => Stripped = ImageEnd
  <2>1. CASE MarkFound
    <3>1. RealEnd = MarkAt /\ tail.lo <= MarkAt /\ EndsInCrlf
      BY <2>1 DEF RealEnd, MarkFound, EndsInCrlf
    <3> QED BY <3>1, <1>2 DEF Stripped
  <2>2. CASE ~MarkFound
    <3>1. RealEnd = Body /\ ~(tail.lo <= MarkAt)
      BY <2>2, <1>2 DEF RealEnd, MarkFound
    <3>2. Stripped = Body \/ (Stripped = Body - 2 /\ tail.lo + 2 <= Body)
      BY <3>1, <1>2 DEF Stripped
    <3> QED BY <3>1, <3>2, <1>2
  <2> QED BY <2>1, <2>2
<1>4. flash' = [end |-> Stripped, torn |-> FALSE]
  BY <1>1, <1>2, <1>3, WriteExtends
<1>5. TypeOK'
  BY <1>1, <1>3, <1>4 DEF TypeOK
<1>6. Written'
  <2>1. Stripped >= ImageEnd
    BY <1>2, <1>3
  <2>2. lastFrom <= ImageEnd => Stripped = ImageEnd
    BY <1>1, <1>3 DEF AllReceived
  <2> QED BY <2>1, <2>2, <1>1, <1>4 DEF Written, ImageEnd
<1> QED BY <1>1, <1>4, <1>5, <1>6 DEF IInv, Flashed

(* The other actions write nothing.                                          *)
LEMMA RestIInv ==
    ASSUME IInv, Reject \/ Begin \/ Abort \/ End \/ SetBoot \/ UNCHANGED vars
    PROVE  IInv'
<1> USE DEF IInv, TypeOK, Receiving, AllReceived, Written, Flashed, Received, Body, MarkAt, ImageEnd
<1>1. CASE Reject BY <1>1 DEF Reject
<1>2. CASE Begin BY <1>2 DEF Begin
<1>3. CASE Abort BY <1>3 DEF Abort
<1>4. CASE End BY <1>4 DEF End
<1>5. CASE SetBoot BY <1>5 DEF SetBoot
<1>6. CASE UNCHANGED vars BY <1>6 DEF vars
<1> QED BY <1>1, <1>2, <1>3, <1>4, <1>5, <1>6

(* The inductive invariant holds throughout.                                 *)
THEOREM Contiguous == Spec => []IInv
<1>1. IInv /\ [Next]_vars => IInv'
  BY ChunkIInv, FinishIInv, RestIInv DEF Next
<1> QED BY InitIInv, <1>1, PTL DEF Spec

(* Type correctness of the upload handler.                                   *)
THEOREM TypeCorrect == Spec => []TypeOK
<1>1. IInv => TypeOK BY DEF IInv
<1> QED BY <1>1, Contiguous, PTL

(* The whole image reaches the flash, in order, whatever the chunks.         *)
THEOREM FirmwareKept == Spec => []NoFirmwareLost
<1>1. IInv => NoFirmwareLost BY DEF IInv, NoFirmwareLost, Written
<1> QED BY <1>1, Contiguous, PTL

(* Nothing else does when the last chunk brings the whole trailer.           *)
THEOREM ImageExact == Spec => []ExactImage
<1>1. IInv => ExactImage BY DEF IInv, ExactImage, Written
<1> QED BY <1>1, Contiguous, PTL

-----------------------------------------------------------------------------
(* The handle is open exactly while the handler receives and ends the upload, *)
(* and the boot partition is chosen only behind a successful end.             *)
HandleLife ==
    /\ pc = "check" => ota = "none"
    /\ pc \in {"recv", "finish", "end"} => ota = "open"
    /\ pc \in {"boot", "ok"} => ota = "ended"
    /\ pc = "failed" => ota # "open"
    /\ boot => pc = "ok"

LEMMA HandleLifeStep == HandleLife /\ [Next]_vars => HandleLife'
<1> SUFFICES ASSUME HandleLife, [Next]_vars PROVE HandleLife'
  OBVIOUS
<1> USE DEF HandleLife
<1>1. CASE Reject BY <1>1 DEF Reject
<1>2. CASE Begin BY <1>2 DEF Begin
<1>3. CASE Abort BY <1>3 DEF Abort
<1>4. CASE \E n \in 1..RecvBufSize : RecvChunk(n) BY <1>4 DEF RecvChunk
<1>5. CASE Finish BY <1>5 DEF Finish
<1>6. CASE End BY <1>6 DEF End
<1>7. CASE SetBoot BY <1>7 DEF SetBoot
<1>8. CASE UNCHANGED vars BY <1>8 DEF vars
<1> QED BY <1>1, <1>2, <1>3, <1>4, <1>5, <1>6, <1>7, <1>8 DEF Next

(* No path through the handler leaves the OTA handle open, and none switches  *)
(* the boot partition without having ended the upload.                        *)
THEOREM NoHandleLeft == Spec => []HandleClosed
<1>1. Init => HandleLife
  BY DEF Init, HandleLife
<1>2. HandleLife => HandleClosed
  BY DEF HandleLife, HandleClosed
<1> QED BY <1>1, <1>2, HandleLifeStep, PTL DEF Spec
=============================================================================
