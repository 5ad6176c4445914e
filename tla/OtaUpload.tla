------------------------------ MODULE OtaUpload ------------------------------
(***************************************************************************)
(* HandlerOtaPost (src/WiFiPan_Portal.cpp): a firmware image arrives as the *)
(* single part of a multipart/form-data body and is written to flash while  *)
(* it arrives.  A byte is its offset in the body, which is laid out as      *)
(*                                                                          *)
(*    0           Hdr             Hdr+Img    +2             +Mark     Body  *)
(*    | part header | image ....... | CR LF  | "--boundary" | "--" CR LF |  *)
(*                                                                          *)
(* and a buffer is an interval lo..hi-1 of offsets.  The trailer length is  *)
(* Mark + 4, or Mark + 6 when the client ends it with CR LF.  The boundary  *)
(* does not occur inside the image (RFC 2046 asks that of every client).    *)
(***************************************************************************)
EXTENDS Naturals

CONSTANTS
    Hdr,         \* length of the first boundary line and the part's headers
    Img,         \* length of the firmware image
    Mark,        \* boundary_len
    FinalCrlf,   \* the client sends CR LF after the closing delimiter
    Margin,      \* kOtaTailMargin
    RecvBufSize  \* kOtaRecvBufSize

(* The margin holds what follows and precedes the delimiter: 64 in the code. *)
ASSUME OtaAssumption ==
    /\ Hdr \in Nat \ {0} /\ Img \in Nat /\ Mark \in Nat \ {0}
    /\ FinalCrlf \in BOOLEAN
    /\ Margin \in Nat /\ Margin >= 6
    /\ RecvBufSize \in Nat \ {0}

ImageEnd == Hdr + Img
MarkAt == ImageEnd + 2
Body == MarkAt + Mark + (IF FinalCrlf THEN 4 ELSE 2)

VARIABLES
    pc,              \* where the handler is
    ota,             \* the OTA handle
    remaining,       \* bytes of the body not received yet
    header_skipped,
    tail,            \* the bytes held back, [lo, hi]
    flash,           \* what was written: it ends at offset end; torn once a
                     \* write does not continue the one before
    lastFrom,        \* history: offset at which the last chunk began
    boot             \* the new partition is selected for the next boot

vars == <<pc, ota, remaining, header_skipped, tail, flash, lastFrom, boot>>

TypeOK ==
    /\ pc \in {"check", "recv", "finish", "end", "boot", "failed", "ok"}
    /\ ota \in {"none", "open", "ended", "aborted"}
    /\ remaining \in 0..Body
    /\ header_skipped \in BOOLEAN
    /\ tail \in [lo : 0..Body, hi : 0..Body]
    /\ flash \in [end : 0..Body, torn : BOOLEAN]
    /\ lastFrom \in 0..Body
    /\ boot \in BOOLEAN

Init ==
    /\ pc = "check"
    /\ ota = "none"
    /\ remaining = Body
    /\ header_skipped = FALSE
    /\ tail = [lo |-> Hdr, hi |-> Hdr]
    /\ flash = [end |-> Hdr, torn |-> FALSE]
    /\ lastFrom = 0
    /\ boot = FALSE

(* Token, length, boundary, partition or esp_ota_begin refuse the request.  *)
Reject ==
    /\ pc = "check"
    /\ pc' = "failed"
    /\ UNCHANGED <<ota, remaining, header_skipped, tail, flash, lastFrom, boot>>

Begin ==
    /\ pc = "check"
    /\ ota' = "open"
    /\ pc' = "recv"
    /\ UNCHANGED <<remaining, header_skipped, tail, flash, lastFrom, boot>>

AbortLeavingHandle ==
    /\ pc \in {"recv", "finish"}
    /\ pc' = "failed"
    /\ UNCHANGED <<ota, remaining, header_skipped, tail, flash, lastFrom, boot>>

(* No memory for the buffers, a receive error, a failed write, no header in *)
(* the first chunk: the handle is aborted.                                   *)
Abort ==
    /\ pc \in {"recv", "finish"}
    /\ ota' = "aborted"
    /\ pc' = "failed"
    /\ UNCHANGED <<remaining, header_skipped, tail, flash, lastFrom, boot>>

Received == Body - remaining
HoldBack == Mark + Margin

(* esp_ota_write of lo..hi-1.                                                *)
Write(f, lo, hi) ==
    IF lo = hi THEN f ELSE [end |-> hi, torn |-> f.torn \/ f.end # lo]

FlushTailDropped(f) == f

FlushTail(f) == Write(f, tail.lo, tail.hi)

DataFrom == IF header_skipped THEN Received ELSE Hdr

TailFromUnchecked(to) == to - HoldBack

(* Of a chunk that ends at offset to, the last HoldBack bytes are held back. *)
TailFrom(to) == IF to - DataFrom <= HoldBack THEN DataFrom ELSE to - HoldBack

(* httpd_req_recv returns any number of the bytes asked for.  The tail held  *)
(* back so far is written before the new chunk is looked at.                 *)
RecvChunk(n) ==
    LET to == Received + n
    IN  /\ pc = "recv"
        /\ n <= remaining /\ n <= RecvBufSize
        /\ header_skipped \/ to >= Hdr
        /\ remaining' = remaining - n
        /\ header_skipped' = TRUE
        /\ flash' = Write(FlushTail(flash), DataFrom, TailFrom(to))
        /\ tail' = [lo |-> TailFrom(to), hi |-> to]
        /\ lastFrom' = Received
        /\ pc' = IF n = remaining THEN "finish" ELSE "recv"
        /\ UNCHANGED <<ota, boot>>

MarkFound == tail.lo <= MarkAt /\ MarkAt + Mark <= tail.hi
RealEnd == IF MarkFound THEN MarkAt ELSE tail.hi
EndsInCrlf == RealEnd = MarkAt \/ (RealEnd = Body /\ FinalCrlf)
StrippedKeepingCrlf == RealEnd

Stripped == IF RealEnd >= tail.lo + 2 /\ EndsInCrlf THEN RealEnd - 2 ELSE RealEnd

(* The delimiter is looked for in the tail, the CR LF before it dropped, and *)
(* what is left of the tail written.                                         *)
Finish ==
    /\ pc = "finish"
    /\ flash' = Write(flash, tail.lo, Stripped)
    /\ pc' = "end"
    /\ UNCHANGED <<ota, remaining, header_skipped, tail, lastFrom, boot>>

(* esp_ota_end frees the handle whether or not the image is valid.           *)
End ==
    /\ pc = "end"
    /\ ota' = "ended"
    /\ pc' \in {"boot", "failed"}
    /\ UNCHANGED <<remaining, header_skipped, tail, flash, lastFrom, boot>>

SetBoot ==
    /\ pc = "boot"
    /\ \/ boot' = TRUE /\ pc' = "ok"
       \/ UNCHANGED boot /\ pc' = "failed"
    /\ UNCHANGED <<ota, remaining, header_skipped, tail, flash, lastFrom>>

Next ==
    \/ Reject \/ Begin \/ Abort \/ Finish \/ End \/ SetBoot
    \/ \E n \in 1..RecvBufSize : RecvChunk(n)

Spec == Init /\ [][Next]_vars

-----------------------------------------------------------------------------
(* Properties *)

Flashed == pc \in {"end", "boot", "ok"}

(* However the body is cut into chunks, the whole image reaches the flash,   *)
(* in order and without a hole.                                              *)
NoFirmwareLost == Flashed => ~flash.torn /\ flash.end >= ImageEnd

(* If the last chunk brings the whole trailer, nothing but the image does; if *)
(* it begins inside the trailer, what was held back has been flashed by then. *)
ExactImage == Flashed /\ lastFrom <= ImageEnd => flash.end = ImageEnd

(* No answer is given with the OTA handle left open, and the boot partition  *)
(* is switched only after an upload that was ended, never an aborted one.    *)
HandleClosed == pc \in {"failed", "ok"} => ota # "open" /\ (boot => ota = "ended")
=============================================================================
