----------------------------- MODULE MCOtaUpload -----------------------------
(* An image of 30 bytes, a delimiter of 3 and chunks of up to 20: a chunk   *)
(* may be shorter than the trailer, shorter than what is held back, or      *)
(* longer than both.                                                        *)
EXTENDS OtaUpload
=============================================================================
