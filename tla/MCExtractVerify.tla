--------------------------- MODULE MCExtractVerify ---------------------------
(* Instances for TLC.  MCExtractVerify.cfg: two runs with payloads, one of each
   format, one run without, and the user.  MCExtractOverwrite.cfg: one run with
   payloads and one without. *)
EXTENDS ExtractVerify
=============================================================================
