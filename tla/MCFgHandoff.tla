----------------------------- MODULE MCFgHandoff -----------------------------
(* FgHandoff on the outputs and settings of MCUpscaler.                       *)
EXTENDS FgHandoff, MCUpscaler
=============================================================================
