----------------------------- MODULE MCFgContext -----------------------------
(* FgContext on small numbers of calls, which the configuration gives.        *)
EXTENDS FgContext
=============================================================================
