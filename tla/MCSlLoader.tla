----------------------------- MODULE MCSlLoader -----------------------------
(* SlLoader with one plugin, one shim name and three contents: NVIDIA's DLL, one  *)
(* that fails every check there is but can be waved through (its signer is        *)
(* revoked and not NVIDIA, and it lacks an export), and an unsigned one.          *)
EXTENDS SlLoader

CONSTANTS Sound, Suspect, Unsigned

MCTrust == [c \in Contents |->
  CASE c = Suspect -> "revoked" [] c = Unsigned -> "untrusted" [] OTHER -> "valid"]

MCSigner == [c \in Contents |-> IF c = Sound THEN "NVIDIA" ELSE "other"]

MCComplete == [c \in Contents |-> c = Sound]

MCPlugins == <<"sl.common.dll">>
MCShimNames == {"dxgi.dll"}
=============================================================================
