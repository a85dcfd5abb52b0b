------------------------------ MODULE SlService ------------------------------
(***************************************************************************)
(* What Streamline demands of the crate: between one successful slInit and *)
(* the one slShutdown that answers it, a device before any call on a       *)
(* feature, and no shutdown of a generation nobody tried to switch off.    *)
(* Who owns the API, and which call failed, is not said here.              *)
(***************************************************************************)
VARIABLES
  up,          \* slInit succeeded and slShutdown did not run
  device,      \* slSetD3DDevice succeeded
  generation   \* "off" | "on" | "refused": on, and asked in vain to stop

vars == <<up, device, generation>>

Init == up = FALSE /\ device = FALSE /\ generation = "off"

Start == ~up /\ up' = TRUE /\ device' = FALSE /\ generation' = "off"

SetDevice == up /\ device' = TRUE /\ UNCHANGED <<up, generation>>

\* slDLSSGSetOptions, with a mode that generates or with eOff.
SetOptions ==
  /\ up /\ device
  /\ generation' \in {"off", "on", "refused"}
  /\ generation' = "refused" => generation # "off"
  /\ UNCHANGED <<up, device>>

Stop ==
  /\ up /\ generation # "on"
  /\ up' = FALSE /\ device' = FALSE /\ generation' = "off"

Next == Start \/ SetDevice \/ SetOptions \/ Stop

Spec == Init /\ [][Next]_vars
=============================================================================
