----------------------------- MODULE MCUpscaler -----------------------------
(* Upscaler with an output for each quality that Auto chooses, and NGX's       *)
(* answers at half, a third and all of the output.  Each output has an answer  *)
(* with a range, as the properties of the answers alone depend on their ratio. *)
EXTENDS Upscaler

MCOutputs == {<<1280, 720>>, <<1920, 1080>>, <<3840, 1600>>, <<3840, 2160>>}

Scaled(o, k) == <<o[1] \div k, o[2] \div k>>

MCDivisors(o) ==
  IF o = <<1280, 720>>
  THEN {<<2, 2, 2>>, <<3, 2, 1>>, <<3, 3, 2>>, <<1, 1, 1>>} ELSE {<<3, 2, 1>>}

MCSettings == [o \in MCOutputs |->
  {[min |-> Scaled(o, k[1]), optimal |-> Scaled(o, k[2]), max |-> Scaled(o, k[3])] :
     k \in MCDivisors(o)}]

\* One output that Auto upscales to, and one answer: it has a range above the optimum.
MCUpscaled == {<<1920, 1080>>}

MCUpscaledSettings == [o \in MCUpscaled |-> MCSettings[o]]

MCScales == {<<2, 3>>}
=============================================================================
