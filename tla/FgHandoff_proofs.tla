--------------------------- MODULE FgHandoff_proofs ---------------------------
(***************************************************************************)
(* What an upscaler and frame generation are handed in a frame, for every  *)
(* resolution, every answer of NGX and every choice of optional inputs.    *)
(***************************************************************************)
EXTENDS FgHandoff, TLAPS, WellFoundedInduction

\* A context's roles, and a texture and a state for each once they are allocated.
RolesInv ==
  /\ phase # "none" => create.kind \in {"SR", "RR"}
  /\ phase \in {"allocated", "drawn"} => DOMAIN state = Roles(create.kind)
  /\ eval # Nothing => phase = "drawn"

\* An accepted evaluate found its textures, and left each in the state NGX needs.
EvalInv ==
  eval # Nothing =>
    /\ eval.bound \subseteq Roles(create.kind)
    /\ Shared \subseteq eval.bound
    /\ \A r \in eval.bound : state[r] = BarrierState(r)
    /\ \A r \in Required(create.kind) : tex[r] # Nothing
    /\ eval.mvScale = IF eval.givenScale = Nothing THEN <<1, 1>> ELSE eval.givenScale

\* A context that exists is one NGX took.
CreateInv ==
  /\ phase = "none" => create = Nothing
  /\ phase # "none" => ~NgxRefuses(create) /\ DlaaDoesNotUpscale(create, res)

\* Tags and constants are of the frame the evaluate is of.
HandedInv ==
  /\ \A i \in DOMAIN tagged : tagged[i].state = DefaultState
  /\ constants # Nothing => eval # Nothing /\ constants.mvec_num = eval.mvScale

HandoffInv == RolesInv /\ EvalInv /\ CreateInv /\ HandedInv

-----------------------------------------------------------------------------
\* The quality of a context is one NGX has.
LEMMA QualityIsPinned ==
  ASSUME NEW mode \in Modes, NEW out
  PROVE  PerfQuality(mode, out) \in PinnedPresets
<1>1. AutoQuality(out) \in PinnedPresets
  BY DEF AutoQuality, PinnedPresets
<1> QED
  BY <1>1 DEF PerfQuality, Modes, PinnedPresets

\* What is bound is transitioned, and every required texture is bound.
LEMMA BoundIsTransitioned ==
  ASSUME NEW kind \in {"SR", "RR"}, NEW manual \in BOOLEAN, NEW bias \in BOOLEAN
  PROVE  /\ Given(kind, manual, bias) \subseteq Barriers(kind, manual, bias)
         /\ Given(kind, manual, bias) \subseteq Roles(kind)
         /\ Shared \subseteq Given(kind, manual, bias)
BY DEF Given, Barriers, Roles, Shared

\* A creation is one NGX takes.
LEMMA CreateTaken ==
  ASSUME NEW kind \in {"SR", "RR"}, NEW mode \in Modes, NEW out, NEW flags \in SUBSET Flags,
         NEW packed \in BOOLEAN, NEW s
  PROVE  /\ CreateParams(kind, mode, out, flags, packed).kind = kind
         /\ ~NgxRefuses(CreateParams(kind, mode, out, flags, packed))
         /\ DlaaDoesNotUpscale(CreateParams(kind, mode, out, flags, packed),
                               Resolutions(mode, out, s))
<1> DEFINE c == CreateParams(kind, mode, out, flags, packed)
<1>1. /\ c.kind = kind /\ c.mode = mode /\ c.quality = PerfQuality(mode, out)
      /\ c.flags = AsFlags(WithForced(kind, flags))
      /\ c.presets = IF kind = "RR" THEN PinnedPresets ELSE {}
  BY DEF CreateParams
<1>2. "OutputSubrect" \notin c.flags
  BY <1>1 DEF AsFlags
<1>3. kind = "RR" => {"HighDynamicRange", "LowResolutionMotionVectors"} \subseteq c.flags
  BY <1>1 DEF AsFlags, WithForced
<1>4. kind = "RR" => c.quality \in c.presets
  BY <1>1, QualityIsPinned
<1>5. mode = "Dlaa" => c.quality = "DLAA"
  BY <1>1 DEF PerfQuality
<1>6. mode = "Dlaa" =>
        \A k \in {"optimal", "min", "max"} :
          Resolutions(mode, out, s)[k] = Resolutions(mode, out, s).upscaled
  BY DEF Resolutions
<1> HIDE DEF c
<1>7. ~NgxRefuses(c)
  BY <1>1, <1>2, <1>3, <1>4 DEF NgxRefuses
<1>8. DlaaDoesNotUpscale(c, Resolutions(mode, out, s))
  BY <1>1, <1>5, <1>6 DEF DlaaDoesNotUpscale
<1> QED
  BY <1>1, <1>7, <1>8 DEF c

-----------------------------------------------------------------------------
\* Every step keeps the invariant.
LEMMA HandoffNextInv == HandoffInv /\ [HandoffNext]_<<vars, fgVars>> => HandoffInv'
<1> SUFFICES ASSUME HandoffInv, [HandoffNext]_<<vars, fgVars>>
             PROVE  HandoffInv'
  OBVIOUS
<1> USE DEF HandoffInv, fgVars
<1>1. CASE Create /\ UNCHANGED fgVars
  <2>1. CASE UNCHANGED <<phase, create, res>>
    BY <1>1, <2>1 DEF Create, RolesInv, EvalInv, CreateInv, HandedInv
  <2>2. ASSUME NEW kind \in {"SR", "RR"}, NEW mode \in Modes, NEW out \in Outputs,
               NEW flags \in SUBSET Flags, NEW packed \in BOOLEAN, NEW s \in Settings[out],
               phase = "none", phase' = "created",
               create' = CreateParams(kind, mode, out, flags, packed),
               res' = Resolutions(mode, out, s), UNCHANGED <<tex, state, eval, fgVars>>
        PROVE  HandoffInv'
    <3>1. eval = Nothing /\ constants = Nothing
      BY <2>2 DEF RolesInv, HandedInv
    <3>2. RolesInv'
      BY <2>2, <3>1, CreateTaken DEF RolesInv
    <3>3. CreateInv'
      BY <2>2, CreateTaken DEF CreateInv
    <3>4. EvalInv' /\ HandedInv'
      BY <2>2, <3>1 DEF EvalInv, HandedInv
    <3> QED
      BY <3>2, <3>3, <3>4
  <2> QED
    BY <1>1, <2>1, <2>2 DEF Create
<1>2. CASE Allocate /\ UNCHANGED fgVars
  <2>1. phase = "created" /\ phase' = "allocated" /\ UNCHANGED <<create, res, eval, fgVars>>
        /\ state' = [r \in Roles(create.kind) |-> "UNINITIALIZED"]
    BY <1>2 DEF Allocate
  <2>2. eval = Nothing
    BY <2>1 DEF RolesInv
  <2> QED
    BY <2>1, <2>2 DEF RolesInv, EvalInv, CreateInv, HandedInv, Roles
<1>3. CASE Render /\ UNCHANGED fgVars
  <2>1. phase = "drawn" /\ eval = Nothing /\ UNCHANGED <<phase, create, res, tex, fgVars>>
    BY <1>3 DEF Render
  <2>2. CASE UNCHANGED <<state, eval>>
    BY <2>1, <2>2 DEF RolesInv, EvalInv, CreateInv, HandedInv
  <2>3. ASSUME NEW manual \in BOOLEAN, NEW bias \in BOOLEAN,
               NEW partial \in {Nothing, res.min, res.optimal}, NEW scale,
               partial # Nothing => Drawable(partial),
               \A r \in Required(create.kind) : tex[r] # Nothing,
               state' = [r \in DOMAIN state |->
                           IF r \in Barriers(create.kind, manual, bias)
                           THEN BarrierState(r) ELSE state[r]],
               eval' = [bound |-> Given(create.kind, manual, bias),
                        subrect |-> Subrect(partial),
                        mvScale |-> IF scale = Nothing THEN <<1, 1>> ELSE scale,
                        givenScale |-> scale]
        PROVE  HandoffInv'
    <3>1. create.kind \in {"SR", "RR"} /\ DOMAIN state = Roles(create.kind)
      BY <2>1 DEF RolesInv
    <3>2. /\ eval'.bound = Given(create.kind, manual, bias)
          /\ eval'.mvScale = IF eval'.givenScale = Nothing THEN <<1, 1>> ELSE eval'.givenScale
      BY <2>3
    <3>3. RolesInv' /\ CreateInv'
      BY <2>1, <2>3, <3>1 DEF RolesInv, CreateInv
    <3>4. HandedInv'
      BY <2>1 DEF HandedInv
    <3>5. \A r \in eval'.bound : state'[r] = BarrierState(r)
      BY <2>3, <3>1, <3>2, BoundIsTransitioned
    <3>6. eval'.bound \subseteq Roles(create.kind) /\ Shared \subseteq eval'.bound
      BY <3>1, <3>2, BoundIsTransitioned
    <3>7. EvalInv'
      BY <2>1, <2>3, <3>2, <3>5, <3>6 DEF EvalInv
    <3> QED
      BY <3>3, <3>4, <3>7
  <2> QED
    BY <1>3, <2>2, <2>3 DEF Render
<1>4. CASE DrawScene /\ tagged' = <<>> /\ constants' = Nothing
  <2>1. /\ phase \in {"allocated", "drawn"} /\ phase' = "drawn" /\ eval' = Nothing
        /\ DOMAIN state' = DOMAIN state /\ UNCHANGED <<create, res, tex>>
    BY <1>4 DEF DrawScene
  <2> QED
    BY <1>4, <2>1 DEF RolesInv, EvalInv, CreateInv, HandedInv
<1>5. CASE Drop /\ tagged' = <<>> /\ constants' = Nothing
  BY <1>5 DEF Drop, RolesInv, EvalInv, CreateInv, HandedInv
<1>6. CASE Tag
  <2>1. UNCHANGED <<phase, create, res, tex, state, eval, constants>>
    BY <1>6 DEF Tag, vars
  <2>2. \A i \in DOMAIN tagged' : tagged'[i].state = DefaultState
    BY <1>6 DEF Tag, Tags, HandedInv
  <2> QED
    BY <2>1, <2>2 DEF RolesInv, EvalInv, CreateInv, HandedInv
<1>7. CASE SetConstants
  <2>1. eval # Nothing /\ UNCHANGED <<phase, create, res, tex, state, eval, tagged>>
    BY <1>7 DEF SetConstants, vars
  <2>2. constants'.mvec_num = IF eval.givenScale = Nothing THEN <<1, 1>> ELSE eval.givenScale
    BY <1>7 DEF SetConstants, Derive
  <2> QED
    BY <2>1, <2>2 DEF RolesInv, EvalInv, CreateInv, HandedInv
<1>8. CASE UNCHANGED <<vars, fgVars>>
  BY <1>8 DEF vars, RolesInv, EvalInv, CreateInv, HandedInv
<1> QED
  BY <1>1, <1>2, <1>3, <1>4, <1>5, <1>6, <1>7, <1>8 DEF HandoffNext, UpscalerStep, NextFrame

LEMMA HandoffInductive == HandoffSpec => []HandoffInv
<1>1. HandoffInit => HandoffInv
  BY DEF HandoffInit, Init, HandoffInv, RolesInv, EvalInv, CreateInv, HandedInv
<1> QED
  BY <1>1, HandoffNextInv, PTL DEF HandoffSpec

\* NGX is asked for nothing that the crate knows it to refuse.
THEOREM CallsAreTaken == HandoffSpec => []NgxTakesCalls
<1>1. HandoffInv => NgxTakesCalls
  <2> SUFFICES ASSUME HandoffInv
               PROVE  NgxTakesCalls
    OBVIOUS
  <2>1. create # Nothing => ~NgxRefuses(create) /\ DlaaDoesNotUpscale(create, res)
    BY DEF HandoffInv, CreateInv
  <2>2. ASSUME eval # Nothing, NEW r \in eval.bound \ {"exposure", "bias", "roughness"}
        PROVE  tex[r] # Nothing
    BY <2>2 DEF HandoffInv, EvalInv, Required
  <2> QED
    BY <2>1, <2>2 DEF NgxTakesCalls
<1> QED
  BY <1>1, HandoffInductive, PTL

\* Every texture NGX reads is in the state it needs, whatever was drawn before.
THEOREM BoundIsReady == HandoffSpec => []BoundInNeededState
<1>1. HandoffInv => BoundInNeededState
  BY DEF HandoffInv, EvalInv, BoundInNeededState
<1> QED
  BY <1>1, HandoffInductive, PTL

\* A tag tells Streamline the state the upscaler has left a shared texture in.
THEOREM TagsAreTrue == HandoffSpec => []TagsTellTheState
<1>1. HandoffInv => TagsTellTheState
  <2> SUFFICES ASSUME HandoffInv, eval # Nothing, NEW i \in DOMAIN tagged,
                      tagged[i].texture \in Shared
               PROVE  tagged[i].state \in D3D12States(state[tagged[i].texture])
    BY DEF TagsTellTheState
  <2>1. tagged[i].state = "PIXEL_SHADER_RESOURCE"
    BY DEF HandoffInv, HandedInv, DefaultState
  <2>2. state[tagged[i].texture] = "RESOURCE"
    BY DEF HandoffInv, EvalInv, Shared, BarrierState
  <2> QED
    BY <2>1, <2>2 DEF D3D12States
<1> QED
  BY <1>1, HandoffInductive, PTL

\* Motion vectors mean the same to both features, at every resolution and scale.
THEOREM MotionIsSame == HandoffSpec => []SameMotion
<1>1. HandoffInv => SameMotion
  BY DEF HandoffInv, HandedInv, SameMotion
<1> QED
  BY <1>1, HandoffInductive, PTL

-----------------------------------------------------------------------------
(* The tags *)

\* A type is listed for each texture, and it is what the texture is.
Paired(textures, types) ==
  /\ Len(textures) <= Len(types)
  /\ \A i \in 1..Len(textures) : types[i] = Meaning[textures[i]]

\* Two pairings, one after the other, are one.
LEMMA PairedJoin ==
  ASSUME NEW S, NEW a \in Seq(S), NEW b \in Seq(S), NEW c \in Seq(S), NEW d \in Seq(S),
         Len(a) = Len(b), Paired(a, b), Paired(c, d)
  PROVE  Paired(a \o c, b \o d)
<1>1. /\ Len(a \o c) = Len(a) + Len(c) /\ Len(b \o d) = Len(b) + Len(d)
      /\ \A i \in 1..Len(a) : (a \o c)[i] = a[i]
      /\ \A i \in 1..Len(b) : (b \o d)[i] = b[i]
  BY SMTT(60)
<1>2. /\ \A i \in 1..Len(c) : (a \o c)[Len(a) + i] = c[i]
      /\ \A i \in 1..Len(d) : (b \o d)[Len(b) + i] = d[i]
  OBVIOUS
<1>3. ASSUME NEW i \in 1..Len(a \o c)
      PROVE  (b \o d)[i] = Meaning[(a \o c)[i]]
  <2>1. CASE i <= Len(a)
    BY <1>1, <2>1 DEF Paired
  <2>2. CASE ~(i <= Len(a))
    <3>1. PICK j \in 1..Len(c) : i = Len(a) + j
      <4>1. i - Len(a) \in 1..Len(c) /\ i = Len(a) + (i - Len(a))
        BY <1>1, <2>2
      <4> QED
        BY <4>1
    <3>2. j \in 1..Len(d) /\ d[j] = Meaning[c[j]]
      BY <3>1 DEF Paired
    <3>3. (a \o c)[i] = c[j] /\ (b \o d)[i] = d[j]
      BY <1>2, <3>1, <3>2
    <3> QED
      BY <3>2, <3>3
  <2> QED
    BY <2>1, <2>2
<1>4. Len(a \o c) <= Len(b \o d)
  BY <1>1 DEF Paired
<1> QED
  BY <1>3, <1>4 DEF Paired

\* Where the elements of two sequences are in the one after the other.
LEMMA Joined ==
  ASSUME NEW S, NEW s \in Seq(S), NEW t \in Seq(S)
  PROVE  /\ s \o t \in Seq(S) /\ Len(s \o t) = Len(s) + Len(t)
         /\ \A i \in 1..Len(s) : (s \o t)[i] = s[i]
OBVIOUS

\* The two lists of tags() go together.
LEMMA TagsPaired ==
  ASSUME NEW hudless \in BOOLEAN, NEW ui \in {Nothing, "ui_color_and_alpha", "ui_alpha"}
  PROVE  /\ Paired(Tagged(hudless, ui), BufferTypes(hudless, ui))
         /\ Len(Tagged(hudless, ui)) \in 2..4
         /\ Tagged(hudless, ui)[1] = "depth" /\ Tagged(hudless, ui)[2] = "motion_vectors"
<1> DEFINE S == DOMAIN Meaning \union {Meaning[r] : r \in DOMAIN Meaning}
           two == <<"depth", "motion_vectors">>
           two_types == <<"Depth", "MotionVectors">>
           hud == IF hudless THEN <<"hudless_color">> ELSE <<>>
           hud_types == IF hudless THEN <<"HUDLessColor">> ELSE <<>>
           over == IF ui = Nothing THEN <<>> ELSE <<ui>>
           over_types == CASE ui = "ui_color_and_alpha" -> <<"UIColorAndAlpha">>
                           [] ui = "ui_alpha" -> <<"UIAlpha">>
                           [] OTHER -> <<>>
<1>0. /\ "depth" \in S /\ "motion_vectors" \in S /\ "hudless_color" \in S
      /\ "ui_color_and_alpha" \in S /\ "ui_alpha" \in S
      /\ "Depth" \in S /\ "MotionVectors" \in S /\ "HUDLessColor" \in S
      /\ "UIColorAndAlpha" \in S /\ "UIAlpha" \in S
  BY DEF Meaning
<1> HIDE DEF S
<1>1. /\ two \in Seq(S) /\ two_types \in Seq(S) /\ Len(two) = 2 /\ Len(two_types) = 2
      /\ two[1] = "depth" /\ two[2] = "motion_vectors"
      /\ two_types[1] = "Depth" /\ two_types[2] = "MotionVectors"
  BY <1>0
<1>2. /\ hud \in Seq(S) /\ hud_types \in Seq(S) /\ Len(hud) = Len(hud_types) /\ Len(hud) \in 0..1
      /\ Len(hud) = 1 => hud[1] = "hudless_color" /\ hud_types[1] = "HUDLessColor"
  BY <1>0
<1>3. /\ over \in Seq(S) /\ over_types \in Seq(S) /\ Len(over) <= Len(over_types)
      /\ Len(over) \in 0..1
      /\ Len(over) = 1 => over_types[1] = Meaning[over[1]]
  BY <1>0 DEF Meaning
<1> HIDE DEF two, two_types, hud, hud_types, over, over_types
<1>4. Paired(two, two_types)
  BY <1>1 DEF Paired, Meaning
<1>5. Paired(hud, hud_types)
  BY <1>2 DEF Paired, Meaning
<1>6. Paired(over, over_types)
  BY <1>3 DEF Paired
<1>7. two \o hud \in Seq(S) /\ two_types \o hud_types \in Seq(S)
      /\ Len(two \o hud) = Len(two_types \o hud_types) /\ Len(two \o hud) = 2 + Len(hud)
      /\ (two \o hud)[1] = two[1] /\ (two \o hud)[2] = two[2]
  <2>1. two \in Seq(S) /\ hud \in Seq(S) /\ two_types \in Seq(S) /\ hud_types \in Seq(S)
    BY <1>1, <1>2, Zenon
  <2>2. /\ two \o hud \in Seq(S) /\ Len(two \o hud) = Len(two) + Len(hud)
        /\ \A i \in 1..Len(two) : (two \o hud)[i] = two[i]
    BY <2>1, Joined, Zenon
  <2>3. /\ two_types \o hud_types \in Seq(S)
        /\ Len(two_types \o hud_types) = Len(two_types) + Len(hud_types)
    BY <2>1, Joined, Zenon
  <2>4. 1 \in 1..2 /\ 2 \in 1..2
    OBVIOUS
  <2> QED
    BY <1>1, <1>2, <2>2, <2>3, <2>4, Zenon
<1>8. Paired(two \o hud, two_types \o hud_types)
  BY <1>1, <1>2, <1>4, <1>5, PairedJoin
<1>9. Paired((two \o hud) \o over, (two_types \o hud_types) \o over_types)
  BY <1>3, <1>6, <1>7, <1>8, PairedJoin
<1>10. /\ Len((two \o hud) \o over) = 2 + Len(hud) + Len(over)
       /\ ((two \o hud) \o over)[1] = (two \o hud)[1]
       /\ ((two \o hud) \o over)[2] = (two \o hud)[2]
  <2> DEFINE th == two \o hud
  <2>1. th \in Seq(S) /\ Len(th) = 2 + Len(hud) /\ Len(th) \in Nat /\ Len(th) >= 2
    BY <1>2, <1>7
  <2> HIDE DEF th
  <2>2. Len(th \o over) = Len(th) + Len(over) /\ (th \o over)[1] = th[1] /\ (th \o over)[2] = th[2]
    BY <1>3, <2>1
  <2> QED
    BY <2>1, <2>2 DEF th
<1>11. /\ Tagged(hudless, ui) = (two \o hud) \o over
       /\ BufferTypes(hudless, ui) = (two_types \o hud_types) \o over_types
  BY Zenon DEF Tagged, BufferTypes, two, two_types, hud, hud_types, over, over_types
<1>12. 2 + Len(hud) + Len(over) \in 2..4
  <2>1. Len(hud) \in 0..1 /\ Len(over) \in 0..1
    BY <1>2, <1>3, Zenon
  <2>2. \A m, n \in 0..1 : 2 + m + n \in 2..4
    OBVIOUS
  <2> QED
    BY <2>1, <2>2, Zenon
<1>13. Paired(Tagged(hudless, ui), BufferTypes(hudless, ui))
  BY <1>9, <1>11, Zenon
<1>14. Len(Tagged(hudless, ui)) \in 2..4
  BY <1>10, <1>11, <1>12, Zenon
<1>15. Tagged(hudless, ui)[1] = "depth" /\ Tagged(hudless, ui)[2] = "motion_vectors"
  <2>1. ((two \o hud) \o over)[1] = "depth" /\ ((two \o hud) \o over)[2] = "motion_vectors"
    BY <1>1, <1>7, <1>10, Zenon
  <2> QED
    BY <2>1, <1>11, Zenon
<1> QED
  BY <1>13, <1>14, <1>15, Zenon

\* Whatever tags a frame has, they are those of tags().
PairsInv ==
  \/ tagged = <<>>
  \/ \E hudless \in BOOLEAN, ui \in {Nothing, "ui_color_and_alpha", "ui_alpha"} :
       tagged = Tags(hudless, ui)

LEMMA TagsAreListed == HandoffSpec => []PairsInv
<1>1. HandoffInit => PairsInv
  BY DEF HandoffInit, PairsInv
<1>2. PairsInv /\ [HandoffNext]_<<vars, fgVars>> => PairsInv'
  BY DEF PairsInv, HandoffNext, UpscalerStep, NextFrame, Tag, SetConstants, fgVars
<1> QED
  BY <1>1, <1>2, PTL DEF HandoffSpec

\* Each texture is tagged as what it is, whichever optional inputs there are.
THEOREM TagsMatch == HandoffSpec => []TagsArePaired
<1>1. PairsInv => TagsArePaired
  <2> SUFFICES ASSUME NEW hudless \in BOOLEAN,
                      NEW ui \in {Nothing, "ui_color_and_alpha", "ui_alpha"},
                      tagged = Tags(hudless, ui)
               PROVE  TagsArePaired
    BY DEF PairsInv, TagsArePaired
  <2> DEFINE textures == Tagged(hudless, ui)
             types == BufferTypes(hudless, ui)
             slots == TypeSlots(hudless, ui)
  <2>1. /\ Paired(textures, types) /\ Len(textures) \in 2..4
        /\ textures[1] = "depth" /\ textures[2] = "motion_vectors"
    BY TagsPaired
  <2>2. \A i \in 1..4 : slots[i] = IF i <= Len(types) THEN types[i] ELSE "Depth"
    BY DEF TypeSlots, MaxTags
  <2>3. /\ DOMAIN tagged = 1..Len(textures)
        /\ \A i \in 1..Len(textures) :
             tagged[i].texture = textures[i] /\ tagged[i].type = slots[i]
    BY DEF Tags
  <2> HIDE DEF textures, types, slots
  <2>4. \A i \in 1..Len(textures) : slots[i] = Meaning[textures[i]]
    BY <2>1, <2>2, SMTT(60) DEF Paired
  <2>5. \A i \in DOMAIN tagged : tagged[i].type = Meaning[tagged[i].texture]
    BY <2>3, <2>4
  <2>6. 1 \in DOMAIN tagged /\ 2 \in DOMAIN tagged
    BY <2>1, <2>3
  <2>7. tagged[1].type = "Depth" /\ tagged[2].type = "MotionVectors"
    BY <2>1, <2>3, <2>4, <2>6 DEF Meaning
  <2> QED
    BY <2>5, <2>6, <2>7 DEF TagsArePaired
<1> QED
  BY <1>1, TagsAreListed, PTL

-----------------------------------------------------------------------------
(* The types *)

\* What a context has been asked for, and what its textures are.
TypeInv ==
  /\ phase \in {"none", "created", "allocated", "drawn"}
  /\ phase # "none" =>
       create \in Creations /\ DOMAIN res = {"upscaled", "optimal", "min", "max"}
  /\ phase \in {"allocated", "drawn"} => DOMAIN tex = Roles(create.kind)

\* new asks for a creation there is, and has an answer of four resolutions.
LEMMA CreateParamsType ==
  ASSUME NEW kind \in {"SR", "RR"}, NEW mode \in Modes, NEW out, NEW flags \in SUBSET Flags,
         NEW packed \in BOOLEAN, NEW s
  PROVE  /\ CreateParams(kind, mode, out, flags, packed) \in Creations
         /\ DOMAIN Resolutions(mode, out, s) = {"upscaled", "optimal", "min", "max"}
<1>1. PerfQuality(mode, out) \in Qualities
  <2>1. AutoQuality(out) \in Qualities
    BY DEF AutoQuality, Qualities
  <2> QED
    BY <2>1 DEF PerfQuality, Modes, Qualities
<1>2. AsFlags(WithForced(kind, flags)) \in SUBSET Flags
  BY DEF AsFlags, WithForced, Flags
<1>3. ("OutputSubrect" \in flags) \in BOOLEAN
  OBVIOUS
<1>4. (IF kind = "RR" THEN PinnedPresets ELSE {}) \in {{}, PinnedPresets}
  OBVIOUS
<1>5. CreateParams(kind, mode, out, flags, packed) \in Creations
  BY <1>1, <1>2, <1>3, <1>4 DEF CreateParams, Creations
<1>6. DOMAIN Resolutions(mode, out, s) = {"upscaled", "optimal", "min", "max"}
  BY DEF Resolutions
<1> QED
  BY <1>5, <1>6

\* Every step keeps the types.
LEMMA TypeNext ==
  HandoffInv /\ TypeInv /\ [HandoffNext]_<<vars, fgVars>> => TypeInv'
<1> SUFFICES ASSUME HandoffInv, TypeInv, [HandoffNext]_<<vars, fgVars>>
             PROVE  TypeInv'
  OBVIOUS
<1>1. CASE Create
  <2>1. CASE UNCHANGED <<phase, create, res>>
    BY <1>1, <2>1 DEF Create, TypeInv
  <2>2. ASSUME NEW kind \in {"SR", "RR"}, NEW mode \in Modes, NEW out \in Outputs,
               NEW flags \in SUBSET Flags, NEW packed \in BOOLEAN, NEW s \in Settings[out],
               phase' = "created", create' = CreateParams(kind, mode, out, flags, packed),
               res' = Resolutions(mode, out, s)
        PROVE  TypeInv'
    BY <2>2, CreateParamsType DEF TypeInv
  <2> QED
    BY <1>1, <2>1, <2>2 DEF Create
<1>2. CASE Allocate
  BY <1>2 DEF Allocate, TypeInv
<1>3. CASE DrawScene
  BY <1>3 DEF DrawScene, TypeInv
<1>4. CASE Drop
  BY <1>4 DEF Drop, TypeInv
<1>5. CASE UNCHANGED <<phase, create, res, tex>>
  BY <1>5 DEF TypeInv
<1>6. Render \/ Tag \/ SetConstants \/ UNCHANGED <<vars, fgVars>> =>
        UNCHANGED <<phase, create, res, tex>>
  BY DEF Render, Tag, SetConstants, vars
<1> QED
  BY <1>1, <1>2, <1>3, <1>4, <1>5, <1>6 DEF HandoffNext, UpscalerStep, NextFrame

LEMMA TypeInductive == HandoffSpec => []TypeInv
<1>1. HandoffInit => TypeInv
  BY DEF HandoffInit, Init, TypeInv
<1> QED
  BY <1>1, TypeNext, HandoffInductive, PTL DEF HandoffSpec

\* Every texture tags() lists is one Streamline has a meaning for.
LEMMA TaggedMeaning ==
  ASSUME NEW hudless \in BOOLEAN, NEW ui \in {Nothing, "ui_color_and_alpha", "ui_alpha"}
  PROVE  Tagged(hudless, ui) \in Seq(DOMAIN Meaning)
<1> DEFINE S == DOMAIN Meaning
           two == <<"depth", "motion_vectors">>
           hud == IF hudless THEN <<"hudless_color">> ELSE <<>>
           over == IF ui = Nothing THEN <<>> ELSE <<ui>>
<1>1. /\ "depth" \in S /\ "motion_vectors" \in S /\ "hudless_color" \in S
      /\ "ui_color_and_alpha" \in S /\ "ui_alpha" \in S
  BY DEF Meaning
<1> HIDE DEF S
<1>2. two \in Seq(S) /\ hud \in Seq(S) /\ over \in Seq(S)
  BY <1>1
<1> HIDE DEF two, hud, over
<1>3. two \o hud \in Seq(S)
  BY <1>2
<1>4. (two \o hud) \o over \in Seq(S)
  BY <1>2, <1>3
<1> QED
  BY <1>4, Zenon DEF Tagged, two, hud, over, S

\* Contexts, textures, tags and constants are what they should be: there is a creation
\* while there is a context, textures once they are allocated, an evaluate of what is
\* bound only in a frame, and no constants without the evaluate they are derived from.
THEOREM HandoffTypeCorrect == HandoffSpec => []HandoffTypeOK
<1>1. HandoffInv /\ TypeInv => TypeOK
  <2> SUFFICES ASSUME HandoffInv, TypeInv
               PROVE  TypeOK
    OBVIOUS
  <2>1. phase = "none" <=> create = Nothing
    BY NothingAssumption DEF HandoffInv, CreateInv, TypeInv
  <2>2. eval # Nothing => phase = "drawn" /\ eval.bound \subseteq DOMAIN tex
    BY DEF HandoffInv, RolesInv, EvalInv, TypeInv
  <2> QED
    BY <2>1, <2>2 DEF HandoffInv, RolesInv, CreateInv, TypeInv, TypeOK
<1>2. ASSUME PairsInv, TagsArePaired, HandoffInv
      PROVE  tagged \in Seq([texture : DOMAIN Meaning,
                             type : {Meaning[r] : r \in DOMAIN Meaning},
                             state : {DefaultState}])
  <2>1. CASE tagged = <<>>
    BY <2>1
  <2>2. ASSUME NEW hudless \in BOOLEAN,
               NEW ui \in {Nothing, "ui_color_and_alpha", "ui_alpha"},
               tagged = Tags(hudless, ui), tagged # <<>>
        PROVE  tagged \in Seq([texture : DOMAIN Meaning,
                               type : {Meaning[r] : r \in DOMAIN Meaning},
                               state : {DefaultState}])
    <3> DEFINE textures == Tagged(hudless, ui)
               slots == TypeSlots(hudless, ui)
    <3>1. textures \in Seq(DOMAIN Meaning)
      BY TaggedMeaning
    <3>2. tagged = [i \in 1..Len(textures) |->
                     [texture |-> textures[i], type |-> slots[i], state |-> DefaultState]]
      BY <2>2 DEF Tags
    <3>3. \A i \in DOMAIN tagged : tagged[i].type = Meaning[tagged[i].texture]
      BY <1>2, <2>2 DEF TagsArePaired
    <3> HIDE DEF textures, slots
    <3>4. \A i \in 1..Len(textures) :
            textures[i] \in DOMAIN Meaning /\ slots[i] = Meaning[textures[i]]
      BY <3>1, <3>2, <3>3
    <3>5. \A i \in 1..Len(textures) :
            [texture |-> textures[i], type |-> slots[i], state |-> DefaultState]
              \in [texture : DOMAIN Meaning, type : {Meaning[r] : r \in DOMAIN Meaning},
                   state : {DefaultState}]
      BY <3>4
    <3> QED
      BY <3>1, <3>2, <3>5
  <2> QED
    BY <1>2, <2>1, <2>2 DEF PairsInv
<1>3. HandoffInv /\ TypeInv /\ PairsInv /\ TagsArePaired => HandoffTypeOK
  BY <1>1, <1>2 DEF HandoffTypeOK, HandoffInv, HandedInv
<1> QED
  BY <1>3, HandoffInductive, TypeInductive, TagsAreListed, TagsMatch, PTL
-----------------------------------------------------------------------------
(* The loop of halton_sequence *)

\* A set of natural numbers that has one has a least one.
LEMMA Least ==
  ASSUME NEW T \in SUBSET Nat, NEW n \in T
  PROVE  \E m \in T : \A k \in Nat : k < m => k \notin T
<1> DEFINE R == OpToRel(<, Nat)
<1>1. IsWellFoundedOn(R, Nat)
  BY NatLessThanWellFounded
<1> HIDE DEF R
<1>2. PICK m \in T : \A k \in T : ~(<<k, m>> \in R)
  BY <1>1, WFMin
<1>3. \A k \in Nat : k < m => <<k, m>> \in R
  BY DEF R, OpToRel
<1> QED
  BY <1>2, <1>3

\* What the loop's variables may be, and what they are after a turn.
Loops(n) == [index : 0..n, num : Nat, den : Nat]

Turn(s, base) ==
  [index |-> s.index \div base, num |-> (s.num * base) + (s.index % base),
   den |-> s.den * base]

Body(f, n, base) ==
  [s \in Loops(n) |-> IF s.index = 0 THEN s ELSE f[Turn(s, base)]]

\* The loop, from an index of at most n.
Loop(n, base) == CHOOSE f : f = Body(f, n, base)

\* The two bases.
Bases == {2, 3}

\* A turn leaves fewer digits, and keeps the variables what they may be.
LEMMA TurnIs ==
  ASSUME NEW base \in Bases, NEW n \in Nat, NEW s \in Loops(n), s.index # 0
  PROVE  /\ n > 0 /\ Turn(s, base) \in Loops(n - 1) /\ Turn(s, base) \in Loops(n)
         /\ Turn(s, base).index < s.index
<1>1. s.index \in 1..n /\ s.num \in Nat /\ s.den \in Nat
  BY DEF Loops
<1>2. \A i \in 1..n : i \div base \in 0..(n - 1) /\ i \div base < i /\ i % base \in Nat
  BY DEF Bases
<1> QED
  BY <1>1, <1>2 DEF Loops, Turn, Bases

\* Each turn divides the index, so the loop has a result.
LEMMA LoopExists ==
  ASSUME NEW base \in Bases, NEW n \in Nat
  PROVE  \E f : f = Body(f, n, base)
<1> DEFINE T == {m \in Nat : ~\E f : f = Body(f, m, base)}
<1> SUFFICES ASSUME n \in T
             PROVE  FALSE
  OBVIOUS
<1>1. PICK m \in T : \A k \in Nat : k < m => k \notin T
  BY Least
<1>2. CASE m = 0
  <2> DEFINE h == [s \in Loops(0) |-> s]
  <2>1. \A s \in Loops(0) : s.index = 0
    BY DEF Loops
  <2>2. h = Body(h, 0, base)
    BY <2>1 DEF Body
  <2> QED
    BY <1>1, <1>2, <2>2
<1>3. CASE m > 0
  <2>1. PICK g : g = Body(g, m - 1, base)
    BY <1>1, <1>3
  <2> DEFINE h == [s \in Loops(m) |-> IF s.index = 0 THEN s ELSE g[Turn(s, base)]]
  <2>2. ASSUME NEW s \in Loops(m - 1)
        PROVE  h[s] = g[s]
    <3>1. s \in Loops(m)
      BY <2>2 DEF Loops
    <3> QED
      BY <2>1, <3>1 DEF Body
  <2>3. ASSUME NEW s \in Loops(m), s.index # 0
        PROVE  h[Turn(s, base)] = g[Turn(s, base)]
    BY <2>2, <2>3, TurnIs
  <2>4. h = Body(h, m, base)
    BY <2>3 DEF Body
  <2> QED
    BY <1>1, <2>4
<1> QED
  BY <1>1, <1>2, <1>3

\* What a turn of the loop does.
LEMMA LoopIs ==
  ASSUME NEW base \in Bases, NEW n \in Nat, NEW s \in Loops(n)
  PROVE  Loop(n, base)[s] = IF s.index = 0 THEN s ELSE Loop(n, base)[Turn(s, base)]
<1>1. Loop(n, base) = Body(Loop(n, base), n, base)
  BY LoopExists, Zenon DEF Loop
<1> QED
  BY <1>1 DEF Body

\* halton_sequence is the loop from its index, with no digit taken.
LEMMA HaltonIs ==
  ASSUME NEW base, NEW n
  PROVE  Halton(n, base) = Loop(n, base)[[index |-> n, num |-> 0, den |-> 1]]
BY Zenon DEF Halton, Loop, Body, Loops, Turn

\* The loop is over with an index of zero, and with a fraction below one if it had one.
LEMMA LoopBelowOne ==
  ASSUME NEW base \in Bases, NEW n \in Nat, NEW s \in Loops(n), s.num < s.den
  PROVE  /\ Loop(n, base)[s] \in Loops(0)
         /\ Loop(n, base)[s].num < Loop(n, base)[s].den
<1> DEFINE f == Loop(n, base)
           Good(t) == f[t] \in Loops(0) /\ f[t].num < f[t].den
           T == {i \in 0..n : \E t \in Loops(n) : t.index = i /\ t.num < t.den /\ ~Good(t)}
<1> SUFFICES ASSUME ~Good(s)
             PROVE  FALSE
  OBVIOUS
<1>1. s.index \in T
  BY DEF Loops
<1>2. PICK m \in T : \A k \in Nat : k < m => k \notin T
  <2>1. T \in SUBSET Nat
    OBVIOUS
  <2> HIDE DEF T
  <2> QED
    BY <1>1, <2>1, Least
<1>3. PICK t \in Loops(n) : t.index = m /\ t.num < t.den /\ ~Good(t)
  BY <1>2
<1>4. f[t] = IF m = 0 THEN t ELSE f[Turn(t, base)]
  BY <1>3, LoopIs
<1> HIDE DEF f
<1>5. CASE m = 0
  BY <1>3, <1>4, <1>5 DEF Loops
<1>6. CASE m # 0
  <2>1. /\ Turn(t, base) \in Loops(n) /\ Turn(t, base).index < m
    BY <1>3, <1>6, TurnIs
  <2>2. Turn(t, base).num < Turn(t, base).den
    <3>1. t.num \in Nat /\ t.den \in Nat /\ t.index \in Nat
      BY DEF Loops
    <3>2. /\ Turn(t, base).num = t.num * base + (t.index % base)
          /\ Turn(t, base).den = t.den * base
      BY DEF Turn
    <3> QED
      BY <1>3, <3>1, <3>2 DEF Bases
  <2>3. Turn(t, base).index \in 0..n
    BY <2>1 DEF Loops
  <2>4. ~Good(Turn(t, base))
    BY <1>3, <1>4, <1>6
  <2>5. Turn(t, base).index \in T
    BY <2>1, <2>2, <2>3, <2>4
  <2> QED
    BY <1>2, <2>1, <2>3, <2>5
<1> QED
  BY <1>5, <1>6

\* halton_sequence: an exact fraction in [0, 1), whatever the index.
LEMMA HaltonBelowOne ==
  ASSUME NEW base \in Bases, NEW n \in Nat
  PROVE  /\ Halton(n, base).index = 0 /\ Halton(n, base).num \in Nat
         /\ Halton(n, base).den \in Nat /\ Halton(n, base).num < Halton(n, base).den
         /\ Halton(n, base) \in Loops(0)
<1> DEFINE s == [index |-> n, num |-> 0, den |-> 1]
<1>1. s \in Loops(n) /\ s.num < s.den
  BY DEF Loops
<1>2. Halton(n, base) = Loop(n, base)[s]
  BY HaltonIs
<1> HIDE DEF s
<1>3. Halton(n, base) \in Loops(0) /\ Halton(n, base).num < Halton(n, base).den
  BY <1>1, <1>2, LoopBelowOne
<1> QED
  BY <1>3 DEF Loops

\* What is left to do does not depend on what was done.
Factors(f, s, r) ==
  f[s] = [index |-> 0, num |-> s.num * r.den + r.num, den |-> s.den * r.den]

\* The loop from any state is the one from the start, moved by what the state holds.
LEMMA LoopFactors ==
  ASSUME NEW base \in Bases, NEW n \in Nat, NEW s \in Loops(n)
  PROVE  Factors(Loop(n, base), s, Halton(s.index, base))
<1> DEFINE Good(m, t) == Factors(Loop(m, base), t, Halton(t.index, base))
           T == {i \in Nat : \E m \in Nat : \E t \in Loops(m) : t.index = i /\ ~Good(m, t)}
<1> SUFFICES ASSUME ~Good(n, s)
             PROVE  FALSE
  OBVIOUS
<1>1. s.index \in T
  BY DEF Loops
<1>2. PICK i \in T : \A k \in Nat : k < i => k \notin T
  <2>1. T \in SUBSET Nat
    OBVIOUS
  <2> HIDE DEF T
  <2> QED
    BY <1>1, <2>1, Least
<1>3. i \in Nat /\ \E m \in Nat : \E t \in Loops(m) : t.index = i /\ ~Good(m, t)
  BY <1>2
<1>4. PICK m \in Nat : \E t \in Loops(m) : t.index = i /\ ~Good(m, t)
  BY <1>3
<1>5. PICK t \in Loops(m) : t.index = i /\ ~Good(m, t)
  BY <1>4
<1>6. ASSUME NEW k \in Nat, NEW u \in Loops(k), u.index < i
      PROVE  Good(k, u)
  <2>1. u.index \in Nat
    BY DEF Loops
  <2>2. u.index \notin T
    BY <1>2, <1>6, <2>1
  <2> QED
    BY <2>1, <2>2
<1> HIDE DEF T
<1> DEFINE one == [index |-> i, num |-> 0, den |-> 1]
<1>7. one \in Loops(i) /\ Halton(i, base) = Loop(i, base)[one]
  BY <1>3, HaltonIs DEF Loops
<1>8. t.num \in Nat /\ t.den \in Nat
  BY DEF Loops
<1>9. CASE i = 0
  <2>1. Loop(m, base)[t] = t /\ Loop(i, base)[one] = one
    BY <1>3, <1>5, <1>7, <1>9, LoopIs
  <2>2. t = [index |-> 0, num |-> t.num, den |-> t.den]
    BY <1>5, <1>9 DEF Loops
  <2>3. Halton(i, base).num = 0 /\ Halton(i, base).den = 1
    BY <1>7, <2>1
  <2> QED
    BY <1>5, <1>8, <2>1, <2>2, <2>3 DEF Factors
<1>10. CASE i # 0
  <2> DEFINE r == Halton(i \div base, base)
             d == i % base
             u == Turn(t, base)
             v == Turn(one, base)
  <2>1. /\ u \in Loops(m) /\ u.index < i /\ Loop(m, base)[t] = Loop(m, base)[u]
        /\ v \in Loops(i) /\ v.index < i /\ Loop(i, base)[one] = Loop(i, base)[v]
    BY <1>3, <1>5, <1>7, <1>10, TurnIs, LoopIs
  <2>2. /\ u.index = i \div base /\ u.num = t.num * base + d /\ u.den = t.den * base
        /\ v.index = i \div base /\ v.num = 0 * base + d /\ v.den = 1 * base
    BY <1>5 DEF Turn
  <2>3. d \in Nat /\ i \div base \in Nat
    BY <1>3 DEF Bases
  <2>4. r.num \in Nat /\ r.den \in Nat
    BY <2>3, HaltonBelowOne
  <2> HIDE DEF r, d, u, v, Good
  <2>5. /\ Loop(m, base)[u] = [index |-> 0, num |-> u.num * r.den + r.num, den |-> u.den * r.den]
        /\ Loop(i, base)[v] = [index |-> 0, num |-> v.num * r.den + r.num, den |-> v.den * r.den]
    BY <1>3, <1>6, <2>1, <2>2 DEF Good, Factors, r
  <2>6. /\ Halton(i, base).num = d * r.den + r.num
        /\ Halton(i, base).den = base * r.den
    BY <1>7, <2>1, <2>2, <2>3, <2>4, <2>5 DEF Bases
  <2>7. /\ u.num * r.den + r.num = t.num * (base * r.den) + (d * r.den + r.num)
        /\ u.den * r.den = t.den * (base * r.den)
    BY <1>8, <2>2, <2>3, <2>4 DEF Bases
  <2>9. Good(m, t)
    BY <1>5, <2>1, <2>5, <2>6, <2>7 DEF Good, Factors
  <2> QED
    BY <1>5, <2>9
<1> QED
  BY <1>9, <1>10

\* halton_sequence is the radical inverse: the last digit of the index comes first, and
\* what the other digits give is divided by the base.
LEMMA HaltonInverts ==
  ASSUME NEW base \in Bases, NEW n \in Nat, NEW d \in 0..(base - 1), base * n + d # 0,
         NEW r, r = Halton(n, base)
  PROVE  Halton(base * n + d, base)
           = [index |-> 0, num |-> d * r.den + r.num, den |-> base * r.den]
<1> DEFINE i == base * n + d
           one == [index |-> i, num |-> 0, den |-> 1]
           u == Turn(one, base)
<1>1. i \in Nat /\ i \div base = n /\ i % base = d /\ d \in Nat
  BY DEF Bases
<1>2. one \in Loops(i) /\ Halton(i, base) = Loop(i, base)[one] /\ one.index # 0
  BY <1>1, HaltonIs DEF Loops
<1>3. u \in Loops(i) /\ Loop(i, base)[one] = Loop(i, base)[u]
  BY <1>1, <1>2, TurnIs, LoopIs
<1>4. u.index = n /\ u.num = 0 * base + d /\ u.den = 1 * base
  BY <1>1 DEF Turn
<1> HIDE DEF u, i
<1>5. Loop(i, base)[u] = [index |-> 0, num |-> u.num * r.den + r.num, den |-> u.den * r.den]
  BY <1>1, <1>3, <1>4, LoopFactors DEF Factors
<1>6. r.num \in Nat /\ r.den \in Nat
  BY HaltonBelowOne
<1>7. u.num = d /\ u.den = base
  BY <1>1, <1>4 DEF Bases
<1> QED
  BY <1>2, <1>3, <1>5, <1>7 DEF i

-----------------------------------------------------------------------------
(* The first samples *)

\* What a loop that is over returns.
Fraction(num, den) == [index |-> 0, num |-> num, den |-> den]

\* The next digit, in either base.
LEMMA NextDigit ==
  ASSUME NEW n \in Nat, NEW num \in Nat, NEW den \in Nat
  PROVE  /\ Halton(n, 2) = Fraction(num, den) =>
              /\ n # 0 => Halton(2 * n, 2) = Fraction(num, 2 * den)
              /\ Halton(2 * n + 1, 2) = Fraction(den + num, 2 * den)
         /\ Halton(n, 3) = Fraction(num, den) =>
              /\ n # 0 => Halton(3 * n, 3) = Fraction(num, 3 * den)
              /\ Halton(3 * n + 1, 3) = Fraction(den + num, 3 * den)
              /\ Halton(3 * n + 2, 3) = Fraction(2 * den + num, 3 * den)
<1>1. ASSUME NEW base \in Bases, NEW d \in 0..(base - 1), base * n + d # 0,
             Halton(n, base) = Fraction(num, den)
      PROVE  Halton(base * n + d, base) = Fraction(d * den + num, base * den)
  <2>1. Halton(n, base).num = num /\ Halton(n, base).den = den
    BY <1>1 DEF Fraction
  <2> QED
    BY <1>1, <2>1, HaltonInverts DEF Fraction
<1>2. ASSUME Halton(n, 2) = Fraction(num, den)
      PROVE  /\ n # 0 => Halton(2 * n, 2) = Fraction(num, 2 * den)
             /\ Halton(2 * n + 1, 2) = Fraction(den + num, 2 * den)
  <2>1. 2 \in Bases /\ 0 \in 0..(2 - 1) /\ 1 \in 0..(2 - 1)
    BY DEF Bases
  <2>2. n # 0 => Halton(2 * n + 0, 2) = Fraction(0 * den + num, 2 * den)
    BY <1>1, <1>2, <2>1
  <2>3. Halton(2 * n + 1, 2) = Fraction(1 * den + num, 2 * den)
    BY <1>1, <1>2, <2>1
  <2> QED
    BY <2>2, <2>3
<1>3. ASSUME Halton(n, 3) = Fraction(num, den)
      PROVE  /\ n # 0 => Halton(3 * n, 3) = Fraction(num, 3 * den)
             /\ Halton(3 * n + 1, 3) = Fraction(den + num, 3 * den)
             /\ Halton(3 * n + 2, 3) = Fraction(2 * den + num, 3 * den)
  <2>1. 3 \in Bases /\ 0 \in 0..(3 - 1) /\ 1 \in 0..(3 - 1) /\ 2 \in 0..(3 - 1)
    BY DEF Bases
  <2>2. n # 0 => Halton(3 * n + 0, 3) = Fraction(0 * den + num, 3 * den)
    BY <1>1, <1>3, <2>1
  <2>3. Halton(3 * n + 1, 3) = Fraction(1 * den + num, 3 * den)
    BY <1>1, <1>3, <2>1
  <2>4. Halton(3 * n + 2, 3) = Fraction(2 * den + num, 3 * den)
    BY <1>1, <1>3, <2>1
  <2> QED
    BY <2>2, <2>3, <2>4
<1> QED
  BY <1>2, <1>3

\* The first sample is zero in both bases.
LEMMA First ==
  /\ Halton(0, 2) = Fraction(0, 1) /\ Halton(0, 3) = Fraction(0, 1)
<1>1. ASSUME NEW base \in Bases
      PROVE  Halton(0, base) = Fraction(0, 1)
  <2>1. Fraction(0, 1) \in Loops(0) /\ Fraction(0, 1).index = 0
    BY DEF Fraction, Loops
  <2>2. Halton(0, base) = Loop(0, base)[Fraction(0, 1)]
    BY HaltonIs DEF Fraction
  <2> QED
    BY <2>1, <2>2, LoopIs
<1> QED
  BY <1>1 DEF Bases

\* The first samples in base 2.
LEMMA Samples2 ==
  /\ Halton(0, 2) = Fraction(0, 1) /\ Halton(1, 2) = Fraction(1, 2)
  /\ Halton(2, 2) = Fraction(1, 4) /\ Halton(3, 2) = Fraction(3, 4)
  /\ Halton(4, 2) = Fraction(1, 8) /\ Halton(5, 2) = Fraction(5, 8)
  /\ Halton(6, 2) = Fraction(3, 8) /\ Halton(7, 2) = Fraction(7, 8)
  /\ Halton(8, 2) = Fraction(1, 16) /\ Halton(9, 2) = Fraction(9, 16)
  /\ Halton(10, 2) = Fraction(5, 16) /\ Halton(11, 2) = Fraction(13, 16)
  /\ Halton(12, 2) = Fraction(3, 16) /\ Halton(13, 2) = Fraction(11, 16)
  /\ Halton(14, 2) = Fraction(7, 16) /\ Halton(15, 2) = Fraction(15, 16)
  /\ Halton(16, 2) = Fraction(1, 32) /\ Halton(17, 2) = Fraction(17, 32)
  /\ Halton(18, 2) = Fraction(9, 32) /\ Halton(19, 2) = Fraction(25, 32)
  /\ Halton(20, 2) = Fraction(5, 32) /\ Halton(21, 2) = Fraction(21, 32)
  /\ Halton(22, 2) = Fraction(13, 32) /\ Halton(23, 2) = Fraction(29, 32)
  /\ Halton(24, 2) = Fraction(3, 32) /\ Halton(25, 2) = Fraction(19, 32)
<1>0. Halton(0, 2) = Fraction(0, 1)
  BY First
<1>1. /\ Halton(1, 2) = Fraction(1, 2)
  BY <1>0, NextDigit
<1>2. /\ Halton(2, 2) = Fraction(1, 4) /\ Halton(3, 2) = Fraction(3, 4)
  BY <1>1, NextDigit
<1>3. /\ Halton(4, 2) = Fraction(1, 8) /\ Halton(5, 2) = Fraction(5, 8)
      /\ Halton(6, 2) = Fraction(3, 8) /\ Halton(7, 2) = Fraction(7, 8)
  BY <1>2, NextDigit
<1>4. /\ Halton(8, 2) = Fraction(1, 16) /\ Halton(9, 2) = Fraction(9, 16)
      /\ Halton(10, 2) = Fraction(5, 16) /\ Halton(11, 2) = Fraction(13, 16)
      /\ Halton(12, 2) = Fraction(3, 16) /\ Halton(13, 2) = Fraction(11, 16)
      /\ Halton(14, 2) = Fraction(7, 16) /\ Halton(15, 2) = Fraction(15, 16)
  BY <1>3, NextDigit
<1>5. /\ Halton(16, 2) = Fraction(1, 32) /\ Halton(17, 2) = Fraction(17, 32)
      /\ Halton(18, 2) = Fraction(9, 32) /\ Halton(19, 2) = Fraction(25, 32)
      /\ Halton(20, 2) = Fraction(5, 32) /\ Halton(21, 2) = Fraction(21, 32)
      /\ Halton(22, 2) = Fraction(13, 32) /\ Halton(23, 2) = Fraction(29, 32)
      /\ Halton(24, 2) = Fraction(3, 32) /\ Halton(25, 2) = Fraction(19, 32)
  BY <1>4, NextDigit
<1> QED
  BY <1>0, <1>1, <1>2, <1>3, <1>4, <1>5

\* The first samples in base 3.
LEMMA Samples3 ==
  /\ Halton(0, 3) = Fraction(0, 1) /\ Halton(1, 3) = Fraction(1, 3)
  /\ Halton(2, 3) = Fraction(2, 3) /\ Halton(3, 3) = Fraction(1, 9)
  /\ Halton(4, 3) = Fraction(4, 9) /\ Halton(5, 3) = Fraction(7, 9)
  /\ Halton(6, 3) = Fraction(2, 9) /\ Halton(7, 3) = Fraction(5, 9)
  /\ Halton(8, 3) = Fraction(8, 9) /\ Halton(9, 3) = Fraction(1, 27)
  /\ Halton(10, 3) = Fraction(10, 27) /\ Halton(11, 3) = Fraction(19, 27)
  /\ Halton(12, 3) = Fraction(4, 27) /\ Halton(13, 3) = Fraction(13, 27)
  /\ Halton(14, 3) = Fraction(22, 27) /\ Halton(15, 3) = Fraction(7, 27)
  /\ Halton(16, 3) = Fraction(16, 27) /\ Halton(17, 3) = Fraction(25, 27)
  /\ Halton(18, 3) = Fraction(2, 27) /\ Halton(19, 3) = Fraction(11, 27)
  /\ Halton(20, 3) = Fraction(20, 27) /\ Halton(21, 3) = Fraction(5, 27)
  /\ Halton(22, 3) = Fraction(14, 27) /\ Halton(23, 3) = Fraction(23, 27)
  /\ Halton(24, 3) = Fraction(8, 27) /\ Halton(25, 3) = Fraction(17, 27)
<1>0. Halton(0, 3) = Fraction(0, 1)
  BY First
<1>1. /\ Halton(1, 3) = Fraction(1, 3) /\ Halton(2, 3) = Fraction(2, 3)
  BY <1>0, NextDigit
<1>2. /\ Halton(3, 3) = Fraction(1, 9) /\ Halton(4, 3) = Fraction(4, 9)
      /\ Halton(5, 3) = Fraction(7, 9) /\ Halton(6, 3) = Fraction(2, 9)
      /\ Halton(7, 3) = Fraction(5, 9) /\ Halton(8, 3) = Fraction(8, 9)
  BY <1>1, NextDigit
<1>3. /\ Halton(9, 3) = Fraction(1, 27) /\ Halton(10, 3) = Fraction(10, 27)
      /\ Halton(11, 3) = Fraction(19, 27) /\ Halton(12, 3) = Fraction(4, 27)
      /\ Halton(13, 3) = Fraction(13, 27) /\ Halton(14, 3) = Fraction(22, 27)
      /\ Halton(15, 3) = Fraction(7, 27) /\ Halton(16, 3) = Fraction(16, 27)
      /\ Halton(17, 3) = Fraction(25, 27) /\ Halton(18, 3) = Fraction(2, 27)
      /\ Halton(19, 3) = Fraction(11, 27) /\ Halton(20, 3) = Fraction(20, 27)
      /\ Halton(21, 3) = Fraction(5, 27) /\ Halton(22, 3) = Fraction(14, 27)
      /\ Halton(23, 3) = Fraction(23, 27) /\ Halton(24, 3) = Fraction(8, 27)
      /\ Halton(25, 3) = Fraction(17, 27)
  BY <1>2, NextDigit
<1> QED
  BY <1>0, <1>1, <1>2, <1>3

\* Where sample i falls in a render pixel of cx by cy output pixels.
Point(i, cx, cy) ==
  <<(Halton(i, 2).num * cx) \div Halton(i, 2).den,
    (Halton(i, 3).num * cy) \div Halton(i, 3).den>>

\* Up to four output pixels an axis, and as many on the other but for one: the eight
\* phases of the smallest ratio reach them all, or the first 32 do.
LEMMA Covered ==
  ASSUME NEW cx \in 1..4, NEW cy \in 1..4, cx <= cy + 1, cy <= cx + 1,
         NEW a \in 0..(cx - 1), NEW b \in 0..(cy - 1)
  PROVE  \E i \in 0..(IF cx <= 2 THEN 7 ELSE 31) : Point(i, cx, cy) = <<a, b>>
<1>1. CASE cx = 1 /\ cy = 1
  <2>1. /\ Point(0, 1, 1) = <<0, 0>>
    BY Samples2, Samples3 DEF Point, Fraction
  <2> QED
    BY <1>1, <2>1
<1>2. CASE cx = 1 /\ cy = 2
  <2>1. /\ Point(0, 1, 2) = <<0, 0>> /\ Point(2, 1, 2) = <<0, 1>>
    BY Samples2, Samples3 DEF Point, Fraction
  <2> QED
    BY <1>2, <2>1
<1>3. CASE cx = 2 /\ cy = 1
  <2>1. /\ Point(0, 2, 1) = <<0, 0>> /\ Point(1, 2, 1) = <<1, 0>>
    BY Samples2, Samples3 DEF Point, Fraction
  <2> QED
    BY <1>3, <2>1
<1>4. CASE cx = 2 /\ cy = 2
  <2>1. /\ Point(0, 2, 2) = <<0, 0>> /\ Point(2, 2, 2) = <<0, 1>>
        /\ Point(1, 2, 2) = <<1, 0>> /\ Point(5, 2, 2) = <<1, 1>>
    BY Samples2, Samples3 DEF Point, Fraction
  <2> QED
    BY <1>4, <2>1
<1>5. CASE cx = 2 /\ cy = 3
  <2>1. /\ Point(0, 2, 3) = <<0, 0>> /\ Point(4, 2, 3) = <<0, 1>>
        /\ Point(2, 2, 3) = <<0, 2>> /\ Point(3, 2, 3) = <<1, 0>>
        /\ Point(1, 2, 3) = <<1, 1>> /\ Point(5, 2, 3) = <<1, 2>>
    BY Samples2, Samples3 DEF Point, Fraction
  <2> QED
    BY <1>5, <2>1
<1>6. CASE cx = 3 /\ cy = 2
  <2>1. /\ Point(0, 3, 2) = <<0, 0>> /\ Point(2, 3, 2) = <<0, 1>>
        /\ Point(1, 3, 2) = <<1, 0>> /\ Point(5, 3, 2) = <<1, 1>>
        /\ Point(3, 3, 2) = <<2, 0>> /\ Point(7, 3, 2) = <<2, 1>>
    BY Samples2, Samples3 DEF Point, Fraction
  <2> QED
    BY <1>6, <2>1
<1>7. CASE cx = 3 /\ cy = 3
  <2>1. /\ Point(0, 3, 3) = <<0, 0>> /\ Point(4, 3, 3) = <<0, 1>>
        /\ Point(2, 3, 3) = <<0, 2>> /\ Point(6, 3, 3) = <<1, 0>>
        /\ Point(1, 3, 3) = <<1, 1>> /\ Point(5, 3, 3) = <<1, 2>>
        /\ Point(3, 3, 3) = <<2, 0>> /\ Point(7, 3, 3) = <<2, 1>>
        /\ Point(11, 3, 3) = <<2, 2>>
    BY Samples2, Samples3 DEF Point, Fraction
  <2> QED
    BY <1>7, <2>1
<1>8. CASE cx = 3 /\ cy = 4
  <2>1. /\ Point(0, 3, 4) = <<0, 0>> /\ Point(4, 3, 4) = <<0, 1>>
        /\ Point(2, 3, 4) = <<0, 2>> /\ Point(8, 3, 4) = <<0, 3>>
        /\ Point(6, 3, 4) = <<1, 0>> /\ Point(1, 3, 4) = <<1, 1>>
        /\ Point(22, 3, 4) = <<1, 2>> /\ Point(5, 3, 4) = <<1, 3>>
        /\ Point(3, 3, 4) = <<2, 0>> /\ Point(13, 3, 4) = <<2, 1>>
        /\ Point(7, 3, 4) = <<2, 2>> /\ Point(23, 3, 4) = <<2, 3>>
    BY Samples2, Samples3 DEF Point, Fraction
  <2> QED
    BY <1>8, <2>1
<1>9. CASE cx = 4 /\ cy = 3
  <2>1. /\ Point(0, 4, 3) = <<0, 0>> /\ Point(4, 4, 3) = <<0, 1>>
        /\ Point(8, 4, 3) = <<0, 2>> /\ Point(6, 4, 3) = <<1, 0>>
        /\ Point(10, 4, 3) = <<1, 1>> /\ Point(2, 4, 3) = <<1, 2>>
        /\ Point(9, 4, 3) = <<2, 0>> /\ Point(1, 4, 3) = <<2, 1>>
        /\ Point(5, 4, 3) = <<2, 2>> /\ Point(3, 4, 3) = <<3, 0>>
        /\ Point(7, 4, 3) = <<3, 1>> /\ Point(11, 4, 3) = <<3, 2>>
    BY Samples2, Samples3 DEF Point, Fraction
  <2> QED
    BY <1>9, <2>1
<1>10. CASE cx = 4 /\ cy = 4
  <2>1. /\ Point(0, 4, 4) = <<0, 0>> /\ Point(4, 4, 4) = <<0, 1>>
        /\ Point(16, 4, 4) = <<0, 2>> /\ Point(8, 4, 4) = <<0, 3>>
        /\ Point(6, 4, 4) = <<1, 0>> /\ Point(10, 4, 4) = <<1, 1>>
        /\ Point(2, 4, 4) = <<1, 2>> /\ Point(14, 4, 4) = <<1, 3>>
        /\ Point(9, 4, 4) = <<2, 0>> /\ Point(1, 4, 4) = <<2, 1>>
        /\ Point(25, 4, 4) = <<2, 2>> /\ Point(5, 4, 4) = <<2, 3>>
        /\ Point(3, 4, 4) = <<3, 0>> /\ Point(15, 4, 4) = <<3, 1>>
        /\ Point(7, 4, 4) = <<3, 2>> /\ Point(23, 4, 4) = <<3, 3>>
    BY Samples2, Samples3 DEF Point, Fraction
  <2> QED
    BY <1>10, <2>1
<1> QED
  BY <1>1, <1>2, <1>3, <1>4, <1>5, <1>6, <1>7, <1>8, <1>9, <1>10

-----------------------------------------------------------------------------
(* What a context suggests *)

\* A quotient is at least q when q divisors fit.
LEMMA QuotientAtLeast ==
  ASSUME NEW x \in Nat, NEW y \in Nat \ {0}, NEW q \in Nat, q * y <= x
  PROVE  x \div y \in Nat /\ q <= x \div y
<1> DEFINE d == x \div y
           e == x % y
<1>1. d \in Nat /\ e \in 0..(y - 1) /\ x = y * d + e
  OBVIOUS
<1> HIDE DEF d, e
<1>2. ASSUME d + 1 <= q
      PROVE  FALSE
  <2>1. (d + 1) * y <= q * y
    BY <1>1, <1>2
  <2>2. (d + 1) * y = y * d + y
    BY <1>1
  <2> QED
    BY <1>1, <2>1, <2>2
<1>3. d \in Nat /\ q <= d
  BY <1>1, <1>2
<1> QED
  BY <1>3 DEF d

\* ... and below q when q divisors do not fit.
LEMMA QuotientBelow ==
  ASSUME NEW x \in Nat, NEW y \in Nat \ {0}, NEW q \in Nat, x < q * y
  PROVE  x \div y \in 0..(q - 1)
<1> DEFINE d == x \div y
           e == x % y
<1>1. d \in Nat /\ e \in 0..(y - 1) /\ x = y * d + e
  OBVIOUS
<1> HIDE DEF d, e
<1>2. ASSUME q <= d
      PROVE  FALSE
  <2>1. q * y <= d * y
    BY <1>1, <1>2
  <2>2. d * y = y * d
    BY <1>1
  <2> QED
    BY <1>1, <2>1, <2>2
<1>3. d \in 0..(q - 1)
  BY <1>1, <1>2
<1> QED
  BY <1>3 DEF d

\* suggested_jitter: eight phases at least, and four times as many from a ratio of two.
LEMMA PhasesEnough ==
  ASSUME NEW r, NEW render, NEW u \in Nat \ {0}, NEW w \in Nat \ {0},
         r.upscaled[1] = u, render[1] = w, w <= u
  PROVE  /\ PhaseCount(r, render) \in Nat /\ PhaseCount(r, render) >= 8
         /\ Cells(r, render, 1) \in Nat /\ Cells(r, render, 1) >= 1
         /\ Cells(r, render, 1) > 2 => PhaseCount(r, render) >= 32
<1> DEFINE n == (8 * u * u) \div (w * w)
           c == (u + w - 1) \div w
<1>1. w * w \in Nat \ {0} /\ 8 * u * u \in Nat
  OBVIOUS
<1>2. w * w <= u * u
  <2>1. w * w <= u * w /\ u * w <= u * u
    OBVIOUS
  <2> QED
    BY <2>1
<1>3. n \in Nat /\ 8 <= n
  <2>1. 8 * (w * w) <= 8 * u * u
    BY <1>2
  <2> QED
    BY <1>1, <2>1, QuotientAtLeast
<1>4. c \in Nat /\ c >= 1
  <2>1. 1 * w <= u + w - 1 /\ u + w - 1 \in Nat
    OBVIOUS
  <2> QED
    BY <2>1, QuotientAtLeast
<1>5. ASSUME c > 2
      PROVE  32 <= n
  <2>1. 2 * w <= u
    <3>1. ASSUME u < 2 * w
          PROVE  FALSE
      <4>1. u + w - 1 < 3 * w /\ u + w - 1 \in Nat
        BY <3>1
      <4>2. c \in 0..(3 - 1)
        BY <4>1, QuotientBelow
      <4> QED
        BY <1>5, <4>2
    <3> QED
      BY <3>1
  <2>2. 4 * (w * w) <= u * u
    <3>1. (2 * w) * (2 * w) <= u * (2 * w) /\ u * (2 * w) <= u * u
      BY <2>1
    <3>2. (2 * w) * (2 * w) = 4 * (w * w)
      OBVIOUS
    <3> QED
      BY <3>1, <3>2
  <2>3. 32 * (w * w) <= 8 * u * u
    BY <2>2
  <2> QED
    BY <1>1, <2>3, QuotientAtLeast
<1> HIDE DEF n, c
<1>6. PhaseCount(r, render) = IF n = 0 THEN 1 ELSE n
  BY DEF PhaseCount, n
<1>7. Cells(r, render, 1) = c
  BY DEF Cells, c
<1> QED
  BY <1>3, <1>4, <1>5, <1>6, <1>7

\* The output pixels of a render pixel that is no larger than the output.
LEMMA CellsAreSome ==
  ASSUME NEW r, NEW render, NEW axis, NEW u \in Nat \ {0}, NEW w \in Nat \ {0},
         r.upscaled[axis] = u, render[axis] = w, w <= u
  PROVE  Cells(r, render, axis) \in Nat /\ Cells(r, render, axis) >= 1
<1>1. 1 * w <= u + w - 1 /\ u + w - 1 \in Nat
  OBVIOUS
<1>2. (u + w - 1) \div w \in Nat /\ 1 <= (u + w - 1) \div w
  BY <1>1, QuotientAtLeast
<1> QED
  BY <1>2 DEF Cells

\* Every sample is in a cell of the render pixel, and none beyond it.
LEMMA PointIsWithin ==
  ASSUME NEW i \in Nat, NEW cx \in Nat \ {0}, NEW cy \in Nat \ {0}
  PROVE  Point(i, cx, cy) \in (0..(cx - 1)) \X (0..(cy - 1))
<1>1. ASSUME NEW base \in Bases, NEW c \in Nat \ {0}
      PROVE  (Halton(i, base).num * c) \div Halton(i, base).den \in 0..(c - 1)
  <2> DEFINE num == Halton(i, base).num
             den == Halton(i, base).den
  <2>1. num \in Nat /\ den \in Nat /\ num < den
    BY HaltonBelowOne
  <2> HIDE DEF num, den
  <2>2. num * c \in Nat /\ den \in Nat \ {0} /\ num * c < c * den
    BY <2>1
  <2>3. (num * c) \div den \in 0..(c - 1)
    BY <2>2, QuotientBelow
  <2> QED
    BY <2>3 DEF num, den
<1>2. /\ (Halton(i, 2).num * cx) \div Halton(i, 2).den \in 0..(cx - 1)
      /\ (Halton(i, 3).num * cy) \div Halton(i, 3).den \in 0..(cy - 1)
  <2>1. 2 \in Bases /\ 3 \in Bases
    BY DEF Bases
  <2> QED
    BY <1>1, <2>1
<1> QED
  BY <1>2 DEF Point

\* The cell of a sample, from the numbers of cells.
LEMMA CellIsPoint ==
  ASSUME NEW i, NEW r, NEW render
  PROVE  Cell(i, r, render) = Point(i, Cells(r, render, 1), Cells(r, render, 2))
BY DEF Cell, Point, Sample, BaseY

\* What the getters recommend is an answer of NGX, or the output with DLAA.
AnswerInv ==
  phase # "none" =>
    \E mode \in Modes, out \in Outputs :
      \E s \in Settings[out] : res = Resolutions(mode, out, s)

\* A context is created with its answer, and keeps it.
LEMMA AnswerInductive == HandoffSpec => []AnswerInv
<1>1. HandoffInit => AnswerInv
  BY DEF HandoffInit, Init, AnswerInv
<1>2. AnswerInv /\ [HandoffNext]_<<vars, fgVars>> => AnswerInv'
  <2> SUFFICES ASSUME AnswerInv, [HandoffNext]_<<vars, fgVars>>
               PROVE  AnswerInv'
    OBVIOUS
  <2>1. CASE Create
    <3>1. CASE UNCHANGED <<phase, create, res>>
      BY <3>1 DEF AnswerInv
    <3>2. ASSUME NEW mode \in Modes, NEW out \in Outputs, NEW s \in Settings[out],
                 res' = Resolutions(mode, out, s)
          PROVE  AnswerInv'
      BY <3>2 DEF AnswerInv
    <3> QED
      BY <2>1, <3>1, <3>2 DEF Create
  <2>2. CASE Drop
    BY <2>2 DEF Drop, AnswerInv
  <2>3. CASE phase # "none" /\ res' = res
    BY <2>3 DEF AnswerInv
  <2>4. CASE UNCHANGED <<phase, res>>
    BY <2>4 DEF AnswerInv
  <2>5. Allocate \/ DrawScene \/ Render => phase # "none" /\ res' = res
    BY DEF Allocate, DrawScene, Render
  <2>6. Tag \/ SetConstants \/ UNCHANGED <<vars, fgVars>> => UNCHANGED <<phase, res>>
    BY DEF Tag, SetConstants, vars
  <2> QED
    BY <2>1, <2>2, <2>3, <2>4, <2>5, <2>6 DEF HandoffNext, UpscalerStep, NextFrame
<1> QED
  BY <1>1, <1>2, PTL DEF HandoffSpec

\* What an application may render at, with a context that exists.
RenderSizes == {res.min, res.optimal, res.max}

\* Each fits the output, and is the output itself or in NGX's answer for it.
LEMMA SizesAreAnswered ==
  ASSUME AnswerInv, phase # "none", NEW render \in RenderSizes
  PROVE  /\ render \in (Nat \ {0}) \X (Nat \ {0})
         /\ res.upscaled \in Outputs /\ res.upscaled \in (Nat \ {0}) \X (Nat \ {0})
         /\ Fits(render, res.upscaled)
         /\ \/ render = res.upscaled
            \/ \E s \in Settings[res.upscaled] : render \in {s.min, s.optimal, s.max}
<1>1. PICK mode \in Modes, out \in Outputs :
        \E s \in Settings[out] : res = Resolutions(mode, out, s)
  BY DEF AnswerInv
<1>2. PICK s \in Settings[out] : res = Resolutions(mode, out, s)
  BY <1>1
<1>3. res.upscaled = out /\ out \in (Nat \ {0}) \X (Nat \ {0})
  BY <1>2, UpscalerAssumption DEF Resolutions
<1>4. CASE mode = "Dlaa"
  <2>1. render = out
    BY <1>2, <1>4 DEF Resolutions, RenderSizes
  <2> QED
    BY <1>3, <2>1 DEF Fits
<1>5. CASE mode # "Dlaa"
  <2>1. render \in {s.min, s.optimal, s.max}
    BY <1>2, <1>5 DEF Resolutions, RenderSizes
  <2>2. /\ DOMAIN s = {"optimal", "min", "max"}
        /\ \A k \in DOMAIN s : s[k] \in (Nat \ {0}) \X (Nat \ {0})
        /\ Fits(s.min, s.optimal) /\ Fits(s.optimal, s.max) /\ Fits(s.max, out)
    BY UpscalerAssumption
  <2>3. /\ s.min \in (Nat \ {0}) \X (Nat \ {0}) /\ s.max \in (Nat \ {0}) \X (Nat \ {0})
        /\ s.optimal \in (Nat \ {0}) \X (Nat \ {0})
    BY <2>2
  <2>4. Fits(s.min, out) /\ Fits(s.optimal, out)
    BY <1>3, <2>2, <2>3 DEF Fits
  <2>5. render \in (Nat \ {0}) \X (Nat \ {0}) /\ Fits(render, out)
    BY <2>1, <2>2, <2>3, <2>4
  <2> QED
    BY <1>3, <2>1, <2>5
<1> QED
  BY <1>4, <1>5

\* A render pixel of up to four output pixels an axis, as many on one as on the other
\* but for one: what a mode down to a third of the output comes to, with its rounding.
UpToFour(out, render) ==
  LET cells(axis) == Cells([upscaled |-> out], render, axis) IN
  \A x, y \in {1, 2} : cells(x) <= 4 /\ cells(x) <= cells(y) + 1

\* NgxFeature::suggested_jitter: if every answer of NGX is for a ratio that its modes
\* have, then over one period every output pixel of a render pixel is sampled.  The
\* ratio may be that of either end of the range, and need not be a whole number.
THEOREM JitterResolves ==
  ASSUME \A out \in Outputs : \A s \in Settings[out] :
           UpToFour(out, s.min) /\ UpToFour(out, s.optimal) /\ UpToFour(out, s.max)
  PROVE  HandoffSpec => []JitterCovers
<1>1. AnswerInv => JitterCovers
  <2> SUFFICES ASSUME AnswerInv, phase = "created", NEW render \in RenderSizes,
                      NEW p \in (0..(Cells(res, render, 1) - 1))
                                  \X (0..(Cells(res, render, 2) - 1))
               PROVE  \E i \in 0..(PhaseCount(res, render) - 1) : p = Cell(i, res, render)
    BY DEF JitterCovers, RenderSizes
  <2> DEFINE cx == Cells(res, render, 1)
             cy == Cells(res, render, 2)
             n == PhaseCount(res, render)
             u == res.upscaled
  <2>1. /\ render \in (Nat \ {0}) \X (Nat \ {0}) /\ u \in (Nat \ {0}) \X (Nat \ {0})
        /\ u \in Outputs /\ Fits(render, u)
        /\ \/ render = u
           \/ \E s \in Settings[u] : render \in {s.min, s.optimal, s.max}
    BY SizesAreAnswered
  <2>2. /\ render[1] \in Nat \ {0} /\ u[1] \in Nat \ {0} /\ render[1] <= u[1]
        /\ render[2] \in Nat \ {0} /\ u[2] \in Nat \ {0} /\ render[2] <= u[2]
    BY <2>1 DEF Fits
  <2>3. /\ n \in Nat /\ n >= 8 /\ (cx > 2 => n >= 32)
        /\ cx \in Nat /\ cx >= 1 /\ cy \in Nat /\ cy >= 1
    BY <2>2, PhasesEnough, CellsAreSome
  <2>4. cx <= 4 /\ cy <= 4 /\ cx <= cy + 1 /\ cy <= cx + 1
    <3>1. CASE render = u
      <4>1. ASSUME NEW w \in Nat \ {0}
            PROVE  (w + w - 1) \div w = 1
        <5>1. 1 * w <= w + w - 1 /\ w + w - 1 < 2 * w /\ w + w - 1 \in Nat
          OBVIOUS
        <5>2. (w + w - 1) \div w \in 0..(2 - 1) /\ 1 <= (w + w - 1) \div w
          BY <5>1, QuotientBelow, QuotientAtLeast
        <5> QED
          BY <5>2
      <4>2. cx = 1 /\ cy = 1
        BY <2>2, <3>1, <4>1 DEF Cells
      <4> QED
        BY <4>2
    <3>2. CASE UpToFour(u, render)
      <4>1. /\ Cells([upscaled |-> u], render, 1) = cx
            /\ Cells([upscaled |-> u], render, 2) = cy
        BY DEF Cells
      <4> QED
        BY <3>2, <4>1 DEF UpToFour
    <3> QED
      BY <2>1, <3>1, <3>2
  <2> HIDE DEF cx, cy, n, u
  <2>5. /\ cx \in 1..4 /\ cy \in 1..4 /\ p = <<p[1], p[2]>>
        /\ p[1] \in 0..(cx - 1) /\ p[2] \in 0..(cy - 1)
    BY <2>3, <2>4 DEF cx, cy
  <2>6. PICK i \in 0..(IF cx <= 2 THEN 7 ELSE 31) : Point(i, cx, cy) = <<p[1], p[2]>>
    BY <2>4, <2>5, Covered
  <2>7. i \in 0..(n - 1)
    BY <2>3, <2>5
  <2>8. Cell(i, res, render) = p
    BY <2>5, <2>6, CellIsPoint DEF cx, cy
  <2> QED
    BY <2>7, <2>8 DEF n
<1> QED
  BY <1>1, AnswerInductive, PTL

\* jitter.rs:6-9: each offset is below one and not below zero, before it is recentred.
InUnit(f) == f.num \in Nat /\ f.den \in Nat /\ f.num < f.den

\* NgxFeature::suggested_jitter: there are never fewer than eight offsets, the max(1)
\* is not needed, and none, of any frame, leaves its render pixel.
JitterIsWithin ==
  phase # "none" =>
    \A render \in RenderSizes :
      /\ PhaseCount(res, render) \in Nat /\ PhaseCount(res, render) >= 8
      /\ \A i \in Nat :
           /\ InUnit(Sample(i)[1]) /\ InUnit(Sample(i)[2])
           /\ Cell(i, res, render) \in (0..(Cells(res, render, 1) - 1))
                                         \X (0..(Cells(res, render, 2) - 1))

\* The jitter a context suggests is within a render pixel, whatever the frame's number
\* and whatever NGX answered.
THEOREM JitterStays == HandoffSpec => []JitterIsWithin
<1>1. AnswerInv => JitterIsWithin
  <2> SUFFICES ASSUME AnswerInv, phase # "none", NEW render \in RenderSizes
               PROVE  /\ PhaseCount(res, render) \in Nat /\ PhaseCount(res, render) >= 8
                      /\ \A i \in Nat :
                           /\ InUnit(Sample(i)[1]) /\ InUnit(Sample(i)[2])
                           /\ Cell(i, res, render)
                                \in (0..(Cells(res, render, 1) - 1))
                                      \X (0..(Cells(res, render, 2) - 1))
    BY DEF JitterIsWithin
  <2> DEFINE u == res.upscaled
  <2>1. /\ render \in (Nat \ {0}) \X (Nat \ {0}) /\ u \in (Nat \ {0}) \X (Nat \ {0})
        /\ Fits(render, u)
    BY SizesAreAnswered
  <2>2. /\ render[1] \in Nat \ {0} /\ u[1] \in Nat \ {0} /\ render[1] <= u[1]
        /\ render[2] \in Nat \ {0} /\ u[2] \in Nat \ {0} /\ render[2] <= u[2]
    BY <2>1 DEF Fits
  <2>3. /\ PhaseCount(res, render) \in Nat /\ PhaseCount(res, render) >= 8
        /\ Cells(res, render, 1) \in Nat \ {0} /\ Cells(res, render, 2) \in Nat \ {0}
    BY <2>2, PhasesEnough, CellsAreSome
  <2>4. ASSUME NEW i \in Nat
        PROVE  /\ InUnit(Sample(i)[1]) /\ InUnit(Sample(i)[2])
               /\ Cell(i, res, render) \in (0..(Cells(res, render, 1) - 1))
                                             \X (0..(Cells(res, render, 2) - 1))
    <3>1. 2 \in Bases /\ BaseY \in Bases
      BY DEF Bases, BaseY
    <3>2. InUnit(Sample(i)[1]) /\ InUnit(Sample(i)[2])
      BY <3>1, HaltonBelowOne DEF InUnit, Sample
    <3>3. Cell(i, res, render) \in (0..(Cells(res, render, 1) - 1))
                                     \X (0..(Cells(res, render, 2) - 1))
      BY <2>3, CellIsPoint, PointIsWithin
    <3> QED
      BY <3>2, <3>3
  <2> QED
    BY <2>3, <2>4
<1> QED
  BY <1>1, AnswerInductive, PTL

\* Two fractions of one value.
SameValue(f, g) == f.num * g.den = g.num * f.den

\* Leading digits are compared first: fractions of one value have the same digit, and
\* the same rest.
LEMMA DigitFirst ==
  ASSUME NEW base \in Bases, NEW d \in Nat, NEW e \in Nat,
         NEW r, InUnit(r), NEW q, InUnit(q),
         (d * r.den + r.num) * (base * q.den) = (e * q.den + q.num) * (base * r.den)
  PROVE  d = e /\ SameValue(r, q)
<1> DEFINE N == r.num
           D == r.den
           M == q.num
           E == q.den
<1>0. /\ N \in Nat /\ D \in Nat /\ N < D /\ M \in Nat /\ E \in Nat /\ M < E
      /\ (d * D + N) * (base * E) = (e * E + M) * (base * D)
  BY DEF InUnit
<1> HIDE DEF N, D, M, E
<1> DEFINE P == D * E
           NE == N * E
           MD == M * D
<1>1. P \in Nat /\ NE \in Nat /\ MD \in Nat
  BY <1>0
<1>2. NE < P /\ MD < P
  BY <1>0
<1>3. (d * D + N) * E = (e * E + M) * D
  <2> DEFINE x == (d * D + N) * E
             y == (e * E + M) * D
  <2>1. x \in Nat /\ y \in Nat
    BY <1>0
  <2>2. (d * D + N) * (base * E) = base * x /\ (e * E + M) * (base * D) = base * y
    <3>1. ASSUME NEW s \in Nat, NEW t \in Nat
          PROVE  s * (base * t) = base * (s * t)
      BY DEF Bases
    <3>2. d * D + N \in Nat /\ e * E + M \in Nat
      BY <1>0
    <3> QED
      BY <1>0, <3>1, <3>2
  <2> HIDE DEF x, y
  <2>3. base * x = base * y
    BY <1>0, <2>2
  <2>4. x = y
    BY <2>1, <2>3 DEF Bases
  <2> QED
    BY <2>4 DEF x, y
<1>4. (d * D + N) * E = d * P + NE /\ (e * E + M) * D = e * P + MD
  BY <1>0
<1> HIDE DEF P, NE, MD
<1>5. d * P + NE = e * P + MD
  BY <1>3, <1>4
<1>6. ~(d + 1 <= e)
  <2> SUFFICES ASSUME d + 1 <= e PROVE FALSE
    OBVIOUS
  <2>1. (d + 1) * P <= e * P /\ (d + 1) * P = d * P + P
    BY <1>1
  <2>2. d * P \in Nat /\ e * P \in Nat
    BY <1>1
  <2> QED
    BY <1>1, <1>2, <1>5, <2>1, <2>2
<1>7. ~(e + 1 <= d)
  <2> SUFFICES ASSUME e + 1 <= d PROVE FALSE
    OBVIOUS
  <2>1. (e + 1) * P <= d * P /\ (e + 1) * P = e * P + P
    BY <1>1
  <2>2. d * P \in Nat /\ e * P \in Nat
    BY <1>1
  <2> QED
    BY <1>1, <1>2, <1>5, <2>1, <2>2
<1>8. d = e
  BY <1>6, <1>7
<1>9. NE = MD
  <2>1. d * P \in Nat
    BY <1>1
  <2> QED
    BY <1>1, <1>5, <1>8, <2>1
<1> QED
  BY <1>8, <1>9 DEF NE, MD, N, D, M, E, SameValue

\* An index is its digits: the last one, and the index without it.
LEMMA Digits ==
  ASSUME NEW base \in Bases, NEW i \in Nat, i # 0,
         NEW n, n = i \div base, NEW d, d = i % base, NEW r, r = Halton(n, base)
  PROVE  /\ n \in Nat /\ n < i /\ d \in 0..(base - 1) /\ i = base * n + d
         /\ r.num \in Nat /\ r.den \in Nat /\ r.num < r.den
         /\ Halton(i, base).num = d * r.den + r.num /\ Halton(i, base).den = base * r.den
<1>1. n \in Nat /\ n < i /\ d \in 0..(base - 1) /\ i = base * n + d
  BY DEF Bases
<1>2. r.num \in Nat /\ r.den \in Nat /\ r.num < r.den
  BY <1>1, HaltonBelowOne
<1>3. Halton(base * n + d, base) = [index |-> 0, num |-> d * r.den + r.num, den |-> base * r.den]
  BY <1>1, HaltonInverts
<1> QED
  BY <1>1, <1>2, <1>3

\* Only the first index has the value zero.
LEMMA OnlyFirstIsZero ==
  ASSUME NEW base \in Bases, NEW i \in Nat, Halton(i, base).num = 0
  PROVE  i = 0
<1> DEFINE T == {k \in Nat : k # 0 /\ Halton(k, base).num = 0}
<1> SUFFICES ASSUME i \in T
             PROVE  FALSE
  OBVIOUS
<1>1. PICK k \in T : \A l \in Nat : l < k => l \notin T
  <2>1. T \in SUBSET Nat
    OBVIOUS
  <2> HIDE DEF T
  <2> QED
    BY <2>1, Least
<1> DEFINE n == k \div base
           d == k % base
           r == Halton(n, base)
<1>2. k \in Nat /\ k # 0 /\ Halton(k, base).num = 0
  BY <1>1
<1>3. /\ n \in Nat /\ n < k /\ d \in 0..(base - 1) /\ k = base * n + d
      /\ r.num \in Nat /\ r.den \in Nat /\ r.num < r.den
      /\ Halton(k, base).num = d * r.den + r.num
  BY <1>2, Digits
<1> HIDE DEF n, d
<1>4. d = 0 /\ r.num = 0
  <2> HIDE DEF r
  <2>1. d * r.den \in Nat /\ d * r.den + r.num = 0
    BY <1>2, <1>3 DEF Bases
  <2>2. d * r.den = 0 /\ r.num = 0
    BY <1>3, <2>1
  <2> QED
    BY <1>3, <2>2 DEF Bases
<1>5. n # 0
  BY <1>2, <1>3, <1>4 DEF Bases
<1> QED
  BY <1>1, <1>3, <1>4, <1>5

\* No two indexes have the same value.
LEMMA HaltonDiffers ==
  ASSUME NEW base \in Bases, NEW i \in Nat, NEW j \in Nat,
         SameValue(Halton(i, base), Halton(j, base))
  PROVE  i = j
<1> DEFINE T == {k \in Nat : \E l \in Nat :
                   k # l /\ SameValue(Halton(k, base), Halton(l, base))}
<1> SUFFICES ASSUME i \in T
             PROVE  FALSE
  OBVIOUS
<1>1. PICK k \in T : \A l \in Nat : l < k => l \notin T
  <2>1. T \in SUBSET Nat
    OBVIOUS
  <2> HIDE DEF T
  <2> QED
    BY <2>1, Least
<1>2. PICK l \in Nat : k # l /\ SameValue(Halton(k, base), Halton(l, base))
  BY <1>1
<1>3. k \in Nat /\ Halton(0, base).num = 0 /\ Halton(0, base).den = 1
  BY <1>1, First DEF Bases, Fraction
<1>4. k # 0
  <2> SUFFICES ASSUME k = 0 PROVE FALSE
    OBVIOUS
  <2>1. Halton(l, base).num \in Nat
    BY HaltonBelowOne
  <2>2. 0 * Halton(l, base).den = Halton(l, base).num * 1
    BY <1>2, <1>3 DEF SameValue
  <2>3. Halton(l, base).den \in Nat
    BY HaltonBelowOne
  <2>4. Halton(l, base).num = 0
    BY <2>1, <2>2, <2>3
  <2> QED
    BY <1>2, <2>4, OnlyFirstIsZero
<1>5. l # 0
  <2> SUFFICES ASSUME l = 0 PROVE FALSE
    OBVIOUS
  <2>1. Halton(k, base).num \in Nat /\ Halton(k, base).den \in Nat
    BY <1>3, HaltonBelowOne
  <2>2. Halton(k, base).num * 1 = 0 * Halton(k, base).den
    BY <1>2, <1>3 DEF SameValue
  <2>3. Halton(k, base).num = 0
    BY <2>1, <2>2
  <2> QED
    BY <1>2, <1>3, <2>3, OnlyFirstIsZero
<1> DEFINE n == k \div base
           d == k % base
           r == Halton(n, base)
           m == l \div base
           e == l % base
           q == Halton(m, base)
<1>6. /\ n \in Nat /\ n < k /\ d \in 0..(base - 1) /\ k = base * n + d
      /\ r.num \in Nat /\ r.den \in Nat /\ r.num < r.den
      /\ Halton(k, base).num = d * r.den + r.num /\ Halton(k, base).den = base * r.den
  BY <1>3, <1>4, Digits
<1>7. /\ m \in Nat /\ m < l /\ e \in 0..(base - 1) /\ l = base * m + e
      /\ q.num \in Nat /\ q.den \in Nat /\ q.num < q.den
      /\ Halton(l, base).num = e * q.den + q.num /\ Halton(l, base).den = base * q.den
  BY <1>5, Digits
<1>8. (d * r.den + r.num) * (base * q.den) = (e * q.den + q.num) * (base * r.den)
  BY <1>2, <1>6, <1>7 DEF SameValue
<1> HIDE DEF n, d, m, e
<1>9. d = e /\ SameValue(r, q)
  <2> HIDE DEF r, q
  <2>1. d \in Nat /\ e \in Nat
    BY <1>6, <1>7 DEF Bases
  <2>2. InUnit(r) /\ InUnit(q)
    BY <1>6, <1>7 DEF InUnit
  <2> QED
    BY <1>8, <2>1, <2>2, DigitFirst
<1>10. n # m
  BY <1>2, <1>6, <1>7, <1>9
<1> QED
  BY <1>1, <1>6, <1>7, <1>9, <1>10

\* NgxFeature::suggested_jitter with halton_sequence: on neither axis do two frames of a
\* period have the same offset, so no phase of it repeats a sample.
THEOREM SamplesDiffer ==
  ASSUME NEW i \in Nat, NEW j \in Nat, NEW axis \in {1, 2},
         SameValue(Sample(i)[axis], Sample(j)[axis])
  PROVE  i = j
<1>1. 2 \in Bases /\ BaseY \in Bases
  BY DEF Bases, BaseY
<1>2. CASE axis = 1
  BY <1>1, <1>2, HaltonDiffers DEF Sample
<1>3. CASE axis = 2
  BY <1>1, <1>3, HaltonDiffers DEF Sample
<1> QED
  BY <1>2, <1>3
=============================================================================
