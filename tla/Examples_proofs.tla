--------------------------- MODULE Examples_proofs ---------------------------
(***************************************************************************)
(* The example programs are clients of FgFrame: what they do to a Frame    *)
(* and to a surface are FgFrame's steps, so its theorems hold for them.    *)
(*                                                                         *)
(* What they are for, that no Frame is reported, that the swapchain binds, *)
(* that nothing stale is evaluated or presented and that every evaluate    *)
(* reads within its inputs, follows from one invariant, ProgramInv, that   *)
(* says for every position in a program's functions what the operations    *)
(* before it have left.  It is inductive; a lemma ...Next for each of its  *)
(* parts says that every step keeps that part.                             *)
(***************************************************************************)
EXTENDS Examples, FgFrame_proofs, SequenceTheorems

\* A step of a program that leaves the Frame and the surface alone.
LEMMA FramesApart ==
  ASSUME \/ StartStreamline \/ StartRun \/ Resumed \/ BringUpFails \/ MakeObject
         \/ MakeUpscaler \/ MakeFrameGeneration \/ Configure \/ MakeTextures
         \/ EndOfBringUp \/ Redraw \/ ForLoop \/ EndOfFrame \/ Leave \/ DropObject
         \/ EndOfProgram \/ DrawCommands \/ Submit \/ UpscaleImage \/ Poll
         \/ RequestRedraw \/ CloseRequested \/ SystemRedraw
  PROVE  UNCHANGED frames
<1>1. ASSUME StartStreamline \/ StartRun \/ Resumed \/ BringUpFails \/ MakeObject
             \/ MakeUpscaler \/ MakeFrameGeneration \/ Configure \/ MakeTextures
      PROVE  UNCHANGED frames
  BY <1>1 DEF StartStreamline, StartRun, Resumed, BringUpFails, MakeObject, MakeUpscaler,
              MakeFrameGeneration, Configure, MakeTextures
<1>2. ASSUME EndOfBringUp \/ Redraw \/ ForLoop \/ EndOfFrame \/ Leave \/ DropObject
             \/ EndOfProgram
      PROVE  UNCHANGED frames
  BY <1>2 DEF EndOfBringUp, Redraw, ForLoop, NewFrame, EndOfFrame, Leave, DropObject, EndOfProgram
<1>3. ASSUME DrawCommands \/ Submit \/ UpscaleImage \/ Poll \/ RequestRedraw
             \/ CloseRequested \/ SystemRedraw
      PROVE  UNCHANGED frames
  BY <1>3 DEF DrawCommands, Submit, UpscaleImage, Poll, RequestRedraw, CloseRequested,
              SystemRedraw
<1> QED
  BY <1>1, <1>2, <1>3, Zenon

\* An operation on the Frame is the step of FgFrame of that name.
LEMMA FrameOperation ==
  ASSUME \/ BeginsFrame \/ SetsConstants \/ Acquires \/ Tags \/ EndsRender \/ Presents
         \/ Drops \/ AnyClient
  PROVE  FrameStep
<1>1. CASE BeginsFrame
  BY <1>1, Zenon DEF BeginsFrame, FrameStep
<1>2. CASE SetsConstants
  <2>1. (prog = "sr_plus_fg" /\ index0 = 0) \in BOOLEAN
    OBVIOUS
  <2> QED
    BY <1>2, <2>1, Zenon DEF SetsConstants, FrameStep
<1>3. CASE Acquires
  BY <1>3, Zenon DEF Acquires, FrameStep
<1>4. CASE Tags
  BY <1>4, Zenon DEF Tags, FrameStep
<1>5. CASE EndsRender
  BY <1>5, Zenon DEF EndsRender, FrameStep
<1>6. CASE Presents
  BY <1>6, Zenon DEF Presents, FrameStep
<1>7. CASE Drops
  BY <1>7, Zenon DEF Drops, FrameStep
<1>8. CASE AnyClient
  BY <1>8, Zenon DEF AnyClient
<1> QED
  BY <1>1, <1>2, <1>3, <1>4, <1>5, <1>6, <1>7, <1>8, Zenon

\* Every behaviour of a program is, for its Frames, one of FgFrame.
THEOREM ProgramsUseFrames == ProgramSpec => Spec
<1>1. ProgramInit => Init
  BY Zenon DEF ProgramInit
<1>2. [ProgramNext]_allVars => [Next]_vars
  <2> SUFFICES ASSUME [ProgramNext]_allVars
               PROVE  [Next]_vars
    OBVIOUS
  <2>1. CASE UNCHANGED allVars
    BY <2>1, Zenon DEF allVars
  <2>2. ASSUME UNCHANGED frames, UNCHANGED debug
        PROVE  UNCHANGED vars
    BY <2>2, Zenon DEF frames, vars
  <2>3. ASSUME FrameStep, UNCHANGED debug
        PROVE  Next
    BY <2>3, Zenon DEF Next
  <2>4. CASE ProgramNext
    BY <2>2, <2>3, <2>4, FramesApart, FrameOperation, Zenon DEF ProgramNext, ProgramStep
  <2> QED
    BY <2>1, <2>4, Zenon
<1> QED
  BY <1>1, <1>2, PTL DEF ProgramSpec, Spec

\* So what FgFrame's theorems say holds of the Frames of every program.
THEOREM ProgramsKeepFrames ==
  ProgramSpec => [](TypeOK /\ OrderReported /\ NoPresentWithoutIndex /\ FirstFrameResets)
BY ProgramsUseFrames, TypeCorrect, OrderIsReported, IndexBeforePresent, FirstResets, PTL
-----------------------------------------------------------------------------
(* Sequences *)

\* s is a sequence of n elements.
Lists(s, n) == s = [i \in 1..n |-> s[i]]

\* What is listed, and in a set, is a sequence of that set.
LEMMA IsSequence ==
  ASSUME NEW S, NEW n \in Nat, NEW s, Lists(s, n), \A i \in 1..n : s[i] \in S
  PROVE  s \in Seq(S) /\ Len(s) = n
<1>1. s \in [1..n -> S]
  BY DEF Lists
<1>2. s \in Seq(S)
  BY <1>1, SeqDef
<1> QED
  BY <1>1, <1>2, LenProperties, SMT

\* What is listed has the length that it is listed with.
LEMMA HasLength ==
  ASSUME NEW n \in Nat, NEW s, Lists(s, n)
  PROVE  Len(s) = n /\ DOMAIN s = 1..n
<1> DEFINE S == {s[i] : i \in 1..n}
<1>1. \A i \in 1..n : s[i] \in S
  OBVIOUS
<1> HIDE DEF S
<1> QED
  BY <1>1, IsSequence, Zenon DEF Lists

\* One sequence after the other.
Then(s, t) == s \o t

\* One after the other, two lists are a list of both.
LEMMA Joined ==
  ASSUME NEW m \in Nat, NEW n \in Nat, NEW s, NEW t, Lists(s, m), Lists(t, n)
  PROVE  /\ Lists(Then(s, t), m + n)
         /\ \A i \in 1..m : Then(s, t)[i] = s[i]
         /\ \A i \in 1..n : Then(s, t)[m + i] = t[i]
<1> DEFINE S == {s[i] : i \in 1..m} \cup {t[i] : i \in 1..n}
<1>1. (\A i \in 1..m : s[i] \in S) /\ (\A i \in 1..n : t[i] \in S)
  OBVIOUS
<1> HIDE DEF S
<1>2. s \in Seq(S) /\ Len(s) = m
  BY <1>1, IsSequence, Zenon
<1>3. t \in Seq(S) /\ Len(t) = n
  BY <1>1, IsSequence, Zenon
<1>4. /\ Then(s, t) \in Seq(S) /\ Len(Then(s, t)) = m + n
      /\ \A i \in 1..m : Then(s, t)[i] = s[i]
      /\ \A i \in 1..n : Then(s, t)[m + i] = t[i]
  BY <1>2, <1>3 DEF Then
<1>5. Then(s, t) \in [1..(m + n) -> S]
  BY <1>4, LenProperties
<1> QED
  BY <1>4, <1>5 DEF Lists

\* The operations of a list of names are a list, of the same length.
LEMMA Doing ==
  ASSUME NEW n \in Nat, NEW names, Lists(names, n)
  PROVE  /\ Lists(DoAll(names), n)
         /\ \A i \in 1..n : DoAll(names)[i] = Do(names[i])
BY DEF DoAll, Lists
-----------------------------------------------------------------------------
(* The functions of the programs *)

\* The features a program makes contexts for.
Uses ==
  CASE prog \in {"sr_plus_fg", "super_resolution", "dynamic_resolution"} -> {"sr"}
    [] prog = "ray_reconstruction" -> {"rr"}
    [] prog = "sr_rr_toggle" -> Features
    [] OTHER -> {}

\* What the contexts of a program were answered, and its inputs were made with.
Answered(f) == f \in DOMAIN range /\ range[f] \in Ranges

Sized(f) == Answered(f) /\ f \in DOMAIN sizes /\ sizes[f] = Allocated(f)

\* The feature that evaluates frame n, and whether it resets its history.
FeatureOf(p, n) ==
  CASE p = "frame_generation" -> "none"
    [] p = "ray_reconstruction" -> "rr"
    [] p = "sr_rr_toggle" -> IF n < FRAMES_PER_PHASE THEN "sr" ELSE "rr"
    [] OTHER -> "sr"

\* dynamic_resolution.rs: whatever the fraction, the interpolation is within its ends.
LEMMA LerpWithin ==
  ASSUME NEW lo \in Nat, NEW hi \in Nat, lo <= hi, NEW part \in Int, NEW whole \in Nat \ {0}
  PROVE  /\ Lerp(lo, hi, part, whole) \in Nat
         /\ lo <= Lerp(lo, hi, part, whole) /\ Lerp(lo, hi, part, whole) <= hi
<1>1. 2 * (hi - lo) * part + whole \in Int /\ 2 * whole \in Nat \ {0}
  OBVIOUS
<1>2. ASSUME NEW x \in Int, NEW y \in Nat \ {0}
      PROVE  lo + x \div y \in Int
  OBVIOUS
<1>3. LerpRounded(lo, hi, part, whole) \in Int
  BY <1>1, <1>2 DEF LerpRounded
<1> QED
  BY <1>3 DEF Lerp

\* NGX's answer is a range.
LEMMA AnsweredIs ==
  ASSUME NEW f, Answered(f)
  PROVE  /\ range[f].min \in Nat /\ range[f].optimal \in Nat /\ range[f].max \in Nat
         /\ range[f].min <= range[f].optimal /\ range[f].optimal <= range[f].max
<1>1. range[f] \in Ranges
  BY DEF Answered
<1> QED
  BY <1>1, ExamplesAssumption

\* What a frame of frame_generation does, in its order.
LEMMA FrameGenerationScript ==
  ASSUME prog = "frame_generation", NEW n \in Nat, NEW s, s = FrameScript(n)
  PROVE  /\ Lists(s, 10)
         /\ s[1] = Do("begin_frame") /\ s[2] = Do("set_constants") /\ s[3] = Do("acquire")
         /\ s[4] = Draw(FrameGenerationTextures, {})
         /\ s[5] = Do("tag") /\ s[6] = Do("submit") /\ s[7] = Do("end_render")
         /\ s[8] = Do("present") /\ s[9] = Do("drop_frame") /\ s[10] = Do("request_redraw")
<1>1. /\ Lists(FrameGenerationBegin, 3) /\ FrameGenerationBegin[1] = Do("begin_frame")
      /\ FrameGenerationBegin[2] = Do("set_constants")
      /\ FrameGenerationBegin[3] = Do("acquire")
  BY DEF FrameGenerationBegin, DoAll, Lists, Do
<1>2. Lists(FrameGenerationDraws, 1) /\ FrameGenerationDraws[1] = Draw(FrameGenerationTextures, {})
  BY DEF FrameGenerationDraws, Lists, FrameGenerationTextures
<1>3. /\ Lists(FrameGenerationEnd, 6) /\ FrameGenerationEnd[1] = Do("tag")
      /\ FrameGenerationEnd[2] = Do("submit") /\ FrameGenerationEnd[3] = Do("end_render")
      /\ FrameGenerationEnd[4] = Do("present") /\ FrameGenerationEnd[5] = Do("drop_frame")
      /\ FrameGenerationEnd[6] = Do("request_redraw")
  BY DEF FrameGenerationEnd, DoAll, Lists, Do
<1>4. s = Then(Then(FrameGenerationBegin, FrameGenerationDraws), FrameGenerationEnd)
  BY Zenon DEF FrameScript, Then
<1>5. PICK t : t = Then(FrameGenerationBegin, FrameGenerationDraws)
  OBVIOUS
<1>6. /\ Lists(t, 4) /\ \A i \in 1..3 : t[i] = FrameGenerationBegin[i]
      /\ t[4] = FrameGenerationDraws[1]
  BY <1>1, <1>2, <1>5, Joined
<1>7. /\ Lists(s, 10) /\ \A i \in 1..4 : s[i] = t[i]
      /\ \A i \in 1..6 : s[4 + i] = FrameGenerationEnd[i]
  BY <1>3, <1>4, <1>5, <1>6, Joined
<1> QED
  BY <1>1, <1>2, <1>3, <1>6, <1>7

\* What a frame of sr_plus_fg does, from its two parts and its end.
LEMMA SrPlusFgScript ==
  ASSUME prog = "sr_plus_fg", NEW n \in Nat, NEW s, s = FrameScript(n)
  PROVE  /\ Lists(s, 15)
         /\ s[1] = Draw(SrInputs, {}) /\ s[2] = Do("submit")
         /\ s[3] = Upscale("sr", SrInputs, "output", n = 0, range.sr.optimal)
         /\ s[3].op = "upscale"
         /\ s[4] = Do("begin_frame") /\ s[5] = Do("set_constants") /\ s[6] = Do("acquire")
         /\ s[7] = Draw({"hudless"}, {"output"}) /\ s[8] = Draw({"ui"}, {})
         /\ s[9] = Draw({"backbuffer"}, {"hudless"})
         /\ s[10] = Do("tag") /\ s[11] = Do("submit") /\ s[12] = Do("end_render")
         /\ s[13] = Do("present") /\ s[14] = Do("drop_frame") /\ s[15] = Do("request_redraw")
<1>1. /\ Lists(SrPlusFgUpscales(n), 3) /\ SrPlusFgUpscales(n)[1] = Draw(SrInputs, {})
      /\ SrPlusFgUpscales(n)[2] = Do("submit")
      /\ SrPlusFgUpscales(n)[3] = Upscale("sr", SrInputs, "output", n = 0, range.sr.optimal)
  BY DEF SrPlusFgUpscales, Lists, SrInputs
<1>2. SrPlusFgUpscales(n)[3].op = "upscale"
  BY DEF SrPlusFgUpscales, Upscale
<1> DEFINE names == <<"begin_frame", "set_constants", "acquire">>
           draws == <<Draw({"hudless"}, {"output"}), Draw({"ui"}, {}),
                      Draw({"backbuffer"}, {"hudless"})>>
<1>3. /\ Lists(DoAll(names), 3) /\ DoAll(names)[1] = Do("begin_frame")
      /\ DoAll(names)[2] = Do("set_constants") /\ DoAll(names)[3] = Do("acquire")
  BY DEF DoAll, Lists, Do
<1>4. /\ Lists(draws, 3) /\ draws[1] = Draw({"hudless"}, {"output"})
      /\ draws[2] = Draw({"ui"}, {}) /\ draws[3] = Draw({"backbuffer"}, {"hudless"})
  BY DEF Lists
<1>5. SrPlusFgDraws = Then(DoAll(names), draws)
  BY Zenon DEF SrPlusFgDraws, Then
<1> HIDE DEF names, draws
<1>6. /\ Lists(SrPlusFgDraws, 6) /\ \A i \in 1..3 : SrPlusFgDraws[i] = DoAll(names)[i]
      /\ \A i \in 1..3 : SrPlusFgDraws[3 + i] = draws[i]
  BY <1>3, <1>4, <1>5, Joined
<1>7. /\ Lists(SrPlusFgEnd, 6) /\ SrPlusFgEnd[1] = Do("tag")
      /\ SrPlusFgEnd[2] = Do("submit") /\ SrPlusFgEnd[3] = Do("end_render")
      /\ SrPlusFgEnd[4] = Do("present") /\ SrPlusFgEnd[5] = Do("drop_frame")
      /\ SrPlusFgEnd[6] = Do("request_redraw")
  BY DEF SrPlusFgEnd, DoAll, Lists, Do
<1>8. PICK t : t = Then(SrPlusFgUpscales(n), SrPlusFgDraws)
  OBVIOUS
<1>9. s = Then(t, SrPlusFgEnd)
  BY <1>8, Zenon DEF FrameScript, Then
<1>10. /\ Lists(t, 9) /\ \A i \in 1..3 : t[i] = SrPlusFgUpscales(n)[i]
      /\ \A i \in 1..6 : t[3 + i] = SrPlusFgDraws[i]
  BY <1>1, <1>6, <1>8, Joined
<1>11. /\ Lists(s, 15) /\ \A i \in 1..9 : s[i] = t[i]
       /\ \A i \in 1..6 : s[9 + i] = SrPlusFgEnd[i]
  BY <1>7, <1>9, <1>10, Joined
<1>12. /\ t[4] = DoAll(names)[1] /\ t[5] = DoAll(names)[2] /\ t[6] = DoAll(names)[3]
       /\ t[7] = draws[1] /\ t[8] = draws[2] /\ t[9] = draws[3]
  BY <1>6, <1>10
<1>13. /\ s[1] = t[1] /\ s[2] = t[2] /\ s[3] = t[3] /\ s[4] = t[4] /\ s[5] = t[5]
       /\ s[6] = t[6] /\ s[7] = t[7] /\ s[8] = t[8] /\ s[9] = t[9]
  BY <1>11
<1>14. /\ t[1] = SrPlusFgUpscales(n)[1] /\ t[2] = SrPlusFgUpscales(n)[2]
       /\ t[3] = SrPlusFgUpscales(n)[3]
  BY <1>10
<1>15. /\ s[10] = SrPlusFgEnd[1] /\ s[11] = SrPlusFgEnd[2] /\ s[12] = SrPlusFgEnd[3]
       /\ s[13] = SrPlusFgEnd[4] /\ s[14] = SrPlusFgEnd[5] /\ s[15] = SrPlusFgEnd[6]
  BY <1>11
<1> QED
  BY <1>1, <1>2, <1>3, <1>4, <1>7, <1>11, <1>12, <1>15, <1>13, <1>14, Zenon

\* What a frame of a headless program does, in its order.
LEMMA HeadlessScript ==
  ASSUME prog \in Headless, NEW n \in Nat, NEW s, s = FrameScript(n)
  PROVE  /\ Lists(s, 4)
         /\ s[1] = Draw(s[3].inputs, {}) /\ s[2] = Do("submit") /\ s[4] = Do("poll")
         /\ s[3].op = "upscale"
<1>1. CASE prog = "super_resolution"
  <2>1. s = SuperResolutionFrame(n)
   BY <1>1, Zenon DEF FrameScript
  <2> QED
   BY <2>1 DEF SuperResolutionFrame, Lists, Upscale
<1>2. CASE prog = "dynamic_resolution"
  <2>1. s = DynamicResolutionFrame(n)
   BY <1>2, Zenon DEF FrameScript
  <2> QED
   BY <2>1 DEF DynamicResolutionFrame, Lists, Upscale
<1>3. CASE prog = "ray_reconstruction"
  <2>1. s = RayReconstructionFrame(n)
   BY <1>3, Zenon DEF FrameScript
  <2> QED
   BY <2>1 DEF RayReconstructionFrame, Lists, Upscale
<1>4. CASE prog = "sr_rr_toggle"
  <2>1. s = ToggleFrame(n)
   BY <1>4, Zenon DEF FrameScript
  <2> QED
   BY <2>1 DEF ToggleFrame, Lists, Upscale
<1> QED
  BY <1>1, <1>2, <1>3, <1>4 DEF Headless

\* What the evaluate of frame n is.
Evaluates(u, n) ==
  /\ u.feature = FeatureOf(prog, n) /\ u.feature \in Uses
  /\ ~u.reset => n > 0 /\ FeatureOf(prog, n - 1) = u.feature
  /\ u.inputs \subseteq Textures /\ u.into \in Textures
  /\ Sized(u.feature) => /\ u.size \in Nat /\ range[u.feature].min <= u.size
                         /\ u.size <= sizes[u.feature]

\* An evaluate with these arguments is the one of frame n.
LEMMA UpscaleIs ==
  ASSUME NEW f \in Uses, NEW inputs, NEW into, NEW reset \in BOOLEAN, NEW size,
         NEW n \in Nat, NEW u, u = Upscale(f, inputs, into, reset, size),
         FeatureOf(prog, n) = f, ~reset => n > 0 /\ FeatureOf(prog, n - 1) = f,
         inputs \subseteq Textures, into \in Textures,
         Sized(f) => size \in Nat /\ range[f].min <= size /\ size <= sizes[f]
  PROVE  Evaluates(u, n)
<1>1. u.feature = f /\ u.inputs = inputs /\ u.into = into /\ u.reset = reset /\ u.size = size
  BY DEF Upscale
<1> QED
  BY <1>1, Zenon DEF Evaluates

\* The evaluate of every frame takes the program's feature of that frame, resets its
\* history where the feature changes, and is told a size that fits.
LEMMA UpscaleOf ==
  ASSUME prog \in Headless \cup {"sr_plus_fg"}, NEW n \in Nat
  PROVE  Evaluates(FrameScript(n)[3], n)
<1>1. CASE prog \in {"sr_plus_fg", "super_resolution"}
  <2> DEFINE reset == n = 0
  <2>1. FrameScript(n)[3] = Upscale("sr", SrInputs, "output", reset, range["sr"].optimal)
    <3>1. CASE prog = "sr_plus_fg"
      BY <3>1, SrPlusFgScript
    <3>2. CASE prog = "super_resolution"
      <4>1. FrameScript(n) = SuperResolutionFrame(n)
        BY <3>2, Zenon DEF FrameScript
      <4> QED
        BY <4>1 DEF SuperResolutionFrame
    <3> QED
      BY <1>1, <3>1, <3>2
  <2>2. /\ FeatureOf(prog, n) = "sr" /\ FeatureOf(prog, n - 1) = "sr" /\ "sr" \in Uses
        /\ reset \in BOOLEAN /\ (~reset => n > 0)
    BY <1>1 DEF FeatureOf, Uses
  <2>3. SrInputs \subseteq Textures /\ "output" \in Textures
    BY <1>1 DEF Textures, SrPlusFgTextures, SrInputs
  <2>4. Sized("sr") => Answered("sr") /\ sizes["sr"] = range["sr"].optimal
    BY <1>1 DEF Sized, Allocated
  <2>5. Sized("sr") => /\ range["sr"].optimal \in Nat
                       /\ range["sr"].min <= range["sr"].optimal
                       /\ range["sr"].optimal <= sizes["sr"]
    BY <2>4, AnsweredIs
  <2> HIDE DEF reset
  <2> QED
    BY <2>1, <2>2, <2>3, <2>5, UpscaleIs
<1>2. CASE prog = "dynamic_resolution"
  <2> DEFINE reset == n = 0
             size == Lerp(range["sr"].min, range["sr"].max, Triangle(n),
                          FRAME_COUNT["dynamic_resolution"] - 1)
  <2>1. FrameScript(n)[3] = Upscale("sr", SrInputs, "output", reset, size)
    <3>1. FrameScript(n) = DynamicResolutionFrame(n)
      BY <1>2, Zenon DEF FrameScript
    <3> QED
      BY <3>1 DEF DynamicResolutionFrame
  <2>2. /\ FeatureOf(prog, n) = "sr" /\ FeatureOf(prog, n - 1) = "sr" /\ "sr" \in Uses
        /\ reset \in BOOLEAN /\ (~reset => n > 0)
    BY <1>2 DEF FeatureOf, Uses
  <2>3. SrInputs \subseteq Textures /\ "output" \in Textures
    BY <1>2 DEF Textures, SrInputs
  <2>4. Sized("sr") => Answered("sr") /\ sizes["sr"] = range["sr"].max
    BY <1>2 DEF Sized, Allocated
  <2>5. ASSUME Sized("sr")
        PROVE  size \in Nat /\ range["sr"].min <= size /\ size <= sizes["sr"]
    <3>1. Triangle(n) \in Int /\ FRAME_COUNT["dynamic_resolution"] - 1 \in Nat \ {0}
      BY DEF Triangle, FRAME_COUNT
    <3>2. /\ range["sr"].min \in Nat /\ range["sr"].max \in Nat
          /\ range["sr"].min <= range["sr"].max /\ sizes["sr"] = range["sr"].max
      BY <2>4, <2>5, AnsweredIs
    <3> QED
      BY <3>1, <3>2, LerpWithin
  <2> HIDE DEF reset, size
  <2> QED
    BY <2>1, <2>2, <2>3, <2>5, UpscaleIs
<1>3. CASE prog = "ray_reconstruction"
  <2> DEFINE reset == n = 0
  <2>1. FrameScript(n)[3] = Upscale("rr", RrInputs, "output", reset, range["rr"].optimal)
    <3>1. FrameScript(n) = RayReconstructionFrame(n)
      BY <1>3, Zenon DEF FrameScript
    <3> QED
      BY <3>1 DEF RayReconstructionFrame
  <2>2. /\ FeatureOf(prog, n) = "rr" /\ FeatureOf(prog, n - 1) = "rr" /\ "rr" \in Uses
        /\ reset \in BOOLEAN /\ (~reset => n > 0)
    BY <1>3 DEF FeatureOf, Uses
  <2>3. RrInputs \subseteq Textures /\ "output" \in Textures
    BY <1>3 DEF Textures, RrInputs
  <2>4. Sized("rr") => Answered("rr") /\ sizes["rr"] = range["rr"].optimal
    BY <1>3 DEF Sized, Allocated
  <2>5. Sized("rr") => /\ range["rr"].optimal \in Nat
                       /\ range["rr"].min <= range["rr"].optimal
                       /\ range["rr"].optimal <= sizes["rr"]
    BY <2>4, AnsweredIs
  <2> HIDE DEF reset
  <2> QED
    BY <2>1, <2>2, <2>3, <2>5, UpscaleIs
<1>4. CASE prog = "sr_rr_toggle"
  <2> DEFINE f == IF n < FRAMES_PER_PHASE THEN "sr" ELSE "rr"
             inputs == Own(f, IF f = "sr" THEN SrInputs ELSE RrInputs)
             reset == (IF n < FRAMES_PER_PHASE THEN n ELSE n - FRAMES_PER_PHASE) = 0
  <2>1. FrameScript(n)[3] = Upscale(f, inputs, <<f, "output">>, reset, range[f].optimal)
    <3>1. FrameScript(n) = ToggleFrame(n)
      BY <1>4, Zenon DEF FrameScript
    <3> QED
      BY <3>1 DEF ToggleFrame
  <2>2. FeatureOf(prog, n) = f /\ f \in Uses /\ reset \in BOOLEAN
    BY <1>4 DEF FeatureOf, Uses, Features
  <2>3. ~reset => n > 0 /\ FeatureOf(prog, n - 1) = f
    BY <1>4 DEF FeatureOf, FRAMES_PER_PHASE
  <2>4. inputs \subseteq Textures /\ <<f, "output">> \in Textures
    BY <1>4 DEF Textures, Own, SrInputs, RrInputs
  <2>5. Sized(f) => Answered(f) /\ sizes[f] = range[f].optimal
    BY <1>4 DEF Sized, Allocated
  <2>6. Sized(f) => /\ range[f].optimal \in Nat
                    /\ range[f].min <= range[f].optimal /\ range[f].optimal <= sizes[f]
    BY <2>5, AnsweredIs
  <2> HIDE DEF f, inputs, reset
  <2> QED
    BY <2>1, <2>2, <2>3, <2>4, <2>6, UpscaleIs
<1> QED
  BY <1>1, <1>2, <1>3, <1>4 DEF Headless

\* What a frame does depends on the program and on NGX's answers alone.
LEMMA SameScript ==
  ASSUME prog' = prog, range' = range, NEW n PROVE FrameScript(n)' = FrameScript(n)
<1>1. SrPlusFgUpscales(n)' = SrPlusFgUpscales(n)
  BY DEF SrPlusFgUpscales
<1>2. SuperResolutionFrame(n)' = SuperResolutionFrame(n)
  BY DEF SuperResolutionFrame
<1>3. DynamicResolutionFrame(n)' = DynamicResolutionFrame(n)
  BY DEF DynamicResolutionFrame
<1>4. RayReconstructionFrame(n)' = RayReconstructionFrame(n)
  BY DEF RayReconstructionFrame
<1>5. ToggleFrame(n)' = ToggleFrame(n)
  BY DEF ToggleFrame
<1> QED
  BY <1>1, <1>2, <1>3, <1>4, <1>5, Zenon DEF FrameScript
\* A frame that is given up drops what it has borrowed.
LEMMA GiveUpIs ==
  ASSUME GiveUp
  PROVE  /\ prog' = prog /\ phase' = phase /\ failed' = TRUE /\ at' = 1
         /\ \E k \in Nat : /\ Lists(script', k) /\ k <= 2
                           /\ \A i \in 1..k : script'[i].op \in {"drop_texture", "drop_frame"}
<1> DEFINE T == IF texture' THEN <<"drop_texture">> ELSE <<>>
           O == IF open' THEN <<"drop_frame">> ELSE <<>>
           drops == {"drop_texture", "drop_frame"}
<1>1. PICK m \in 0..1 : Lists(T, m) /\ \A i \in 1..m : T[i] \in drops
  <2>1. CASE texture'
    BY <2>1, Lists(T, 1) DEF Lists
  <2>2. CASE ~texture'
    BY <2>2, Lists(T, 0) DEF Lists
  <2> QED
    BY <2>1, <2>2
<1>2. PICK n \in 0..1 : Lists(O, n) /\ \A i \in 1..n : O[i] \in drops
  <2>1. CASE open'
    BY <2>1, Lists(O, 1) DEF Lists
  <2>2. CASE ~open'
    BY <2>2, Lists(O, 0) DEF Lists
  <2> QED
    BY <2>1, <2>2
<1>3. /\ script' = DoAll(Then(T, O))
      /\ prog' = prog /\ phase' = phase /\ failed' = TRUE /\ at' = 1
  BY Zenon DEF GiveUp, Call, Then
<1> HIDE DEF T, O, drops
<1>4. /\ Lists(Then(T, O), m + n)
      /\ \A i \in 1..m : Then(T, O)[i] = T[i]
      /\ \A i \in 1..n : Then(T, O)[m + i] = O[i]
  BY <1>1, <1>2, Joined
<1>5. \A i \in 1..(m + n) : Then(T, O)[i] \in drops
  <2> SUFFICES ASSUME NEW i \in 1..(m + n)
               PROVE  Then(T, O)[i] \in drops
    OBVIOUS
  <2>1. CASE i <= m
    BY <1>1, <1>4, <2>1
  <2>2. CASE i > m
    <3>1. i - m \in 1..n /\ m + (i - m) = i
      BY <2>2
    <3> QED
      BY <1>2, <1>4, <3>1
  <2> QED
    BY <2>1, <2>2
<1>6. m + n \in Nat /\ m + n <= 2
  OBVIOUS
<1>7. /\ Lists(script', m + n)
      /\ \A i \in 1..(m + n) : script'[i] = Do(Then(T, O)[i])
  BY <1>3, <1>4, <1>6, Doing
<1>8. \A i \in 1..(m + n) : script'[i].op \in drops
  <2>1. \A name : Do(name).op = name
    BY DEF Do
  <2> QED
    BY <1>5, <1>7, <2>1
<1> QED
  BY <1>3, <1>6, <1>7, <1>8 DEF drops
-----------------------------------------------------------------------------
(* Bring-up *)

BringUpOps == (Objects \ {"handle"}) \cup {"vendor", "sdk", "configure", "textures"}

\* The order in which a program makes what it needs, names being its k operations.
Orderly(names, k) ==
  /\ \A i \in 1..k : names[i] \in BringUpOps
  /\ prog \in Headless => \A i \in 1..k : names[i] \notin {"window", "fg", "configure"}
  /\ \A i, j \in 1..k : names[i] = names[j] => i = j
  /\ \A name \in Uses \cup {"textures"} : \E i \in 1..k : names[i] = name
  /\ prog \in Windowed => \A name \in {"instance", "fg"} : \E i \in 1..k : names[i] = name
  /\ \A i, j \in 1..k : names[i] = "configure" /\ names[j] \in {"instance", "fg"} => j < i
  /\ \A i, j \in 1..k : names[i] = "textures" /\ names[j] \in Features => j < i

\* Every program's bring-up is orderly.
LEMMA BringUpIs ==
  ASSUME prog \in Windowed \cup Headless
  PROVE  \E k \in Nat : Lists(BringUp, k) /\ Orderly(BringUp, k)
<1>1. CASE prog = "frame_generation"
  <2>1. BringUp = FrameGenerationNew
    BY <1>1, Zenon DEF BringUp
  <2>2. Uses = {}
    BY <1>1 DEF Uses
  <2>3. Lists(FrameGenerationNew, 7) /\ Orderly(FrameGenerationNew, 7)
    BY <1>1, <2>2 DEF Lists, Orderly, Headless, Windowed, Features, BringUpOps, Objects,
                      FrameGenerationNew
  <2> QED
    BY <2>1, <2>3, 7 \in Nat
<1>2. CASE prog = "sr_plus_fg"
  <2>1. BringUp = SrPlusFgNew
    BY <1>2, Zenon DEF BringUp
  <2>2. Uses = {"sr"}
    BY <1>2 DEF Uses
  <2>3. Lists(SrPlusFgNew, 9) /\ Orderly(SrPlusFgNew, 9)
    BY <1>2, <2>2 DEF Lists, Orderly, Headless, Windowed, Features, BringUpOps, Objects,
                      SrPlusFgNew
  <2> QED
    BY <2>1, <2>3, 9 \in Nat
<1>3. CASE prog = "super_resolution"
  <2>1. BringUp = SuperResolutionRun
    BY <1>3, Zenon DEF BringUp
  <2>2. Uses = {"sr"}
    BY <1>3 DEF Uses
  <2>3. Lists(SuperResolutionRun, 6) /\ Orderly(SuperResolutionRun, 6)
    BY <1>3, <2>2 DEF Lists, Orderly, Headless, Windowed, Features, BringUpOps, Objects,
                      SuperResolutionRun
  <2> QED
    BY <2>1, <2>3, 6 \in Nat
<1>4. CASE prog = "dynamic_resolution"
  <2>1. BringUp = DynamicResolutionRun
    BY <1>4, Zenon DEF BringUp
  <2>2. Uses = {"sr"}
    BY <1>4 DEF Uses
  <2>3. Lists(DynamicResolutionRun, 6) /\ Orderly(DynamicResolutionRun, 6)
    BY <1>4, <2>2 DEF Lists, Orderly, Headless, Windowed, Features, BringUpOps, Objects,
                      DynamicResolutionRun
  <2> QED
    BY <2>1, <2>3, 6 \in Nat
<1>5. CASE prog = "ray_reconstruction"
  <2>1. BringUp = RayReconstructionRun
    BY <1>5, Zenon DEF BringUp
  <2>2. Uses = {"rr"}
    BY <1>5 DEF Uses
  <2>3. Lists(RayReconstructionRun, 6) /\ Orderly(RayReconstructionRun, 6)
    BY <1>5, <2>2 DEF Lists, Orderly, Headless, Windowed, Features, BringUpOps, Objects,
                      RayReconstructionRun
  <2> QED
    BY <2>1, <2>3, 6 \in Nat
<1>6. CASE prog = "sr_rr_toggle"
  <2>1. BringUp = ToggleRun
    BY <1>6, Zenon DEF BringUp
  <2>2. Uses = Features
    BY <1>6 DEF Uses
  <2>3. Lists(ToggleRun, 7) /\ Orderly(ToggleRun, 7)
    BY <1>6, <2>2 DEF Lists, Orderly, Headless, Windowed, Features, BringUpOps, Objects,
                      ToggleRun
  <2> QED
    BY <2>1, <2>3, 7 \in Nat
<1> QED
  BY <1>1, <1>2, <1>3, <1>4, <1>5, <1>6 DEF Windowed, Headless
-----------------------------------------------------------------------------
(* What holds between the operations of a program *)

\* An operation of that name is still to come.
Ahead(name) == \E i \in at..Len(script) : script[i].op = name

\* The function that runs is a frame's, as it is written, or what a frame that was
\* given up still does.
Whole == ~failed /\ script = FrameScript(number - 1)

ShortOps ==
  {"drop_texture", "drop_frame"} \cup (IF prog \in Windowed THEN {"configure"} ELSE {})

Short == Len(script) <= 2 /\ \A i \in 1..Len(script) : script[i].op \in ShortOps

\* What runs is the function that was called, as it is written or cut short.
ShapeInv ==
  /\ prog \in Programs /\ number \in Nat /\ failed \in BOOLEAN
  /\ phase \in {"start", "new", "loop", "frame", "leave", "gone"}
  /\ Len(script) \in Nat /\ Lists(script, Len(script)) /\ at \in 1..(Len(script) + 1)
  /\ phase # "start" => prog \in Windowed \cup Headless
  /\ phase = "start" => ~failed
  /\ phase = "new" => script = IF failed THEN <<>> ELSE DoAll(BringUp)
  /\ phase = "frame" => number > 0 /\ (Whole \/ Short)

\* Who owns what.
OwnerInv ==
  /\ held \in Seq(Objects) /\ IsInjective(held)
  /\ owner \in {"none"} \cup (ToSet(held) \cap {"handle", "fg"})
  /\ generating \in BOOLEAN /\ (generating <=> "fg" \in ToSet(held))
  /\ phase = "start" => held = <<>>

\* A windowed program before its GpuState.
Fresh ==
  held = <<"handle">> /\ owner = "handle" /\ ~generating /\ factory = "none"

\* Streamline was asked to upgrade the factory.
Asked == factory \in {"proxy", "declined"}

\* A program whose bring-up is over, and well.
Ready ==
  /\ prog \in Windowed => held = Fields /\ owner = "fg" /\ Asked
  /\ \A f \in Uses : Sized(f)

\* What is made is not made again, and what is not made is still to come.
NewInv ==
  phase = "new" /\ ~failed =>
    /\ \A o \in ToSet(held) : ~Ahead(o)
    /\ prog \in Windowed => owner = IF Ahead("fg") THEN "handle" ELSE "fg"
    /\ Ahead("instance") => factory = "none"
    /\ prog \in Windowed => Asked \/ Ahead("instance")
    /\ \A f \in Uses : Answered(f) \/ Ahead(f)
    /\ (\A f \in Uses : Sized(f)) \/ Ahead("textures")

\* A frame runs with all there is; between frames, all of it is there or none.
LoopInv ==
  /\ phase = "frame" => Ready
  /\ phase = "loop" /\ prog \in Windowed =>
       /\ failed => closing
       /\ redraw => HasGpu
       /\ ~closing => IF HasGpu THEN Ready ELSE Fresh
  /\ phase = "loop" /\ prog \in Headless /\ ~failed => Ready
  /\ phase = "start" => ~redraw /\ factory = "none"

\* The step of the Frame before each operation of a frame, where it matters.
StepAt(k) ==
  IF prog = "frame_generation"
  THEN IF k = 2 THEN "Begun" ELSE IF k = 3 THEN "Constants"
       ELSE IF k \in {4, 5} THEN "Acquired" ELSE IF k \in {6, 7} THEN "Tagged"
       ELSE IF k = 8 THEN "RenderEnded" ELSE "any"
  ELSE IF k = 5 THEN "Begun" ELSE IF k = 6 THEN "Constants"
       ELSE IF k \in 7..10 THEN "Acquired" ELSE IF k \in {11, 12} THEN "Tagged"
       ELSE IF k = 13 THEN "RenderEnded" ELSE "any"

\* Each operation finds the Frame at the step it needs, so that none is reported.
StepInv ==
  /\ phase = "frame" /\ Whole /\ prog \in Windowed => StepAt(at) \in {step, "any"}
  /\ prog # "any client" => ~misordered

\* What is drawn and recorded before each operation.
FrameGenerationImages ==
  /\ at \in 5..6 => \A t \in FrameGenerationTextures : pending[t] = {}
  /\ at \in 7..8 => FrameGenerationTextures \subseteq current

SrPlusFgImages ==
  /\ at = 2 => \A t \in SrInputs : pending[t] = {}
  /\ at \in 3..13 => SrInputs \subseteq current
  /\ at \in 3..11 => \A t \in SrInputs : pending[t] = {t}
  /\ at \in 3..7 => pending["output"] = {"output"}
  /\ at \in 4..11 => "output" \in current
  /\ at \in 8..11 => pending["hudless"] = {"output"}
  /\ at \in 9..11 => pending["ui"] = {}
  /\ at \in 10..11 => pending["backbuffer"] = {"output"}
  /\ at \in 12..13 => FrameGenerationTextures \subseteq current

\* A headless program draws the inputs, submits them and evaluates.
HeadlessImages ==
  /\ at = 2 => \A t \in script[3].inputs : pending[t] = {}
  /\ at = 3 => script[3].inputs \subseteq current

\* What is drawn and recorded is a program's own textures.
OwnImages ==
  /\ DOMAIN pending \subseteq IF prog = "any client" THEN {} ELSE Textures
  /\ \A t \in DOMAIN pending : pending[t] \subseteq DOMAIN pending
  /\ current \subseteq IF prog = "any client" THEN {} ELSE Textures
  /\ phase = "frame" => DOMAIN pending = Textures

\* Each operation of a frame finds drawn and submitted what it reads.
ImageInv ==
  /\ OwnImages
  /\ phase = "frame" /\ Whole =>
       /\ prog = "frame_generation" => FrameGenerationImages
       /\ prog = "sr_plus_fg" => SrPlusFgImages
       /\ prog \in Headless => HeadlessImages

\* The feature that evaluated last, before and after the evaluate of a frame.
HistoryInv ==
  /\ history \in {"none"} \cup Features
  /\ prog = "frame_generation" => history = "none"
  /\ phase = "loop" /\ ~failed /\ number > 0 => history = FeatureOf(prog, number - 1)
  /\ phase = "frame" /\ ~failed =>
       IF Whole /\ at <= 3 THEN number > 1 => history = FeatureOf(prog, number - 2)
       ELSE history = FeatureOf(prog, number - 1)
  /\ phase \in {"start", "new"} => number = 0
  /\ phase = "loop" /\ prog \in Windowed /\ ~closing /\ ~HasGpu => number = 0

\* What NothingStale says, and that it is a Boolean.
StaleInv == stale = FALSE

\* NGX answered for each context, and inputs were made for no other.
RangeInv ==
  /\ DOMAIN range \subseteq Features /\ \A f \in DOMAIN range : range[f] \in Ranges
  /\ DOMAIN sizes \subseteq DOMAIN range /\ \A f \in DOMAIN sizes : sizes[f] \in Nat

\* Nothing is evaluated before the first frame, and then within its inputs.
SubrectInv ==
  /\ subrect.feature \in {"none"} \cup Features /\ subrect.size \in Nat
  /\ number = 0 => subrect.feature = "none"
  /\ SubrectsFit

\* The rest: what is on or off, and what the factory and its swapchain are.
FlagsInv ==
  /\ factory \in {"none", "stock", "proxy", "declined"}
  /\ redraw \in BOOLEAN /\ closing \in BOOLEAN /\ waiting \in BOOLEAN
  /\ swapchain \in {"none", "bound", "unbound", "destroyed"}
  /\ SwapchainBinds

ProgramInv ==
  /\ ShapeInv /\ OwnerInv /\ NewInv /\ LoopInv /\ StepInv /\ ImageInv /\ HistoryInv
  /\ StaleInv /\ RangeInv /\ SubrectInv /\ FlagsInv
-----------------------------------------------------------------------------
(* What runs where *)

FrameOps == {"draw", "submit", "upscale", "poll", "begin_frame", "set_constants", "acquire",
             "tag", "end_render", "present", "request_redraw"}

\* What the operations are.
LEMMA OperationsAre ==
  /\ \A name : Do(name).op = name
  /\ \A into, from : /\ Draw(into, from).op = "draw"
                      /\ Draw(into, from).into = into /\ Draw(into, from).from = from
BY DEF Do, Draw

\* The operations of a frame.
LEMMA FrameOpsOf ==
  ASSUME prog \in Windowed \cup Headless, NEW n \in Nat
  PROVE  \E k \in Nat : /\ Lists(FrameScript(n), k) /\ k > 2
                        /\ \A i \in 1..k : FrameScript(n)[i].op \in FrameOps \cup {"drop_frame"}
<1>1. CASE prog = "frame_generation"
  <2>1. /\ Lists(FrameScript(n), 10)
        /\ \A i \in 1..10 : FrameScript(n)[i].op \in FrameOps \cup {"drop_frame"}
    BY <1>1, FrameGenerationScript DEF Draw, Do, FrameOps
  <2> QED
    BY <2>1, 10 \in Nat
<1>2. CASE prog = "sr_plus_fg"
  <2>1. /\ Lists(FrameScript(n), 15)
        /\ \A i \in 1..15 : FrameScript(n)[i].op \in FrameOps \cup {"drop_frame"}
    <3> DEFINE s == FrameScript(n)
    <3>1. /\ Lists(s, 15) /\ s[1].op = "draw" /\ s[2].op = "submit" /\ s[4].op = "begin_frame"
          /\ s[5].op = "set_constants" /\ s[6].op = "acquire" /\ s[7].op = "draw"
          /\ s[8].op = "draw" /\ s[9].op = "draw" /\ s[10].op = "tag" /\ s[11].op = "submit"
          /\ s[12].op = "end_render" /\ s[13].op = "present" /\ s[14].op = "drop_frame"
          /\ s[15].op = "request_redraw"
      BY <1>2, SrPlusFgScript, OperationsAre
    <3>2. s[3].op = "upscale"
      BY <1>2, SrPlusFgScript
    <3> HIDE DEF s
    <3>3. ASSUME NEW i \in 1..15
          PROVE  s[i].op \in FrameOps \cup {"drop_frame"}
      BY <3>1, <3>2 DEF FrameOps
    <3> QED
      BY <3>1, <3>3 DEF s
  <2> QED
    BY <2>1, 15 \in Nat
<1>3. CASE prog \in Headless
  <2>1. /\ Lists(FrameScript(n), 4)
        /\ \A i \in 1..4 : FrameScript(n)[i].op \in FrameOps \cup {"drop_frame"}
    <3> DEFINE s == FrameScript(n)
    <3>1. /\ Lists(s, 4) /\ s[1].op = "draw" /\ s[2].op = "submit" /\ s[3].op = "upscale"
          /\ s[4].op = "poll"
      BY <1>3, HeadlessScript, OperationsAre
    <3> HIDE DEF s
    <3>2. ASSUME NEW i \in 1..4
          PROVE  s[i].op \in FrameOps \cup {"drop_frame"}
      BY <3>1 DEF FrameOps
    <3> QED
      BY <3>1, <3>2 DEF s
  <2> QED
    BY <2>1, 4 \in Nat
<1> QED
  BY <1>1, <1>2, <1>3 DEF Windowed

\* The operations of a bring-up, as they are run.
LEMMA NewIs ==
  ASSUME ShapeInv, phase = "new", ~failed
  PROVE  \E k \in Nat : /\ k = Len(script) /\ Lists(script, k) /\ Orderly(BringUp, k)
                        /\ \A i \in 1..k : script[i].op = BringUp[i]
<1>1. PICK k \in Nat : Lists(BringUp, k) /\ Orderly(BringUp, k)
  BY BringUpIs DEF ShapeInv
<1>2. script = DoAll(BringUp)
  BY DEF ShapeInv
<1>3. Lists(script, k) /\ \A i \in 1..k : script[i] = Do(BringUp[i])
  BY <1>1, <1>2, Doing
<1>4. \A name : Do(name).op = name
  BY DEF Do
<1> QED
  BY <1>1, <1>3, <1>4, HasLength

\* An operation of a frame is run by a frame that was not given up.
LEMMA InFrame ==
  ASSUME ShapeInv, NEW x \in FrameOps, At(x)
  PROVE  /\ phase = "frame" /\ Whole /\ number - 1 \in Nat /\ prog \in Windowed \cup Headless
         /\ at \in 1..Len(script) /\ script[at].op = x
<1>1. at \in 1..Len(script) /\ script[at].op = x
  BY DEF ShapeInv, At, Over
<1>2. phase # "new"
  <2> SUFFICES ASSUME phase = "new"
               PROVE  FALSE
    OBVIOUS
  <2>1. CASE failed
    <3>1. script = <<>>
      BY <2>1 DEF ShapeInv
    <3> QED
      BY <1>1, <3>1
  <2>2. CASE ~failed
    <3>1. x \in BringUpOps
      BY <1>1, <2>2, NewIs DEF Orderly
    <3> QED
      BY <3>1 DEF FrameOps, BringUpOps, Objects
  <2> QED
    BY <2>1, <2>2
<1>3. phase = "frame"
  BY <1>2 DEF At
<1>4. ~Short
  BY <1>1 DEF Short, ShortOps, FrameOps
<1> QED
  BY <1>1, <1>3, <1>4 DEF ShapeInv

\* What is made is made by a bring-up that did not fail.
LEMMA InBringUp ==
  ASSUME ShapeInv, NEW x \in BringUpOps, At(x)
  PROVE  /\ at \in 1..Len(script) /\ script[at].op = x
         /\ \/ phase = "new" /\ ~failed
            \/ phase = "frame" /\ x = "configure" /\ Short /\ prog \in Windowed
<1>1. at \in 1..Len(script) /\ script[at].op = x
  BY DEF ShapeInv, At, Over
<1>2. CASE phase = "new"
  <2>1. failed => script = <<>>
    BY <1>2 DEF ShapeInv
  <2>2. ~failed
    BY <1>1, <2>1 DEF ShapeInv
  <2> QED
    BY <1>1, <1>2, <2>2
<1>3. CASE phase = "frame"
  <2>1. ASSUME Whole
        PROVE  FALSE
    <3>1. PICK k \in Nat : /\ Lists(FrameScript(number - 1), k)
                           /\ \A i \in 1..k : FrameScript(number - 1)[i].op
                                                \in FrameOps \cup {"drop_frame"}
      <4>1. number - 1 \in Nat /\ prog \in Windowed \cup Headless
        BY <1>3 DEF ShapeInv
      <4> QED
        BY <4>1, FrameOpsOf
    <3>2. Len(script) = k
      BY <2>1, <3>1, HasLength DEF Whole
    <3>3. x \in FrameOps \cup {"drop_frame"}
      BY <1>1, <2>1, <3>1, <3>2 DEF Whole
    <3> QED
      BY <3>3 DEF FrameOps, BringUpOps, Objects
  <2>2. Short
    BY <1>3, <2>1 DEF ShapeInv
  <2>3. x \in ShortOps
    BY <1>1, <2>2 DEF Short
  <2> QED
    BY <1>1, <1>3, <2>2, <2>3 DEF ShortOps, BringUpOps, Objects
<1> QED
  BY <1>2, <1>3 DEF At

\* A step of a program leaves it the program that it is.
LEMMA SameProgram ==
  ASSUME ProgramNext
  PROVE  prog' = prog
<1>1. Continue \/ GiveUp => prog' = prog
  BY Zenon DEF Continue, GiveUp
<1>2. StartStreamline \/ StartRun \/ Resumed \/ BringUpFails \/ EndOfBringUp => prog' = prog
  BY DEF StartStreamline, StartRun, Resumed, BringUpFails, EndOfBringUp
<1>3. MakeObject \/ MakeUpscaler \/ MakeFrameGeneration \/ Configure \/ MakeTextures
        => prog' = prog
  BY <1>1 DEF MakeObject, MakeUpscaler, MakeFrameGeneration, Configure, MakeTextures
<1>4. Redraw \/ ForLoop \/ EndOfFrame \/ Leave \/ EndOfProgram => prog' = prog
  BY DEF Redraw, ForLoop, EndOfFrame, Leave, EndOfProgram
<1>5. DropObject \/ CloseRequested \/ SystemRedraw \/ AnyClient => prog' = prog
  BY DEF DropObject, CloseRequested, SystemRedraw, AnyClient, programVars, runVars
<1>6. DrawCommands \/ Submit \/ UpscaleImage \/ Poll => prog' = prog
  BY <1>1 DEF DrawCommands, Submit, UpscaleImage, Poll
<1>7. BeginsFrame \/ SetsConstants \/ Acquires \/ Tags => prog' = prog
  BY <1>1, Zenon DEF BeginsFrame, SetsConstants, Acquires, Tags
<1>8. EndsRender \/ Presents \/ Drops \/ RequestRedraw => prog' = prog
  BY <1>1, Zenon DEF EndsRender, Presents, Drops, RequestRedraw
<1> QED
  BY <1>2, <1>3, <1>4, <1>5, <1>6, <1>7, <1>8, Zenon DEF ProgramNext, ProgramStep

\* What depends on the program alone.
LEMMA OfProgram ==
  ASSUME prog' = prog
  PROVE  /\ Uses' = Uses /\ Textures' = Textures /\ BringUp' = BringUp /\ Fields' = Fields
         /\ Outside' = Outside /\ ShortOps' = ShortOps
<1>1. Uses' = Uses
  BY Zenon DEF Uses
<1>2. Textures' = Textures /\ BringUp' = BringUp
  BY Zenon DEF Textures, BringUp
<1>3. Fields' = Fields /\ Outside' = Outside /\ ShortOps' = ShortOps
  BY DEF Fields, Outside, ShortOps
<1> QED
  BY <1>1, <1>2, <1>3

\* The operations that a bring-up runs, and those that a frame runs.
NewStep == MakeObject \/ MakeUpscaler \/ MakeFrameGeneration \/ Configure \/ MakeTextures

OperationStep ==
  \/ DrawCommands \/ Submit \/ UpscaleImage \/ Poll \/ BeginsFrame \/ SetsConstants \/ Acquires
  \/ Tags \/ EndsRender \/ Presents \/ Drops \/ RequestRedraw

\* The surface was unavailable.
Unavailable ==
  /\ Call(DoAll(<<"configure", "drop_frame">>))
  /\ UNCHANGED <<prog, phase, failed>>

\* An operation a bring-up runs is one that is written there, but for the configure of
\* a frame whose surface was unavailable.
LEMMA NewSteps ==
  ASSUME ShapeInv, NewStep
  PROVE  /\ Continue /\ at \in 1..Len(script) /\ script[at].op \in BringUpOps
         /\ UNCHANGED <<number, current, pending, stale, history, subrect>>
         /\ \/ phase = "new" /\ ~failed
            \/ phase = "frame" /\ script[at].op = "configure" /\ Short /\ prog \in Windowed
<1>1. PICK x \in BringUpOps : At(x) /\ Continue
  <2>1. {"window", "instance", "surface", "vendor", "device", "sdk"} \subseteq BringUpOps
        /\ Features \subseteq BringUpOps /\ "fg" \in BringUpOps /\ "configure" \in BringUpOps
        /\ "textures" \in BringUpOps
    BY DEF BringUpOps, Objects, Features
  <2>2. CASE MakeObject
    BY <2>1, <2>2, Zenon DEF MakeObject
  <2>3. CASE MakeUpscaler
    BY <2>1, <2>3, Zenon DEF MakeUpscaler
  <2>4. CASE MakeFrameGeneration \/ Configure \/ MakeTextures
    BY <2>1, <2>4, Zenon DEF MakeFrameGeneration, Configure, MakeTextures
  <2> QED
    BY <2>2, <2>3, <2>4, Zenon DEF NewStep
<1>2. UNCHANGED <<number, current, pending, stale, history, subrect>>
  BY DEF NewStep, MakeObject, MakeUpscaler, MakeFrameGeneration, Configure, MakeTextures,
         loopVars, ngxVars, imageVars
<1> QED
  BY <1>1, <1>2, InBringUp

\* What a bring-up never does is done by a frame.
LEMMA NotInBringUp ==
  ASSUME ShapeInv, NEW x, At(x), x \notin BringUpOps
  PROVE  phase = "frame" /\ at \in 1..Len(script) /\ script[at].op = x
<1>1. at \in 1..Len(script) /\ script[at].op = x
  BY DEF ShapeInv, At, Over
<1>2. ASSUME phase = "new"
      PROVE  FALSE
  <2>1. CASE failed
    <3>1. script = <<>>
      BY <1>2, <2>1 DEF ShapeInv
    <3> QED
      BY <1>1, <3>1
  <2>2. CASE ~failed
    BY <1>1, <1>2, <2>2, NewIs DEF Orderly
  <2> QED
    BY <2>1, <2>2
<1> QED
  BY <1>1, <1>2 DEF At

\* An operation of a frame goes on to the next, or the frame is given up.
LEMMA OperationSteps ==
  ASSUME ShapeInv, OperationStep
  PROVE  /\ phase = "frame" /\ at \in 1..Len(script)
         /\ UNCHANGED <<objectVars, closing, number, range, sizes>>
         /\ \/ Continue
            \/ Whole /\ GiveUp
            \/ Whole /\ Unavailable /\ prog \in Windowed
<1>1. FrameOps \cap BringUpOps = {} /\ {"drop_frame", "drop_texture"} \cap BringUpOps = {}
  BY DEF FrameOps, BringUpOps, Objects
<1>2. /\ "draw" \in FrameOps /\ "submit" \in FrameOps /\ "upscale" \in FrameOps
      /\ "poll" \in FrameOps /\ "begin_frame" \in FrameOps /\ "set_constants" \in FrameOps
      /\ "acquire" \in FrameOps /\ "tag" \in FrameOps /\ "end_render" \in FrameOps
      /\ "present" \in FrameOps /\ "request_redraw" \in FrameOps
  BY DEF FrameOps
<1>3. CASE DrawCommands
  <2>1. UNCHANGED <<objectVars, closing, number, range, sizes>> /\ Continue /\ At("draw")
    BY <1>3 DEF DrawCommands, loopVars, ngxVars
  <2> QED
    BY <1>2, <2>1, InFrame
<1>4. CASE Submit
  <2>1. UNCHANGED <<objectVars, closing, number, range, sizes>> /\ Continue /\ At("submit")
    BY <1>4 DEF Submit, loopVars, ngxVars
  <2> QED
    BY <1>2, <2>1, InFrame
<1>5. CASE UpscaleImage
  <2>1. /\ UNCHANGED <<objectVars, closing, number, range, sizes>> /\ At("upscale")
        /\ Continue \/ GiveUp
    BY <1>5 DEF UpscaleImage, loopVars
  <2> QED
    BY <1>2, <2>1, InFrame
<1>6. CASE Poll
  <2>1. /\ UNCHANGED <<objectVars, closing, number, range, sizes>> /\ At("poll")
        /\ Continue \/ GiveUp
    BY <1>6 DEF Poll, loopVars, ngxVars
  <2> QED
    BY <1>2, <2>1, InFrame
<1>7. CASE BeginsFrame
  <2>1. /\ UNCHANGED <<objectVars, loopVars, ngxVars>> /\ At("begin_frame")
        /\ Continue \/ GiveUp
    BY <1>7, Zenon DEF BeginsFrame
  <2> QED
    BY <1>2, <2>1, InFrame DEF loopVars, ngxVars
<1>8. CASE SetsConstants
  <2>1. /\ UNCHANGED <<objectVars, loopVars, ngxVars>> /\ At("set_constants")
        /\ Continue \/ GiveUp
    BY <1>8, Zenon DEF SetsConstants
  <2> QED
    BY <1>2, <2>1, InFrame DEF loopVars, ngxVars
<1>9. CASE Acquires
  <2>1. /\ UNCHANGED <<objectVars, closing, number, ngxVars>> /\ At("acquire")
        /\ Continue \/ GiveUp \/ Unavailable
    BY <1>9, Zenon DEF Acquires, Unavailable
  <2>2. Whole /\ prog \in Windowed \cup Headless /\ number - 1 \in Nat
        /\ at \in 1..Len(script) /\ script[at].op = "acquire"
    BY <1>2, <2>1, InFrame
  <2>3. ASSUME prog \in Headless
        PROVE  FALSE
    <3>1. /\ Lists(script, 4) /\ script[1].op = "draw" /\ script[2].op = "submit"
          /\ script[3].op = "upscale" /\ script[4].op = "poll"
      BY <2>2, <2>3, HeadlessScript, OperationsAre DEF Whole
    <3>2. Len(script) = 4
      BY <3>1, HasLength
    <3> QED
      BY <2>2, <3>1, <3>2
  <2> QED
    BY <1>2, <2>1, <2>2, <2>3, InFrame DEF ngxVars
<1>10. CASE Tags
  <2>1. /\ UNCHANGED <<objectVars, loopVars, ngxVars>> /\ At("tag")
        /\ Continue \/ GiveUp
    BY <1>10, Zenon DEF Tags
  <2> QED
    BY <1>2, <2>1, InFrame DEF loopVars, ngxVars
<1>11. CASE EndsRender
  <2>1. UNCHANGED <<objectVars, loopVars, ngxVars>> /\ At("end_render") /\ Continue
    BY <1>11, Zenon DEF EndsRender
  <2> QED
    BY <1>2, <2>1, InFrame DEF loopVars, ngxVars
<1>12. CASE Presents
  <2>1. UNCHANGED <<objectVars, loopVars, ngxVars>> /\ At("present") /\ Continue
    BY <1>12, Zenon DEF Presents
  <2> QED
    BY <1>2, <2>1, InFrame DEF loopVars, ngxVars
<1>13. CASE Drops
  <2>1. /\ UNCHANGED <<objectVars, loopVars, ngxVars>> /\ Continue
        /\ At("drop_frame") \/ At("drop_texture")
    BY <1>13, Zenon DEF Drops
  <2> QED
    BY <1>1, <2>1, NotInBringUp DEF loopVars, ngxVars
<1>14. CASE RequestRedraw
  <2>1. UNCHANGED <<objectVars, closing, number, ngxVars>> /\ At("request_redraw") /\ Continue
    BY <1>14, Zenon DEF RequestRedraw
  <2> QED
    BY <1>2, <2>1, InFrame DEF ngxVars
<1> QED
  BY <1>3, <1>4, <1>5, <1>6, <1>7, <1>8, <1>9, <1>10, <1>11, <1>12, <1>13, <1>14
     DEF OperationStep
-----------------------------------------------------------------------------
(* The shape of what runs *)

\* The function that runs keeps its shape when it goes on, or is given up.
LEMMA ShapeOfStep ==
  ASSUME ShapeInv, NewStep \/ OperationStep
  PROVE  ShapeInv'
<1>1. /\ at \in 1..Len(script) /\ number' = number /\ phase \in {"new", "frame"}
      /\ \/ Continue
         \/ phase = "frame" /\ Whole /\ GiveUp
         \/ phase = "frame" /\ Whole /\ Unavailable /\ prog \in Windowed
      /\ phase = "frame" => Short \/ range' = range
  BY NewSteps, OperationSteps DEF objectVars
<1>2. CASE Continue
  <2>1. /\ UNCHANGED <<prog, phase, script, failed, number>> /\ at' = at + 1
    BY <1>1, <1>2 DEF Continue
  <2>2. BringUp' = BringUp /\ ShortOps' = ShortOps
    BY <2>1, OfProgram
  <2>3. Short => Short'
    BY <2>1, <2>2 DEF Short
  <2>4. Whole /\ range' = range => Whole'
    BY <2>1, SameScript DEF Whole
  <2>5. phase = "frame" => Short' \/ Whole'
    BY <1>1, <2>3, <2>4 DEF ShapeInv
  <2>6. at' \in 1..(Len(script') + 1)
    BY <1>1, <2>1 DEF ShapeInv
  <2> QED
    BY <2>1, <2>2, <2>5, <2>6 DEF ShapeInv
<1>3. CASE GiveUp /\ phase = "frame"
  <2>1. PICK k \in Nat : /\ Lists(script', k) /\ k <= 2
                         /\ \A i \in 1..k : script'[i].op \in {"drop_texture", "drop_frame"}
    BY <1>3, GiveUpIs
  <2>2. prog' = prog /\ phase' = phase /\ failed' = TRUE /\ at' = 1 /\ Len(script') = k
    BY <1>3, <2>1, GiveUpIs, HasLength
  <2>3. Short'
    BY <2>1, <2>2 DEF Short, ShortOps
  <2> QED
    BY <1>1, <1>3, <2>1, <2>2, <2>3 DEF ShapeInv
<1>4. CASE Unavailable /\ phase = "frame" /\ prog \in Windowed
  <2>1. /\ prog' = prog /\ phase' = phase /\ failed' = failed /\ at' = 1
        /\ script' = DoAll(<<"configure", "drop_frame">>)
    BY <1>4, Zenon DEF Unavailable, Call
  <2>2. Lists(script', 2) /\ script'[1] = Do("configure") /\ script'[2] = Do("drop_frame")
    BY <2>1 DEF DoAll, Lists
  <2>3. Len(script') = 2 /\ script'[1].op = "configure" /\ script'[2].op = "drop_frame"
    BY <2>2, HasLength, OperationsAre
  <2>4. Short'
    BY <1>4, <2>1, <2>3 DEF Short, ShortOps
  <2>5. Lists(script', Len(script'))
    BY <2>2, <2>3, Zenon
  <2>6. Len(script') \in Nat /\ at' \in 1..(Len(script') + 1)
    BY <2>1, <2>3
  <2> QED
    BY <1>1, <1>4, <2>1, <2>4, <2>5, <2>6 DEF ShapeInv
<1> QED
  BY <1>1, <1>2, <1>3, <1>4

\* Every step keeps the shape of what runs.
LEMMA ShapeNext ==
  ASSUME ShapeInv, LoopInv, ProgramNext
  PROVE  ShapeInv'
<1>1. prog' = prog /\ BringUp' = BringUp /\ ShortOps' = ShortOps
  BY SameProgram, OfProgram
<1>2. CASE NewStep \/ OperationStep
  BY <1>2, ShapeOfStep
<1>3. CASE CloseRequested \/ SystemRedraw \/ DropObject \/ AnyClient
  <2>1. UNCHANGED <<script, at, failed, number, phase, range>>
    BY <1>3 DEF CloseRequested, SystemRedraw, DropObject, AnyClient, programVars, runVars,
                loopVars, ngxVars
  <2>2. Whole => Whole'
    BY <1>1, <2>1, SameScript DEF Whole
  <2>3. Short => Short'
    BY <1>1, <2>1 DEF Short
  <2> QED
    BY <1>1, <2>1, <2>2, <2>3 DEF ShapeInv
\* A function has returned.
<1>4. ASSUME UNCHANGED <<script, at, failed, number>>, phase' \in {"loop", "leave", "gone"},
             prog \in Windowed \cup Headless
      PROVE  ShapeInv'
  BY <1>1, <1>4 DEF ShapeInv
<1>5. CASE StartStreamline
  BY <1>4, <1>5 DEF StartStreamline, loopVars
<1>6. CASE EndOfBringUp \/ EndOfFrame \/ Leave \/ EndOfProgram
  <2>1. /\ UNCHANGED <<script, at, failed, number>> /\ phase # "start"
        /\ phase' \in {"loop", "leave", "gone"}
    BY <1>6 DEF EndOfBringUp, EndOfFrame, Leave, EndOfProgram, loopVars
  <2> QED
    BY <1>4, <2>1 DEF ShapeInv
\* A bring-up is called.
<1>7. CASE StartRun \/ Resumed
  <2>1. /\ phase' = "new" /\ script' = DoAll(BringUp) /\ at' = 1 /\ failed' = failed
        /\ number' = number /\ prog \in Windowed \cup Headless
    BY <1>7 DEF StartRun, Resumed, Call, loopVars
  <2>2. ~failed
    BY <1>7, ShapeInv, LoopInv DEF ShapeInv, LoopInv, StartRun, Resumed
  <2>3. PICK k \in Nat : Lists(BringUp, k) /\ Orderly(BringUp, k)
    BY <2>1, BringUpIs
  <2>4. Lists(script', k) /\ \A i \in 1..k : script'[i] = Do(BringUp[i])
    BY <2>1, <2>3, Doing
  <2>5. Len(script') = k
    BY <2>4, HasLength
  <2> QED
    BY <1>1, <2>1, <2>2, <2>4, <2>5 DEF ShapeInv
<1>8. CASE BringUpFails
  <2>1. /\ phase = "new" /\ phase' = "new" /\ script' = <<>> /\ at' = 1 /\ failed' = TRUE
        /\ number' = number
    BY <1>8 DEF BringUpFails, Call, loopVars
  <2>2. Lists(script', 0) /\ Len(script') = 0
    BY <2>1 DEF Lists
  <2> QED
    BY <1>1, <2>1, <2>2 DEF ShapeInv
\* A frame is called.
<1>9. ASSUME NewFrame, UNCHANGED <<failed, range>>, ~failed, prog \in Windowed \cup Headless
      PROVE  ShapeInv'
  <2>1. /\ number' = number + 1 /\ phase' = "frame" /\ script' = FrameScript(number) /\ at' = 1
    BY <1>9, Zenon DEF NewFrame, Call
  <2>2. number \in Nat /\ number' - 1 = number
    BY <2>1 DEF ShapeInv
  <2>3. PICK k \in Nat : Lists(script', k)
    BY <1>9, <2>1, <2>2, FrameOpsOf
  <2>4. Len(script') = k
    BY <2>3, HasLength
  <2>5. Whole'
    BY <1>1, <1>9, <2>1, <2>2, SameScript DEF Whole
  <2> QED
    BY <1>1, <1>9, <2>1, <2>2, <2>3, <2>4, <2>5 DEF ShapeInv
<1>10. CASE Redraw
  <2>1. CASE number >= MaxFrames
    <3>1. UNCHANGED <<script, at, failed, number, phase, prog>> /\ phase = "loop"
      BY <1>10, <2>1 DEF Redraw
    <3> QED
      BY <1>4, <3>1 DEF ShapeInv
  <2>2. CASE ~(number >= MaxFrames)
    <3>1. /\ NewFrame /\ failed' = failed /\ range' = range /\ prog \in Windowed
          /\ phase = "loop" /\ ~closing
      BY <1>10, <2>2 DEF Redraw, ngxVars
    <3> QED
      BY <1>9, <3>1 DEF LoopInv
  <2> QED
    BY <2>1, <2>2
<1>11. CASE ForLoop
  BY <1>9, <1>11 DEF ForLoop, ngxVars
<1> QED
  BY <1>2, <1>3, <1>5, <1>6, <1>7, <1>8, <1>10, <1>11, Zenon
     DEF ProgramNext, ProgramStep, NewStep, OperationStep
-----------------------------------------------------------------------------
(* What a program owns *)

\* An object is made, and one is dropped.
LEMMA Pushed ==
  ASSUME NEW S, NEW s, s \in Seq(S), IsInjective(s), NEW x \in S, x \notin ToSet(s),
         NEW t, t = <<x>> \o s
  PROVE  t \in Seq(S) /\ IsInjective(t) /\ ToSet(t) = {x} \cup ToSet(s)
<1>1. /\ t \in Seq(S) /\ Len(t) = Len(s) + 1 /\ t[1] = x
      /\ \A i \in 1..Len(s) : t[i + 1] = s[i]
  OBVIOUS
<1>2. \A i \in 2..Len(t) : i - 1 \in 1..Len(s) /\ t[i] = s[i - 1]
  BY <1>1
<1>3. DOMAIN t = 1..Len(t) /\ DOMAIN s = 1..Len(s) /\ Len(s) \in Nat
  BY <1>1
<1>4. /\ \A i, j \in 1..Len(s) : s[i] = s[j] => i = j
      /\ \A i \in 1..Len(s) : s[i] # x
  BY <1>3 DEF IsInjective, ToSet
<1>5. IsInjective(t)
  <2> SUFFICES ASSUME NEW i \in 1..Len(t), NEW j \in 1..Len(t), t[i] = t[j]
               PROVE  i = j
    BY <1>3 DEF IsInjective
  <2>1. CASE i = 1 /\ j = 1
    BY <2>1
  <2>2. CASE i = 1 /\ j \in 2..Len(t)
    <3>1. j - 1 \in 1..Len(s) /\ t[j] = s[j - 1] /\ t[i] = x
      BY <1>1, <1>2, <2>2
    <3> QED
      BY <1>4, <3>1, Zenon
  <2>3. CASE i \in 2..Len(t) /\ j = 1
    <3>1. i - 1 \in 1..Len(s) /\ t[i] = s[i - 1] /\ t[j] = x
      BY <1>1, <1>2, <2>3
    <3> QED
      BY <1>4, <3>1, Zenon
  <2>4. CASE i \in 2..Len(t) /\ j \in 2..Len(t)
    <3>1. i - 1 \in 1..Len(s) /\ j - 1 \in 1..Len(s) /\ s[i - 1] = s[j - 1]
      BY <1>2, <2>4
    <3>2. i - 1 = j - 1
      BY <1>4, <3>1, Zenon
    <3> QED
      BY <3>2
  <2> QED
    BY <2>1, <2>2, <2>3, <2>4
<1>6. ToSet(t) = {x} \cup ToSet(s)
  <2>1. ASSUME NEW y \in ToSet(t)
        PROVE  y \in {x} \cup ToSet(s)
    BY <1>1, <1>2, <1>3 DEF ToSet
  <2>2. x \in ToSet(t)
    BY <1>1, <1>3 DEF ToSet
  <2>3. ASSUME NEW y \in ToSet(s)
        PROVE  y \in ToSet(t)
    <3>1. PICK i \in 1..Len(s) : y = s[i]
      BY <1>3 DEF ToSet
    <3>2. i + 1 \in 1..Len(t) /\ t[i + 1] = y
      BY <1>1, <1>3, <3>1
    <3> QED
      BY <1>3, <3>2 DEF ToSet
  <2> QED
    BY <2>1, <2>2, <2>3
<1> QED
  BY <1>1, <1>5, <1>6

\* What is dropped is not owned any more, and the rest still is.
LEMMA Popped ==
  ASSUME NEW S, NEW s, s \in Seq(S), IsInjective(s), s # <<>>
  PROVE  /\ Tail(s) \in Seq(S) /\ IsInjective(Tail(s))
         /\ Head(s) \in ToSet(s) /\ ToSet(Tail(s)) = ToSet(s) \ {Head(s)}
<1> DEFINE t == Tail(s)
<1>1. /\ t \in Seq(S) /\ Len(s) \in Nat \ {0} /\ Len(t) = Len(s) - 1
      /\ \A i \in 1..Len(t) : t[i] = s[i + 1]
      /\ Head(s) = s[1] /\ DOMAIN s = 1..Len(s) /\ DOMAIN t = 1..Len(t)
  OBVIOUS
<1> HIDE DEF t
<1>2. \A i \in 1..Len(t) : i + 1 \in 1..Len(s) /\ t[i] = s[i + 1]
  BY <1>1
<1>3. IsInjective(t)
  <2> SUFFICES ASSUME NEW i \in 1..Len(t), NEW j \in 1..Len(t), t[i] = t[j]
               PROVE  i = j
    BY <1>1 DEF IsInjective
  <2>1. i + 1 \in 1..Len(s) /\ j + 1 \in 1..Len(s) /\ s[i + 1] = s[j + 1]
    BY <1>2
  <2>2. i + 1 = j + 1
    BY <1>1, <2>1, Zenon DEF IsInjective
  <2> QED
    BY <2>2
<1>4. Head(s) \in ToSet(s)
  BY <1>1 DEF ToSet
<1>5. ASSUME NEW y \in ToSet(t)
      PROVE  y \in ToSet(s) \ {Head(s)}
  <2>1. PICK i \in 1..Len(t) : y = t[i]
    BY <1>1 DEF ToSet
  <2>2. i + 1 \in 1..Len(s) /\ y = s[i + 1] /\ i + 1 # 1 /\ 1 \in 1..Len(s)
    BY <1>1, <1>2, <2>1
  <2> QED
    BY <1>1, <2>2 DEF ToSet, IsInjective
<1>6. ASSUME NEW y \in ToSet(s) \ {Head(s)}
      PROVE  y \in ToSet(t)
  <2>1. PICK i \in 1..Len(s) : y = s[i]
    BY <1>1 DEF ToSet
  <2>2. i # 1
    BY <1>1, <2>1
  <2>3. i - 1 \in 1..Len(t) /\ t[i - 1] = y
    BY <1>1, <2>1, <2>2
  <2> QED
    BY <1>1, <2>3 DEF ToSet
<1> QED
  BY <1>1, <1>3, <1>4, <1>5, <1>6 DEF t

\* A GpuState, and what main owns before there is one.
LEMMA FieldsAre ==
  ASSUME prog \in Windowed
  PROVE  /\ Fields \in Seq(Objects) /\ IsInjective(Fields)
         /\ "fg" \in ToSet(Fields) /\ "window" \in ToSet(Fields)
<1>1. CASE prog = "frame_generation"
  <2>1. /\ Fields \in Seq(Objects) /\ Len(Fields) = 6 /\ DOMAIN Fields = 1..6
        /\ Fields[2] = "window" /\ Fields[6] = "fg"
    BY <1>1 DEF Fields, FrameGenerationFields, Objects
  <2>2. IsInjective(Fields)
    BY <1>1 DEF Fields, FrameGenerationFields, IsInjective
  <2> QED
    BY <2>1, <2>2 DEF ToSet
<1>2. CASE prog = "sr_plus_fg"
  <2>1. /\ Fields \in Seq(Objects) /\ Len(Fields) = 7 /\ DOMAIN Fields = 1..7
        /\ Fields[2] = "window" /\ Fields[7] = "fg"
    BY <1>2 DEF Fields, SrPlusFgFields, Objects
  <2>2. IsInjective(Fields)
    BY <1>2 DEF Fields, SrPlusFgFields, IsInjective
  <2> QED
    BY <2>1, <2>2 DEF ToSet
<1> QED
  BY <1>1, <1>2 DEF Windowed

\* What main owns is a sequence of one object.
LEMMA HandleIs ==
  /\ <<"handle">> \in Seq(Objects) /\ IsInjective(<<"handle">>)
  /\ ToSet(<<"handle">>) = {"handle"}
<1>1. ToSet(<<"handle">>) = {"handle"}
  BY DEF ToSet
<1> QED
  BY <1>1 DEF Objects, IsInjective

\* An operation that was run is not to come any more, and all others are as before.
LEMMA AheadNext ==
  ASSUME ShapeInv, phase = "new", ~failed, Continue, at \in 1..Len(script)
  PROVE  /\ Ahead(script[at].op)
         /\ \A name : Ahead(name)' <=> Ahead(name) /\ name # script[at].op
<1>1. PICK k \in Nat : /\ k = Len(script) /\ Orderly(BringUp, k)
                       /\ \A i \in 1..k : script[i].op = BringUp[i]
  BY NewIs
<1>2. script' = script /\ at' = at + 1
  BY DEF Continue
<1>3. \A i, j \in 1..k : script[i].op = script[j].op => i = j
  BY <1>1 DEF Orderly
<1>4. ASSUME NEW name
      PROVE  Ahead(name)' <=> Ahead(name) /\ name # script[at].op
  <2>1. Ahead(name)' <=> \E i \in (at + 1)..k : script[i].op = name
    BY <1>1, <1>2 DEF Ahead
  <2>2. Ahead(name) <=> \E i \in at..k : script[i].op = name
    BY <1>1 DEF Ahead
  <2>3. \A i \in (at + 1)..k : script[i].op # script[at].op
    BY <1>1, <1>3
  <2>4. \A i \in at..k : i = at \/ i \in (at + 1)..k
    BY <1>1
  <2> QED
    BY <1>1, <2>1, <2>2, <2>3, <2>4
<1>5. Ahead(script[at].op)
  BY <1>1 DEF Ahead
<1> QED
  BY <1>4, <1>5

\* Once the function is over, nothing is.
LEMMA NothingAhead ==
  ASSUME ShapeInv, Over
  PROVE  \A name : ~Ahead(name)
BY DEF ShapeInv, Over, Ahead

\* When a bring-up is called, all of it is.
LEMMA AllAhead ==
  ASSUME prog \in Windowed \cup Headless, prog' = prog, script' = DoAll(BringUp), at' = 1
  PROVE  /\ ~Ahead("handle")'
         /\ \A name \in Uses \cup {"textures"} : Ahead(name)'
         /\ prog \in Windowed => Ahead("fg")' /\ Ahead("instance")'
<1>1. PICK k \in Nat : Lists(BringUp, k) /\ Orderly(BringUp, k)
  BY BringUpIs
<1>2. Lists(script', k) /\ \A i \in 1..k : script'[i] = Do(BringUp[i])
  BY <1>1, Doing
<1>3. Len(script') = k /\ \A i \in 1..k : script'[i].op = BringUp[i]
  BY <1>2, HasLength, OperationsAre
<1>4. \A name : Ahead(name)' <=> \E i \in 1..k : BringUp[i] = name
  BY <1>1, <1>3 DEF Ahead
<1>5. "handle" \notin BringUpOps
  BY DEF BringUpOps
<1> QED
  BY <1>1, <1>4, <1>5 DEF Orderly

\* The object that is made, if the operation makes one.
Made(x) == IF x \in Objects THEN <<x>> \o held ELSE held

\* What the operations of a bring-up make.
LEMMA NewMakes ==
  ASSUME ShapeInv, NewStep, phase = "new"
  PROVE  /\ held' = Made(script[at].op)
         /\ owner' = IF script[at].op = "fg" THEN "fg" ELSE owner
         /\ generating' = IF script[at].op = "fg" THEN TRUE ELSE generating
<1>1. \A x : At(x) => script[at].op = x
  BY DEF At
<1>2. CASE MakeObject
  <2>1. PICK x \in {"window", "instance", "surface", "vendor", "device", "sdk"} :
          At(x) /\ held' = IF x \in {"vendor", "sdk"} THEN held ELSE <<x>> \o held
    BY <1>2 DEF MakeObject
  <2>2. owner' = owner /\ generating' = generating
    BY <1>2 DEF MakeObject
  <2>3. x \in {"vendor", "sdk"} <=> x \notin Objects
    BY DEF Objects
  <2> QED
    BY <1>1, <2>1, <2>2, <2>3 DEF Made
<1>3. CASE MakeUpscaler
  <2>1. PICK x \in Features : At(x) /\ held' = <<x>> \o held
    BY <1>3 DEF MakeUpscaler
  <2>2. owner' = owner /\ generating' = generating /\ x \in Objects /\ x # "fg"
    BY <1>3 DEF MakeUpscaler, Features, Objects
  <2> QED
    BY <1>1, <2>1, <2>2 DEF Made
<1>4. CASE MakeFrameGeneration
  BY <1>1, <1>4 DEF MakeFrameGeneration, Made, Objects
<1>5. CASE Configure \/ MakeTextures
  <2>1. /\ script[at].op \in {"configure", "textures"}
        /\ UNCHANGED <<held, owner, generating>>
    BY <1>1, <1>5 DEF Configure, MakeTextures, objectVars
  <2> QED
    BY <2>1 DEF Made, Objects
<1> QED
  BY <1>2, <1>3, <1>4, <1>5 DEF NewStep

\* Every step keeps who owns what.
LEMMA OwnerNext ==
  ASSUME ProgramInv, ProgramNext
  PROVE  OwnerInv'
<1> USE DEF ProgramInv
<1>1. CASE NewStep /\ phase = "new"
  <2> DEFINE x == script[at].op
  <2>1. /\ Continue /\ at \in 1..Len(script) /\ phase = "new" /\ ~failed /\ phase' = phase
    BY <1>1, NewSteps DEF Continue
  <2>2. Ahead(x) /\ x \notin ToSet(held)
    BY <2>1, AheadNext DEF NewInv
  <2>3. /\ held' = Made(x) /\ owner' = IF x = "fg" THEN "fg" ELSE owner
        /\ generating' = IF x = "fg" THEN TRUE ELSE generating
    BY <1>1, NewMakes
  <2> HIDE DEF x
  <2>4. /\ held' \in Seq(Objects) /\ IsInjective(held')
        /\ ToSet(held') = IF x \in Objects THEN {x} \cup ToSet(held) ELSE ToSet(held)
    <3>1. CASE x \in Objects
      <4>1. held' = <<x>> \o held
        BY <2>3, <3>1 DEF Made
      <4>2. held \in Seq(Objects) /\ IsInjective(held)
          BY DEF OwnerInv
      <4>3. held' \in Seq(Objects) /\ IsInjective(held') /\ ToSet(held') = {x} \cup ToSet(held)
          BY <2>2, <3>1, <4>1, <4>2, Pushed
      <4> QED
        BY <3>1, <4>3
    <3>2. CASE x \notin Objects
      BY <2>3, <3>2 DEF Made, OwnerInv
    <3> QED
      BY <3>1, <3>2
  <2>5. "fg" \in Objects
    BY DEF Objects
  <2>6. generating' \in BOOLEAN /\ (generating' <=> "fg" \in ToSet(held'))
    BY <2>3, <2>4, <2>5 DEF OwnerInv
  <2> QED
    BY <2>1, <2>3, <2>4, <2>5, <2>6 DEF OwnerInv
<1>2. CASE DropObject
  <2>1. /\ held # <<>> /\ held' = Tail(held)
        /\ owner' = IF owner = Head(held) THEN "none" ELSE owner
        /\ generating' = (generating /\ Head(held) # "fg") /\ phase' = phase /\ phase # "start"
    BY <1>2 DEF DropObject, runVars
  <2>2. /\ held' \in Seq(Objects) /\ IsInjective(held')
        /\ ToSet(held') = ToSet(held) \ {Head(held)}
    BY <2>1, Popped DEF OwnerInv
  <2>3. owner' \in {"none"} \cup (ToSet(held') \cap {"handle", "fg"})
    BY <2>1, <2>2 DEF OwnerInv
  <2>4. generating' \in BOOLEAN /\ (generating' <=> "fg" \in ToSet(held'))
    <3>1. generating \in BOOLEAN /\ (generating <=> "fg" \in ToSet(held))
      BY DEF OwnerInv
    <3>2. (generating /\ Head(held) # "fg") \in BOOLEAN
      OBVIOUS
    <3>3. generating' <=> generating /\ Head(held) # "fg"
      BY <2>1, Zenon
    <3>4. generating' \in BOOLEAN
      BY <2>1, <3>2, Zenon
    <3> QED
      BY <2>2, <3>1, <3>3, <3>4
  <2> QED
    BY <2>1, <2>2, <2>3, <2>4 DEF OwnerInv
<1>3. CASE StartStreamline
  <2>1. /\ phase' # "start" /\ UNCHANGED generating
        /\ \/ owner' = "handle" /\ held' = <<"handle">>
           \/ UNCHANGED <<owner, held>>
    BY <1>3 DEF StartStreamline, Outside
  <2>2. held = <<>> /\ generating \in BOOLEAN /\ (generating <=> "fg" \in ToSet(held))
    BY <1>3 DEF StartStreamline, OwnerInv
  <2>3. ~("fg" \in ToSet(<<>>)) /\ ~("fg" \in ToSet(<<"handle">>))
    BY HandleIs DEF ToSet
  <2>4. CASE owner' = "handle" /\ held' = <<"handle">>
    <3>1. /\ held' \in Seq(Objects) /\ IsInjective(held')
          /\ "handle" \in ToSet(held') /\ "fg" \notin ToSet(held')
      BY <2>3, <2>4, HandleIs, Zenon
    <3>2. generating' \in BOOLEAN /\ ~generating'
      BY <2>1, <2>2, <2>3
    <3> QED
      BY <2>1, <2>4, <3>1, <3>2 DEF OwnerInv
  <2>5. CASE UNCHANGED <<owner, held>>
    BY <2>1, <2>5 DEF OwnerInv
  <2> QED
    BY <2>1, <2>4, <2>5
<1>4. CASE EndOfBringUp /\ ~failed /\ prog \in Windowed
  <2>1. held' = Fields /\ phase' # "start" /\ UNCHANGED <<owner, generating>>
    BY <1>4 DEF EndOfBringUp, Headless, Windowed
  <2>2. owner = "fg"
    BY <1>4, NothingAhead DEF EndOfBringUp, NewInv
  <2>3. generating \in BOOLEAN /\ generating /\ "fg" \in ToSet(held)
    BY <2>2 DEF OwnerInv
  <2> QED
    BY <1>4, <2>1, <2>2, <2>3, FieldsAre DEF OwnerInv
\* Nothing is made or dropped.
<1>5. ASSUME UNCHANGED <<held, owner, generating>>, phase' = "start" => phase = "start"
      PROVE  OwnerInv'
  BY <1>5 DEF OwnerInv
<1>6. CASE NewStep /\ phase # "new"
  <2>1. At("configure") \/ ~At("configure")
    OBVIOUS
  <2>2. phase = "frame" /\ script[at].op = "configure" /\ Continue
    BY <1>6, NewSteps
  <2>3. UNCHANGED <<held, owner, generating>>
    BY <1>6, <2>2 DEF NewStep, MakeObject, MakeUpscaler, MakeFrameGeneration, Configure,
                     MakeTextures, At, Features, objectVars
  <2> QED
    BY <1>5, <2>2, <2>3 DEF Continue
<1>7. CASE OperationStep
  <2>1. phase = "frame" /\ UNCHANGED objectVars /\ (Continue \/ GiveUp \/ Unavailable)
    BY <1>7, OperationSteps
  <2>2. phase' = phase
    BY <2>1, GiveUpIs DEF Continue, Unavailable
  <2> QED
    BY <1>5, <2>1, <2>2 DEF objectVars
<1>8. CASE EndOfBringUp /\ ~(~failed /\ prog \in Windowed)
  <2>1. phase \in {"new"} /\ prog \in Windowed \cup Headless
    BY <1>8 DEF EndOfBringUp, ShapeInv
  <2> QED
    BY <1>5, <1>8, <2>1 DEF EndOfBringUp
<1>9. CASE StartRun \/ Resumed \/ BringUpFails
  BY <1>5, <1>9 DEF StartRun, Resumed, BringUpFails, objectVars
<1>10. CASE Redraw \/ ForLoop
  BY <1>5, <1>10 DEF Redraw, ForLoop, NewFrame, objectVars
<1>11. CASE EndOfFrame \/ Leave \/ EndOfProgram \/ CloseRequested \/ SystemRedraw \/ AnyClient
  BY <1>5, <1>11 DEF EndOfFrame, Leave, EndOfProgram, CloseRequested, SystemRedraw, AnyClient,
                     runVars, objectVars, programVars
<1> QED
  BY <1>1, <1>2, <1>3, <1>4, <1>6, <1>7, <1>8, <1>9, <1>10, <1>11, Zenon
     DEF ProgramNext, ProgramStep, NewStep, OperationStep

\* The features that a program uses are those there are.
LEMMA UsesAre == Uses \subseteq Features
BY DEF Uses, Features
-----------------------------------------------------------------------------
(* What a bring-up has, and what is still to come *)

\* What a bring-up has when it comes to an operation.
LEMMA OrderOfNew ==
  ASSUME ShapeInv, phase = "new", ~failed, at \in 1..Len(script)
  PROVE  /\ script[at].op \in Features => Ahead("textures")
         /\ script[at].op = "textures" => \A f \in Features : ~Ahead(f)
         /\ script[at].op = "configure" =>
              ~Ahead("instance") /\ ~Ahead("fg") /\ prog \in Windowed
<1>1. PICK k \in Nat : /\ k = Len(script) /\ Orderly(BringUp, k)
                       /\ \A i \in 1..k : script[i].op = BringUp[i]
  BY NewIs
<1>2. \A name : Ahead(name) <=> \E i \in at..k : BringUp[i] = name
  BY <1>1 DEF Ahead
<1>3. ASSUME script[at].op \in Features
      PROVE  Ahead("textures")
  <2>1. PICK i \in 1..k : BringUp[i] = "textures"
    BY <1>1 DEF Orderly
  <2>2. at < i
    BY <1>1, <1>3, <2>1 DEF Orderly
  <2> QED
    BY <1>1, <1>2, <2>1, <2>2
<1>4. ASSUME script[at].op = "textures", NEW f \in Features, Ahead(f)
      PROVE  FALSE
  <2>1. PICK i \in at..k : BringUp[i] = f
    BY <1>2, <1>4
  <2>2. i < at
    BY <1>1, <1>4, <2>1 DEF Orderly
  <2> QED
    BY <1>1, <2>1, <2>2
<1>5. ASSUME script[at].op = "configure", NEW x \in {"instance", "fg"}, Ahead(x)
      PROVE  FALSE
  <2>1. PICK i \in at..k : BringUp[i] = x
    BY <1>2, <1>5
  <2>2. i < at
    BY <1>1, <1>5, <2>1 DEF Orderly
  <2> QED
    BY <1>1, <2>1, <2>2
<1>6. ASSUME script[at].op = "configure"
      PROVE  prog \in Windowed
  BY <1>1, <1>6 DEF Orderly, ShapeInv
<1> QED
  BY <1>3, <1>4, <1>5, <1>6

\* What the operations of a bring-up set.
LEMMA NewSets ==
  ASSUME ShapeInv, NewStep, NEW x, x = script[at].op
  PROVE  /\ IF x = "instance" THEN factory' \in Upgraded ELSE factory' = factory
         /\ \/ x \in Features /\ \E answer \in Ranges : range' = WithAnswer(x, answer)
            \/ x \notin Features /\ range' = range
         /\ sizes' = IF x = "textures" THEN [f \in DOMAIN range |-> Allocated(f)] ELSE sizes
         /\ swapchain' = IF x = "configure"
                         THEN IF factory = "proxy" /\ owner = "fg" THEN "bound" ELSE "unbound"
                         ELSE swapchain
         /\ UNCHANGED <<redraw, closing, waiting, number>>
<1>1. \A name : At(name) => x = name
  BY DEF At
<1>2. CASE MakeObject
  <2>1. PICK name \in {"window", "instance", "surface", "vendor", "device", "sdk"} :
          /\ At(name)
          /\ IF name = "instance" THEN factory' \in Upgraded ELSE factory' = factory
    BY <1>2 DEF MakeObject
  <2>2. UNCHANGED <<range, sizes, swapchain, redraw, closing, waiting, number>>
    BY <1>2 DEF MakeObject, ngxVars, loopVars
  <2>3. name = x /\ x \notin Features /\ x # "textures" /\ x # "configure"
    BY <1>1, <2>1 DEF Features
  <2> QED
    BY <2>1, <2>2, <2>3, Zenon
<1>3. CASE MakeUpscaler
  <2>1. PICK f \in Features, answer \in Ranges : At(f) /\ range' = WithAnswer(f, answer)
    BY <1>3, Zenon DEF MakeUpscaler
  <2>2. UNCHANGED <<factory, sizes, swapchain, redraw, closing, waiting, number>>
    BY <1>3, Zenon DEF MakeUpscaler, loopVars
  <2>3. f = x /\ x # "textures" /\ x # "configure" /\ x # "instance"
    BY <1>1, <2>1 DEF Features
  <2> QED
    BY <2>1, <2>2, <2>3, Zenon
<1>4. CASE MakeFrameGeneration
  <2>1. UNCHANGED <<factory, range, sizes, swapchain, redraw, closing, waiting, number>>
    BY <1>4 DEF MakeFrameGeneration, ngxVars, loopVars
  <2>2. x = "fg" /\ x \notin Features
    BY <1>1, <1>4 DEF MakeFrameGeneration, Features
  <2> QED
    BY <2>1, <2>2
<1>5. CASE Configure
  <2>1. /\ swapchain' = IF factory = "proxy" /\ owner = "fg" THEN "bound" ELSE "unbound"
        /\ UNCHANGED <<factory, range, sizes, redraw, closing, waiting, number>>
    BY <1>5 DEF Configure, ngxVars, loopVars
  <2>2. x = "configure" /\ x \notin Features
    BY <1>1, <1>5 DEF Configure, Features
  <2> QED
    BY <2>1, <2>2
<1>6. CASE MakeTextures
  <2>1. /\ sizes' = [f \in DOMAIN range |-> Allocated(f)]
        /\ UNCHANGED <<factory, range, swapchain, redraw, closing, waiting, number>>
    BY <1>6 DEF MakeTextures, objectVars, loopVars
  <2>2. x = "textures" /\ x \notin Features
    BY <1>1, <1>6 DEF MakeTextures, Features
  <2> QED
    BY <2>1, <2>2
<1> QED
  BY <1>2, <1>3, <1>4, <1>5, <1>6 DEF NewStep

\* The answer to a new context is put beside those there are.
LEMMA AnswerAdded ==
  ASSUME NEW x, NEW answer \in Ranges, range' = WithAnswer(x, answer)
  PROVE  /\ DOMAIN range' = DOMAIN range \cup {x}
         /\ range'[x] = answer
         /\ \A f \in DOMAIN range \ {x} : range'[f] = range[f]
BY DEF WithAnswer

\* An answer, and what was allocated for it, stay what they are.
LEMMA SameAnswers ==
  ASSUME prog' = prog, range' = range, NEW f
  PROVE  /\ Answered(f)' <=> Answered(f)
         /\ sizes' = sizes => (Sized(f)' <=> Sized(f))
BY DEF Answered, Sized, Allocated

\* A bring-up goes on, or it is called.
LEMMA IntoNew ==
  ASSUME ShapeInv, ProgramNext, phase' = "new", ~failed'
  PROVE  \/ NewStep /\ phase = "new" /\ ~failed
         \/ StartRun \/ Resumed
<1>1. CASE NewStep
  <2>1. phase' = phase
    BY <1>1, NewSteps DEF Continue
  <2> QED
    BY <1>1, <2>1, NewSteps
<1>2. CASE OperationStep
  <2>1. phase = "frame" /\ phase' = phase
    BY <1>2, OperationSteps, GiveUpIs DEF Continue, Unavailable
  <2> QED
    BY <2>1
<1>3. CASE \/ StartStreamline \/ BringUpFails \/ EndOfBringUp \/ Redraw \/ ForLoop
           \/ EndOfFrame \/ Leave \/ DropObject \/ EndOfProgram
  BY <1>3 DEF StartStreamline, BringUpFails, EndOfBringUp, Redraw, ForLoop, NewFrame,
              EndOfFrame, Leave, DropObject, EndOfProgram, runVars
<1>4. CASE CloseRequested \/ SystemRedraw \/ AnyClient
  <2>1. phase = "new" /\ prog = "any client"
    BY <1>4 DEF CloseRequested, SystemRedraw, AnyClient, runVars, programVars
  <2> QED
    BY <2>1 DEF ShapeInv, Windowed, Headless
<1> QED
  BY <1>1, <1>2, <1>3, <1>4, Zenon DEF ProgramNext, ProgramStep, NewStep, OperationStep

\* Every step keeps what a bring-up has and what is still to come.
LEMMA NewNext ==
  ASSUME ProgramInv, ProgramNext
  PROVE  NewInv'
<1> USE DEF ProgramInv
<1> SUFFICES ASSUME phase' = "new", ~failed'
             PROVE  /\ \A o \in ToSet(held)' : ~Ahead(o)'
                    /\ (prog \in Windowed)' => owner' = IF Ahead("fg")' THEN "handle" ELSE "fg"
                    /\ Ahead("instance")' => factory' = "none"
                    /\ (prog \in Windowed)' => Asked' \/ Ahead("instance")'
                    /\ \A f \in Uses' : Answered(f)' \/ Ahead(f)'
                    /\ (\A f \in Uses' : Sized(f)') \/ Ahead("textures")'
  BY DEF NewInv
<1>1. prog' = prog /\ Uses' = Uses
  BY SameProgram, OfProgram
<1>2. CASE NewStep /\ phase = "new" /\ ~failed
  <2> DEFINE x == script[at].op
  <2>1. Continue /\ at \in 1..Len(script)
    BY <1>2, NewSteps
  <2>2. /\ Ahead(x)
        /\ \A name : Ahead(name)' <=> Ahead(name) /\ name # x
    BY <1>2, <2>1, AheadNext
  <2>3. /\ \A o \in ToSet(held) : ~Ahead(o)
        /\ prog \in Windowed => owner = IF Ahead("fg") THEN "handle" ELSE "fg"
        /\ Ahead("instance") => factory = "none"
        /\ prog \in Windowed => Asked \/ Ahead("instance")
        /\ \A f \in Uses : Answered(f) \/ Ahead(f)
        /\ (\A f \in Uses : Sized(f)) \/ Ahead("textures")
    BY <1>2 DEF NewInv
  <2>4. held' = Made(x) /\ owner' = IF x = "fg" THEN "fg" ELSE owner
    BY <1>2, NewMakes
  <2>5. /\ IF x = "instance" THEN factory' \in Upgraded ELSE factory' = factory
        /\ \/ x \in Features /\ \E answer \in Ranges : range' = WithAnswer(x, answer)
           \/ x \notin Features /\ range' = range
        /\ sizes' = IF x = "textures" THEN [f \in DOMAIN range |-> Allocated(f)] ELSE sizes
    BY <1>2, NewSets
  <2>6. /\ x \in Features => Ahead("textures")
        /\ x = "textures" => \A f \in Features : ~Ahead(f)
    BY <1>2, <2>1, OrderOfNew
  <2> HIDE DEF x
  <2>7. ASSUME NEW o \in ToSet(held')
        PROVE  ~Ahead(o)'
    <3>1. CASE o \in ToSet(held)
      BY <2>2, <2>3, <3>1, Zenon
    <3>2. CASE o \notin ToSet(held)
      <4>1. x \in Objects /\ held' = <<x>> \o held
        BY <2>4, <2>7, <3>2 DEF Made
      <4>2. held \in Seq(Objects) /\ IsInjective(held)
        BY DEF OwnerInv
      <4>3. x \notin ToSet(held)
        BY <2>2, <2>3, Zenon
      <4>4. ToSet(held') = {x} \cup ToSet(held)
        BY <4>1, <4>2, <4>3, Pushed
      <4>5. o = x
        BY <2>7, <3>2, <4>4, Zenon
      <4> QED
        BY <2>2, <4>5, Zenon
    <3> QED
      BY <3>1, <3>2
  <2>8. prog \in Windowed => owner' = IF Ahead("fg")' THEN "handle" ELSE "fg"
    BY <2>2, <2>3, <2>4
  <2>9. /\ Ahead("instance")' => factory' = "none"
        /\ prog \in Windowed => Asked' \/ Ahead("instance")'
    <3>1. CASE x = "instance"
      <4>1. prog \in Windowed => owner # "none"
        BY <2>3
      <4>2. factory' \in Upgraded /\ ~Ahead("instance")'
        BY <2>2, <2>5, <3>1
      <4> QED
        BY <4>1, <4>2 DEF Upgraded, Asked
    <3>2. CASE x # "instance"
      <4>1. factory' = factory
        BY <2>5, <3>2
      <4>2. Ahead("instance")' <=> Ahead("instance")
        BY <2>2, <3>2
      <4> QED
        BY <2>3, <4>1, <4>2, Zenon DEF Asked
    <3> QED
      BY <3>1, <3>2
  <2>10. ASSUME NEW f \in Uses
         PROVE  Answered(f)' \/ Ahead(f)'
    <3>1. CASE x \in Features
      <4>1. PICK answer \in Ranges : range' = WithAnswer(x, answer)
        BY <2>5, <3>1
      <4>2. /\ DOMAIN range' = DOMAIN range \cup {x} /\ range'[x] = answer
            /\ \A g \in DOMAIN range \ {x} : range'[g] = range[g]
        BY <4>1, AnswerAdded
      <4>3. x = f \/ Answered(f) => Answered(f)'
        BY <4>2 DEF Answered
      <4>4. Answered(f) \/ Ahead(f)
        BY <2>3, <2>10
      <4>5. Ahead(f)' <=> Ahead(f) /\ f # x
        BY <2>2
      <4> QED
        BY <4>3, <4>4, <4>5, Zenon
    <3>2. CASE x \notin Features
      <4>1. Answered(f) => Answered(f)'
        BY <1>1, <2>5, <3>2, SameAnswers
      <4>2. f # x
        BY <3>2, UsesAre
      <4> QED
        BY <2>2, <2>3, <2>10, <4>1, <4>2, Zenon
    <3> QED
      BY <3>1, <3>2
  <2>11. (\A f \in Uses : Sized(f)') \/ Ahead("textures")'
    <3>1. CASE x \in Features
      <4>1. x # "textures"
        BY <3>1 DEF Features
      <4> QED
        BY <2>2, <2>6, <3>1, <4>1, Zenon
    <3>2. CASE x = "textures"
      <4>1. range' = range /\ sizes' = [f \in DOMAIN range |-> Allocated(f)]
        BY <2>5, <3>2 DEF Features
      <4>2. ASSUME NEW f \in Uses
            PROVE  Sized(f)'
        <5>1. Answered(f)
          BY <2>3, <2>6, <3>2, <4>2, UsesAre
        <5>2. Allocated(f)' = Allocated(f)
          BY <1>1, <4>1 DEF Allocated
        <5> QED
          BY <4>1, <5>1, <5>2 DEF Sized, Answered
      <4> QED
        BY <4>2
    <3>3. CASE x \notin Features /\ x # "textures"
      <4>1. range' = range /\ sizes' = sizes
        BY <2>5, <3>3
      <4>2. \A f : Sized(f)' <=> Sized(f)
        BY <1>1, <4>1, SameAnswers
      <4> QED
        BY <2>2, <2>3, <3>3, <4>2, Zenon
    <3> QED
      BY <3>1, <3>2, <3>3
  <2> QED
    BY <1>1, <2>7, <2>8, <2>9, <2>10, <2>11
<1>3. CASE StartRun \/ Resumed
  <2>1. /\ script' = DoAll(BringUp) /\ at' = 1 /\ UNCHANGED <<held, owner>>
        /\ prog \in Windowed \cup Headless
    BY <1>3 DEF StartRun, Resumed, Call, objectVars
  <2>2. /\ ~Ahead("handle")'
        /\ \A name \in Uses \cup {"textures"} : Ahead(name)'
        /\ prog \in Windowed => Ahead("fg")' /\ Ahead("instance")'
    BY <1>1, <2>1, AllAhead
  <2>3. \/ held = <<>> /\ prog \in Headless
        \/ held = <<"handle">> /\ owner = "handle"
    BY <1>3 DEF StartRun, Resumed, OwnerInv, LoopInv, Fresh
  <2>4. \A o \in ToSet(held) : o = "handle"
    BY <2>3, HandleIs DEF ToSet
  <2>5. prog \in Headless => prog \notin Windowed
    BY DEF Windowed, Headless
  <2>6. prog \in Windowed => owner = "handle"
    BY <2>3, <2>5
  <2>7. prog \in Windowed => owner' = IF Ahead("fg")' THEN "handle" ELSE "fg"
    BY <2>1, <2>2, <2>6
  <2>8. \A o \in ToSet(held') : ~Ahead(o)'
    BY <2>1, <2>2, <2>4, Zenon
  <2>9. factory' = "none"
    BY <1>3 DEF StartRun, Resumed, LoopInv, Fresh, objectVars
  <2> QED
    BY <1>1, <2>2, <2>7, <2>8, <2>9, Zenon
<1> QED
  BY <1>2, <1>3, IntoNew
-----------------------------------------------------------------------------
(* The loop *)

\* A surface that is configured again.
LEMMA ConfiguredAgain ==
  ASSUME ShapeInv, NewStep, phase # "new"
  PROVE  /\ phase = "frame" /\ phase' = phase /\ script[at].op = "configure"
         /\ UNCHANGED <<prog, held, owner, factory, generating, range, sizes, script, failed>>
<1>1. phase = "frame" /\ script[at].op = "configure" /\ Continue
  BY NewSteps
<1>2. UNCHANGED <<held, owner, generating>>
  BY <1>1 DEF NewStep, MakeObject, MakeUpscaler, MakeFrameGeneration, Configure,
              MakeTextures, At, Features, objectVars
<1>3. UNCHANGED <<factory, range, sizes>>
  BY <1>1, NewSets DEF Features
<1> QED
  BY <1>1, <1>2, <1>3 DEF Continue

\* A program is ready as long as it owns what it does and knows what it does.
LEMMA SameReady ==
  ASSUME prog' = prog, UNCHANGED <<held, owner, factory, range, sizes>>
  PROVE  Ready' <=> Ready
<1>1. Uses' = Uses /\ Fields' = Fields
  BY OfProgram
<1>2. \A f : Sized(f)' <=> Sized(f)
  BY SameAnswers
<1> QED
  BY <1>1, <1>2 DEF Ready, Asked

\* A windowed program that is ready has a GpuState.
LEMMA ReadyHasGpu ==
  ASSUME Ready, prog \in Windowed
  PROVE  HasGpu
BY FieldsAre DEF Ready, HasGpu

\* Every step keeps what a loop, and a frame, finds when it starts.
LEMMA LoopNext ==
  ASSUME ProgramInv, ProgramNext
  PROVE  LoopInv'
<1> USE DEF ProgramInv
<1>1. prog' = prog
  BY SameProgram
\* Nothing is called, or a frame is.
<1>2. /\ phase' \in {"new", "leave", "gone"} => LoopInv'
      /\ phase' = "frame" /\ Ready' => LoopInv'
  BY DEF LoopInv
<1>3. CASE NewStep
  <2>1. CASE phase = "new"
    <3>1. phase' = "new"
      BY <1>3, <2>1, NewSteps DEF Continue
    <3> QED
      BY <1>2, <3>1
  <2>2. CASE phase # "new"
    <3>1. phase = "frame" /\ phase' = "frame" /\ Ready'
      BY <1>1, <1>3, <2>2, ConfiguredAgain, SameReady DEF LoopInv
    <3> QED
      BY <1>2, <3>1
  <2> QED
    BY <2>1, <2>2
<1>4. CASE OperationStep
  <2>1. /\ phase = "frame" /\ (Continue \/ GiveUp \/ Unavailable)
        /\ UNCHANGED <<held, owner, factory, range, sizes>>
    BY <1>4, OperationSteps DEF objectVars
  <2>2. phase' = "frame"
    BY <2>1, GiveUpIs DEF Continue, Unavailable
  <2>3. Ready'
    BY <1>1, <2>1, SameReady DEF LoopInv
  <2> QED
    BY <1>2, <2>2, <2>3
<1>5. CASE StartStreamline
  <2>1. CASE phase' = "gone"
    BY <1>2, <2>1
  <2>2. CASE phase' # "gone"
    <3>1. /\ phase' = "loop" /\ owner' = "handle" /\ held' = <<"handle">>
          /\ UNCHANGED <<failed, factory, generating, redraw>>
          /\ phase = "start" /\ prog \in Windowed
      BY <1>5, <2>2 DEF StartStreamline, Outside, loopVars
    <3>2. ~failed /\ ~redraw /\ held = <<>> /\ factory = "none"
      BY <3>1 DEF ShapeInv, LoopInv, OwnerInv
    <3>3. ~generating
      BY <3>2 DEF OwnerInv, ToSet
    <3>4. Fresh'
      BY <3>1, <3>2, <3>3 DEF Fresh
    <3>5. ~HasGpu'
      BY <3>1, HandleIs DEF HasGpu
    <3>6. prog \notin Headless
      BY <3>1 DEF Windowed, Headless
    <3> QED
      BY <1>1, <3>1, <3>2, <3>4, <3>5, <3>6 DEF LoopInv
  <2> QED
    BY <2>1, <2>2
<1>6. CASE StartRun \/ Resumed \/ BringUpFails \/ Leave \/ EndOfProgram
  <2>1. phase' \in {"new", "leave", "gone"}
    BY <1>6 DEF StartRun, Resumed, BringUpFails, Leave, EndOfProgram
  <2> QED
    BY <1>2, <2>1
<1>7. CASE DropObject
  <2>1. phase' \in {"new", "leave"}
    BY <1>7 DEF DropObject, runVars
  <2> QED
    BY <1>2, <2>1
<1>8. CASE EndOfBringUp
  <2>1. /\ phase = "new" /\ Over /\ UNCHANGED <<failed, owner, factory, generating, range, sizes>>
        /\ phase' \in {"loop", "gone"} /\ (failed /\ prog \in Headless => phase' = "gone")
        /\ closing' = (failed /\ prog \in Windowed)
        /\ redraw' = (~failed /\ prog \in Windowed)
        /\ held' = IF failed \/ prog \in Headless THEN held ELSE Fields
    BY <1>8 DEF EndOfBringUp, ngxVars
  <2>2. CASE failed
    <3>1. ~redraw' /\ (prog \in Windowed => closing')
      BY <2>1, <2>2, Zenon
    <3> QED
      BY <1>1, <2>1, <2>2, <3>1 DEF LoopInv
  <2>3. CASE ~failed
    <3>1. /\ prog \in Windowed => owner = "fg" /\ Asked
          /\ \A f \in Uses : Sized(f)
      BY <2>1, <2>3, NothingAhead DEF NewInv
    <3>2. Uses' = Uses /\ Fields' = Fields /\ \A f : Sized(f)' <=> Sized(f)
      BY <1>1, <2>1, OfProgram, SameAnswers
    <3>3. prog \in Windowed => held' = Fields
      BY <2>1, <2>3 DEF Windowed, Headless
    <3>4. Ready'
      BY <1>1, <2>1, <3>1, <3>2, <3>3 DEF Ready, Asked
    <3>5. prog \in Windowed => HasGpu'
      BY <3>3, FieldsAre DEF HasGpu
    <3> QED
      BY <1>1, <2>1, <2>3, <3>4, <3>5 DEF LoopInv
  <2> QED
    BY <2>2, <2>3
<1>9. CASE EndOfFrame
  <2>1. /\ phase = "frame" /\ phase' = "loop" /\ failed' = failed
        /\ UNCHANGED <<held, owner, factory, range, sizes>>
        /\ closing' = (failed /\ prog \in Windowed)
    BY <1>9 DEF EndOfFrame, objectVars, ngxVars
  <2>2. Ready /\ Ready'
    BY <1>1, <2>1, SameReady DEF LoopInv
  <2>3. prog \in Windowed => HasGpu'
    BY <2>1, <2>2, ReadyHasGpu DEF HasGpu
  <2>4. failed /\ prog \in Windowed => closing'
    BY <2>1, Zenon
  <2> QED
    BY <1>1, <2>1, <2>2, <2>3, <2>4 DEF LoopInv
<1>10. CASE Redraw
  <2>1. /\ phase = "loop" /\ prog \in Windowed /\ ~closing /\ redraw /\ ~redraw'
        /\ UNCHANGED <<failed, held, owner, factory, range, sizes>>
    BY <1>10 DEF Redraw, objectVars, ngxVars
  <2>2. Ready /\ Ready'
    BY <1>1, <2>1, SameReady DEF LoopInv
  <2>3. CASE number >= MaxFrames
    <3>1. phase' = "loop" /\ closing'
      BY <1>10, <2>1, <2>3 DEF Redraw
    <3> QED
      BY <1>1, <2>1, <2>2, <3>1 DEF LoopInv
  <2>4. CASE ~(number >= MaxFrames)
    <3>1. phase' = "frame"
      BY <1>10, <2>4 DEF Redraw, NewFrame
    <3> QED
      BY <1>2, <2>2, <3>1
  <2> QED
    BY <2>3, <2>4
<1>11. CASE ForLoop
  <2>1. /\ phase = "loop" /\ prog \in Headless /\ ~failed /\ phase' = "frame"
        /\ UNCHANGED <<held, owner, factory, range, sizes>>
    BY <1>11 DEF ForLoop, NewFrame, objectVars, ngxVars
  <2> QED
    BY <1>1, <1>2, <2>1, SameReady DEF LoopInv
<1>12. CASE CloseRequested \/ SystemRedraw
  <2>1. /\ UNCHANGED <<phase, failed, held, owner, factory, generating, range, sizes>>
        /\ phase = "loop"
    BY <1>12 DEF CloseRequested, SystemRedraw, runVars, objectVars, ngxVars
  <2>2. \/ closing' /\ redraw' = redraw
        \/ closing' = closing /\ HasGpu
    BY <1>12 DEF CloseRequested, SystemRedraw
  <2>3. (Ready' <=> Ready) /\ (Fresh' <=> Fresh) /\ (HasGpu' <=> HasGpu)
    BY <1>1, <2>1, SameReady DEF Fresh, HasGpu
  <2> QED
    BY <1>1, <2>1, <2>2, <2>3 DEF LoopInv
<1>13. CASE AnyClient
  <2>1. phase = "start" /\ UNCHANGED <<phase, redraw, factory>>
    BY <1>13 DEF AnyClient, programVars, runVars, objectVars, loopVars, ShapeInv, Windowed, Headless
  <2> QED
    BY <2>1 DEF LoopInv
<1> QED
  BY <1>3, <1>4, <1>5, <1>6, <1>7, <1>8, <1>9, <1>10, <1>11, <1>12, <1>13, Zenon
     DEF ProgramNext, ProgramStep, NewStep, OperationStep
-----------------------------------------------------------------------------
(* What NGX answered, and the flags *)

\* Only a bring-up asks NGX, and makes inputs.
LEMMA RangeKept ==
  ASSUME ShapeInv, ProgramNext
  PROVE  NewStep \/ UNCHANGED <<range, sizes>>
<1>1. CASE OperationStep
  BY <1>1, OperationSteps
<1>2. CASE \/ StartStreamline \/ StartRun \/ Resumed \/ BringUpFails \/ EndOfBringUp
           \/ Redraw \/ ForLoop \/ EndOfFrame \/ Leave \/ DropObject \/ EndOfProgram
  BY <1>2 DEF StartStreamline, StartRun, Resumed, BringUpFails, EndOfBringUp, Redraw, ForLoop,
              EndOfFrame, Leave, DropObject, EndOfProgram, ngxVars
<1>3. CASE CloseRequested \/ SystemRedraw \/ AnyClient
  BY <1>3 DEF CloseRequested, SystemRedraw, AnyClient, programVars, ngxVars
<1> QED
  BY <1>1, <1>2, <1>3, Zenon DEF ProgramNext, ProgramStep, NewStep, OperationStep

\* Every step keeps the answers and the sizes what they are.
LEMMA RangeNext ==
  ASSUME ProgramInv, ProgramNext
  PROVE  RangeInv'
<1> USE DEF ProgramInv
<1>1. CASE UNCHANGED <<range, sizes>>
  BY <1>1 DEF RangeInv
<1>2. CASE NewStep
  <2> DEFINE x == script[at].op
  <2>1. /\ \/ x \in Features /\ \E answer \in Ranges : range' = WithAnswer(x, answer)
           \/ x \notin Features /\ range' = range
        /\ sizes' = IF x = "textures" THEN [f \in DOMAIN range |-> Allocated(f)] ELSE sizes
    BY <1>2, NewSets
  <2> HIDE DEF x
  <2>2. CASE x \in Features
    <3>1. PICK answer \in Ranges : range' = WithAnswer(x, answer)
      BY <2>1, <2>2
    <3>2. /\ DOMAIN range' = DOMAIN range \cup {x} /\ range'[x] = answer
          /\ \A g \in DOMAIN range \ {x} : range'[g] = range[g]
      BY <3>1, AnswerAdded
    <3>3. sizes' = sizes
      BY <2>1, <2>2 DEF Features
    <3> QED
      BY <2>2, <3>2, <3>3 DEF RangeInv
  <2>3. CASE x = "textures"
    <3>1. range' = range /\ sizes' = [f \in DOMAIN range |-> Allocated(f)]
      BY <2>1, <2>3 DEF Features
    <3>2. ASSUME NEW f \in DOMAIN range
          PROVE  Allocated(f) \in Nat
      <4>1. Answered(f)
        BY <3>2 DEF RangeInv, Answered
      <4> QED
        BY <4>1, AnsweredIs DEF Allocated
    <3> QED
      BY <3>1, <3>2 DEF RangeInv
  <2>4. CASE x \notin Features /\ x # "textures"
    BY <2>1, <2>4 DEF RangeInv
  <2> QED
    BY <2>2, <2>3, <2>4
<1> QED
  BY <1>1, <1>2, RangeKept

\* Every step keeps the flags what they are, and no swapchain is unbound but where the
\* factory was not upgraded: at the first configure the instance and the context are
\* made, and the factory does not change any more once there is a swapchain.
LEMMA WindowNext ==
  ASSUME ProgramInv, ProgramNext
  PROVE  FlagsInv'
<1> USE DEF ProgramInv
<1>1. /\ factory \in {"none", "stock", "proxy", "declined"}
      /\ redraw \in BOOLEAN /\ closing \in BOOLEAN /\ waiting \in BOOLEAN
      /\ swapchain \in {"none", "bound", "unbound", "destroyed"}
      /\ swapchain = "unbound" => factory = "declined"
  BY DEF FlagsInv, SwapchainBinds
<1>2. CASE NewStep
  <2> DEFINE x == script[at].op
  <2>1. /\ at \in 1..Len(script)
        /\ \/ phase = "new" /\ ~failed
           \/ phase = "frame" /\ x = "configure" /\ prog \in Windowed
    BY <1>2, NewSteps
  <2>2. /\ IF x = "instance" THEN factory' \in Upgraded ELSE factory' = factory
        /\ swapchain' = IF x = "configure"
                         THEN IF factory = "proxy" /\ owner = "fg" THEN "bound" ELSE "unbound"
                         ELSE swapchain
        /\ UNCHANGED <<redraw, closing, waiting>>
    BY <1>2, NewSets
  <2>3. CASE x = "configure"
    <3>1. Asked /\ owner = "fg"
      <4>1. CASE phase = "new"
        <5>1. ~Ahead("instance") /\ ~Ahead("fg") /\ prog \in Windowed
          BY <2>1, <2>3, <4>1, OrderOfNew
        <5> QED
          BY <2>1, <4>1, <5>1 DEF NewInv
      <4>2. CASE phase = "frame"
        BY <2>1, <4>2 DEF LoopInv, Ready
      <4> QED
        BY <2>1, <4>1, <4>2
    <3>2. factory' = factory /\ swapchain' = IF factory = "proxy" THEN "bound" ELSE "unbound"
      BY <2>2, <2>3, <3>1
    <3> QED
      BY <1>1, <2>2, <3>1, <3>2 DEF FlagsInv, SwapchainBinds, Asked
  <2>4. CASE x = "instance"
    <3>1. factory = "none"
      <4>1. phase = "new" /\ ~failed
        BY <2>1, <2>4
      <4>2. Ahead("instance")
        BY <2>1, <2>4 DEF Ahead
      <4> QED
        BY <4>1, <4>2 DEF NewInv
    <3>2. swapchain' = swapchain /\ swapchain # "unbound"
      BY <1>1, <2>2, <2>4, <3>1
    <3>3. factory' \in {"none", "stock", "proxy", "declined"}
      BY <2>2, <2>4 DEF Upgraded
    <3> QED
      BY <1>1, <2>2, <3>2, <3>3 DEF FlagsInv, SwapchainBinds
  <2>5. CASE x \notin {"configure", "instance"}
    BY <1>1, <2>2, <2>5 DEF FlagsInv, SwapchainBinds
  <2> QED
    BY <2>3, <2>4, <2>5
<1>3. CASE OperationStep
  <2>1. UNCHANGED <<factory, swapchain, closing>>
    BY <1>3, OperationSteps DEF objectVars
  <2>2. /\ redraw' = redraw \/ redraw' = TRUE
        /\ waiting' = waiting \/ waiting' = TRUE
    <3>1. CASE DrawCommands \/ Submit \/ UpscaleImage \/ Poll
      BY <3>1 DEF DrawCommands, Submit, UpscaleImage, Poll, loopVars
    <3>2. CASE BeginsFrame \/ SetsConstants \/ Tags \/ EndsRender \/ Presents \/ Drops
      <4>1. UNCHANGED loopVars
        BY <3>2, Zenon DEF BeginsFrame, SetsConstants, Tags, EndsRender, Presents, Drops
      <4> QED
        BY <4>1 DEF loopVars
    <3>3. CASE Acquires
      BY <3>3, Zenon DEF Acquires
    <3>4. CASE RequestRedraw
      BY <3>4 DEF RequestRedraw
    <3> QED
      BY <1>3, <3>1, <3>2, <3>3, <3>4, Zenon DEF OperationStep
  <2> QED
    BY <1>1, <2>1, <2>2 DEF FlagsInv, SwapchainBinds
<1>4. CASE DropObject
  <2>1. UNCHANGED <<factory, redraw, closing, waiting>> /\ swapchain' \in {swapchain, "destroyed"}
    BY <1>4 DEF DropObject, loopVars
  <2> QED
    BY <1>1, <2>1 DEF FlagsInv, SwapchainBinds
<1>5. CASE EndOfBringUp \/ EndOfFrame
  <2>1. /\ UNCHANGED <<factory, swapchain, waiting>>
        /\ closing' = (failed /\ prog \in Windowed)
        /\ redraw' = redraw \/ redraw' = (~failed /\ prog \in Windowed)
    BY <1>5 DEF EndOfBringUp, EndOfFrame, objectVars
  <2>2. (failed /\ prog \in Windowed) \in BOOLEAN /\ (~failed /\ prog \in Windowed) \in BOOLEAN
    OBVIOUS
  <2>3. redraw' \in BOOLEAN /\ closing' \in BOOLEAN
    BY <1>1, <2>1, <2>2, Zenon
  <2> QED
    BY <1>1, <2>1, <2>3 DEF FlagsInv, SwapchainBinds
<1>6. CASE StartStreamline \/ StartRun \/ Resumed \/ BringUpFails \/ Leave \/ EndOfProgram
  BY <1>1, <1>6 DEF StartStreamline, StartRun, Resumed, BringUpFails, Leave, EndOfProgram,
                   objectVars, loopVars, FlagsInv, SwapchainBinds
<1>7. CASE Redraw \/ ForLoop
  BY <1>1, <1>7 DEF Redraw, ForLoop, objectVars, FlagsInv, SwapchainBinds
<1>8. CASE CloseRequested \/ SystemRedraw \/ AnyClient
  BY <1>1, <1>8 DEF CloseRequested, SystemRedraw, AnyClient, programVars, objectVars, loopVars,
                   FlagsInv, SwapchainBinds
<1> QED
  BY <1>2, <1>3, <1>4, <1>5, <1>6, <1>7, <1>8, Zenon
     DEF ProgramNext, ProgramStep, NewStep, OperationStep
-----------------------------------------------------------------------------
(* Where a frame is *)

\* What a frame that was given up still does is not what was written.
LEMMA ShortNotWhole ==
  ASSUME ShapeInv, phase = "frame", Short
  PROVE  ~Whole
<1> SUFFICES ASSUME Whole
             PROVE  FALSE
  OBVIOUS
<1>1. prog \in Windowed \cup Headless /\ number - 1 \in Nat
  BY DEF ShapeInv
<1>2. PICK k \in Nat : Lists(FrameScript(number - 1), k) /\ k > 2
  BY <1>1, FrameOpsOf
<1>3. Len(script) = k
  BY <1>2, HasLength DEF Whole
<1> QED
  BY <1>2, <1>3 DEF Short

\* A frame that is as it was written went on, or was just called.
LEMMA IntoWhole ==
  ASSUME ShapeInv, ProgramNext, phase' = "frame", Whole'
  PROVE  \/ /\ OperationStep /\ Continue /\ phase = "frame" /\ Whole
            /\ at \in 1..Len(script) /\ script' = script /\ at' = at + 1 /\ number' = number
         \/ (Redraw \/ ForLoop) /\ NewFrame
<1>1. prog' = prog
  BY SameProgram
<1>2. CASE NewStep
  <2>1. phase = "frame" /\ Short /\ Continue /\ number' = number
    BY <1>2, NewSteps DEF Continue
  <2>2. range' = range /\ script' = script /\ failed' = failed
    BY <1>2, <2>1, ConfiguredAgain
  <2>3. Whole
    BY <1>1, <2>1, <2>2, SameScript DEF Whole
  <2> QED
    BY <2>1, <2>3, ShortNotWhole
<1>3. CASE OperationStep
  <2>1. /\ phase = "frame" /\ at \in 1..Len(script)
        /\ UNCHANGED <<objectVars, closing, number, range, sizes>>
        /\ \/ Continue
           \/ Whole /\ GiveUp
           \/ Whole /\ Unavailable /\ prog \in Windowed
    BY <1>3, OperationSteps, Zenon
  <2>2. CASE Continue
    <3>1. script' = script /\ at' = at + 1 /\ failed' = failed
      BY <2>2 DEF Continue
    <3>2. Whole
      BY <1>1, <2>1, <3>1, SameScript DEF Whole
    <3> QED
      BY <1>3, <2>1, <2>2, <3>1, <3>2
  <2>3. CASE GiveUp
    BY <2>3, GiveUpIs DEF Whole
  <2>4. CASE Whole /\ Unavailable
    <3>1. script' = DoAll(<<"configure", "drop_frame">>)
      BY <2>4, Zenon DEF Unavailable, Call
    <3>2. Lists(script', 2)
      BY <3>1 DEF DoAll, Lists
    <3>3. Len(script') = 2
      BY <3>2, HasLength
    <3>4. script' = FrameScript(number - 1)
      BY <1>1, <2>1, SameScript DEF Whole
    <3>5. PICK k \in Nat : Lists(FrameScript(number - 1), k) /\ k > 2
      <4>1. prog \in Windowed \cup Headless /\ number - 1 \in Nat
        BY <2>1 DEF ShapeInv
      <4> QED
        BY <4>1, FrameOpsOf
    <3>6. Len(script') = k
      BY <3>4, <3>5, HasLength
    <3> QED
      BY <3>3, <3>5, <3>6
  <2> QED
    BY <2>1, <2>2, <2>3, <2>4
<1>4. CASE \/ StartStreamline \/ StartRun \/ Resumed \/ BringUpFails \/ EndOfBringUp
           \/ EndOfFrame \/ Leave \/ DropObject \/ EndOfProgram
  BY <1>4 DEF StartStreamline, StartRun, Resumed, BringUpFails, EndOfBringUp, EndOfFrame, Leave,
              DropObject, EndOfProgram, runVars
<1>5. CASE Redraw \/ ForLoop
  BY <1>5 DEF Redraw, ForLoop
<1>6. CASE CloseRequested \/ SystemRedraw \/ AnyClient
  <2>1. phase = "frame" /\ prog = "any client"
    BY <1>6 DEF CloseRequested, SystemRedraw, AnyClient, runVars, programVars
  <2> QED
    BY <2>1 DEF ShapeInv, Windowed, Headless
<1> QED
  BY <1>2, <1>3, <1>4, <1>5, <1>6, Zenon
     DEF ProgramNext, ProgramStep, NewStep, OperationStep

\* Where each operation of a frame is written.
LEMMA FrameGenerationAt ==
  ASSUME ShapeInv, phase = "frame", Whole, prog = "frame_generation", at \in 1..Len(script),
         NEW x, x = script[at].op
  PROVE  /\ at \in 1..10
         /\ at = 1 <=> x = "begin_frame"
         /\ at = 2 <=> x = "set_constants"
         /\ at = 3 <=> x = "acquire"
         /\ at = 4 <=> x = "draw"
         /\ at = 5 <=> x = "tag"
         /\ at = 6 <=> x = "submit"
         /\ at = 7 <=> x = "end_render"
         /\ at = 8 <=> x = "present"
         /\ at = 9 <=> x = "drop_frame"
         /\ at = 10 <=> x = "request_redraw"
         /\ at = 4 => script[at].into = FrameGenerationTextures /\ script[at].from = {}
<1> DEFINE s == script
<1>1. number - 1 \in Nat /\ s = FrameScript(number - 1)
  BY DEF ShapeInv, Whole
<1>2. /\ Lists(s, 10)
      /\ s[1] = Do("begin_frame") /\ s[2] = Do("set_constants") /\ s[3] = Do("acquire")
      /\ s[4] = Draw(FrameGenerationTextures, {})
      /\ s[5] = Do("tag") /\ s[6] = Do("submit") /\ s[7] = Do("end_render")
      /\ s[8] = Do("present") /\ s[9] = Do("drop_frame") /\ s[10] = Do("request_redraw")
  BY <1>1, FrameGenerationScript
<1>3. Len(s) = 10
  BY <1>2, HasLength
<1>4. /\ s[1].op = "begin_frame" /\ s[2].op = "set_constants" /\ s[3].op = "acquire"
      /\ s[4].op = "draw" /\ s[5].op = "tag" /\ s[6].op = "submit" /\ s[7].op = "end_render"
      /\ s[8].op = "present" /\ s[9].op = "drop_frame" /\ s[10].op = "request_redraw"
      /\ s[4].into = FrameGenerationTextures /\ s[4].from = {}
  BY <1>2, OperationsAre
<1>5. at \in 1..10
  BY <1>3
<1> HIDE DEF s
<1> QED
  BY <1>4, <1>5 DEF s

\* The same of sr_plus_fg.
LEMMA SrPlusFgAt ==
  ASSUME ShapeInv, phase = "frame", Whole, prog = "sr_plus_fg", at \in 1..Len(script),
         NEW x, x = script[at].op
  PROVE  /\ at \in 1..15
         /\ x = "draw" => at \in {1, 7, 8, 9}
         /\ x = "submit" => at \in {2, 11}
         /\ x = "upscale" => at = 3
         /\ x = "begin_frame" => at = 4
         /\ x = "set_constants" => at = 5
         /\ x = "acquire" => at = 6
         /\ x = "tag" => at = 10
         /\ x = "end_render" => at = 12
         /\ x = "present" => at = 13
         /\ x = "drop_frame" => at = 14
         /\ x = "request_redraw" => at = 15
         /\ x \notin {"poll", "drop_texture"}
         /\ at \in {1, 7, 8, 9} => x = "draw"
         /\ at \in {2, 11} => x = "submit"
         /\ at = 3 => x = "upscale"
         /\ at = 1 => script[at].into = SrInputs /\ script[at].from = {}
         /\ at = 7 => script[at].into = {"hudless"} /\ script[at].from = {"output"}
         /\ at = 8 => script[at].into = {"ui"} /\ script[at].from = {}
         /\ at = 9 => script[at].into = {"backbuffer"} /\ script[at].from = {"hudless"}
         /\ at = 3 => script[at].inputs = SrInputs /\ script[at].into = "output"
<1> DEFINE s == script
<1>1. number - 1 \in Nat /\ s = FrameScript(number - 1)
  BY DEF ShapeInv, Whole
<1>2. /\ Lists(s, 15)
      /\ s[1] = Draw(SrInputs, {}) /\ s[2] = Do("submit") /\ s[3].op = "upscale"
      /\ s[4] = Do("begin_frame") /\ s[5] = Do("set_constants") /\ s[6] = Do("acquire")
      /\ s[7] = Draw({"hudless"}, {"output"}) /\ s[8] = Draw({"ui"}, {})
      /\ s[9] = Draw({"backbuffer"}, {"hudless"})
      /\ s[10] = Do("tag") /\ s[11] = Do("submit") /\ s[12] = Do("end_render")
      /\ s[13] = Do("present") /\ s[14] = Do("drop_frame") /\ s[15] = Do("request_redraw")
  BY <1>1, SrPlusFgScript, SMTT(60)
<1>3. Len(s) = 15
  BY <1>2, HasLength
<1>4. /\ s[1].op = "draw" /\ s[2].op = "submit" /\ s[3].op = "upscale"
      /\ s[4].op = "begin_frame" /\ s[5].op = "set_constants" /\ s[6].op = "acquire"
      /\ s[7].op = "draw" /\ s[8].op = "draw" /\ s[9].op = "draw" /\ s[10].op = "tag"
      /\ s[11].op = "submit" /\ s[12].op = "end_render" /\ s[13].op = "present"
      /\ s[14].op = "drop_frame" /\ s[15].op = "request_redraw"
  <2> HIDE DEF s
  <2>1. s[1].op = "draw" /\ s[7].op = "draw" /\ s[8].op = "draw" /\ s[9].op = "draw"
    BY <1>2 DEF Draw
  <2>2. s[2].op = "submit" /\ s[4].op = "begin_frame" /\ s[5].op = "set_constants"
    BY <1>2 DEF Do
  <2>3. s[6].op = "acquire" /\ s[10].op = "tag" /\ s[11].op = "submit"
    BY <1>2 DEF Do
  <2>4. /\ s[12].op = "end_render" /\ s[13].op = "present" /\ s[14].op = "drop_frame"
        /\ s[15].op = "request_redraw"
    BY <1>2 DEF Do
  <2> QED
    BY <1>2, <2>1, <2>2, <2>3, <2>4
<1>5. /\ s[1].into = SrInputs /\ s[1].from = {}
      /\ s[7].into = {"hudless"} /\ s[7].from = {"output"}
      /\ s[8].into = {"ui"} /\ s[8].from = {}
      /\ s[9].into = {"backbuffer"} /\ s[9].from = {"hudless"}
  BY <1>2 DEF Draw
<1>6. s[3].inputs = SrInputs /\ s[3].into = "output"
  <2> DEFINE reset == number - 1 = 0
  <2>1. s[3] = Upscale("sr", SrInputs, "output", reset, range["sr"].optimal)
    BY <1>1, SrPlusFgScript
  <2> HIDE DEF reset
  <2> QED
    BY <2>1 DEF Upscale
<1>7. at \in 1..15
  BY <1>3
<1> HIDE DEF s
<1>8. \A name : s[at].op = name =>
        /\ name = "draw" => at \in {1, 7, 8, 9}
        /\ name = "submit" => at \in {2, 11}
        /\ name = "upscale" => at = 3
        /\ name = "begin_frame" => at = 4
        /\ name = "set_constants" => at = 5
        /\ name = "acquire" => at = 6
        /\ name = "tag" => at = 10
        /\ name = "end_render" => at = 12
        /\ name = "present" => at = 13
        /\ name = "drop_frame" => at = 14
        /\ name = "request_redraw" => at = 15
        /\ name \notin {"poll", "drop_texture"}
  BY <1>4, <1>7, SMTT(60)
<1>9. x = s[at].op
  BY DEF s
<1>10. /\ at = 1 => s[at].into = SrInputs /\ s[at].from = {}
       /\ at = 7 => s[at].into = {"hudless"} /\ s[at].from = {"output"}
       /\ at = 8 => s[at].into = {"ui"} /\ s[at].from = {}
       /\ at = 9 => s[at].into = {"backbuffer"} /\ s[at].from = {"hudless"}
       /\ at = 3 => s[at].inputs = SrInputs /\ s[at].into = "output"
  BY <1>5, <1>6
<1>11. s[at] = script[at]
  BY DEF s
<1>12. /\ at \in {1, 7, 8, 9} => s[at].op = "draw"
       /\ at \in {2, 11} => s[at].op = "submit"
       /\ at = 3 => s[at].op = "upscale"
  BY <1>4
<1> QED
  BY <1>7, <1>8, <1>9, <1>10, <1>11, <1>12

\* The same of the headless programs.
LEMMA HeadlessAt ==
  ASSUME ShapeInv, phase = "frame", Whole, prog \in Headless, at \in 1..Len(script),
         NEW x, x = script[at].op
  PROVE  /\ at \in 1..4
         /\ at = 1 <=> x = "draw"
         /\ at = 2 <=> x = "submit"
         /\ at = 3 <=> x = "upscale"
         /\ at = 4 <=> x = "poll"
         /\ at = 1 => script[at].into = script[3].inputs /\ script[at].from = {}
<1> DEFINE s == script
<1>1. number - 1 \in Nat /\ s = FrameScript(number - 1)
  BY DEF ShapeInv, Whole
<1>2. /\ Lists(s, 4) /\ s[1] = Draw(s[3].inputs, {}) /\ s[2] = Do("submit")
      /\ s[4] = Do("poll") /\ s[3].op = "upscale"
  BY <1>1, HeadlessScript
<1>3. Len(s) = 4
  BY <1>2, HasLength
<1>4. /\ s[1].op = "draw" /\ s[2].op = "submit" /\ s[3].op = "upscale" /\ s[4].op = "poll"
      /\ s[1].into = s[3].inputs /\ s[1].from = {}
  BY <1>2, OperationsAre
<1>5. at \in 1..4
  BY <1>3
<1> HIDE DEF s
<1> QED
  BY <1>4, <1>5 DEF s
-----------------------------------------------------------------------------
(* The sequence *)

\* The step of the Frame is the one that an operation expects.
LEMMA StepBefore ==
  ASSUME ShapeInv, StepInv, phase = "frame", Whole, prog \in Windowed, at \in 1..Len(script),
         NEW x, x = script[at].op
  PROVE  /\ x = "begin_frame" => StepAt(at + 1) = "Begun"
         /\ x = "set_constants" => step = "Begun" /\ StepAt(at + 1) = "Constants"
         /\ x = "acquire" => step = "Constants" /\ StepAt(at + 1) = "Acquired"
         /\ x = "tag" => step = "Acquired" /\ StepAt(at + 1) = "Tagged"
         /\ x = "end_render" => step = "Tagged" /\ StepAt(at + 1) = "RenderEnded"
         /\ x = "present" => step = "RenderEnded" /\ StepAt(at + 1) = "any"
         /\ x \in {"draw", "submit", "upscale", "drop_frame", "request_redraw"} =>
              StepAt(at + 1) \in {step, "any"}
<1>1. StepAt(at) = step \/ StepAt(at) = "any"
  BY DEF StepInv
<1>2. CASE prog = "frame_generation"
  <2>1. \A k \in 1..11 : /\ k = 2 => StepAt(k) = "Begun"
                         /\ k = 3 => StepAt(k) = "Constants"
                         /\ k \in {4, 5} => StepAt(k) = "Acquired"
                         /\ k \in {6, 7} => StepAt(k) = "Tagged"
                         /\ k = 8 => StepAt(k) = "RenderEnded"
                         /\ k \in {1, 9, 10, 11} => StepAt(k) = "any"
    BY <1>2 DEF StepAt
  <2> QED
    BY <1>1, <1>2, <2>1, FrameGenerationAt
<1>3. CASE prog = "sr_plus_fg"
  <2>1. \A k \in 1..16 : /\ k = 5 => StepAt(k) = "Begun"
                         /\ k = 6 => StepAt(k) = "Constants"
                         /\ k \in {7, 8, 9, 10} => StepAt(k) = "Acquired"
                         /\ k \in {11, 12} => StepAt(k) = "Tagged"
                         /\ k = 13 => StepAt(k) = "RenderEnded"
                         /\ k \in {1, 2, 3, 4, 14, 15, 16} => StepAt(k) = "any"
    BY <1>3 DEF StepAt
  <2> QED
    BY <1>1, <1>3, <2>1, SrPlusFgAt, SMTT(60)
<1> QED
  BY <1>2, <1>3 DEF Windowed

\* What was given up is not as it was written.
LEMMA GivenUp ==
  ASSUME GiveUp, Continue, Whole
  PROVE  FALSE
<1>1. failed' = TRUE
  BY GiveUpIs
<1> QED
  BY <1>1 DEF Continue, Whole

\* The operations on a Frame are those of the windowed programs.
LEMMA OnlyWindowed ==
  ASSUME ShapeInv, NEW x \in FrameOps \ {"draw", "submit", "upscale", "poll"}, At(x)
  PROVE  prog \in Windowed /\ phase = "frame" /\ Whole /\ at \in 1..Len(script)
         /\ script[at].op = x
<1>1. x \in FrameOps /\ x \notin {"draw", "submit", "upscale", "poll"}
  OBVIOUS
<1>2. /\ phase = "frame" /\ Whole /\ prog \in Windowed \cup Headless
      /\ at \in 1..Len(script) /\ script[at].op = x
  BY <1>1, InFrame
<1>3. ASSUME prog \in Headless
      PROVE  FALSE
  BY <1>1, <1>2, <1>3, HeadlessAt
<1> QED
  BY <1>2, <1>3

\* What an operation makes of the step and of the order.
LEMMA OperationOrder ==
  ASSUME ShapeInv, StepInv, OperationStep, ~misordered
  PROVE  /\ ~misordered'
         /\ prog \in Windowed /\ Continue /\ phase = "frame" /\ Whole
              => StepAt(at + 1) \in {step', "any"}
<1> DEFINE Holds == /\ ~misordered'
                    /\ prog \in Windowed /\ Continue /\ phase = "frame" /\ Whole
                         => StepAt(at + 1) \in {step', "any"}
<1>1. at \in 1..Len(script) /\ \A name : At(name) => script[at].op = name
  BY OperationSteps DEF At
<1>2. \A name \in {"begin_frame", "set_constants", "acquire", "tag", "end_render", "present"} :
        At(name) => prog \in Windowed /\ phase = "frame" /\ Whole
  <2>1. {"begin_frame", "set_constants", "acquire", "tag", "end_render", "present"}
          \subseteq FrameOps \ {"draw", "submit", "upscale", "poll"}
    BY DEF FrameOps
  <2> QED
    BY <2>1, OnlyWindowed
<1>3. ASSUME UNCHANGED frames,
             script[at].op \in {"draw", "submit", "upscale", "poll", "request_redraw"}
      PROVE  Holds
  <2>1. misordered' = misordered /\ step' = step
    BY <1>3 DEF frames, frameVars
  <2>2. ASSUME prog \in Windowed, phase = "frame", Whole
        PROVE  StepAt(at + 1) \in {step, "any"}
    <3>1. script[at].op # "poll"
      <4>1. CASE prog = "frame_generation"
        BY <1>1, <2>2, <4>1, FrameGenerationAt
      <4>2. CASE prog = "sr_plus_fg"
        BY <1>1, <2>2, <4>2, SrPlusFgAt
      <4> QED
        BY <2>2, <4>1, <4>2 DEF Windowed
    <3> QED
      BY <1>1, <1>3, <2>2, <3>1, StepBefore
  <2> QED
    BY <2>1, <2>2
<1>4. CASE DrawCommands \/ Submit \/ UpscaleImage \/ Poll \/ RequestRedraw
  <2>1. UNCHANGED frames
    BY <1>4, FramesApart, Zenon
  <2>2. script[at].op \in {"draw", "submit", "upscale", "poll", "request_redraw"}
    BY <1>1, <1>4 DEF DrawCommands, Submit, UpscaleImage, Poll, RequestRedraw
  <2> QED
    BY <1>3, <2>1, <2>2
<1>5. CASE BeginsFrame
  <2>1. At("begin_frame") /\ (BeginFrame \/ (BeginFrameFails /\ GiveUp))
    BY <1>5 DEF BeginsFrame
  <2>2. prog \in Windowed /\ phase = "frame" /\ Whole /\ script[at].op = "begin_frame"
    BY <1>1, <1>2, <2>1
  <2>3. StepAt(at + 1) = "Begun"
    BY <1>1, <2>2, StepBefore
  <2>4. CASE BeginFrame
    BY <2>3, <2>4 DEF BeginFrame
  <2>5. CASE BeginFrameFails /\ GiveUp
    <3>1. misordered' = misordered
      BY <2>5 DEF BeginFrameFails, frameVars
    <3>2. ~(Continue /\ Whole)
      BY <2>5, GivenUp, Zenon
    <3> QED
      BY <3>1, <3>2
  <2> QED
    BY <2>1, <2>4, <2>5
<1>6. ASSUME NEW expected, NEW to, step = expected, Advance(expected, to),
             StepAt(at + 1) \in {to, "any"}
      PROVE  Holds
  BY <1>6 DEF Advance
<1>7. CASE SetsConstants
  <2>1. At("set_constants") /\ Advance("Begun", "Constants")
    BY <1>7 DEF SetsConstants, SetConstants, Method
  <2>2. prog \in Windowed /\ phase = "frame" /\ Whole /\ script[at].op = "set_constants"
    BY <1>1, <1>2, <2>1
  <2> QED
    BY <1>1, <1>6, <2>1, <2>2, StepBefore
<1>8. CASE Acquires
  <2>1. At("acquire") /\ Advance("Constants", "Acquired")
    BY <1>8, Zenon DEF Acquires, Acquire, Method
  <2>2. prog \in Windowed /\ phase = "frame" /\ Whole /\ script[at].op = "acquire"
    BY <1>1, <1>2, <2>1
  <2> QED
    BY <1>1, <1>6, <2>1, <2>2, StepBefore
<1>9. CASE Tags
  <2>1. At("tag") /\ (Tag \/ (TagHasNoRawHandle /\ GiveUp))
    BY <1>9 DEF Tags
  <2>2. prog \in Windowed /\ phase = "frame" /\ Whole /\ script[at].op = "tag"
    BY <1>1, <1>2, <2>1
  <2>3. CASE Tag
    <3>1. Advance("Acquired", "Tagged")
      BY <2>3 DEF Tag, Method
    <3> QED
      BY <1>1, <1>6, <2>2, <3>1, StepBefore
  <2>4. CASE TagHasNoRawHandle /\ GiveUp
    <3>1. misordered' = misordered
      BY <2>4 DEF TagHasNoRawHandle
    <3>2. ~(Continue /\ Whole)
      BY <2>4, GivenUp, Zenon
    <3> QED
      BY <3>1, <3>2
  <2> QED
    BY <2>1, <2>3, <2>4
<1>10. CASE EndsRender
  <2>1. At("end_render") /\ Advance("Tagged", "RenderEnded")
    BY <1>10, Zenon DEF EndsRender, EndRender, Method
  <2>2. prog \in Windowed /\ phase = "frame" /\ Whole /\ script[at].op = "end_render"
    BY <1>1, <1>2, <2>1
  <2> QED
    BY <1>1, <1>6, <2>1, <2>2, StepBefore
<1>11. CASE Presents
  <2>1. At("present") /\ Advance("RenderEnded", "Presented")
    BY <1>11, Zenon DEF Presents, Present
  <2>2. prog \in Windowed /\ phase = "frame" /\ Whole /\ script[at].op = "present"
    BY <1>1, <1>2, <2>1
  <2> QED
    BY <1>1, <1>6, <2>1, <2>2, StepBefore
<1>12. CASE Drops
  <2>1. UNCHANGED <<misordered, step>>
    BY <1>12 DEF Drops, DropFrame, DropTexture, frameVars
  <2>2. script[at].op \in {"drop_frame", "drop_texture"}
    BY <1>1, <1>12 DEF Drops
  <2>3. ASSUME prog \in Windowed, phase = "frame", Whole
        PROVE  script[at].op = "drop_frame"
    <3>1. script[at].op # "drop_texture"
      BY <1>1, <2>3, FrameGenerationAt, SrPlusFgAt DEF Windowed
    <3> QED
      BY <2>2, <3>1
  <2> QED
    BY <1>1, <2>1, <2>3, StepBefore
<1> QED
  BY <1>4, <1>5, <1>7, <1>8, <1>9, <1>10, <1>11, <1>12 DEF OperationStep

\* Every step keeps the step of the Frame where the program is.
LEMMA PositionNext ==
  ASSUME ProgramInv, ProgramNext
  PROVE  StepInv'
<1> USE DEF ProgramInv
<1>1. prog' = prog
  BY SameProgram
<1>2. \A k : StepAt(k)' = StepAt(k)
  BY <1>1 DEF StepAt
<1>3. ASSUME prog # "any client"
      PROVE  ~misordered'
  <2>1. ~misordered
    BY <1>3 DEF StepInv
  <2>2. CASE OperationStep
    BY <2>1, <2>2, OperationOrder
  <2>3. CASE UNCHANGED frames
    BY <2>1, <2>3 DEF frames, frameVars
  <2> QED
    BY <1>3, <2>2, <2>3, FramesApart, Zenon
       DEF ProgramNext, ProgramStep, OperationStep, AnyClient
<1>4. ASSUME phase' = "frame", Whole', prog \in Windowed
      PROVE  StepAt(at)' \in {step', "any"}
  <2>1. CASE /\ OperationStep /\ Continue /\ phase = "frame" /\ Whole
             /\ at \in 1..Len(script) /\ script' = script /\ at' = at + 1 /\ number' = number
    <3>1. ~misordered
      BY <1>4 DEF StepInv, Windowed
    <3>2. StepAt(at + 1) \in {step', "any"}
      BY <1>4, <2>1, <3>1, OperationOrder
    <3> QED
      BY <1>2, <2>1, <3>2
  <2>2. CASE NewFrame
    <3>1. at' = 1
      BY <2>2, Zenon DEF NewFrame, Call
    <3>2. StepAt(1) = "any"
      BY DEF StepAt
    <3> QED
      BY <1>2, <3>1, <3>2
  <2> QED
    BY <1>4, <2>1, <2>2, IntoWhole
<1> QED
  BY <1>1, <1>3, <1>4 DEF StepInv
-----------------------------------------------------------------------------
(* What is drawn and recorded *)

\* What the operations do to the textures.
LEMMA DrawIs ==
  ASSUME DrawCommands, NEW into, NEW from, into = script[at].into, from = script[at].from
  PROVE  /\ current' = current /\ DOMAIN pending' = DOMAIN pending
         /\ \A t \in DOMAIN pending :
              /\ t \notin into => pending'[t] = pending[t]
              /\ t \in into => pending'[t] = UNION {pending[u] : u \in from}
BY DEF DrawCommands

\* After a submit nothing is recorded, and what was recorded is in the textures.
LEMMA SubmitIs ==
  ASSUME Submit
  PROVE  /\ DOMAIN pending' = DOMAIN pending /\ current' \subseteq DOMAIN pending
         /\ \A t \in DOMAIN pending : /\ pending'[t] = {t}
                                      /\ pending[t] \subseteq current => t \in current'
BY DEF Submit

\* An evaluate writes its output at once, in the order of the queue.
LEMMA UpscaleImageIs ==
  ASSUME UpscaleImage
  PROVE  /\ pending' = pending
         /\ Continue /\ Whole => current' = current \cup {script[at].into}
         /\ current' \subseteq current \cup {script[at].into}
<1>1. \/ Continue /\ current' = current \cup {script[at].into}
      \/ GiveUp /\ current' = current
  BY Zenon DEF UpscaleImage
<1>2. ~(Continue /\ Whole /\ GiveUp)
  BY GivenUp, Zenon
<1>3. pending' = pending
  BY Zenon DEF UpscaleImage
<1> QED
  BY <1>1, <1>2, <1>3

\* What draws, records, evaluates, acquires or begins a frame; nothing else changes an
\* image.
LEMMA ImagesKept ==
  ASSUME ShapeInv, ProgramNext
  PROVE  \/ DrawCommands \/ Submit \/ UpscaleImage
         \/ NewFrame /\ (Redraw \/ ForLoop)
         \/ Acquires /\ pending' = pending /\ current' \in {current, current \ {"backbuffer"}}
         \/ UNCHANGED <<current, pending>>
<1>1. CASE NewStep
  BY <1>1, NewSteps
<1>2. CASE Acquires
  BY <1>2, Zenon DEF Acquires
<1>3. CASE Poll \/ BeginsFrame \/ SetsConstants \/ Tags \/ EndsRender \/ Drops \/ RequestRedraw
  <2>1. UNCHANGED imageVars
    BY <1>3, Zenon DEF Poll, BeginsFrame, SetsConstants, Tags, EndsRender, Drops, RequestRedraw
  <2> QED
    BY <2>1 DEF imageVars
<1>4. CASE Presents
  BY <1>4, Zenon DEF Presents
<1>5. CASE \/ StartStreamline \/ StartRun \/ Resumed \/ BringUpFails \/ EndOfBringUp
           \/ EndOfFrame \/ Leave \/ DropObject \/ EndOfProgram
  BY <1>5 DEF StartStreamline, StartRun, Resumed, BringUpFails, EndOfBringUp, EndOfFrame, Leave,
              DropObject, EndOfProgram, imageVars
<1>6. CASE Redraw
  <2>1. NewFrame \/ UNCHANGED imageVars
    BY <1>6, Zenon DEF Redraw
  <2> QED
    BY <1>6, <2>1 DEF imageVars
<1>7. CASE ForLoop
  BY <1>7, Zenon DEF ForLoop
<1>8. CASE CloseRequested \/ SystemRedraw \/ AnyClient
  BY <1>8 DEF CloseRequested, SystemRedraw, AnyClient, programVars, imageVars
<1>9. CASE DrawCommands \/ Submit \/ UpscaleImage
  BY <1>9
<1> QED
  BY <1>1, <1>2, <1>3, <1>4, <1>5, <1>6, <1>7, <1>8, <1>9, Zenon
     DEF ProgramNext, ProgramStep, NewStep

\* The textures of the windowed programs hold what is tagged.
LEMMA TexturesAre ==
  /\ prog = "frame_generation" => Textures = FrameGenerationTextures
  /\ prog = "sr_plus_fg" => /\ Textures = SrPlusFgTextures
                            /\ SrInputs \subseteq Textures /\ "output" \in Textures
                            /\ FrameGenerationTextures \subseteq Textures
<1>1. prog = "frame_generation" => Textures = FrameGenerationTextures
  BY Zenon DEF Textures
<1>2. prog = "sr_plus_fg" => Textures = SrPlusFgTextures
  BY Zenon DEF Textures
<1> QED
  BY <1>1, <1>2 DEF SrInputs, SrPlusFgTextures, FrameGenerationTextures

\* The evaluate of a frame that was not given up.
LEMMA UpscaleAt ==
  ASSUME ShapeInv, At("upscale")
  PROVE  /\ at = 3 /\ Evaluates(script[at], number - 1) /\ number - 1 \in Nat
         /\ prog \in Headless \cup {"sr_plus_fg"} /\ phase = "frame" /\ Whole
<1>1. "upscale" \in FrameOps
  BY DEF FrameOps
<1>2. /\ phase = "frame" /\ Whole /\ number - 1 \in Nat /\ prog \in Windowed \cup Headless
      /\ at \in 1..Len(script) /\ script[at].op = "upscale"
  BY <1>1, InFrame
<1>3. prog # "frame_generation"
  BY <1>2, FrameGenerationAt
<1>4. prog \in Headless \cup {"sr_plus_fg"}
  BY <1>2, <1>3 DEF Windowed
<1>5. at = 3
  BY <1>2, <1>4, HeadlessAt, SrPlusFgAt
<1>6. Evaluates(FrameScript(number - 1)[3], number - 1)
  BY <1>2, <1>4, UpscaleOf
<1>7. script[at] = FrameScript(number - 1)[3]
  BY <1>2, <1>5 DEF Whole
<1> QED
  BY <1>2, <1>4, <1>5, <1>6, <1>7

\* What a draw reads.
LEMMA DrawAt ==
  ASSUME ShapeInv, DrawCommands
  PROVE  /\ script[at].from \subseteq Textures /\ phase = "frame" /\ Whole
         /\ prog \in Windowed \cup Headless /\ at \in 1..Len(script) /\ script[at].op = "draw"
<1>1. At("draw") /\ "draw" \in FrameOps
  BY DEF DrawCommands, FrameOps
<1>2. /\ phase = "frame" /\ Whole /\ prog \in Windowed \cup Headless
      /\ at \in 1..Len(script) /\ script[at].op = "draw"
  BY <1>1, InFrame
<1>3. CASE prog = "frame_generation"
  BY <1>2, <1>3, FrameGenerationAt
<1>4. CASE prog = "sr_plus_fg"
  <2>1. at = 1 \/ at = 7 \/ at = 8 \/ at = 9
    BY <1>2, <1>4, SrPlusFgAt
  <2>2. script[at].from \subseteq {"output", "hudless"}
    BY <1>2, <1>4, <2>1, SrPlusFgAt
  <2>3. {"output", "hudless"} \subseteq Textures
    BY <1>4, TexturesAre DEF SrPlusFgTextures
  <2> QED
    BY <1>2, <2>2, <2>3
<1>5. CASE prog \in Headless
  BY <1>2, <1>5, HeadlessAt
<1> QED
  BY <1>2, <1>3, <1>4, <1>5 DEF Windowed

\* Every step draws and records a program's own textures.
LEMMA OwnImagesNext ==
  ASSUME ShapeInv, OwnImages, ProgramNext
  PROVE  OwnImages'
<1>1. prog' = prog /\ Textures' = Textures
  BY SameProgram, OfProgram
<1>2. ASSUME phase' = "frame"
      PROVE  phase = "frame" \/ (NewFrame /\ (Redraw \/ ForLoop))
  <2>1. CASE NewStep \/ OperationStep
    <3>1. phase' = phase
      BY <2>1, NewSteps, OperationSteps, GiveUpIs DEF Continue, Unavailable
    <3> QED
      BY <1>2, <3>1
  <2>2. CASE \/ StartStreamline \/ StartRun \/ Resumed \/ BringUpFails \/ EndOfBringUp
             \/ EndOfFrame \/ Leave \/ DropObject \/ EndOfProgram
    BY <1>2, <2>2 DEF StartStreamline, StartRun, Resumed, BringUpFails, EndOfBringUp, EndOfFrame,
                      Leave, DropObject, EndOfProgram, runVars
  <2>3. CASE Redraw
    BY <1>2, <2>3 DEF Redraw
  <2>4. CASE ForLoop
    BY <2>4, Zenon DEF ForLoop
  <2>5. CASE CloseRequested \/ SystemRedraw \/ AnyClient
    BY <1>2, <2>5 DEF CloseRequested, SystemRedraw, AnyClient, programVars, runVars
  <2> QED
    BY <2>1, <2>2, <2>3, <2>4, <2>5, Zenon DEF ProgramNext, ProgramStep, NewStep, OperationStep
<1>3. CASE NewFrame /\ (Redraw \/ ForLoop)
  <2>1. current' = {} /\ pending' = [t \in Textures |-> {t}]
    BY <1>3 DEF NewFrame
  <2>2. prog # "any client"
    BY <1>3 DEF Redraw, ForLoop, Windowed, Headless
  <2> QED
    BY <1>1, <2>1, <2>2 DEF OwnImages
<1>4. CASE ~(NewFrame /\ (Redraw \/ ForLoop))
  <2> SUFFICES ASSUME \/ DrawCommands \/ Submit \/ UpscaleImage
                      \/ Acquires /\ pending' = pending
                                  /\ current' \in {current, current \ {"backbuffer"}}
                      \/ UNCHANGED <<current, pending>>
               PROVE  OwnImages'
    BY <1>4, ImagesKept
  <2>1. ASSUME DOMAIN pending' = DOMAIN pending,
               \A t \in DOMAIN pending : pending'[t] \subseteq DOMAIN pending,
               current' \subseteq current \cup DOMAIN pending
        PROVE  OwnImages'
    BY <1>1, <1>2, <1>4, <2>1 DEF OwnImages
  <2>2. CASE DrawCommands
    <3>1. DOMAIN pending = Textures /\ script[at].from \subseteq DOMAIN pending
      BY <2>2, DrawAt DEF OwnImages
    <3>2. UNION {pending[u] : u \in script[at].from} \subseteq DOMAIN pending
      BY <3>1 DEF OwnImages
    <3>3. /\ current' = current /\ DOMAIN pending' = DOMAIN pending
          /\ \A t \in DOMAIN pending :
               \/ pending'[t] = pending[t]
               \/ pending'[t] = UNION {pending[u] : u \in script[at].from}
      BY <2>2, DrawIs
    <3> QED
      BY <2>1, <3>2, <3>3 DEF OwnImages
  <2>3. CASE Submit
    BY <2>1, <2>3, SubmitIs
  <2>4. CASE UpscaleImage
    <3>1. script[at].into \in Textures /\ phase = "frame"
      BY <2>4, UpscaleAt DEF UpscaleImage, Evaluates
    <3>2. pending' = pending /\ current' \subseteq current \cup {script[at].into}
      BY <2>4, UpscaleImageIs
    <3> QED
      BY <2>1, <3>1, <3>2 DEF OwnImages
  <2>5. CASE pending' = pending /\ current' \in {current, current \ {"backbuffer"}}
    BY <2>1, <2>5 DEF OwnImages
  <2> QED
    BY <2>2, <2>3, <2>4, <2>5
<1> QED
  BY <1>3, <1>4

\* An operation that draws, records or evaluates is that step.
LEMMA StepOf ==
  ASSUME ShapeInv, OperationStep, NEW x, x = script[at].op
  PROVE  /\ x = "draw" => DrawCommands
         /\ x = "submit" => Submit
         /\ x = "upscale" => UpscaleImage
         /\ \/ DrawCommands /\ x = "draw"
            \/ Submit /\ x = "submit"
            \/ UpscaleImage /\ x = "upscale"
            \/ /\ pending' = pending
               /\ current' \in {current, current \ {"backbuffer"}}
               /\ current' = current \/ x = "acquire"
<1>1. \A name : At(name) => name = x
  BY DEF At
<1>2. CASE DrawCommands
  <2>1. x = "draw"
    BY <1>1, <1>2 DEF DrawCommands
  <2> QED
    BY <1>2, <2>1
<1>3. CASE Submit
  <2>1. x = "submit"
    BY <1>1, <1>3 DEF Submit
  <2> QED
    BY <1>3, <2>1
<1>4. CASE UpscaleImage
  <2>1. x = "upscale"
    BY <1>1, <1>4 DEF UpscaleImage
  <2> QED
    BY <1>4, <2>1
<1>5. CASE Acquires
  <2>1. At("acquire") /\ pending' = pending /\ current' \in {current, current \ {"backbuffer"}}
    BY <1>5, Zenon DEF Acquires
  <2> QED
    BY <1>1, <2>1
<1>6. CASE Poll \/ BeginsFrame \/ SetsConstants \/ Tags \/ EndsRender \/ Drops \/ RequestRedraw
  <2>1. UNCHANGED imageVars
    BY <1>6, Zenon DEF Poll, BeginsFrame, SetsConstants, Tags, EndsRender, Drops, RequestRedraw
  <2>2. \E name \in {"poll", "begin_frame", "set_constants", "tag", "end_render", "drop_frame",
                     "drop_texture", "request_redraw"} : At(name)
    BY <1>6, Zenon DEF Poll, BeginsFrame, SetsConstants, Tags, EndsRender, Drops, RequestRedraw
  <2>3. x \notin {"draw", "submit", "upscale"}
    BY <1>1, <2>2
  <2> QED
    BY <2>1, <2>3 DEF imageVars
<1>7. CASE Presents
  <2>1. At("present") /\ UNCHANGED <<current, pending>>
    BY <1>7, Zenon DEF Presents
  <2>2. x = "present"
    BY <1>1, <2>1
  <2> QED
    BY <2>1, <2>2
<1> QED
  BY <1>2, <1>3, <1>4, <1>5, <1>6, <1>7 DEF OperationStep

\* An operation of frame_generation leaves drawn what the next needs.
LEMMA FrameGenerationImagesNext ==
  ASSUME ShapeInv, OwnImages, OperationStep, Continue, phase = "frame", Whole,
         prog = "frame_generation", FrameGenerationImages
  PROVE  FrameGenerationImages'
<1> DEFINE T == FrameGenerationTextures
           x == script[at].op
<1>1. at \in 1..Len(script) /\ at' = at + 1
  BY OperationSteps DEF Continue
<1>2. /\ at \in 1..10
      /\ at = 4 <=> x = "draw"
      /\ at = 6 <=> x = "submit"
      /\ at = 3 <=> x = "acquire"
      /\ x # "upscale"
      /\ at = 4 => script[at].into = T /\ script[at].from = {}
  BY <1>1, FrameGenerationAt
<1>3. DOMAIN pending = T
  BY TexturesAre DEF OwnImages
<1>4. /\ x = "draw" => DrawCommands
      /\ x = "submit" => Submit
      /\ x \notin {"draw", "submit", "upscale"} =>
           pending' = pending /\ (current' = current \/ x = "acquire")
  BY StepOf
<1> HIDE DEF T, x
<1>5. CASE at = 4
  <2>1. \A t \in T : pending'[t] = {}
    BY <1>2, <1>3, <1>4, <1>5, DrawIs
  <2> QED
    BY <1>1, <1>5, <2>1 DEF FrameGenerationImages, T
<1>6. CASE at = 6
  <2>1. \A t \in T : pending[t] = {}
    BY <1>6 DEF FrameGenerationImages, T
  <2>2. T \subseteq current'
    BY <1>2, <1>3, <1>4, <1>6, <2>1, SubmitIs
  <2> QED
    BY <1>1, <1>6, <2>2 DEF FrameGenerationImages, T
<1>7. CASE at \notin {3, 4, 6}
  <2>1. pending' = pending /\ current' = current
    BY <1>2, <1>4, <1>7
  <2> QED
    BY <1>1, <1>2, <1>7, <2>1 DEF FrameGenerationImages
<1>8. CASE at = 3
  BY <1>1, <1>8 DEF FrameGenerationImages
<1> QED
  BY <1>5, <1>6, <1>7, <1>8

\* An operation of sr_plus_fg leaves drawn what the next needs.
LEMMA SrPlusFgImagesNext ==
  ASSUME ShapeInv, OwnImages, OperationStep, Continue, phase = "frame", Whole,
         prog = "sr_plus_fg", SrPlusFgImages
  PROVE  SrPlusFgImages'
<1> DEFINE x == script[at].op
<1>1. at \in 1..Len(script) /\ at' = at + 1
  BY OperationSteps DEF Continue
<1>2. /\ at \in 1..15
      /\ at \in {1, 7, 8, 9} => x = "draw"
      /\ at \in {2, 11} => x = "submit"
      /\ at = 3 => x = "upscale" /\ script[at].into = "output"
      /\ at \notin {1, 2, 3, 7, 8, 9, 11} => x \notin {"draw", "submit", "upscale"}
      /\ at # 6 => x # "acquire"
  BY <1>1, SrPlusFgAt
<1>3. /\ at = 1 => script[at].into = SrInputs /\ script[at].from = {}
      /\ at = 7 => script[at].into = {"hudless"} /\ script[at].from = {"output"}
      /\ at = 8 => script[at].into = {"ui"} /\ script[at].from = {}
      /\ at = 9 => script[at].into = {"backbuffer"} /\ script[at].from = {"hudless"}
  BY <1>1, SrPlusFgAt
<1>4. /\ DOMAIN pending = SrPlusFgTextures
      /\ SrInputs \subseteq DOMAIN pending /\ "output" \in DOMAIN pending
      /\ FrameGenerationTextures \subseteq DOMAIN pending
  BY TexturesAre DEF OwnImages
<1>5. /\ x = "draw" => DrawCommands
      /\ x = "submit" => Submit
      /\ x = "upscale" => UpscaleImage
      /\ x \notin {"draw", "submit", "upscale"} =>
           /\ pending' = pending
           /\ current' \in {current, current \ {"backbuffer"}}
           /\ current' = current \/ x = "acquire"
  BY StepOf
<1> HIDE DEF x
\* The textures that differ.
<1>6. /\ \A t \in SrInputs : t \notin {"hudless", "ui", "backbuffer", "output"}
      /\ "hudless" \in SrPlusFgTextures /\ "ui" \in SrPlusFgTextures
      /\ "backbuffer" \in SrPlusFgTextures
  BY DEF SrInputs, SrPlusFgTextures
<1>7. CASE at = 1
  <2>1. \A t \in SrInputs : pending'[t] = {}
    BY <1>2, <1>3, <1>4, <1>5, <1>7, DrawIs
  <2> QED
    BY <1>1, <1>7, <2>1 DEF SrPlusFgImages
<1>8. CASE at = 2
  <2>1. \A t \in SrInputs : pending[t] = {}
    BY <1>8 DEF SrPlusFgImages
  <2>2. /\ SrInputs \subseteq current' /\ \A t \in SrInputs : pending'[t] = {t}
        /\ pending'["output"] = {"output"}
    BY <1>2, <1>4, <1>5, <1>8, <2>1, SubmitIs
  <2> QED
    BY <1>1, <1>8, <2>2 DEF SrPlusFgImages
<1>9. CASE at = 3
  <2>1. pending' = pending /\ current' = current \cup {"output"}
    BY <1>2, <1>5, <1>9, UpscaleImageIs
  <2> QED
    BY <1>1, <1>9, <2>1 DEF SrPlusFgImages
<1>10. CASE at \in {4, 5, 6, 10, 12}
  <2>1. pending' = pending /\ current' \in {current, current \ {"backbuffer"}}
        /\ (at # 6 => current' = current)
    BY <1>2, <1>5, <1>10
  <2>2. CASE at = 6
    BY <1>1, <1>6, <2>1, <2>2 DEF SrPlusFgImages
  <2>3. CASE at # 6
    BY <1>1, <1>10, <2>1, <2>3 DEF SrPlusFgImages
  <2> QED
    BY <2>2, <2>3
<1>11. CASE at = 7
  <2>1. /\ SrInputs \subseteq current /\ "output" \in current
        /\ pending["output"] = {"output"}
        /\ \A t \in SrInputs : pending[t] = {t}
    BY <1>11 DEF SrPlusFgImages
  <2>2. /\ current' = current
        /\ pending'["hudless"] = UNION {pending[u] : u \in {"output"}}
        /\ \A t \in SrInputs : pending'[t] = pending[t]
    BY <1>2, <1>3, <1>4, <1>5, <1>6, <1>11, DrawIs
  <2>3. pending'["hudless"] = {"output"}
    BY <2>1, <2>2
  <2> QED
    BY <1>1, <1>11, <2>1, <2>2, <2>3 DEF SrPlusFgImages
<1>12. CASE at = 8
  <2>1. /\ SrInputs \subseteq current /\ "output" \in current
        /\ pending["hudless"] = {"output"}
        /\ \A t \in SrInputs : pending[t] = {t}
    BY <1>12 DEF SrPlusFgImages
  <2>2. /\ current' = current /\ pending'["ui"] = {}
        /\ pending'["hudless"] = pending["hudless"]
        /\ \A t \in SrInputs : pending'[t] = pending[t]
    BY <1>2, <1>3, <1>4, <1>5, <1>6, <1>12, DrawIs
  <2> QED
    BY <1>1, <1>12, <2>1, <2>2 DEF SrPlusFgImages
<1>13. CASE at = 9
  <2>1. /\ SrInputs \subseteq current /\ "output" \in current
        /\ pending["hudless"] = {"output"} /\ pending["ui"] = {}
        /\ \A t \in SrInputs : pending[t] = {t}
    BY <1>13 DEF SrPlusFgImages
  <2>2. /\ current' = current /\ pending'["ui"] = pending["ui"]
        /\ pending'["hudless"] = pending["hudless"]
        /\ pending'["backbuffer"] = UNION {pending[u] : u \in {"hudless"}}
        /\ \A t \in SrInputs : pending'[t] = pending[t]
    BY <1>2, <1>3, <1>4, <1>5, <1>6, <1>13, DrawIs
  <2>3. pending'["backbuffer"] = {"output"}
    BY <2>1, <2>2
  <2> QED
    BY <1>1, <1>13, <2>1, <2>2, <2>3 DEF SrPlusFgImages
<1>14. CASE at = 11
  <2>1. /\ SrInputs \subseteq current /\ "output" \in current
        /\ pending["hudless"] = {"output"} /\ pending["ui"] = {}
        /\ pending["backbuffer"] = {"output"}
        /\ \A t \in SrInputs : pending[t] = {t}
    BY <1>14 DEF SrPlusFgImages
  <2>2. \A t \in SrInputs \cup FrameGenerationTextures : pending[t] \subseteq current
    BY <2>1 DEF SrInputs, FrameGenerationTextures
  <2>3. SrInputs \cup FrameGenerationTextures \subseteq current'
    BY <1>2, <1>4, <1>5, <1>14, <2>2, SubmitIs
  <2> QED
    BY <1>1, <1>14, <2>3 DEF SrPlusFgImages
<1>15. CASE at \in {13, 14, 15}
  BY <1>1, <1>15 DEF SrPlusFgImages
<1> QED
  BY <1>2, <1>7, <1>8, <1>9, <1>10, <1>11, <1>12, <1>13, <1>14, <1>15

\* An operation of a headless program leaves drawn what the next needs.
LEMMA HeadlessImagesNext ==
  ASSUME ShapeInv, OwnImages, OperationStep, Continue, phase = "frame", Whole,
         prog \in Headless, HeadlessImages
  PROVE  HeadlessImages'
<1> DEFINE x == script[at].op
           inputs == script[3].inputs
<1>1. at \in 1..Len(script) /\ at' = at + 1 /\ script' = script
  BY OperationSteps DEF Continue
<1>2. /\ at \in 1..4
      /\ at = 1 <=> x = "draw"
      /\ at = 2 <=> x = "submit"
      /\ at = 3 <=> x = "upscale"
      /\ at = 1 => script[at].into = inputs /\ script[at].from = {}
  BY <1>1, HeadlessAt
<1>3. inputs \subseteq DOMAIN pending
  <2>1. Evaluates(FrameScript(number - 1)[3], number - 1)
    BY UpscaleOf DEF ShapeInv
  <2> QED
    BY <2>1 DEF Whole, Evaluates, OwnImages
<1>4. /\ x = "draw" => DrawCommands
      /\ x = "submit" => Submit
  BY StepOf
<1>5. inputs' = inputs
  BY <1>1
<1> HIDE DEF x, inputs
<1>6. CASE at = 1
  <2>1. \A t \in inputs : pending'[t] = {}
    BY <1>2, <1>3, <1>4, <1>6, DrawIs
  <2> QED
    BY <1>1, <1>5, <1>6, <2>1 DEF HeadlessImages, inputs
<1>7. CASE at = 2
  <2>1. \A t \in inputs : pending[t] = {}
    BY <1>7 DEF HeadlessImages, inputs
  <2>2. inputs \subseteq current'
    BY <1>2, <1>3, <1>4, <1>7, <2>1, SubmitIs
  <2> QED
    BY <1>1, <1>5, <1>7, <2>2 DEF HeadlessImages, inputs
<1>8. CASE at \in {3, 4}
  BY <1>1, <1>8 DEF HeadlessImages
<1> QED
  BY <1>2, <1>6, <1>7, <1>8

\* Every step keeps what is drawn and recorded where the program is.
LEMMA ImageNext ==
  ASSUME ProgramInv, ProgramNext
  PROVE  ImageInv'
<1> USE DEF ProgramInv
<1>1. prog' = prog
  BY SameProgram
<1>2. OwnImages'
  BY OwnImagesNext DEF ImageInv
<1>3. ASSUME phase' = "frame", Whole'
      PROVE  /\ prog = "frame_generation" => FrameGenerationImages'
             /\ prog = "sr_plus_fg" => SrPlusFgImages'
             /\ prog \in Headless => HeadlessImages'
  <2>1. CASE OperationStep /\ Continue /\ phase = "frame" /\ Whole
    <3>1. /\ prog = "frame_generation" => FrameGenerationImages
          /\ prog = "sr_plus_fg" => SrPlusFgImages
          /\ prog \in Headless => HeadlessImages
      BY <2>1 DEF ImageInv
    <3>2. prog = "frame_generation" => FrameGenerationImages'
      BY <2>1, <3>1, FrameGenerationImagesNext DEF ImageInv
    <3>3. prog = "sr_plus_fg" => SrPlusFgImages'
      BY <2>1, <3>1, SrPlusFgImagesNext DEF ImageInv
    <3>4. prog \in Headless => HeadlessImages'
      BY <2>1, <3>1, HeadlessImagesNext DEF ImageInv
    <3> QED
      BY <3>2, <3>3, <3>4
  <2>2. CASE NewFrame
    <3>1. at' = 1
      BY <2>2, Zenon DEF NewFrame, Call
    <3> QED
      BY <3>1 DEF FrameGenerationImages, SrPlusFgImages, HeadlessImages
  <2> QED
    BY <1>3, <2>1, <2>2, IntoWhole
<1> QED
  BY <1>1, <1>2, <1>3 DEF ImageInv
-----------------------------------------------------------------------------
(* Histories, and what is read *)

\* Which steps begin a frame, and which evaluate or present.
LEMMA NumberKept ==
  ASSUME ShapeInv, ProgramNext
  PROVE  \/ number' = number
         \/ NewFrame /\ (Redraw \/ ForLoop)
<1>1. CASE NewStep \/ OperationStep
  BY <1>1, NewSteps, OperationSteps
<1>2. CASE \/ StartStreamline \/ StartRun \/ Resumed \/ BringUpFails \/ EndOfBringUp
           \/ EndOfFrame \/ Leave \/ DropObject \/ EndOfProgram
  BY <1>2 DEF StartStreamline, StartRun, Resumed, BringUpFails, EndOfBringUp, EndOfFrame, Leave,
              DropObject, EndOfProgram, loopVars
<1>3. CASE Redraw
  <2>1. NewFrame \/ number' = number
    BY <1>3 DEF Redraw
  <2> QED
    BY <1>3, <2>1
<1>4. CASE ForLoop
  BY <1>4, Zenon DEF ForLoop
<1>5. CASE CloseRequested \/ SystemRedraw \/ AnyClient
  BY <1>5 DEF CloseRequested, SystemRedraw, AnyClient, programVars, loopVars
<1> QED
  BY <1>1, <1>2, <1>3, <1>4, <1>5, Zenon DEF ProgramNext, ProgramStep, NewStep, OperationStep

\* Only an evaluate changes a history; only it and a present find something stale.
LEMMA HistoryKept ==
  ASSUME ShapeInv, ProgramNext
  PROVE  /\ UNCHANGED <<history, subrect>> \/ UpscaleImage
         /\ stale' = stale \/ UpscaleImage \/ Presents
<1>1. CASE NewStep
  BY <1>1, NewSteps
<1>2. CASE DrawCommands \/ Submit
  BY <1>2 DEF DrawCommands, Submit, ngxVars
<1>3. CASE Poll \/ BeginsFrame \/ SetsConstants \/ Tags \/ EndsRender \/ Drops \/ RequestRedraw
  <2>1. UNCHANGED <<ngxVars, imageVars>>
    BY <1>3, Zenon DEF Poll, BeginsFrame, SetsConstants, Tags, EndsRender, Drops, RequestRedraw
  <2> QED
    BY <2>1 DEF ngxVars, imageVars
<1>4. CASE Acquires \/ Presents
  <2>1. UNCHANGED ngxVars /\ (stale' = stale \/ Presents)
    BY <1>4, Zenon DEF Acquires, Presents
  <2> QED
    BY <2>1 DEF ngxVars
<1>5. CASE \/ StartStreamline \/ StartRun \/ Resumed \/ BringUpFails \/ EndOfBringUp
           \/ EndOfFrame \/ Leave \/ DropObject \/ EndOfProgram
  BY <1>5 DEF StartStreamline, StartRun, Resumed, BringUpFails, EndOfBringUp, EndOfFrame, Leave,
              DropObject, EndOfProgram, ngxVars, imageVars
<1>6. CASE Redraw \/ ForLoop
  <2>1. UNCHANGED ngxVars /\ (UNCHANGED imageVars \/ NewFrame)
    BY <1>6, Zenon DEF Redraw, ForLoop
  <2>2. NewFrame => stale' = stale
    BY Zenon DEF NewFrame
  <2> QED
    BY <2>1, <2>2 DEF ngxVars, imageVars
<1>7. CASE CloseRequested \/ SystemRedraw \/ AnyClient
  BY <1>7 DEF CloseRequested, SystemRedraw, AnyClient, programVars, ngxVars, imageVars
<1>8. CASE UpscaleImage
  BY <1>8
<1> QED
  BY <1>1, <1>2, <1>3, <1>4, <1>5, <1>6, <1>7, <1>8, Zenon DEF ProgramNext, ProgramStep, NewStep

\* What an evaluate sets.
LEMMA EvaluateIs ==
  ASSUME UpscaleImage, NEW u, u = script[at]
  PROVE  \/ /\ Continue /\ history' = u.feature
            /\ subrect' = [feature |-> u.feature, size |-> u.size]
            /\ stale' = \/ stale
                        \/ ~(u.inputs \subseteq current)
                        \/ ~u.reset /\ history # u.feature
         \/ GiveUp /\ UNCHANGED <<subrect, history, stale>>
BY Zenon DEF UpscaleImage

\* A frame that is called is as it is written.
LEMMA NewFrameIs ==
  ASSUME ShapeInv, LoopInv, ProgramNext, NewFrame, Redraw \/ ForLoop
  PROVE  /\ number' = number + 1 /\ at' = 1 /\ phase = "loop" /\ ~failed /\ Whole'
         /\ phase' = "frame"
<1>1. /\ number' = number + 1 /\ phase' = "frame" /\ script' = FrameScript(number) /\ at' = 1
  BY Zenon DEF NewFrame, Call
<1>2. phase = "loop" /\ ~failed /\ failed' = failed /\ range' = range
  <2>1. CASE ForLoop
    BY <2>1 DEF ForLoop, ngxVars
  <2>2. CASE Redraw
    <3>1. phase = "loop" /\ prog \in Windowed /\ ~closing /\ failed' = failed /\ range' = range
      BY <2>2 DEF Redraw, ngxVars
    <3> QED
      BY <3>1 DEF LoopInv
  <2> QED
    BY <2>1, <2>2
<1>3. prog' = prog
  BY SameProgram
<1>4. number \in Nat /\ number' - 1 = number
  BY <1>1 DEF ShapeInv
<1>5. Whole'
  BY <1>1, <1>2, <1>3, <1>4, SameScript DEF Whole
<1> QED
  BY <1>1, <1>2, <1>5

\* A frame that goes on without an error goes on to the next operation, or its surface
\* is unavailable.
LEMMA GoesOn ==
  ASSUME ShapeInv, OperationStep, ~failed'
  PROVE  Continue \/ (Acquires /\ Unavailable)
<1>1. ~GiveUp
  BY GiveUpIs
<1>2. CASE Acquires
  BY <1>1, <1>2, Zenon DEF Acquires, Unavailable
<1>3. CASE DrawCommands \/ Submit \/ UpscaleImage \/ Poll
  BY <1>1, <1>3, Zenon DEF DrawCommands, Submit, UpscaleImage, Poll
<1>4. CASE BeginsFrame \/ SetsConstants \/ Tags \/ EndsRender \/ Presents \/ Drops \/ RequestRedraw
  BY <1>1, <1>4, Zenon DEF BeginsFrame, SetsConstants, Tags, EndsRender, Presents, Drops,
                          RequestRedraw
<1> QED
  BY <1>2, <1>3, <1>4 DEF OperationStep

\* Every step keeps the history that of the frame before.
LEMMA HistoryNext ==
  ASSUME ProgramInv, ProgramNext
  PROVE  HistoryInv'
<1> USE DEF ProgramInv
<1>1. prog' = prog
  BY SameProgram
<1>2. number \in Nat /\ (number' = number \/ (NewFrame /\ (Redraw \/ ForLoop)))
  BY NumberKept DEF ShapeInv
<1>3. /\ UNCHANGED history \/ UpscaleImage
      /\ history \in {"none"} \cup Features
      /\ prog = "frame_generation" => history = "none"
  BY HistoryKept DEF HistoryInv
\* An evaluate.
<1>4. ASSUME UpscaleImage
      PROVE  /\ phase = "frame" /\ Whole /\ at = 3 /\ prog # "frame_generation"
             /\ \/ Continue /\ history' = FeatureOf(prog, number - 1) /\ history' \in Features
                \/ GiveUp /\ history' = history
  <2>1. /\ at = 3 /\ Evaluates(script[at], number - 1) /\ phase = "frame" /\ Whole
        /\ prog \in Headless \cup {"sr_plus_fg"}
    BY <1>4, UpscaleAt DEF UpscaleImage
  <2>2. \/ Continue /\ history' = script[at].feature
        \/ GiveUp /\ history' = history
    BY <1>4, EvaluateIs
  <2>3. script[at].feature = FeatureOf(prog, number - 1) /\ script[at].feature \in Features
    BY <2>1, UsesAre DEF Evaluates
  <2>4. prog # "frame_generation"
    BY <2>1 DEF Headless
  <2> QED
    BY <2>1, <2>2, <2>3, <2>4
<1>5. history' \in {"none"} \cup Features
  BY <1>3, <1>4
<1>6. prog = "frame_generation" => history' = "none"
  BY <1>3, <1>4
\* What leads to the loop, and there.
<1>7. ASSUME phase' = "loop", ~failed', number' > 0
      PROVE  history' = FeatureOf(prog, number' - 1)
  <2>1. ~(NewStep \/ OperationStep)
    <3> SUFFICES ASSUME NewStep \/ OperationStep
                 PROVE  FALSE
      OBVIOUS
    <3>1. phase \in {"new", "frame"} /\ phase' = phase
      BY NewSteps, OperationSteps, GiveUpIs DEF Continue, Unavailable
    <3> QED
      BY <1>7, <3>1
  <2>2. history' = history
    BY <1>3, <2>1 DEF OperationStep
  <2>3. number' = number
    BY <1>2, <1>7, NewFrameIs
  <2>4. CASE phase = "loop" /\ failed' = failed
    BY <1>7, <2>2, <2>3, <2>4 DEF HistoryInv
  <2>5. CASE EndOfFrame
    <3>1. phase = "frame" /\ Over /\ failed' = failed
      BY <2>5 DEF EndOfFrame
    <3>2. at \in Nat /\ Len(script) \in Nat /\ at > Len(script)
      BY <3>1 DEF Over, ShapeInv
    <3>3. ASSUME Whole
          PROVE  at > 3
      <4>1. prog \in Windowed \cup Headless /\ number - 1 \in Nat
        BY <3>1 DEF ShapeInv
      <4>2. PICK k \in Nat : Lists(FrameScript(number - 1), k) /\ k > 2
        BY <4>1, FrameOpsOf
      <4>3. Len(script) = k
        BY <3>3, <4>2, HasLength DEF Whole
      <4> QED
        BY <3>2, <4>2, <4>3
    <3>4. ~(Whole /\ at <= 3)
      BY <3>2, <3>3
    <3> QED
      BY <1>7, <2>2, <2>3, <3>1, <3>4 DEF HistoryInv
  <2>6. CASE StartStreamline \/ EndOfBringUp
    <3>1. phase \in {"start", "new"}
      BY <2>6 DEF StartStreamline, EndOfBringUp
    <3> QED
      BY <1>7, <2>3, <3>1 DEF HistoryInv
  <2>7. CASE Redraw \/ CloseRequested \/ SystemRedraw
    <3>1. phase = "loop" /\ failed' = failed
      BY <2>7 DEF Redraw, CloseRequested, SystemRedraw, runVars
    <3> QED
      BY <2>4, <3>1
  <2>8. CASE AnyClient
    <3>1. phase = "loop" /\ failed' = failed
      BY <1>7, <2>8 DEF AnyClient, programVars, runVars
    <3> QED
      BY <2>4, <3>1
  <2>9. ~(StartRun \/ Resumed \/ BringUpFails \/ ForLoop \/ Leave \/ DropObject \/ EndOfProgram)
    BY <1>7 DEF StartRun, Resumed, BringUpFails, ForLoop, NewFrame, Leave, DropObject,
               EndOfProgram, runVars
  <2> QED
    BY <2>1, <2>5, <2>6, <2>7, <2>8, <2>9, Zenon
       DEF ProgramNext, ProgramStep, NewStep, OperationStep
\* What leads to a frame, and there.
<1>8. ASSUME phase' = "frame", ~failed'
      PROVE  IF Whole' /\ at' <= 3 THEN number' > 1 => history' = FeatureOf(prog, number' - 2)
             ELSE history' = FeatureOf(prog, number' - 1)
  <2>1. CASE NewFrame /\ (Redraw \/ ForLoop)
    <3>1. number' = number + 1 /\ at' = 1 /\ phase = "loop" /\ ~failed /\ Whole'
      BY <2>1, NewFrameIs
    <3>2. history' = history
      BY <1>3, <1>4, <3>1
    <3>3. number > 0 => history = FeatureOf(prog, number - 1)
      BY <3>1 DEF HistoryInv
    <3>4. number' - 2 = number - 1 /\ (number' > 1 => number > 0)
      BY <1>2, <3>1
    <3> QED
      BY <3>1, <3>2, <3>3, <3>4
  <2>2. CASE OperationStep
    <3>1. phase = "frame" /\ at \in 1..Len(script) /\ number' = number /\ at \in Nat
      BY <2>2, OperationSteps DEF ShapeInv
    <3>2. failed' = failed
      BY <1>8, <2>2, GoesOn DEF Continue, Unavailable
    <3>3. IF Whole /\ at <= 3 THEN number > 1 => history = FeatureOf(prog, number - 2)
          ELSE history = FeatureOf(prog, number - 1)
      BY <1>8, <3>1, <3>2 DEF HistoryInv
    <3>4. CASE UpscaleImage
      <4>1. Continue /\ history' = FeatureOf(prog, number - 1) /\ at = 3
        BY <1>4, <1>8, <3>4, GiveUpIs
      <4>2. at' = 4
        BY <4>1 DEF Continue
      <4> QED
        BY <3>1, <4>1, <4>2
    <3>5. CASE ~UpscaleImage
      <4>1. history' = history
        BY <1>3, <3>5
      <4>2. CASE Continue
        <5>1. at' = at + 1
          BY <4>2 DEF Continue
        <5>2. Whole' => Whole
          BY <1>8, <3>1, IntoWhole, NewFrameIs
        <5>3. CASE Whole /\ at = 3
          <6>1. prog = "frame_generation"
            BY <2>2, <3>1, <3>5, <5>3, StepOf, HeadlessAt, SrPlusFgAt
               DEF ShapeInv, Windowed
          <6>2. FeatureOf(prog, number - 1) = "none"
            BY <6>1 DEF FeatureOf
          <6> QED
            BY <1>3, <3>1, <4>1, <5>1, <5>3, <6>1, <6>2
        <5>4. CASE Whole /\ at # 3
          <6>1. Whole'
            <7>1. UNCHANGED <<script, failed>> /\ range' = range
              BY <2>2, <4>2, OperationSteps DEF Continue
            <7> QED
              BY <1>1, <3>1, <5>4, <7>1, SameScript DEF Whole
          <6>2. at' <= 3 <=> at <= 3
            BY <3>1, <5>1, <5>4
          <6> QED
            BY <3>1, <3>3, <4>1, <5>4, <6>1, <6>2
        <5>5. CASE ~Whole
          BY <3>1, <3>3, <4>1, <5>2, <5>5
        <5> QED
          BY <5>3, <5>4, <5>5
      <4>3. CASE Acquires /\ Unavailable
        <5>1. at' = 1 /\ Whole /\ prog \in Windowed /\ script[at].op = "acquire"
          <6>1. At("acquire") /\ at' = 1
            BY <4>3, Zenon DEF Acquires, Unavailable, Call
          <6> QED
            BY <6>1, OnlyWindowed DEF FrameOps
        <5>2. ~Whole'
          BY <1>8, <3>1, <5>1, IntoWhole, NewFrameIs
        <5>3. CASE prog = "frame_generation"
          BY <1>3, <3>1, <4>1, <5>2, <5>3 DEF FeatureOf
        <5>4. CASE prog = "sr_plus_fg"
          <6>1. at = 6
            BY <3>1, <5>1, <5>4, SrPlusFgAt
          <6> QED
            BY <3>1, <3>3, <4>1, <5>2, <6>1
        <5> QED
          BY <5>1, <5>3, <5>4 DEF Windowed
      <4> QED
        BY <1>8, <2>2, <4>2, <4>3, GoesOn
    <3> QED
      BY <3>4, <3>5
  <2>3. CASE NewStep
    <3>1. phase = "frame" /\ Short /\ number' = number /\ history' = history /\ Continue
      <4>1. phase' = phase
        BY <2>3, NewSteps DEF Continue
      <4> QED
        BY <1>8, <2>3, <4>1, NewSteps
    <3>2. failed' = failed
      BY <3>1 DEF Continue
    <3>3. ~Whole
      BY <3>1, ShortNotWhole
    <3>4. ~Whole'
      BY <1>8, <2>3, <3>1, <3>3, IntoWhole, NewFrameIs
    <3> QED
      BY <1>8, <3>1, <3>2, <3>3, <3>4 DEF HistoryInv
  <2>4. ~(\/ StartStreamline \/ StartRun \/ Resumed \/ BringUpFails \/ EndOfBringUp
          \/ EndOfFrame \/ Leave \/ DropObject \/ EndOfProgram)
    BY <1>8 DEF StartStreamline, StartRun, Resumed, BringUpFails, EndOfBringUp, EndOfFrame, Leave,
               DropObject, EndOfProgram, runVars
  <2>5. ~(CloseRequested \/ SystemRedraw)
    BY <1>8 DEF CloseRequested, SystemRedraw, runVars
  <2>6. ~AnyClient
    BY <1>8 DEF AnyClient, programVars, runVars, ShapeInv, Windowed, Headless
  <2>7. Redraw \/ ForLoop => NewFrame
    BY <1>8 DEF Redraw, ForLoop
  <2> QED
    BY <2>1, <2>2, <2>3, <2>4, <2>5, <2>6, <2>7, Zenon
       DEF ProgramNext, ProgramStep, NewStep, OperationStep
\* There is no frame before there is a GpuState.
<1>9. phase' \in {"start", "new"} => number' = 0
  <2> SUFFICES ASSUME phase' \in {"start", "new"}
               PROVE  number' = 0
    OBVIOUS
  <2>1. number' = number
    BY <1>2, NewFrameIs
  <2>2. CASE phase \in {"start", "new"}
    BY <2>1, <2>2 DEF HistoryInv
  <2>3. CASE Resumed
    BY <2>1, <2>3 DEF Resumed, HistoryInv
  <2>4. CASE phase \notin {"start", "new"} /\ ~Resumed
    <3>1. ~(NewStep \/ OperationStep)
      <4>1. NewStep \/ OperationStep => phase' = phase
        BY NewSteps, OperationSteps, GiveUpIs DEF Continue, Unavailable
      <4> QED
        BY <2>4, <4>1
    <3>2. ~(\/ StartStreamline \/ StartRun \/ BringUpFails \/ EndOfBringUp
            \/ EndOfFrame \/ Leave \/ DropObject \/ EndOfProgram)
      BY <2>4 DEF StartStreamline, StartRun, BringUpFails, EndOfBringUp, EndOfFrame, Leave,
                 DropObject, EndOfProgram, runVars
    <3>3. ~(Redraw \/ ForLoop)
      BY <2>4 DEF Redraw, ForLoop, NewFrame
    <3>4. ~(CloseRequested \/ SystemRedraw \/ AnyClient)
      BY <2>4 DEF CloseRequested, SystemRedraw, AnyClient, runVars, programVars
    <3> QED
      BY <2>4, <3>1, <3>2, <3>3, <3>4, Zenon
         DEF ProgramNext, ProgramStep, NewStep, OperationStep
  <2> QED
    BY <2>2, <2>3, <2>4
<1>10. phase' = "loop" /\ prog \in Windowed /\ ~closing' /\ ~HasGpu' => number' = 0
  <2> SUFFICES ASSUME phase' = "loop", prog \in Windowed, ~closing', ~HasGpu'
               PROVE  number' = 0
    OBVIOUS
  <2>1. number' = number
    BY <1>2, NewFrameIs
  <2>2. CASE phase = "loop"
    <3>1. ~closing /\ ~HasGpu
      <4>1. ~(NewStep \/ OperationStep)
        BY <2>2, NewSteps, OperationSteps
      <4>2. ~(\/ StartStreamline \/ StartRun \/ Resumed \/ BringUpFails \/ EndOfBringUp
              \/ EndOfFrame \/ Leave \/ DropObject \/ EndOfProgram \/ ForLoop \/ CloseRequested)
        BY <2>2 DEF StartStreamline, StartRun, Resumed, BringUpFails, EndOfBringUp, EndOfFrame,
                   Leave, DropObject, EndOfProgram, ForLoop, NewFrame, CloseRequested
      <4>3. Redraw => UNCHANGED held
        BY DEF Redraw, objectVars
      <4>4. SystemRedraw \/ AnyClient => UNCHANGED <<held, closing>>
        BY DEF SystemRedraw, AnyClient, programVars, objectVars, loopVars
      <4>5. Redraw => ~closing
        BY DEF Redraw
      <4> QED
        BY <4>1, <4>2, <4>3, <4>4, <4>5
           DEF ProgramNext, ProgramStep, NewStep, OperationStep, HasGpu
    <3> QED
      BY <2>1, <2>2, <3>1 DEF HistoryInv
  <2>3. CASE phase \in {"start", "new"}
    BY <2>1, <2>3 DEF HistoryInv
  <2>4. CASE phase = "frame"
    <3>1. Ready /\ HasGpu
      BY <2>4, ReadyHasGpu DEF LoopInv
    <3>2. ~(NewStep \/ OperationStep)
      <4>1. NewStep \/ OperationStep => phase' = phase
        BY NewSteps, OperationSteps, GiveUpIs DEF Continue, Unavailable
      <4> QED
        BY <2>4, <4>1
    <3>3. ~(\/ StartStreamline \/ StartRun \/ Resumed \/ BringUpFails \/ EndOfBringUp \/ Leave
            \/ DropObject \/ EndOfProgram \/ Redraw \/ ForLoop \/ CloseRequested \/ SystemRedraw)
      BY <2>4 DEF StartStreamline, StartRun, Resumed, BringUpFails, EndOfBringUp, Leave,
                 DropObject, EndOfProgram, Redraw, ForLoop, CloseRequested, SystemRedraw
    <3>4. EndOfFrame \/ AnyClient => held' = held
      BY DEF EndOfFrame, AnyClient, programVars, objectVars
    <3> QED
      BY <3>1, <3>2, <3>3, <3>4
         DEF ProgramNext, ProgramStep, NewStep, OperationStep, HasGpu
  <2>5. CASE phase \notin {"loop", "start", "new", "frame"}
    <3>1. ~(NewStep \/ OperationStep)
      BY <2>5, NewSteps, OperationSteps
    <3>2. ~(\/ StartStreamline \/ StartRun \/ Resumed \/ BringUpFails \/ EndOfBringUp
            \/ EndOfFrame \/ Leave \/ DropObject \/ EndOfProgram)
      BY <2>5 DEF StartStreamline, StartRun, Resumed, BringUpFails, EndOfBringUp, EndOfFrame,
                 Leave, DropObject, EndOfProgram, runVars
    <3>3. ~(Redraw \/ ForLoop \/ CloseRequested \/ SystemRedraw \/ AnyClient)
      BY <2>5 DEF Redraw, ForLoop, CloseRequested, SystemRedraw, AnyClient, programVars, runVars
    <3> QED
      BY <3>1, <3>2, <3>3, Zenon DEF ProgramNext, ProgramStep, NewStep, OperationStep
  <2> QED
    BY <2>2, <2>3, <2>4, <2>5
<1> QED
  BY <1>1, <1>5, <1>6, <1>7, <1>8, <1>9, <1>10 DEF HistoryInv
-----------------------------------------------------------------------------
(* What is evaluated and presented *)

\* No step evaluates or presents what is not of its frame.
LEMMA StaleNext ==
  ASSUME ProgramInv, ProgramNext
  PROVE  StaleInv'
<1> USE DEF ProgramInv
<1>1. stale = FALSE
  BY DEF StaleInv
<1>2. CASE UpscaleImage
  <2> DEFINE u == script[at]
  <2>1. /\ at = 3 /\ Evaluates(u, number - 1) /\ number - 1 \in Nat
        /\ prog \in Headless \cup {"sr_plus_fg"} /\ phase = "frame" /\ Whole
    BY <1>2, UpscaleAt DEF UpscaleImage
  <2>2. at \in 1..Len(script)
    BY <1>2, OperationSteps DEF OperationStep
  <2>3. u.inputs \subseteq current
    <3>1. CASE prog = "sr_plus_fg"
      <4>1. u.inputs = SrInputs
        BY <2>1, <2>2, <3>1, SrPlusFgAt
      <4>2. SrInputs \subseteq current
        BY <2>1, <3>1 DEF ImageInv, SrPlusFgImages
      <4> QED
        BY <4>1, <4>2
    <3>2. CASE prog \in Headless
      BY <2>1, <3>2 DEF ImageInv, HeadlessImages
    <3> QED
      BY <2>1, <3>1, <3>2
  <2>4. u.reset \/ history = u.feature
    <3> SUFFICES ASSUME ~u.reset
                 PROVE  history = u.feature
      OBVIOUS
    <3>1. number - 1 > 0 /\ FeatureOf(prog, number - 1 - 1) = u.feature
      BY <2>1 DEF Evaluates
    <3>2. number \in Nat /\ number > 1 /\ number - 1 - 1 = number - 2
      BY <3>1 DEF ShapeInv
    <3>3. ~failed /\ at <= 3
      BY <2>1 DEF Whole
    <3>4. history = FeatureOf(prog, number - 2)
      BY <2>1, <3>2, <3>3 DEF HistoryInv
    <3> QED
      BY <3>1, <3>2, <3>4
  <2>5. \/ stale' = (stale \/ ~(u.inputs \subseteq current) \/ (~u.reset /\ history # u.feature))
        \/ stale' = stale
    BY <1>2, EvaluateIs
  <2> HIDE DEF u
  <2>6. (stale \/ ~(u.inputs \subseteq current) \/ (~u.reset /\ history # u.feature)) = FALSE
    BY <1>1, <2>3, <2>4
  <2> QED
    BY <1>1, <2>5, <2>6, Zenon DEF StaleInv
<1>3. CASE Presents
  <2>1. At("present") /\ stale' = (stale \/ ~(FrameGenerationTextures \subseteq current))
    BY <1>3, Zenon DEF Presents
  <2>2. /\ prog \in Windowed /\ phase = "frame" /\ Whole /\ at \in 1..Len(script)
        /\ script[at].op = "present"
    BY <2>1, OnlyWindowed DEF FrameOps
  <2>3. FrameGenerationTextures \subseteq current
    <3>1. CASE prog = "frame_generation"
      <4>1. at = 8
        BY <2>2, <3>1, FrameGenerationAt
      <4> QED
        BY <2>2, <3>1, <4>1 DEF ImageInv, FrameGenerationImages
    <3>2. CASE prog = "sr_plus_fg"
      <4>1. at = 13
        BY <2>2, <3>2, SrPlusFgAt
      <4> QED
        BY <2>2, <3>2, <4>1 DEF ImageInv, SrPlusFgImages
    <3> QED
      BY <2>2, <3>1, <3>2 DEF Windowed
  <2>4. (stale \/ ~(FrameGenerationTextures \subseteq current)) = FALSE
    BY <1>1, <2>3
  <2> QED
    BY <2>1, <2>4, Zenon DEF StaleInv
<1>4. CASE stale' = stale
  BY <1>1, <1>4 DEF StaleInv
<1> QED
  BY <1>2, <1>3, <1>4, HistoryKept

\* No step evaluates a subrect that does not fit.
LEMMA SubrectNext ==
  ASSUME ProgramInv, ProgramNext
  PROVE  SubrectInv'
<1> USE DEF ProgramInv
<1>1. /\ subrect.feature \in {"none"} \cup Features /\ subrect.size \in Nat
      /\ number = 0 => subrect.feature = "none"
      /\ SubrectsFit
  BY DEF SubrectInv
<1>2. number' = 0 => number = 0
  <2>1. number \in Nat /\ (number' = number \/ number' = number + 1)
    BY NumberKept, Zenon DEF ShapeInv, NewFrame
  <2> QED
    BY <2>1
<1>3. CASE UpscaleImage
  <2> DEFINE u == script[at]
  <2>1. Evaluates(u, number - 1) /\ phase = "frame" /\ number > 0
    BY <1>3, UpscaleAt DEF UpscaleImage, ShapeInv
  <2>2. UNCHANGED <<range, sizes>> /\ number' = number
    BY <1>3, OperationSteps DEF OperationStep
  <2>3. \/ subrect' = [feature |-> u.feature, size |-> u.size]
        \/ subrect' = subrect
    BY <1>3, EvaluateIs
  <2>4. u.feature \in Features /\ Sized(u.feature)
    BY <2>1, UsesAre DEF Evaluates, LoopInv, Ready
  <2>5. /\ u.size \in Nat /\ range[u.feature].min <= u.size
        /\ u.size <= sizes[u.feature]
    BY <2>1, <2>4 DEF Evaluates
  <2> HIDE DEF u
  <2>6. CASE subrect' = [feature |-> u.feature, size |-> u.size]
    <3>1. subrect'.feature = u.feature /\ subrect'.size = u.size
      BY <2>6
    <3> QED
      BY <2>1, <2>2, <2>4, <2>5, <3>1 DEF SubrectInv, SubrectsFit
  <2>7. CASE subrect' = subrect
    BY <1>1, <2>1, <2>2, <2>7 DEF SubrectInv, SubrectsFit
  <2> QED
    BY <2>3, <2>6, <2>7
<1>4. CASE subrect' = subrect
  <2>1. CASE subrect.feature = "none"
    BY <1>1, <1>4, <2>1 DEF SubrectInv, SubrectsFit
  <2>2. CASE subrect.feature # "none"
    <3>1. ~(NewStep /\ phase = "new")
      BY <1>1, <2>2 DEF HistoryInv
    <3>2. UNCHANGED <<range, sizes>>
      BY <3>1, RangeKept, ConfiguredAgain
    <3> QED
      BY <1>1, <1>2, <1>4, <2>2, <3>2 DEF SubrectInv, SubrectsFit
  <2> QED
    BY <2>1, <2>2
<1> QED
  BY <1>3, <1>4, HistoryKept
-----------------------------------------------------------------------------
(* The theorems *)

\* A program starts with the invariant.
LEMMA ProgramInvInit == ProgramInit => ProgramInv
<1> SUFFICES ASSUME ProgramInit
             PROVE  ProgramInv
  OBVIOUS
<1>1. /\ prog \in Programs /\ phase = "start" /\ script = <<>> /\ at = 1 /\ failed = FALSE
      /\ held = <<>> /\ owner = "none" /\ factory = "none" /\ generating = FALSE
      /\ swapchain = "none"
      /\ redraw = FALSE /\ closing = FALSE /\ waiting = FALSE /\ number = 0
      /\ range = <<>> /\ sizes = <<>> /\ subrect = [feature |-> "none", size |-> 0]
      /\ history = "none"
      /\ current = {} /\ pending = <<>> /\ stale = FALSE /\ misordered = FALSE
  BY DEF ProgramInit, Init
<1>2. ShapeInv
  <2>1. Len(script) = 0 /\ Lists(script, Len(script))
    BY <1>1 DEF Lists
  <2>2. failed \in BOOLEAN /\ ~failed /\ phase \notin {"new", "frame"}
    BY <1>1
  <2>3. at \in 1..(Len(script) + 1) /\ number \in Nat /\ Len(script) \in Nat
    BY <1>1, <2>1
  <2> QED
    BY <1>1, <2>1, <2>2, <2>3 DEF ShapeInv
<1>3. OwnerInv
  <2>1. ToSet(held) = {} /\ IsInjective(held) /\ held \in Seq(Objects)
    BY <1>1 DEF ToSet, IsInjective
  <2> QED
    BY <1>1, <2>1 DEF OwnerInv
<1>4. NewInv /\ LoopInv /\ StepInv /\ HistoryInv /\ StaleInv
  BY <1>1 DEF NewInv, LoopInv, StepInv, HistoryInv, StaleInv
<1>5. DOMAIN pending = {} /\ DOMAIN range = {} /\ DOMAIN sizes = {}
  BY <1>1
<1>6. ImageInv
  BY <1>1, <1>5 DEF ImageInv, OwnImages
<1>7. RangeInv /\ SubrectInv /\ FlagsInv
  BY <1>1, <1>5 DEF RangeInv, SubrectInv, SubrectsFit, FlagsInv, SwapchainBinds
<1> QED
  BY <1>2, <1>3, <1>4, <1>6, <1>7 DEF ProgramInv

\* What does not change keeps what it is.
LEMMA ProgramInvStutters ==
  ASSUME ProgramInv, UNCHANGED allVars
  PROVE  ProgramInv'
<1>1. /\ UNCHANGED <<prog, phase, script, at, failed>>
      /\ UNCHANGED <<held, owner, factory, generating, swapchain>>
      /\ UNCHANGED <<redraw, closing, waiting, number>>
      /\ UNCHANGED <<range, sizes, subrect, history, current, pending, stale>>
      /\ UNCHANGED <<step, misordered>>
  BY DEF allVars, programVars, runVars, objectVars, loopVars, ngxVars, imageVars, vars,
         frameVars
<1>2. /\ Uses' = Uses /\ Textures' = Textures /\ BringUp' = BringUp /\ Fields' = Fields
      /\ ShortOps' = ShortOps
  BY <1>1, OfProgram
<1>3. (Whole' <=> Whole) /\ (Short' <=> Short)
  BY <1>1, <1>2, SameScript DEF Whole, Short
<1>4. /\ \A f : Sized(f)' <=> Sized(f)
      /\ \A f : Answered(f)' <=> Answered(f)
      /\ \A f : Ahead(f)' <=> Ahead(f)
  BY <1>1, SameAnswers DEF Ahead
<1>5. ShapeInv'
  BY <1>1, <1>2, <1>3 DEF ProgramInv, ShapeInv
<1>6. OwnerInv' /\ StaleInv' /\ RangeInv' /\ FlagsInv' /\ SubrectInv'
  BY <1>1 DEF ProgramInv, OwnerInv, StaleInv, RangeInv, FlagsInv, SubrectInv, SubrectsFit,
              SwapchainBinds
<1>7. NewInv'
  BY <1>1, <1>2, <1>4 DEF ProgramInv, NewInv, Asked
<1>8. LoopInv'
  BY <1>1, <1>2, <1>4 DEF ProgramInv, LoopInv, Ready, Fresh, HasGpu, Asked
<1>9. StepInv'
  <2>1. StepAt(at)' = StepAt(at)
    BY <1>1 DEF StepAt
  <2> QED
    BY <1>1, <1>3, <2>1 DEF ProgramInv, StepInv
<1>10. ImageInv'
  <2>1. OwnImages'
    BY <1>1, <1>2 DEF ProgramInv, ImageInv, OwnImages
  <2>2. /\ FrameGenerationImages' = FrameGenerationImages
        /\ SrPlusFgImages' = SrPlusFgImages
        /\ HeadlessImages' = HeadlessImages
    BY <1>1, Zenon DEF FrameGenerationImages, SrPlusFgImages, HeadlessImages
  <2> QED
    BY <1>1, <1>3, <2>1, <2>2 DEF ProgramInv, ImageInv
<1>11. HistoryInv'
  BY <1>1, <1>3 DEF ProgramInv, HistoryInv, HasGpu
<1> QED
  BY <1>5, <1>6, <1>7, <1>8, <1>9, <1>10, <1>11 DEF ProgramInv

\* Every step keeps the invariant.
LEMMA ProgramInvStep == ProgramInv /\ [ProgramNext]_allVars => ProgramInv'
<1> SUFFICES ASSUME ProgramInv, ProgramNext
             PROVE  ProgramInv'
  BY ProgramInvStutters
<1>1. ShapeInv'
  BY ShapeNext DEF ProgramInv
<1> QED
  BY <1>1, OwnerNext, NewNext, LoopNext, PositionNext, ImageNext, HistoryNext, StaleNext,
     RangeNext, SubrectNext, WindowNext DEF ProgramInv

\* Every behaviour of a program keeps the inductive invariant.
THEOREM ProgramInvariant == ProgramSpec => []ProgramInv
BY ProgramInvInit, ProgramInvStep, PTL DEF ProgramSpec

\* The program that runs is one of those there are.
LEMMA OneOfThePrograms == ProgramSpec => [](prog \in Programs)
<1>1. ProgramInit => prog \in Programs
  BY DEF ProgramInit
<1>2. prog \in Programs /\ [ProgramNext]_allVars => (prog \in Programs)'
  <2>1. UNCHANGED allVars => prog' = prog
    BY DEF allVars, programVars, runVars
  <2> QED
    BY <2>1, SameProgram
<1> QED
  BY <1>1, <1>2, PTL DEF ProgramSpec

\* Every variable of a program keeps its type: what it owns drops one at a time and
\* only once, the shutdown is owed by something it owns, and generation is on exactly
\* as long as it owns a frame generation context.
THEOREM ProgramTypeCorrect == ProgramSpec => []ProgramTypeOK
<1>1. ProgramInv /\ TypeOK /\ prog \in Programs => ProgramTypeOK
  <2> SUFFICES ASSUME ProgramInv, TypeOK, prog \in Programs
               PROVE  ProgramTypeOK
    OBVIOUS
  <2>1. /\ phase \in {"start", "new", "loop", "frame", "leave", "gone"}
        /\ at \in 1..(Len(script) + 1) /\ failed \in BOOLEAN /\ number \in Nat
    BY DEF ProgramInv, ShapeInv
  <2>2. /\ held \in Seq(Objects) /\ IsInjective(held)
        /\ owner \in {"none"} \cup (ToSet(held) \cap {"handle", "fg"})
        /\ generating \in BOOLEAN /\ (generating <=> "fg" \in ToSet(held))
    BY DEF ProgramInv, OwnerInv
  <2>3. /\ factory \in {"none", "stock", "proxy", "declined"}
        /\ redraw \in BOOLEAN /\ closing \in BOOLEAN /\ waiting \in BOOLEAN
        /\ swapchain \in {"none", "bound", "unbound", "destroyed"}
    BY DEF ProgramInv, FlagsInv
  <2>4. /\ DOMAIN range \subseteq Features /\ \A f \in DOMAIN range : range[f] \in Ranges
        /\ DOMAIN sizes \subseteq DOMAIN range /\ \A f \in DOMAIN sizes : sizes[f] \in Nat
        /\ subrect.feature \in {"none"} \cup Features /\ subrect.size \in Nat
        /\ history \in {"none"} \cup Features
    BY DEF ProgramInv, RangeInv, SubrectInv, HistoryInv
  <2>5. /\ \A t \in DOMAIN pending : pending[t] \subseteq Textures
        /\ prog = "any client" \/ current \subseteq Textures
    <3>1. OwnImages
      BY DEF ProgramInv, ImageInv
    <3> QED
      BY <3>1 DEF OwnImages
  <2>6. stale \in BOOLEAN
    BY DEF ProgramInv, StaleInv
  <2> QED
    BY <2>1, <2>2, <2>3, <2>4, <2>5, <2>6 DEF ProgramTypeOK
<1> QED
  BY <1>1, ProgramInvariant, ProgramsKeepFrames, OneOfThePrograms, PTL

\* No Frame of a windowed program is reported out of order, whatever fails or is
\* unavailable on the way.
THEOREM ProgramsKeepOrder == ProgramSpec => []ProgramsInOrder
<1>1. ProgramInv => ProgramsInOrder
  BY DEF ProgramInv, StepInv, ProgramsInOrder
<1> QED
  BY <1>1, ProgramInvariant, PTL

\* Whatever fails in whichever bring-up, a window's swapchain is created after the device
\* was registered and by a factory that Streamline was asked to upgrade: one that is not
\* bound is one whose factory Streamline declined to upgrade.
THEOREM SwapchainsBind == ProgramSpec => []SwapchainBinds
<1>1. ProgramInv => SwapchainBinds
  BY DEF ProgramInv, FlagsInv, SwapchainBinds
<1> QED
  BY <1>1, ProgramInvariant, PTL

\* What is evaluated, interpolated or presented is of its own frame, and a history is
\* of the frame before, of the same feature, or reset.
THEOREM NothingIsStale == ProgramSpec => []NothingStale
<1>1. ProgramInv => NothingStale
  BY DEF ProgramInv, StaleInv, NothingStale
<1> QED
  BY <1>1, ProgramInvariant, PTL

\* What an evaluate is told to read is within the range NGX gave and within the inputs
\* as they were allocated, whatever NGX answers.
THEOREM SubrectsAreWithin == ProgramSpec => []SubrectsFit
<1>1. ProgramInv => SubrectsFit
  BY DEF ProgramInv, SubrectInv
<1> QED
  BY <1>1, ProgramInvariant, PTL
-----------------------------------------------------------------------------
(* What a bring-up that fails leaves *)

\* Of what a bring-up made, the frame generation context drops before the surface.
SurfaceOutlives ==
  \A i, j \in 1..Len(held) : held[i] = "surface" /\ held[j] = "fg" => j < i

\* No swapchain is destroyed before something failed, or the loop is left.
UnwindInv ==
  /\ swapchain = "destroyed" =>
       /\ phase \notin {"start", "frame"}
       /\ phase = "new" => failed
       /\ phase = "loop" => closing /\ prog \in Windowed
  /\ phase = "new" => SurfaceOutlives
  /\ phase = "gone" => ~generating
  /\ UnwindsInOrder

\* Every program makes its surface before the frame generation context.
LEMMA SurfaceFirst ==
  ASSUME prog \in Windowed \cup Headless, NEW k \in Nat, Lists(BringUp, k),
         NEW i \in 1..k, BringUp[i] = "surface"
  PROVE  \E j \in 1..k : i < j /\ BringUp[j] = "fg"
<1>1. CASE prog = "frame_generation"
  <2>1. BringUp = FrameGenerationNew
    BY <1>1, Zenon DEF BringUp
  <2>2. Lists(FrameGenerationNew, 7) /\ Len(FrameGenerationNew) = 7
    BY DEF Lists, FrameGenerationNew
  <2>3. k = 7
    BY <2>1, <2>2, HasLength
  <2>4. i = 3 /\ FrameGenerationNew[5] = "fg"
    BY <2>1, <2>3 DEF FrameGenerationNew
  <2> QED
    BY <2>1, <2>3, <2>4
<1>2. CASE prog = "sr_plus_fg"
  <2>1. BringUp = SrPlusFgNew
    BY <1>2, Zenon DEF BringUp
  <2>2. Lists(SrPlusFgNew, 9) /\ Len(SrPlusFgNew) = 9
    BY DEF Lists, SrPlusFgNew
  <2>3. k = 9
    BY <2>1, <2>2, HasLength
  <2>4. i = 3 /\ SrPlusFgNew[5] = "fg"
    BY <2>1, <2>3 DEF SrPlusFgNew
  <2> QED
    BY <2>1, <2>3, <2>4
<1>3. CASE prog \in Headless
  <2>1. BringUp \in {SuperResolutionRun, DynamicResolutionRun, RayReconstructionRun, ToggleRun}
    <3>1. prog = "super_resolution" => BringUp = SuperResolutionRun
      BY Zenon DEF BringUp
    <3>2. prog = "dynamic_resolution" => BringUp = DynamicResolutionRun
      BY Zenon DEF BringUp
    <3>3. prog = "ray_reconstruction" => BringUp = RayReconstructionRun
      BY Zenon DEF BringUp
    <3>4. prog = "sr_rr_toggle" => BringUp = ToggleRun
      BY Zenon DEF BringUp
    <3> QED
      BY <1>3, <3>1, <3>2, <3>3, <3>4 DEF Headless
  <2>2. Len(BringUp) = k
    BY HasLength
  <2>3. CASE BringUp = SuperResolutionRun
    BY <2>2, <2>3 DEF SuperResolutionRun
  <2>4. CASE BringUp = DynamicResolutionRun
    BY <2>2, <2>4 DEF DynamicResolutionRun
  <2>5. CASE BringUp = RayReconstructionRun
    BY <2>2, <2>5 DEF RayReconstructionRun
  <2>6. CASE BringUp = ToggleRun
    BY <2>2, <2>6 DEF ToggleRun
  <2> QED
    BY <2>1, <2>3, <2>4, <2>5, <2>6
<1> QED
  BY <1>1, <1>2, <1>3 DEF Windowed

\* When a bring-up makes its surface, its frame generation context is still to come.
LEMMA SurfaceAt ==
  ASSUME ShapeInv, phase = "new", ~failed, at \in 1..Len(script), script[at].op = "surface"
  PROVE  Ahead("fg")
<1>1. /\ prog \in Windowed \cup Headless /\ script = DoAll(BringUp)
  BY DEF ShapeInv
<1>2. PICK k \in Nat : Lists(BringUp, k) /\ Orderly(BringUp, k)
  BY <1>1, BringUpIs
<1>3. Lists(script, k) /\ \A i \in 1..k : script[i] = Do(BringUp[i])
  BY <1>1, <1>2, Doing
<1>4. Len(script) = k /\ \A i \in 1..k : script[i].op = BringUp[i]
  BY <1>2, <1>3, HasLength, OperationsAre
<1>5. PICK j \in 1..k : at < j /\ BringUp[j] = "fg"
  BY <1>1, <1>2, <1>4, SurfaceFirst
<1> QED
  BY <1>4, <1>5 DEF Ahead
\* What is made is put before what there is.
LEMMA OutlivesMade ==
  ASSUME NEW x \in Objects, held \in Seq(Objects), held' = <<x>> \o held, SurfaceOutlives,
         x = "surface" => "fg" \notin ToSet(held)
  PROVE  SurfaceOutlives'
<1>1. /\ Len(held) \in Nat /\ Len(held') = Len(held) + 1 /\ held'[1] = x
      /\ \A i \in 1..Len(held) : held'[i + 1] = held[i]
      /\ DOMAIN held = 1..Len(held)
  OBVIOUS
<1>2. \A i \in 2..Len(held') : i - 1 \in 1..Len(held) /\ held'[i] = held[i - 1]
  BY <1>1
<1> SUFFICES ASSUME NEW i \in 1..Len(held'), NEW j \in 1..Len(held'),
                    held'[i] = "surface", held'[j] = "fg"
             PROVE  j < i
  BY DEF SurfaceOutlives
<1>3. CASE j = 1
  <2>1. i # 1
    BY <1>3
  <2> QED
    BY <1>1, <1>3, <2>1
<1>4. CASE j # 1
  <2>1. j - 1 \in 1..Len(held) /\ held[j - 1] = "fg"
    BY <1>1, <1>2, <1>4
  <2>2. "fg" \in ToSet(held)
    BY <1>1, <2>1 DEF ToSet
  <2>3. i # 1
    BY <1>1, <2>2
  <2>4. i - 1 \in 1..Len(held) /\ held[i - 1] = "surface"
    BY <1>1, <1>2, <2>3
  <2>5. j - 1 < i - 1
    BY <2>1, <2>4 DEF SurfaceOutlives
  <2> QED
    BY <1>1, <2>5
<1> QED
  BY <1>3, <1>4

\* When the surface is dropped, the frame generation context was before.
LEMMA OutlivesDropped ==
  ASSUME held \in Seq(Objects), held # <<>>, held' = Tail(held), SurfaceOutlives
  PROVE  SurfaceOutlives' /\ (Head(held) = "surface" => "fg" \notin ToSet(held))
<1>1. /\ Len(held) \in Nat \ {0} /\ Len(held') = Len(held) - 1
      /\ \A i \in 1..Len(held') : held'[i] = held[i + 1]
      /\ Head(held) = held[1] /\ DOMAIN held = 1..Len(held)
  OBVIOUS
<1>2. \A i \in 1..Len(held') : i + 1 \in 1..Len(held) /\ held'[i] = held[i + 1]
  BY <1>1
<1>3. SurfaceOutlives'
  <2> SUFFICES ASSUME NEW i \in 1..Len(held'), NEW j \in 1..Len(held'),
                      held'[i] = "surface", held'[j] = "fg"
               PROVE  j < i
    BY DEF SurfaceOutlives
  <2>1. /\ i + 1 \in 1..Len(held) /\ held[i + 1] = "surface"
        /\ j + 1 \in 1..Len(held) /\ held[j + 1] = "fg"
    BY <1>2
  <2>2. j + 1 < i + 1
    BY <2>1 DEF SurfaceOutlives
  <2> QED
    BY <1>1, <2>2
<1>4. ASSUME Head(held) = "surface", "fg" \in ToSet(held)
      PROVE  FALSE
  <2>1. PICK j \in 1..Len(held) : held[j] = "fg"
    BY <1>1, <1>4 DEF ToSet
  <2>2. 1 \in 1..Len(held) /\ held[1] = "surface"
    BY <1>1, <1>4
  <2>3. j < 1
    BY <2>1, <2>2 DEF SurfaceOutlives
  <2> QED
    BY <1>1, <2>3
<1> QED
  BY <1>3, <1>4

\* Every step keeps it.
LEMMA UnwindNext ==
  ASSUME ProgramInv, UnwindInv, ProgramNext
  PROVE  UnwindInv'
<1> USE DEF ProgramInv
<1>1. /\ swapchain = "destroyed" => phase \notin {"start", "frame"}
      /\ swapchain = "destroyed" /\ phase = "new" => failed
      /\ swapchain = "destroyed" /\ phase = "loop" => closing /\ prog \in Windowed
      /\ phase = "new" => SurfaceOutlives
      /\ phase = "gone" => ~generating
      /\ swapchain = "destroyed" /\ phase # "leave" => ~generating
  BY DEF UnwindInv, UnwindsInOrder, GenerationOffFirst
<1>2. held \in Seq(Objects) /\ (generating <=> "fg" \in ToSet(held))
  BY DEF OwnerInv
<1>3. CASE NewStep /\ phase = "new"
  <2> DEFINE x == script[at].op
  <2>1. Continue /\ at \in 1..Len(script) /\ ~failed /\ phase' = "new" /\ ~failed'
    BY <1>3, NewSteps DEF Continue
  <2>2. held' = Made(x)
    BY <1>3, NewMakes
  <2>3. swapchain' # "destroyed"
    BY <1>1, <1>3, <2>1, NewSets
  <2>4. x = "surface" => "fg" \notin ToSet(held)
    <3>1. x = "surface" => Ahead("fg")
      BY <1>3, <2>1, SurfaceAt
    <3> QED
      BY <1>3, <2>1, <3>1 DEF NewInv
  <2> HIDE DEF x
  <2>5. SurfaceOutlives'
    <3>1. CASE x \in Objects
      <4>1. held' = <<x>> \o held
        BY <2>2, <3>1 DEF Made
      <4> QED
        BY <1>1, <1>2, <1>3, <2>4, <3>1, <4>1, OutlivesMade
    <3>2. CASE x \notin Objects
      BY <1>1, <1>3, <2>2, <3>2 DEF Made, SurfaceOutlives
    <3> QED
      BY <3>1, <3>2
  <2> QED
    BY <2>1, <2>3, <2>5 DEF UnwindInv, UnwindsInOrder, GenerationOffFirst
<1>4. CASE NewStep /\ phase # "new"
  <2>1. phase = "frame" /\ phase' = "frame" /\ at \in 1..Len(script)
    BY <1>4, NewSteps DEF Continue
  <2>2. swapchain' # "destroyed"
    BY <1>1, <1>4, <2>1, NewSets
  <2> QED
    BY <2>1, <2>2 DEF UnwindInv, UnwindsInOrder, GenerationOffFirst
<1>5. CASE OperationStep
  <2>1. phase = "frame" /\ UNCHANGED objectVars /\ (Continue \/ GiveUp \/ Unavailable)
    BY <1>5, OperationSteps
  <2>2. phase' = "frame" /\ swapchain' = swapchain
    BY <2>1, GiveUpIs DEF Continue, Unavailable, objectVars
  <2> QED
    BY <1>1, <2>1, <2>2 DEF UnwindInv, UnwindsInOrder, GenerationOffFirst
<1>6. CASE DropObject
  <2>1. /\ held # <<>> /\ held' = Tail(held) /\ phase' = phase /\ failed' = failed
        /\ swapchain' = IF Head(held) = "surface" /\ swapchain # "none" THEN "destroyed"
                        ELSE swapchain
        /\ generating' = (generating /\ Head(held) # "fg")
        /\ (phase = "new" /\ failed) \/ phase = "leave"
    BY <1>6 DEF DropObject, runVars
  <2>2. CASE phase = "leave"
    BY <2>1, <2>2 DEF UnwindInv, UnwindsInOrder, GenerationOffFirst
  <2>3. CASE phase = "new"
    <3>1. SurfaceOutlives' /\ (Head(held) = "surface" => "fg" \notin ToSet(held))
      BY <1>1, <1>2, <2>1, <2>3, OutlivesDropped
    <3>2. generating' => generating
      BY <2>1, Zenon
    <3>3. swapchain' = "destroyed" => ~generating'
      BY <1>1, <1>2, <2>1, <2>3, <3>1, <3>2
    <3> QED
      BY <2>1, <2>3, <3>1, <3>3 DEF UnwindInv, UnwindsInOrder, GenerationOffFirst
  <2> QED
    BY <2>1, <2>2, <2>3
<1>7. CASE StartRun \/ Resumed
  <2>1. phase' = "new" /\ UNCHANGED <<held, swapchain>>
    BY <1>7 DEF StartRun, Resumed, objectVars
  <2>2. swapchain # "destroyed"
    BY <1>1, <1>7 DEF StartRun, Resumed
  <2>3. held \in {<<>>, <<"handle">>}
    BY <1>7 DEF StartRun, Resumed, OwnerInv, LoopInv, Fresh
  <2>4. SurfaceOutlives'
    BY <2>1, <2>3 DEF SurfaceOutlives
  <2> QED
    BY <2>1, <2>2, <2>4 DEF UnwindInv, UnwindsInOrder, GenerationOffFirst
<1>8. CASE BringUpFails
  <2>1. phase = "new" /\ ~failed /\ phase' = "new" /\ UNCHANGED <<held, swapchain>>
    BY <1>8 DEF BringUpFails, objectVars
  <2> QED
    BY <1>1, <2>1 DEF UnwindInv, UnwindsInOrder, GenerationOffFirst, SurfaceOutlives
<1>9. CASE EndOfBringUp
  <2>1. /\ phase = "new" /\ UNCHANGED <<swapchain, generating>>
        /\ failed => held = Outside
        /\ phase' = IF failed /\ prog \in Headless THEN "gone" ELSE "loop"
        /\ closing' = (failed /\ prog \in Windowed)
    BY <1>9 DEF EndOfBringUp
  <2>2. prog \in Windowed \cup Headless /\ Windowed \cap Headless = {}
    BY <2>1 DEF ShapeInv, Windowed, Headless
  <2>3. CASE failed /\ prog \in Headless
    <3>1. held = <<>>
      BY <2>1, <2>2, <2>3 DEF Outside
    <3>2. ~generating
      BY <1>2, <3>1 DEF ToSet
    <3> QED
      BY <2>1, <2>3, <3>2 DEF UnwindInv, UnwindsInOrder, GenerationOffFirst
  <2>4. CASE ~(failed /\ prog \in Headless)
    <3>1. phase' = "loop" /\ (swapchain' = "destroyed" => failed /\ ~generating')
      BY <1>1, <2>1, <2>4
    <3>2. failed => closing' /\ prog \in Windowed /\ prog' = prog
      BY <1>9, <2>1, <2>2, <2>4 DEF EndOfBringUp
    <3> QED
      BY <3>1, <3>2 DEF UnwindInv, UnwindsInOrder, GenerationOffFirst
  <2> QED
    BY <2>3, <2>4
<1>10. CASE Redraw \/ ForLoop
  <2>1. UNCHANGED <<prog, swapchain, generating>> /\ phase = "loop"
    BY <1>10 DEF Redraw, ForLoop, objectVars
  <2>2. Windowed \cap Headless = {}
    BY DEF Windowed, Headless
  <2>3. CASE Redraw
    <3>1. ~closing /\ phase' \in {"loop", "frame"}
      BY <2>3 DEF Redraw, NewFrame
    <3> QED
      BY <1>1, <2>1, <3>1 DEF UnwindInv, UnwindsInOrder, GenerationOffFirst
  <2>4. CASE ForLoop
    <3>1. prog \in Headless /\ phase' = "frame"
      BY <2>4 DEF ForLoop, NewFrame
    <3> QED
      BY <1>1, <2>1, <2>2, <3>1 DEF UnwindInv, UnwindsInOrder, GenerationOffFirst
  <2> QED
    BY <1>10, <2>3, <2>4
<1>11. CASE StartStreamline
  <2>1. phase = "start" /\ phase' \in {"loop", "gone"} /\ UNCHANGED <<swapchain, generating>>
    BY <1>11 DEF StartStreamline
  <2>2. held = <<>>
    BY <2>1 DEF OwnerInv
  <2>3. ~generating
    BY <1>2, <2>2 DEF ToSet
  <2> QED
    BY <1>1, <2>1, <2>3 DEF UnwindInv, UnwindsInOrder, GenerationOffFirst
<1>12. CASE EndOfProgram
  <2>1. held = <<>> /\ phase' = "gone" /\ generating' = generating
    BY <1>12 DEF EndOfProgram, objectVars
  <2>2. ~generating'
    BY <1>2, <2>1 DEF ToSet
  <2> QED
    BY <2>1, <2>2 DEF UnwindInv, UnwindsInOrder, GenerationOffFirst
<1>13. CASE EndOfFrame \/ Leave \/ CloseRequested \/ SystemRedraw
  <2>1. /\ UNCHANGED <<swapchain, generating>>
        /\ prog' = prog
        /\ \/ phase = "frame" /\ phase' = "loop"
           \/ phase = "loop" /\ phase' = "leave"
           \/ phase = "loop" /\ phase' = "loop" /\ (closing => closing')
    BY <1>13 DEF EndOfFrame, Leave, CloseRequested, SystemRedraw, objectVars, runVars
  <2> QED
    BY <1>1, <2>1 DEF UnwindInv, UnwindsInOrder, GenerationOffFirst
<1>14. CASE AnyClient
  BY <1>14, <1>1 DEF AnyClient, programVars, runVars, objectVars, loopVars, UnwindInv,
                     UnwindsInOrder, GenerationOffFirst, SurfaceOutlives
<1> QED
  BY <1>3, <1>4, <1>5, <1>6, <1>7, <1>8, <1>9, <1>10, <1>11, <1>12, <1>13, <1>14, Zenon
     DEF ProgramNext, ProgramStep, NewStep, OperationStep

\* A program whose bring-up fails, in an expect or with an error, turns generation off
\* before it destroys the swapchain, whatever it had made: of the orders in which a
\* program can drop what it owns, only the declared fields of one that ran break the
\* rule of README.md:212-216.
THEOREM BringUpUnwinds == ProgramSpec => []UnwindsInOrder
<1>1. ProgramInit => UnwindInv
  BY DEF ProgramInit, UnwindInv, UnwindsInOrder, GenerationOffFirst
<1>2. ProgramInv /\ UnwindInv /\ [ProgramNext]_allVars => UnwindInv'
  <2>1. UNCHANGED allVars
          => UNCHANGED <<prog, phase, failed, closing, held, generating, swapchain>>
    BY DEF allVars, programVars, runVars, objectVars, loopVars
  <2>2. ProgramInv /\ UnwindInv /\ UNCHANGED allVars => UnwindInv'
    BY <2>1 DEF UnwindInv, UnwindsInOrder, GenerationOffFirst, SurfaceOutlives
  <2> QED
    BY <2>2, UnwindNext
<1>3. UnwindInv => UnwindsInOrder
  BY DEF UnwindInv
<1> QED
  BY <1>1, <1>2, <1>3, ProgramInvariant, PTL DEF ProgramSpec
-----------------------------------------------------------------------------
(* What keeps a program going *)

\* Event loops stall when the one request for the next frame is lost: while a windowed
\* program has not been told to exit, its next frame is asked for, or it has given one up
\* for an unavailable surface.  And no program is over with something it still owns, or
\* owes Streamline.
NextIsAskedFor ==
  /\ phase = "loop" /\ prog \in Windowed /\ ~closing /\ HasGpu => redraw \/ waiting
  /\ phase = "gone" => held = <<>> /\ owner = "none"

\* A frame that runs has asked for the next one, will ask, or ends the loop.
Awaited == redraw \/ waiting \/ failed \/ Ahead("request_redraw")

AskInv ==
  /\ phase = "frame" /\ prog \in Windowed => Awaited
  /\ phase = "loop" /\ prog \in Windowed /\ ~closing /\ HasGpu => redraw \/ waiting
  /\ phase = "gone" => held = <<>>

\* What is not to be run now is still to come.
LEMMA StillAhead ==
  ASSUME ShapeInv, NEW name, Ahead(name), Continue, at \in 1..Len(script),
         script[at].op # name
  PROVE  Ahead(name)'
<1>1. script' = script /\ at' = at + 1
  BY DEF Continue
<1>2. PICK i \in at..Len(script) : script[i].op = name
  BY DEF Ahead
<1>3. Len(script) \in Nat /\ i # at
  BY <1>2 DEF ShapeInv
<1>4. i \in (at + 1)..Len(script)
  BY <1>2, <1>3
<1> QED
  BY <1>1, <1>2, <1>4 DEF Ahead

\* No operation of a frame loses the request.
LEMMA AwaitedNext ==
  ASSUME ShapeInv, OperationStep, Awaited
  PROVE  Awaited'
<1>1. CASE failed'
  BY <1>1 DEF Awaited
<1>2. CASE RequestRedraw
  BY <1>2 DEF RequestRedraw, Awaited
<1>3. ASSUME ~failed', Continue, ~RequestRedraw, UNCHANGED <<redraw, waiting>>
      PROVE  Awaited'
  <2>1. failed' = failed /\ at \in 1..Len(script)
    BY <1>3, OperationSteps DEF Continue
  <2>2. script[at].op # "request_redraw"
    <3>1. "request_redraw" # "draw" /\ "request_redraw" # "submit"
          /\ "request_redraw" # "upscale" /\ "request_redraw" # "poll"
          /\ "request_redraw" # "begin_frame" /\ "request_redraw" # "set_constants"
          /\ "request_redraw" # "acquire" /\ "request_redraw" # "tag"
          /\ "request_redraw" # "end_render" /\ "request_redraw" # "present"
          /\ "request_redraw" # "drop_frame" /\ "request_redraw" # "drop_texture"
      OBVIOUS
    <3>2. DrawCommands \/ Submit \/ UpscaleImage \/ Poll => ~At("request_redraw")
      BY <3>1, Zenon DEF DrawCommands, Submit, UpscaleImage, Poll, At
    <3>3. BeginsFrame \/ SetsConstants \/ Acquires \/ Tags => ~At("request_redraw")
      BY <3>1, Zenon DEF BeginsFrame, SetsConstants, Acquires, Tags, At
    <3>4. EndsRender \/ Presents \/ Drops => ~At("request_redraw")
      BY <3>1, Zenon DEF EndsRender, Presents, Drops, At
    <3>5. ~At("request_redraw")
      BY <1>3, <3>2, <3>3, <3>4 DEF OperationStep
    <3> QED
      BY <2>1, <3>5, OperationSteps DEF At, Over, ShapeInv
  <2>3. Ahead("request_redraw") => Ahead("request_redraw")'
    BY <1>3, <2>1, <2>2, StillAhead
  <2> QED
    BY <1>3, <2>1, <2>3 DEF Awaited
<1>4. CASE ~failed' /\ ~RequestRedraw /\ ~Acquires
  <2>1. UNCHANGED <<redraw, waiting>>
    <3>1. DrawCommands \/ Submit \/ UpscaleImage \/ Poll => UNCHANGED <<redraw, waiting>>
      BY DEF DrawCommands, Submit, UpscaleImage, Poll, loopVars
    <3>2. BeginsFrame \/ SetsConstants \/ Tags \/ EndsRender \/ Presents \/ Drops
            => UNCHANGED <<redraw, waiting>>
      BY DEF BeginsFrame, SetsConstants, Tags, EndsRender, Presents, Drops, loopVars
    <3> QED
      BY <1>4, <3>1, <3>2 DEF OperationStep
  <2>2. Continue
    BY <1>4, GoesOn
  <2> QED
    BY <1>3, <1>4, <2>1, <2>2
<1>5. CASE ~failed' /\ Acquires
  <2>1. /\ redraw' = redraw
        /\ (Continue /\ waiting' = waiting) \/ GiveUp \/ waiting' = TRUE
    BY <1>5, Zenon DEF Acquires
  <2>2. ~GiveUp
    BY <1>5, GiveUpIs
  <2>3. CASE waiting' = TRUE
    BY <2>3 DEF Awaited
  <2>4. CASE Continue /\ waiting' = waiting
    BY <1>2, <1>3, <1>5, <2>1, <2>4
  <2> QED
    BY <2>1, <2>2, <2>3, <2>4
<1> QED
  BY <1>1, <1>2, <1>4, <1>5

\* A windowed frame that is called asks for the next one at its end.
LEMMA FrameAsks ==
  ASSUME prog \in Windowed, number \in Nat, NewFrame
  PROVE  Ahead("request_redraw")'
<1>1. script' = FrameScript(number) /\ at' = 1
  BY Zenon DEF NewFrame, Call
<1>2. CASE prog = "frame_generation"
  <2>1. Lists(script', 10) /\ script'[10] = Do("request_redraw")
    BY <1>1, <1>2, FrameGenerationScript
  <2>2. Len(script') = 10 /\ script'[10].op = "request_redraw"
    BY <2>1, HasLength, OperationsAre
  <2> QED
    BY <1>1, <2>2 DEF Ahead
<1>3. CASE prog = "sr_plus_fg"
  <2>1. Lists(script', 15) /\ script'[15] = Do("request_redraw")
    BY <1>1, <1>3, SrPlusFgScript
  <2>2. Len(script') = 15 /\ script'[15].op = "request_redraw"
    BY <2>1, HasLength, OperationsAre
  <2> QED
    BY <1>1, <2>2 DEF Ahead
<1> QED
  BY <1>2, <1>3 DEF Windowed

\* Every step keeps the request for the next frame.
LEMMA AskNext ==
  ASSUME ProgramInv, AskInv, ProgramNext
  PROVE  AskInv'
<1> USE DEF ProgramInv
<1>1. prog' = prog /\ Windowed \cap Headless = {}
  BY SameProgram DEF Windowed, Headless
<1>2. /\ phase' \in {"new", "leave"} => AskInv'
      /\ phase' = "gone" /\ held' = <<>> => AskInv'
      /\ phase' = "loop" /\ (closing' \/ redraw' \/ ~HasGpu' \/ prog \in Headless) => AskInv'
  BY <1>1 DEF AskInv
<1>3. CASE NewStep
  <2>1. /\ Continue /\ at \in 1..Len(script) /\ script[at].op \in BringUpOps
        /\ phase = "new" \/ phase = "frame"
    BY <1>3, NewSteps
  <2>2. CASE phase = "new"
    BY <1>2, <2>1, <2>2 DEF Continue
  <2>3. CASE phase = "frame"
    <3>1. UNCHANGED <<phase, failed, redraw, waiting>>
      BY <1>3, <2>1 DEF NewStep, MakeObject, MakeUpscaler, MakeFrameGeneration, Configure,
                        MakeTextures, loopVars, Continue
    <3>2. script[at].op # "request_redraw"
      BY <2>1 DEF BringUpOps, Objects
    <3>3. Ahead("request_redraw") => Ahead("request_redraw")'
      BY <2>1, <3>2, StillAhead
    <3> QED
      BY <1>1, <2>3, <3>1, <3>3 DEF AskInv, Awaited
  <2> QED
    BY <2>1, <2>2, <2>3
<1>4. CASE OperationStep
  <2>1. phase = "frame" /\ (Continue \/ GiveUp \/ Unavailable)
    BY <1>4, OperationSteps
  <2>2. phase' = "frame"
    BY <2>1, GiveUpIs DEF Continue, Unavailable
  <2>3. prog \in Windowed => Awaited'
    BY <1>4, <2>1, AwaitedNext DEF AskInv
  <2> QED
    BY <1>1, <2>2, <2>3 DEF AskInv
<1>5. CASE StartStreamline
  <2>1. \/ phase' = "gone" /\ held' = held
        \/ phase' = "loop" /\ held' = <<"handle">>
    BY <1>5 DEF StartStreamline, Outside
  <2>2. held = <<>>
    BY <1>5 DEF StartStreamline, OwnerInv
  <2>3. held' = <<"handle">> => ~HasGpu'
    BY HandleIs DEF HasGpu
  <2> QED
    BY <1>2, <2>1, <2>2, <2>3
<1>6. CASE StartRun \/ Resumed \/ BringUpFails \/ Leave \/ DropObject
  <2>1. phase' \in {"new", "leave"}
    BY <1>6 DEF StartRun, Resumed, BringUpFails, Leave, DropObject, runVars
  <2> QED
    BY <1>2, <2>1
<1>7. CASE EndOfProgram
  BY <1>2, <1>7 DEF EndOfProgram, objectVars
<1>8. CASE EndOfBringUp
  <2>1. /\ failed => held = Outside
        /\ phase' = IF failed /\ prog \in Headless THEN "gone" ELSE "loop"
        /\ held' = IF failed \/ prog \in Headless THEN held ELSE Fields
        /\ closing' = (failed /\ prog \in Windowed)
        /\ redraw' = (~failed /\ prog \in Windowed)
        /\ phase = "new"
    BY <1>8 DEF EndOfBringUp
  <2>2. prog \in Windowed \cup Headless
    BY <2>1 DEF ShapeInv
  <2>3. CASE failed /\ prog \in Headless
    BY <1>1, <1>2, <2>1, <2>3 DEF Outside
  <2>4. CASE ~(failed /\ prog \in Headless)
    <3>1. closing' \/ redraw' \/ prog \in Headless
      BY <2>1, <2>2, <2>4, Zenon
    <3> QED
      BY <1>2, <2>1, <2>4, <3>1
  <2> QED
    BY <2>3, <2>4
<1>9. CASE Redraw
  <2>1. CASE number >= MaxFrames
    <3>1. phase' = "loop" /\ closing'
      BY <1>9, <2>1 DEF Redraw
    <3> QED
      BY <1>2, <3>1
  <2>2. CASE ~(number >= MaxFrames)
    <3>1. NewFrame
      BY <1>9, <2>2 DEF Redraw
    <3>2. phase' = "frame"
      BY <3>1 DEF NewFrame
    <3>3. Ahead("request_redraw")'
      BY <1>9, <3>1, FrameAsks DEF Redraw, ShapeInv
    <3> QED
      BY <3>2, <3>3 DEF AskInv, Awaited
  <2> QED
    BY <2>1, <2>2
<1>10. CASE ForLoop
  <2>1. prog \in Headless /\ phase' = "frame"
    BY <1>10 DEF ForLoop, NewFrame
  <2> QED
    BY <1>1, <2>1 DEF AskInv
<1>11. CASE EndOfFrame
  <2>1. /\ phase = "frame" /\ Over /\ phase' = "loop"
        /\ closing' = (failed /\ prog \in Windowed)
        /\ UNCHANGED <<redraw, waiting>>
    BY <1>11 DEF EndOfFrame
  <2>2. prog \in Windowed => redraw \/ waiting \/ failed
    BY <2>1, NothingAhead DEF AskInv, Awaited
  <2>3. prog \in Windowed => redraw' \/ waiting' \/ closing'
    BY <2>1, <2>2, Zenon
  <2> QED
    BY <1>1, <2>1, <2>3 DEF AskInv
<1>12. CASE CloseRequested \/ SystemRedraw
  <2>1. phase' = "loop" /\ (closing' \/ redraw')
    BY <1>12 DEF CloseRequested, SystemRedraw, runVars
  <2> QED
    BY <1>2, <2>1
<1>13. CASE AnyClient
  BY <1>13 DEF AnyClient, programVars, runVars, objectVars, loopVars, AskInv, Awaited, Ahead,
               HasGpu
<1> QED
  BY <1>3, <1>4, <1>5, <1>6, <1>7, <1>8, <1>9, <1>10, <1>11, <1>12, <1>13, Zenon
     DEF ProgramNext, ProgramStep, NewStep, OperationStep

\* An event loop that goes on has its next frame asked for, unless a frame was given up for
\* an unavailable surface, and a program that is over owns nothing and owes no slShutdown:
\* what ProgramEnds needs but that the steps are taken.
THEOREM NextFrameIsAskedFor == ProgramSpec => []NextIsAskedFor
<1>1. ProgramInit => AskInv
  BY DEF ProgramInit, AskInv
<1>2. ProgramInv /\ AskInv /\ [ProgramNext]_allVars => AskInv'
  <2>1. UNCHANGED allVars
          => UNCHANGED <<prog, phase, script, at, failed, held, redraw, closing, waiting>>
    BY DEF allVars, programVars, runVars, objectVars, loopVars
  <2>2. ProgramInv /\ AskInv /\ UNCHANGED allVars => AskInv'
    BY <2>1 DEF AskInv, Awaited, Ahead, HasGpu
  <2> QED
    BY <2>2, AskNext
<1>3. ProgramInv /\ AskInv => NextIsAskedFor
  <2>1. held = <<>> => ToSet(held) = {}
    BY DEF ToSet
  <2>2. ProgramInv /\ held = <<>> => owner = "none"
    BY <2>1 DEF ProgramInv, OwnerInv
  <2> QED
    BY <2>2 DEF AskInv, NextIsAskedFor
<1> QED
  BY <1>1, <1>2, <1>3, ProgramInvariant, PTL DEF ProgramSpec
=============================================================================
