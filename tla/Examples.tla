------------------------------ MODULE Examples ------------------------------
(***************************************************************************)
(* The programs of examples/: two that drive DLSS Frame Generation over a  *)
(* window's swapchain, and four headless ones that drive an upscaler.      *)
(*                                                                         *)
(* A function of a program is the sequence of its operations; a machine    *)
(* runs them one at a time and says what each does, how it may fail, and   *)
(* what the function drops when it returns early.  The operations on a     *)
(* Frame are FgFrame's actions.  With prog = "any client", FgFrame's own   *)
(* client runs instead, which calls a Frame's methods in any order.        *)
(***************************************************************************)
EXTENDS FgFrame

CONSTANTS
  Programs,  \* bound: the programs that are run
  Ranges     \* NGX's answers for a context, [min, optimal, max], along an axis

Windowed == {"frame_generation", "sr_plus_fg"}
Headless == {"super_resolution", "dynamic_resolution", "ray_reconstruction", "sr_rr_toggle"}
Features == {"sr", "rr"}

ASSUME ExamplesAssumption ==
  /\ Programs \subseteq Windowed \cup Headless \cup {"any client"}
  /\ Ranges # {}
  /\ \A r \in Ranges :
       /\ DOMAIN r = {"min", "optimal", "max"}
       /\ \A k \in DOMAIN r : r[k] \in Nat \ {0}
       /\ r.min <= r.optimal /\ r.optimal <= r.max

VARIABLES
  prog,        \* the program
  phase,       \* "start" | "new" | "loop" | "frame" | "leave" | "gone"
  script,      \* the operations of the function that is running
  at,          \* the one it is at
  failed,      \* that function returns an error, or unwinds
  held,        \* the objects the program owns, in the order in which they would drop
  owner,       \* who owes the slShutdown: "none" | "handle" | "fg"
  factory,     \* the wgpu Instance's: "none" yet | "stock": nobody was asked | "proxy"
               \* of Streamline | "declined": Streamline was asked and left it as it was
  generating,  \* DLSS-G is on
  swapchain,   \* "none" | "bound" or "unbound" to Streamline | "destroyed"
  redraw,      \* a RedrawRequested is pending
  closing,     \* the event loop was told to exit
  waiting,     \* a frame was given up for an unavailable surface, and no redraw asked for
  number,      \* frames begun; a frame's own index is one less
  range,       \* feature -> NGX's answer for its context
  sizes,       \* feature -> the size its inputs were made with
  subrect,     \* what the last evaluate was told to read: [feature, size]
  history,     \* the feature that evaluated last, or "none"
  current,     \* the textures whose content is of this frame
  pending,     \* texture -> the textures whose content will be in it once what is
               \* recorded is submitted; none for a render of the scene
  stale        \* something evaluated or presented was not of its frame, or a
               \* history that was taken up not of the frame before

runVars == <<prog, phase, script, at, failed>>
objectVars == <<held, owner, factory, generating, swapchain>>
loopVars == <<redraw, closing, waiting, number>>
ngxVars == <<range, sizes, subrect, history>>
imageVars == <<current, pending, stale>>
programVars == <<runVars, objectVars, loopVars, ngxVars, imageVars>>
allVars == <<vars, programVars>>

index0 == number - 1

ProgramInit ==
  /\ Init
  /\ prog \in Programs /\ phase = "start" /\ script = <<>> /\ at = 1 /\ failed = FALSE
  /\ held = <<>> /\ owner = "none" /\ factory = "none" /\ generating = FALSE
  /\ swapchain = "none"
  /\ redraw = FALSE /\ closing = FALSE /\ waiting = FALSE /\ number = 0
  /\ range = <<>> /\ sizes = <<>> /\ subrect = [feature |-> "none", size |-> 0]
  /\ history = "none"
  /\ current = {} /\ pending = <<>> /\ stale = FALSE

-----------------------------------------------------------------------------
(* Operations *)

Do(name) == [op |-> name]

DoAll(names) == [i \in DOMAIN names |-> Do(names[i])]

\* A render pass or a copy that writes the scene, or what is in other textures.
Draw(into, from) == [op |-> "draw", into |-> into, from |-> from]

\* A render of an upscaler context, with partial_texture_size given.
Upscale(feature, inputs, into, reset, size) ==
  [op |-> "upscale", feature |-> feature, inputs |-> inputs, into |-> into,
   reset |-> reset, size |-> size]

-----------------------------------------------------------------------------
(* examples/frame_generation.rs *)

\* Mutant: the surface is configured before the context is made.
FrameGenerationNew_ConfiguresFirst ==
  <<"window", "instance", "surface", "device", "configure", "fg", "textures">>

\* GpuState::new, to the configured surface.
FrameGenerationNew ==
  <<"window", "instance", "surface", "device", "fg", "configure", "textures">>

\* The textures it makes, with the pipelines that draw into them.
FrameGenerationTextures == {"backbuffer", "depth", "motion_vectors", "hudless", "ui"}

\* Mutant: begin_frame comes after the acquire.
FrameGenerationBegin_Swapped ==
  DoAll(<<"begin_frame", "acquire", "set_constants">>)

\* render, to the acquired back buffer.
FrameGenerationBegin == DoAll(<<"begin_frame", "set_constants", "acquire">>)

\* The bar is drawn into the back buffer and the HUD-less color, the rest is cleared.
FrameGenerationDraws ==
  <<Draw({"backbuffer", "depth", "motion_vectors", "hudless", "ui"}, {})>>

\* Mutant: a frame does not ask for the next one.
FrameGenerationEnd_NoRedraw ==
  DoAll(<<"tag", "submit", "end_render", "present", "drop_frame">>)

\* The tags, to the request for the next frame.  query_state changes nothing.
FrameGenerationEnd ==
  DoAll(<<"tag", "submit", "end_render", "present", "drop_frame", "request_redraw">>)

\* The fields of its GpuState, after App's streamline, in the order they drop.
FrameGenerationFields == <<"handle", "window", "instance", "surface", "device", "fg">>

-----------------------------------------------------------------------------
(* examples/sr_plus_fg.rs *)

\* Mutant: the surface is made when it is needed, after the context.
SrPlusFgNew_SurfaceLate ==
  <<"window", "instance", "device", "fg", "surface", "configure", "sdk", "sr", "textures">>

\* GpuState::new, to the configured surface, and the upscaler's objects.
SrPlusFgNew ==
  <<"window", "instance", "surface", "device", "fg", "configure", "sdk", "sr", "textures">>

SrPlusFgTextures ==
  {"backbuffer", "color", "depth", "motion_vectors", "output", "hudless", "ui"}

\* Mutant: the inputs are submitted with the rest of the frame.
SrPlusFgUpscales_SubmitsLate(n) ==
  <<Draw({"color", "depth", "motion_vectors"}, {}),
    Upscale("sr", {"color", "depth", "motion_vectors"}, "output", n = 0, range.sr.optimal)>>

\* render, to the evaluated Super Resolution.
SrPlusFgUpscales(n) ==
  <<Draw({"color", "depth", "motion_vectors"}, {}),
    Do("submit"),
    Upscale("sr", {"color", "depth", "motion_vectors"}, "output", n = 0, range.sr.optimal)>>

\* The Frame begins, and its image is blitted from the output and copied.
SrPlusFgDraws ==
  DoAll(<<"begin_frame", "set_constants", "acquire">>) \o
  <<Draw({"hudless"}, {"output"}), Draw({"ui"}, {}), Draw({"backbuffer"}, {"hudless"})>>

SrPlusFgEnd ==
  DoAll(<<"tag", "submit", "end_render", "present", "drop_frame", "request_redraw">>)

SrPlusFgFields == <<"handle", "window", "instance", "surface", "device", "sr", "fg">>

-----------------------------------------------------------------------------
(* The headless examples *)

SrInputs == {"color", "depth", "motion_vectors"}
RrInputs == {"color", "diffuse_albedo", "specular_albedo", "normals", "roughness",
             "depth", "motion_vectors"}

\* run of super_resolution.rs, with or without DLAA, to its loop.
SuperResolutionRun == <<"instance", "vendor", "device", "sdk", "sr", "textures">>

SuperResolutionFrame(n) ==
  <<Draw(SrInputs, {}), Do("submit"),
    Upscale("sr", SrInputs, "output", n = 0, range.sr.optimal), Do("poll")>>

DynamicResolutionRun == <<"instance", "vendor", "device", "sdk", "sr", "textures">>

\* lo + (hi - lo) * part / whole, to the nearest integer.
LerpRounded(lo, hi, part, whole) == lo + (2 * (hi - lo) * part + whole) \div (2 * whole)

\* lerp_resolution clamps to the two ends.
Lerp(lo, hi, part, whole) ==
  LET value == LerpRounded(lo, hi, part, whole)
  IN IF value < lo THEN lo ELSE IF value > hi THEN hi ELSE value

FRAME_COUNT == [super_resolution |-> 8, dynamic_resolution |-> 16,
                ray_reconstruction |-> 8, sr_rr_toggle |-> 16]

\* The triangle wave, in parts of FRAME_COUNT - 1.
Triangle(n) ==
  LET last == FRAME_COUNT["dynamic_resolution"] - 1
  IN IF 2 * n <= last THEN 2 * n ELSE 2 * (last - n)

DynamicResolutionFrame(n) ==
  <<Draw(SrInputs, {}), Do("submit"),
    Upscale("sr", SrInputs, "output", n = 0,
            Lerp(range.sr.min, range.sr.max, Triangle(n),
                 FRAME_COUNT["dynamic_resolution"] - 1)),
    Do("poll")>>

RayReconstructionRun == <<"instance", "vendor", "device", "sdk", "rr", "textures">>

RayReconstructionFrame(n) ==
  <<Draw(RrInputs, {}), Do("submit"),
    Upscale("rr", RrInputs, "output", n = 0, range.rr.optimal), Do("poll")>>

ToggleRun == <<"instance", "vendor", "device", "sdk", "sr", "rr", "textures">>

FRAMES_PER_PHASE == 8

\* The textures of a feature, by the name of its set.
Own(feature, textures) == {<<feature, t>> : t \in textures}

\* Mutant: one frame count for both phases.
ToggleFrame_OneCount(n) ==
  IF n < FRAMES_PER_PHASE
  THEN <<Draw(Own("sr", SrInputs), {}), Do("submit"),
         Upscale("sr", Own("sr", SrInputs), <<"sr", "output">>, n = 0, range.sr.optimal),
         Do("poll")>>
  ELSE <<Draw(Own("rr", RrInputs), {}), Do("submit"),
         Upscale("rr", Own("rr", RrInputs), <<"rr", "output">>, n = 0, range.rr.optimal),
         Do("poll")>>

\* One feature per pass; each phase counts its own frames.
ToggleFrame(n) ==
  LET feature == IF n < FRAMES_PER_PHASE THEN "sr" ELSE "rr"
      phase_frame == IF n < FRAMES_PER_PHASE THEN n ELSE n - FRAMES_PER_PHASE
      inputs == Own(feature, IF feature = "sr" THEN SrInputs ELSE RrInputs)
  IN <<Draw(inputs, {}), Do("submit"),
       Upscale(feature, inputs, <<feature, "output">>, phase_frame = 0,
               range[feature].optimal),
       Do("poll")>>
-----------------------------------------------------------------------------
(* What runs for each program *)

BringUp ==
  CASE prog = "frame_generation" -> FrameGenerationNew
    [] prog = "sr_plus_fg" -> SrPlusFgNew
    [] prog = "super_resolution" -> SuperResolutionRun
    [] prog = "dynamic_resolution" -> DynamicResolutionRun
    [] prog = "ray_reconstruction" -> RayReconstructionRun
    [] prog = "sr_rr_toggle" -> ToggleRun

Textures ==
  CASE prog = "frame_generation" -> FrameGenerationTextures
    [] prog = "sr_plus_fg" -> SrPlusFgTextures
    [] prog \in {"super_resolution", "dynamic_resolution"} -> SrInputs \cup {"output"}
    [] prog = "ray_reconstruction" -> RrInputs \cup {"output"}
    [] prog = "sr_rr_toggle" ->
         Own("sr", SrInputs \cup {"output"}) \cup Own("rr", RrInputs \cup {"output"})

FrameScript(n) ==
  CASE prog = "frame_generation" ->
         FrameGenerationBegin \o FrameGenerationDraws \o FrameGenerationEnd
    [] prog = "sr_plus_fg" -> SrPlusFgUpscales(n) \o SrPlusFgDraws \o SrPlusFgEnd
    [] prog = "super_resolution" -> SuperResolutionFrame(n)
    [] prog = "dynamic_resolution" -> DynamicResolutionFrame(n)
    [] prog = "ray_reconstruction" -> RayReconstructionFrame(n)
    [] prog = "sr_rr_toggle" -> ToggleFrame(n)

Fields ==
  IF prog = "frame_generation" THEN FrameGenerationFields ELSE SrPlusFgFields

\* What main owns when it brings the rest up: App's streamline.
Outside == IF prog \in Windowed THEN <<"handle">> ELSE <<>>

\* The application has a GpuState.
HasGpu == "window" \in ToSet(held)

frames == <<frameVars, surfaceVars, historyVars>>

Over == at > Len(script)

At(name) == phase \in {"new", "frame"} /\ ~Over /\ script[at].op = name

Continue == at' = at + 1 /\ UNCHANGED <<prog, phase, script, failed>>

\* A function is called, or cut short to what it still drops.
Call(operations) == script' = operations /\ at' = 1

-----------------------------------------------------------------------------
(* Bring-up *)

\* main of a windowed program: Streamline::init, or exit(1).
StartStreamline ==
  /\ phase = "start" /\ prog \in Windowed
  /\ \/ phase' = "loop" /\ owner' = "handle" /\ held' = Outside
     \/ phase' = "gone" /\ UNCHANGED <<owner, held>>
  /\ UNCHANGED <<frames, prog, script, at, failed, factory, generating, swapchain,
                 loopVars, ngxVars, imageVars>>

\* main of a headless program: run.
StartRun ==
  /\ phase = "start" /\ prog \in Headless
  /\ phase' = "new" /\ Call(DoAll(BringUp))
  /\ UNCHANGED <<frames, prog, failed, objectVars, loopVars, ngxVars, imageVars>>

\* App::resumed, as long as there is no GpuState.
Resumed ==
  /\ phase = "loop" /\ prog \in Windowed /\ ~closing /\ ~HasGpu
  /\ phase' = "new" /\ Call(DoAll(BringUp))
  /\ UNCHANGED <<frames, prog, failed, objectVars, loopVars, ngxVars, imageVars>>

\* An expect panics, or an error is returned.
BringUpFails ==
  /\ \E name \in {"window", "surface", "vendor", "device", "sdk", "sr", "rr", "fg"} : At(name)
  /\ phase = "new" /\ ~failed
  /\ failed' = TRUE /\ Call(<<>>)
  /\ UNCHANGED <<frames, prog, phase, objectVars, loopVars, ngxVars, imageVars>>

\* What wgpu's patch makes of a new factory.  Without the interposer it does nothing;
\* the interposer is loaded as long as somebody owes a slShutdown, and then it is asked
\* for a proxy.  It may lack the symbol, refuse, or return null or the same pointer:
\* the patch logs it and keeps the factory.
Upgraded == IF owner = "none" THEN {"stock"} ELSE {"proxy", "declined"}

\* A local of the bring-up; an Instance comes with its factory.
MakeObject ==
  /\ \E name \in {"window", "instance", "surface", "vendor", "device", "sdk"} :
       /\ At(name)
       /\ held' = IF name \in {"vendor", "sdk"} THEN held ELSE <<name>> \o held
       /\ IF name = "instance" THEN factory' \in Upgraded ELSE UNCHANGED factory
  /\ Continue
  /\ UNCHANGED <<frames, owner, generating, swapchain, loopVars, ngxVars, imageVars>>

\* NGX's answers, with the one for a new context.
WithAnswer(feature, answer) ==
  [f \in DOMAIN range \cup {feature} |-> IF f = feature THEN answer ELSE range[f]]

\* The new of an upscaler's context takes the SDK's last clone and asks NGX.
MakeUpscaler ==
  /\ \E feature \in Features, answer \in Ranges :
       /\ At(feature)
       /\ held' = <<feature>> \o held
       /\ range' = WithAnswer(feature, answer)
  /\ Continue
  /\ UNCHANGED <<frames, owner, factory, generating, swapchain, loopVars, sizes, subrect,
                 history, imageVars>>

\* FrameGenerationContext::new with options that are enabled takes the handle's
\* duty to shut down.
MakeFrameGeneration ==
  /\ At("fg")
  /\ held' = <<"fg">> \o held /\ owner' = "fg" /\ generating' = TRUE
  /\ Continue
  /\ UNCHANGED <<frames, factory, swapchain, loopVars, ngxVars, imageVars>>

\* The first surface.configure creates the swapchain, which DLSS-G finds when the
\* factory is a proxy and the device was registered before.
Configure ==
  /\ At("configure")
  /\ swapchain' = IF factory = "proxy" /\ owner = "fg" THEN "bound" ELSE "unbound"
  /\ Continue
  /\ UNCHANGED <<frames, held, owner, factory, generating, loopVars, ngxVars, imageVars>>

\* Mutant: all inputs are made with the recommended size.
Allocated_Optimal(feature) == range[feature].optimal

\* The size the inputs of a feature are made with.
Allocated(feature) ==
  IF prog = "dynamic_resolution" THEN range[feature].max ELSE range[feature].optimal

MakeTextures ==
  /\ At("textures")
  /\ sizes' = [f \in DOMAIN range |-> Allocated(f)]
  /\ Continue
  /\ UNCHANGED <<frames, objectVars, loopVars, range, subrect, history, imageVars>>

\* new is over.  A GpuState drops as its fields are declared; a window that was just
\* shown is painted.
EndOfBringUp ==
  /\ phase = "new" /\ Over
  /\ failed => held = Outside
  /\ phase' = IF failed /\ prog \in Headless THEN "gone" ELSE "loop"
  /\ held' = IF failed \/ prog \in Headless THEN held ELSE Fields
  /\ closing' = (failed /\ prog \in Windowed)
  /\ redraw' = (~failed /\ prog \in Windowed)
  /\ UNCHANGED <<frames, prog, script, at, failed, owner, factory, generating, swapchain,
                 waiting, number, ngxVars, imageVars>>

-----------------------------------------------------------------------------
(* The loop *)

\* The next frame: none of its textures is drawn yet, and nothing is recorded.
NewFrame ==
  /\ number' = number + 1
  /\ phase' = "frame" /\ Call(FrameScript(number))
  /\ current' = {} /\ pending' = [t \in Textures |-> {t}]
  /\ UNCHANGED stale

\* RedrawRequested: render, or, after the last frame, exit.
Redraw ==
  /\ phase = "loop" /\ prog \in Windowed /\ ~closing /\ redraw
  /\ redraw' = FALSE
  /\ IF number >= MaxFrames
     THEN closing' = TRUE /\ UNCHANGED <<phase, script, at, number, imageVars>>
     ELSE NewFrame /\ UNCHANGED closing
  /\ UNCHANGED <<frames, prog, failed, objectVars, waiting, ngxVars>>

CloseRequested ==
  /\ phase = "loop" /\ prog \in Windowed /\ ~closing
  /\ closing' = TRUE
  /\ UNCHANGED <<frames, runVars, objectVars, redraw, waiting, number, ngxVars, imageVars>>

\* The system wants the window painted, for a reason of its own.
SystemRedraw ==
  /\ phase = "loop" /\ ~closing /\ ~redraw /\ HasGpu
  /\ redraw' = TRUE /\ waiting' = FALSE
  /\ UNCHANGED <<frames, runVars, objectVars, closing, number, ngxVars, imageVars>>

\* The for loop of a headless program.
ForLoop ==
  /\ phase = "loop" /\ prog \in Headless /\ ~failed /\ number < FRAME_COUNT[prog]
  /\ NewFrame
  /\ UNCHANGED <<frames, prog, failed, objectVars, redraw, closing, waiting, ngxVars>>

\* render returns; an error ends the loop.
EndOfFrame ==
  /\ phase = "frame" /\ Over
  /\ phase' = "loop"
  /\ closing' = (failed /\ prog \in Windowed)
  /\ UNCHANGED <<frames, prog, script, at, failed, objectVars, redraw, waiting, number,
                 ngxVars, imageVars>>

\* The end of main, or of run.
Leave ==
  /\ phase = "loop"
  /\ \/ closing
     \/ prog \in Headless /\ (failed \/ number = FRAME_COUNT[prog])
  /\ phase' = "leave"
  /\ UNCHANGED <<frames, prog, script, at, failed, objectVars, loopVars, ngxVars, imageVars>>

\* The locals of a bring-up that failed drop, or all there is.  A context's drop turns
\* generation off and, like a handle that was not moved out of, shuts Streamline down;
\* the surface's drop destroys its swapchain.
DropObject ==
  /\ held # <<>>
  /\ \/ phase = "new" /\ failed /\ held # Outside
     \/ phase = "leave"
  /\ held' = Tail(held)
  /\ owner' = IF owner = Head(held) THEN "none" ELSE owner
  /\ generating' = (generating /\ Head(held) # "fg")
  /\ swapchain' = IF Head(held) = "surface" /\ swapchain # "none" THEN "destroyed"
                  ELSE swapchain
  /\ UNCHANGED <<frames, runVars, factory, loopVars, ngxVars, imageVars>>

EndOfProgram ==
  /\ phase = "leave" /\ held = <<>>
  /\ phase' = "gone"
  /\ UNCHANGED <<frames, prog, script, at, failed, objectVars, loopVars, ngxVars, imageVars>>

-----------------------------------------------------------------------------
(* The operations of a frame *)

\* The ? operator: what the frame has borrowed is dropped, and render returns.
GiveUp ==
  /\ failed' = TRUE
  /\ Call(DoAll((IF texture' THEN <<"drop_texture">> ELSE <<>>)
                \o (IF open' THEN <<"drop_frame">> ELSE <<>>)))
  /\ UNCHANGED <<prog, phase>>

DrawCommands ==
  /\ At("draw")
  /\ pending' = [t \in DOMAIN pending |->
                   IF t \in script[at].into THEN UNION {pending[u] : u \in script[at].from}
                   ELSE pending[t]]
  /\ Continue
  /\ UNCHANGED <<frames, objectVars, loopVars, ngxVars, current, stale>>

\* A texture is of this frame if all that is in it is.
Submit ==
  /\ At("submit")
  /\ current' = {t \in DOMAIN pending : pending[t] \subseteq current}
  /\ pending' = [t \in DOMAIN pending |-> {t}]
  /\ Continue
  /\ UNCHANGED <<frames, objectVars, loopVars, ngxVars, stale>>

\* render of an upscaler's context.
UpscaleImage ==
  /\ At("upscale")
  /\ UNCHANGED frames
  /\ \/ LET u == script[at]
        IN /\ subrect' = [feature |-> u.feature, size |-> u.size]
           /\ history' = u.feature
           /\ stale' = \/ stale
                       \/ ~(u.inputs \subseteq current)
                       \/ ~u.reset /\ history # u.feature
           /\ current' = current \cup {u.into}
           /\ Continue
     \/ /\ GiveUp
        /\ UNCHANGED <<subrect, history, stale, current>>
  /\ UNCHANGED <<objectVars, loopVars, range, sizes, pending>>

\* device.poll waits for the frame.
Poll ==
  /\ At("poll")
  /\ UNCHANGED frames
  /\ Continue \/ GiveUp
  /\ UNCHANGED <<objectVars, loopVars, ngxVars, imageVars>>

BeginsFrame ==
  /\ At("begin_frame")
  /\ \/ BeginFrame /\ Continue
     \/ BeginFrameFails /\ GiveUp
  /\ UNCHANGED <<objectVars, loopVars, ngxVars, imageVars>>

\* sr_plus_fg derives the reset flag from the upscaler's.
SetsConstants ==
  /\ At("set_constants")
  /\ SetConstants(prog = "sr_plus_fg" /\ index0 = 0)
  /\ IF constants' = "none" THEN GiveUp ELSE Continue
  /\ UNCHANGED <<objectVars, loopVars, ngxVars, imageVars>>

\* On an unavailable surface, the frame is given up without an error, and no
\* redraw is asked for.
Acquires ==
  /\ At("acquire")
  /\ Acquire
  /\ \/ /\ texture' /\ Continue
        /\ current' = current \ {"backbuffer"}
        /\ UNCHANGED waiting
     \/ /\ ~texture' /\ GiveUp
        /\ UNCHANGED <<waiting, current>>
     \/ /\ ~texture' /\ Call(DoAll(<<"configure", "drop_frame">>))
        /\ waiting' = TRUE
        /\ UNCHANGED <<prog, phase, failed, current>>
  /\ UNCHANGED <<objectVars, redraw, closing, number, ngxVars, pending, stale>>

Tags ==
  /\ At("tag")
  /\ \/ Tag /\ (Continue \/ GiveUp)
     \/ TagHasNoRawHandle /\ GiveUp
  /\ UNCHANGED <<objectVars, loopVars, ngxVars, imageVars>>

EndsRender ==
  /\ At("end_render") /\ EndRender /\ Continue
  /\ UNCHANGED <<objectVars, loopVars, ngxVars, imageVars>>

\* DLSS-G interpolates, at the present, from what was tagged.
Presents ==
  /\ At("present") /\ Present /\ Continue
  /\ stale' = (stale \/ ~(FrameGenerationTextures \subseteq current))
  /\ UNCHANGED <<objectVars, loopVars, ngxVars, current, pending>>

Drops ==
  /\ \/ At("drop_frame") /\ DropFrame
     \/ At("drop_texture") /\ DropTexture
  /\ Continue
  /\ UNCHANGED <<objectVars, loopVars, ngxVars, imageVars>>

RequestRedraw ==
  /\ At("request_redraw")
  /\ redraw' = TRUE
  /\ Continue
  /\ UNCHANGED <<frames, objectVars, closing, waiting, number, ngxVars, imageVars>>

-----------------------------------------------------------------------------
AnyClient == prog = "any client" /\ FrameStep /\ UNCHANGED programVars

\* What a program does of its own accord.
ProgramStep ==
  \/ StartStreamline \/ StartRun \/ Resumed
  \/ BringUpFails \/ MakeObject \/ MakeUpscaler \/ MakeFrameGeneration
  \/ Configure \/ MakeTextures \/ EndOfBringUp
  \/ Redraw \/ ForLoop \/ EndOfFrame \/ Leave \/ DropObject \/ EndOfProgram
  \/ DrawCommands \/ Submit \/ UpscaleImage \/ Poll
  \/ BeginsFrame \/ SetsConstants \/ Acquires \/ Tags \/ EndsRender \/ Presents
  \/ Drops \/ RequestRedraw

ProgramNext ==
  /\ ProgramStep \/ CloseRequested \/ SystemRedraw \/ AnyClient
  /\ UNCHANGED debug

\* The event loop delivers what is pending, and a function runs to its end; nobody
\* has to close the window, and the system need not paint it again.
ProgramSpec ==
  /\ ProgramInit /\ [][ProgramNext]_allVars
  /\ WF_allVars(ProgramStep /\ UNCHANGED debug)
-----------------------------------------------------------------------------
Objects == {"handle", "window", "instance", "surface", "device", "sr", "rr", "fg"}

ProgramTypeOK ==
  /\ TypeOK
  /\ prog \in Programs
  /\ phase \in {"start", "new", "loop", "frame", "leave", "gone"}
  /\ at \in 1..(Len(script) + 1)
  /\ failed \in BOOLEAN
  /\ held \in Seq(Objects) /\ IsInjective(held)
  /\ owner \in {"none"} \cup (ToSet(held) \cap {"handle", "fg"})
  /\ factory \in {"none", "stock", "proxy", "declined"}
  /\ generating \in BOOLEAN /\ (generating <=> "fg" \in ToSet(held))
  /\ swapchain \in {"none", "bound", "unbound", "destroyed"}
  /\ redraw \in BOOLEAN /\ closing \in BOOLEAN /\ waiting \in BOOLEAN /\ number \in Nat
  /\ DOMAIN range \subseteq Features /\ \A f \in DOMAIN range : range[f] \in Ranges
  /\ DOMAIN sizes \subseteq DOMAIN range /\ \A f \in DOMAIN sizes : sizes[f] \in Nat
  /\ subrect.feature \in {"none"} \cup Features /\ subrect.size \in Nat
  /\ history \in {"none"} \cup Features
  /\ \A t \in DOMAIN pending : pending[t] \subseteq Textures
  /\ prog = "any client" \/ current \subseteq Textures
  /\ stale \in BOOLEAN

\* The two windowed programs keep the proven sequence, whatever fails or is
\* unavailable on the way: no Frame of theirs is ever reported out of order.
ProgramsInOrder == prog # "any client" => ~misordered

\* frame_generation.rs:67-71: DLSS-G binds to a swapchain that a Streamline proxy of the
\* factory creates after the device's registration.  Neither the order of a bring-up nor
\* a failure in it is ever why a swapchain is not bound: that is only if Streamline, asked
\* to upgrade the factory, declined, which wgpu's patch logs and nothing else tells.
SwapchainBinds == swapchain = "unbound" => factory = "declined"

\* Nothing is evaluated, interpolated or presented that is not of its own frame:
\* what a pass wrote was submitted before whatever reads it.  And an evaluate takes
\* up the history of the frame before, of the same feature, or resets it
\* (sr_rr_toggle.rs:231-232).
NothingStale == ~stale

\* dynamic_resolution.rs:246-248: what an evaluate is told to read is within the
\* range NGX gave, and within the inputs as they were allocated.
SubrectsFit ==
  subrect.feature # "none" =>
    /\ range[subrect.feature].min <= subrect.size
    /\ subrect.size <= sizes[subrect.feature]

\* Every program comes to its end, with slInit answered by one slShutdown, or has
\* given up a frame for an unavailable surface and waits to be painted again.
ProgramEnds ==
  <>(prog = "any client" \/ waiting \/ (phase = "gone" /\ owner = "none"))

\* frame_gen.rs:814: "the caller cannot forget".  The first Frame that a windowed program
\* presents on a swapchain with DLSS-G carries the reset flag, as there is no presented
\* frame to reproject from: both programs leave it to the context (frame_generation.rs:529)
\* or ask for it with their own frame 0 alone (sr_plus_fg.rs:736, :748).
FirstPresentedResets == swapchain = "bound" => first # "plain"

\* README.md:212-216: generation is turned off before the swapchain is destroyed.
GenerationOffFirst == swapchain = "destroyed" => ~generating

\* The same but for a program that leaves, whose fields drop in the order of their
\* declaration: wherever a bring-up fails, what it had made drops in an order in which
\* generation is off before the swapchain is destroyed (sr_plus_fg.rs fails behind its
\* surface.configure, when there is no NGX or no context).
UnwindsInOrder == phase # "leave" => GenerationOffFirst
=============================================================================
