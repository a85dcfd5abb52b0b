------------------------------- MODULE FgFrame -------------------------------
(***************************************************************************)
(* The per-frame sequence of DLSS Frame Generation (src/streamline/        *)
(* frame_gen.rs): begin_frame hands out a Frame, whose methods the         *)
(* application may call in any order, any number of times, ignoring        *)
(* errors.  The Frame records its last step, reports a call that is out of *)
(* order (a debug build panics before the Streamline call, a release build *)
(* logs and makes it), forces the reset flag on frame 0 and binds the back *)
(* buffer index query to the acquire.                                      *)
(*                                                                         *)
(* The application numbers its frames by the begin_frame calls it makes    *)
(* and lets go of a Frame before it begins the next (begin_frame borrows   *)
(* the context mutably).                                                   *)
(***************************************************************************)
EXTENDS Naturals, Sequences, SequencesExt

CONSTANTS
  MaxFrames,  \* bound: calls of begin_frame
  MaxCalls    \* bound: method calls on one Frame

ASSUME FrameAssumption == MaxFrames \in Nat /\ MaxCalls \in Nat

VARIABLES
  debug,       \* the build: debug_assert! panics, or is compiled out
  open,        \* a Frame exists
  index,       \* its frame_index
  step,        \* its last step
  presented,   \* present ran on it
  misordered,  \* a call on it was reported as out of order
  calls,       \* the Streamline calls made for it, in order
  constants,   \* what slSetConstants accepted for it: "none" | "plain" | "reset"
  methods,     \* method calls on it so far
  begins,      \* begin_frame calls so far
  texture,     \* the application holds an acquired SurfaceTexture
  indexed,     \* GetCurrentBackBufferIndex ran since the last present
  unindexed,   \* a back buffer was presented without that query
  first,       \* constants of the first Frame presented, or "no frame"
  aborted,     \* a Frame was dropped before present
  skipped      \* begin_frame failed, which used up a frame's number

frameVars == <<open, index, step, presented, misordered, calls, constants, methods>>
surfaceVars == <<texture, indexed, unindexed>>
historyVars == <<begins, first, aborted, skipped>>
vars == <<debug, frameVars, surfaceVars, historyVars>>

Steps == {"Begun", "Constants", "Acquired", "Tagged", "RenderEnded", "Presented"}

\* What begin_frame has called when it returns a Frame.
BeginCalls == <<"GetNewFrameToken", "ReflexSleep", "SimulationStart", "SimulationEnd">>

\* The proven sequence, as the happy-path test spells it out.
Proven == BeginCalls \o <<"SetConstants", "RenderSubmitStart", "SetTagForFrame",
                          "RenderSubmitEnd", "PresentStart", "PresentEnd">>

CallNames == {Proven[i] : i \in DOMAIN Proven}

Init ==
  /\ debug \in BOOLEAN
  /\ open = FALSE /\ index = 0 /\ step = "Begun" /\ presented = FALSE
  /\ misordered = FALSE /\ calls = <<>> /\ constants = "none" /\ methods = 0
  /\ begins = 0 /\ first = "no frame" /\ aborted = FALSE /\ skipped = FALSE
  /\ texture = FALSE /\ indexed = FALSE /\ unindexed = FALSE

-----------------------------------------------------------------------------
(* FrameGenerationContext::begin_frame *)

\* Mutant: the frame is numbered as the one before it.
BeginFrame_OffByOne ==
  /\ ~open /\ begins < MaxFrames
  /\ open' = TRUE /\ index' = begins - 1 /\ begins' = begins + 1
  /\ step' = "Begun" /\ presented' = FALSE /\ misordered' = FALSE
  /\ calls' = BeginCalls /\ constants' = "none" /\ methods' = 0
  /\ UNCHANGED <<surfaceVars, first, aborted, skipped>>

\* Frame::new_begun, after the token, the Reflex sleep and the two markers.
BeginFrame ==
  /\ ~open /\ begins < MaxFrames
  /\ open' = TRUE /\ index' = begins /\ begins' = begins + 1
  /\ step' = "Begun" /\ presented' = FALSE /\ misordered' = FALSE
  /\ calls' = BeginCalls /\ constants' = "none" /\ methods' = 0
  /\ UNCHANGED <<surfaceVars, first, aborted, skipped>>

\* slGetNewFrameToken fails, or returns a null token: no Frame.
BeginFrameFails ==
  /\ ~open /\ begins < MaxFrames
  /\ begins' = begins + 1
  /\ skipped' = TRUE
  /\ UNCHANGED <<frameVars, surfaceVars, first, aborted>>

-----------------------------------------------------------------------------
(* The steps of a Frame *)

\* Mutant: repeating the step that was just made passes as in order.
Advance_AllowsRepeat(expected, to) ==
  /\ ~debug \/ step \in {expected, to}
  /\ misordered' = (misordered \/ step \notin {expected, to})
  /\ step' = to

\* Frame::advance.  A mismatch is reported, and panics in a debug build.
Advance(expected, to) ==
  /\ ~debug \/ step = expected
  /\ misordered' = (misordered \/ step # expected)
  /\ step' = to

\* A method that records its step and then makes the Streamline calls cs.
Method(expected, to, cs) ==
  /\ open /\ methods < MaxCalls
  /\ Advance(expected, to)
  /\ calls' = calls \o cs
  /\ methods' = methods + 1
  /\ UNCHANGED <<open, index, begins, first, aborted, skipped>>

\* Mutant: the caller's flag replaces the forced one.
ResetFlag_CallerOnly(cut) == cut

\* The reset flag set_constants passes on: forced on frame 0.
ResetFlag(cut) == cut \/ index = 0

\* set_constants.  An error is returned with the step already advanced.
SetConstants(cut) ==
  /\ Method("Begun", "Constants", <<"SetConstants">>)
  /\ \/ constants' = IF ResetFlag(cut) THEN "reset" ELSE "plain"
     \/ UNCHANGED constants
  /\ UNCHANGED <<presented, surfaceVars>>

\* Mutant: the texture is handed out without the index query.
AcquireReturns_SkipsIndex ==
  \/ ~texture /\ texture' = TRUE /\ UNCHANGED <<indexed, unindexed>>
  \/ UNCHANGED surfaceVars

\* get_current_texture fails, or, with a texture held, must; without an index
\* the texture is dropped again; otherwise it is returned with the index.
AcquireReturns ==
  \/ ~texture /\ texture' = TRUE /\ indexed' = TRUE /\ UNCHANGED unindexed
  \/ UNCHANGED surfaceVars

\* acquire: step and marker first, whatever becomes of the surface.
Acquire ==
  /\ Method("Constants", "Acquired", <<"RenderSubmitStart">>)
  /\ AcquireReturns
  /\ UNCHANGED <<presented, constants>>

\* tag, with Dx12 resources and an open list; an error comes after the step.
Tag ==
  /\ Method("Acquired", "Tagged", <<"SetTagForFrame">>)
  /\ UNCHANGED <<presented, constants, surfaceVars>>

\* tag returns before tag_core: a resource or the encoder is not Dx12.
TagHasNoRawHandle ==
  /\ open /\ methods < MaxCalls
  /\ methods' = methods + 1
  /\ UNCHANGED <<open, index, step, presented, misordered, calls, constants,
                 surfaceVars, historyVars>>

EndRender ==
  /\ Method("Tagged", "RenderEnded", <<"RenderSubmitEnd">>)
  /\ UNCHANGED <<presented, constants, surfaceVars>>

\* present consumes the texture, between its two markers.
Present ==
  /\ texture
  /\ open /\ methods < MaxCalls
  /\ Advance("RenderEnded", "Presented")
  /\ calls' = calls \o <<"PresentStart", "PresentEnd">>
  /\ methods' = methods + 1
  /\ presented' = TRUE
  /\ first' = IF first = "no frame" THEN constants ELSE first
  /\ texture' = FALSE /\ indexed' = FALSE
  /\ unindexed' = (unindexed \/ ~indexed)
  /\ UNCHANGED <<open, index, constants, begins, aborted, skipped>>

\* A debug build unwinds out of an advance that does not match, before the
\* Streamline call: the Frame, and present's texture, are dropped.
OutOfOrderPanics ==
  /\ debug /\ open
  /\ \E expected \in Steps \ {"Presented"} :
       /\ step # expected
       /\ texture' = (texture /\ expected # "RenderEnded")
  /\ open' = FALSE
  /\ aborted' = (aborted \/ ~presented)
  /\ UNCHANGED <<index, step, presented, misordered, calls, constants, methods,
                 indexed, unindexed, begins, first, skipped>>

-----------------------------------------------------------------------------
\* The application lets go of its Frame.
DropFrame ==
  /\ open
  /\ open' = FALSE
  /\ aborted' = (aborted \/ ~presented)
  /\ UNCHANGED <<index, step, presented, misordered, calls, constants, methods,
                 surfaceVars, begins, first, skipped>>

\* The application lets go of a texture it did not present.
DropTexture ==
  /\ texture
  /\ texture' = FALSE
  /\ UNCHANGED <<frameVars, historyVars, indexed, unindexed>>

FrameStep ==
  \/ BeginFrame \/ BeginFrameFails
  \/ \E cut \in BOOLEAN : SetConstants(cut)
  \/ Acquire \/ Tag \/ TagHasNoRawHandle \/ EndRender \/ Present
  \/ OutOfOrderPanics
  \/ DropFrame \/ DropTexture

Next == FrameStep /\ UNCHANGED debug

Spec == Init /\ [][Next]_vars
-----------------------------------------------------------------------------
FlagsOK ==
  /\ debug \in BOOLEAN /\ open \in BOOLEAN /\ presented \in BOOLEAN
  /\ misordered \in BOOLEAN /\ aborted \in BOOLEAN /\ skipped \in BOOLEAN
  /\ texture \in BOOLEAN /\ indexed \in BOOLEAN /\ unindexed \in BOOLEAN

TypeOK ==
  /\ FlagsOK
  /\ index \in Nat /\ begins \in Nat /\ methods \in Nat
  /\ step \in Steps
  /\ calls \in Seq(CallNames)
  /\ constants \in {"none", "plain", "reset"}
  /\ first \in {"no frame", "none", "plain", "reset"}

\* frame_gen.rs:676-678: the order enforcement is exact.  A release build
\* reports a Frame exactly when its Streamline calls leave the proven sequence;
\* a debug build never lets one leave it.
OrderReported ==
  /\ ~debug => (misordered <=> ~IsPrefix(calls, Proven))
  /\ debug => IsPrefix(calls, Proven) /\ ~misordered

\* frame_gen.rs:843-847: whatever the order of the calls and whichever acquires
\* fail, no back buffer is presented without a GetCurrentBackBufferIndex query
\* since the present before it.
NoPresentWithoutIndex == ~unindexed

\* frame_gen.rs:806-808: constants accepted for the first Frame presented carry
\* the reset flag, provided that no Frame was given up before it.
FirstFrameResets == first = "plain" => aborted \/ skipped
=============================================================================
