------------------------------ MODULE FgContext ------------------------------
(***************************************************************************)
(* The lifecycle of DLSS Frame Generation (src/streamline/frame_gen.rs):   *)
(* the Streamline handle that runs slInit, the FrameGenerationContext that *)
(* takes the API over from it, and who runs slShutdown.  One thread owns   *)
(* the objects; the GPU runs beside it.  A pc other than "app" names the   *)
(* Streamline or wgpu call the thread is inside of, in new or in a drop;   *)
(* each call returns in a step of its own, well or badly.                  *)
(*                                                                         *)
(* The application keeps one API at a time (the handle is process-wide).   *)
(* A Frame is what it is to the context: a mutable borrow of it.           *)
(***************************************************************************)
EXTENDS Naturals

CONSTANTS
  MaxInits,   \* bound: calls of Streamline::init
  MaxNews,    \* bound: calls of FrameGenerationContext::new
  MaxSets,    \* bound: calls of set_mode
  MaxFrames   \* bound: frames begun

ASSUME BoundsAssumption ==
  MaxInits \in Nat /\ MaxNews \in Nat /\ MaxSets \in Nat /\ MaxFrames \in Nat

VARIABLES
  pc,           \* the call the thread is inside of, or "app"
  handle,       \* Streamline: "none" | "owns" the api | "inert": moved out
  ctx,          \* FrameGenerationContext: "none" | "live"
  resolved,     \* the api's feature functions are resolved (a OnceLock)
  mode,         \* options.mode
  enabled,      \* dlssg_enabled
  lastEnabled,  \* last_enabled_mode
  open,         \* a Frame borrows the context
  busy,         \* the GPU has unfinished work of a frame
  slUp,         \* Streamline: slInit succeeded, slShutdown did not run
  slDevice,     \* Streamline: slSetD3DDevice succeeded
  slMode,       \* Streamline: the DLSS-G mode in force
  slOnMode,     \* Streamline: the last mode but eOff it accepted, or "none"
  slRefused,    \* Streamline: it answered eOff with an error
  inits, news, sets, frames   \* calls so far

apiVars == <<handle, ctx, resolved>>
modeVars == <<mode, enabled, lastEnabled>>
slVars == <<slUp, slDevice, slMode, slOnMode, slRefused>>
counters == <<inits, news, sets, frames>>
vars == <<pc, apiVars, modeVars, open, busy, slVars, counters>>

Modes == {"Off", "On", "Auto"}

\* The calls of FrameGenerationContext::new, in order.
NewPoints == {"SetDevice", "Resolve", "Supported", "Reflex", "Enable"}

\* The calls of the two drops.
DropPoints == {"TurnOff", "Poll", "CtxShutdown", "HandleShutdown"}

Goto(from, to) == pc = from /\ pc' = to

Init ==
  /\ pc = "app" /\ handle = "none" /\ ctx = "none" /\ resolved = FALSE
  /\ mode = "On" /\ enabled = FALSE /\ lastEnabled = "On"
  /\ open = FALSE /\ busy = FALSE
  /\ slUp = FALSE /\ slDevice = FALSE /\ slMode = "Off"
  /\ slOnMode = "none" /\ slRefused = FALSE
  /\ inits = 0 /\ news = 0 /\ sets = 0 /\ frames = 0

-----------------------------------------------------------------------------
(* Streamline *)

\* Streamline::init: the interposer does not load, an identity string holds a
\* NUL, or slInit fails: no handle.
InitFails ==
  /\ pc = "app" /\ handle = "none" /\ ctx = "none" /\ inits < MaxInits
  /\ inits' = inits + 1
  /\ UNCHANGED <<pc, apiVars, modeVars, open, busy, slVars, news, sets, frames>>

InitSucceeds ==
  /\ pc = "app" /\ handle = "none" /\ ctx = "none" /\ inits < MaxInits
  /\ inits' = inits + 1
  /\ handle' = "owns" /\ resolved' = FALSE
  /\ slUp' = TRUE /\ slDevice' = FALSE /\ slMode' = "Off"
  /\ slOnMode' = "none" /\ slRefused' = FALSE
  /\ UNCHANGED <<pc, ctx, modeVars, open, busy, news, sets, frames>>

\* The handle's Drop: slShutdown if it still owns the API, else nothing.
DropHandle ==
  \/ /\ handle = "owns" /\ Goto("app", "HandleShutdown")
     /\ UNCHANGED <<apiVars, modeVars, open, busy, slVars, counters>>
  \/ /\ handle = "inert" /\ pc = "app" /\ handle' = "none"
     /\ UNCHANGED <<pc, ctx, resolved, modeVars, open, busy, slVars, counters>>

\* slShutdown: an error is logged, and the object is gone all the same.
SlStops ==
  /\ slUp' = FALSE /\ slDevice' = FALSE /\ slMode' = "Off"
  /\ UNCHANGED <<slOnMode, slRefused>>

HandleShutdownReturns ==
  /\ Goto("HandleShutdown", "app")
  /\ handle' = "none"
  /\ SlStops
  /\ UNCHANGED <<ctx, resolved, modeVars, open, busy, counters>>

-----------------------------------------------------------------------------
(* FrameGenerationContext::new *)

\* The handle's API is borrowed; or it moved out: ContextAlreadyCreated.
CallNew(m) ==
  /\ pc = "app" /\ news < MaxNews
  /\ news' = news + 1
  /\ \/ handle = "owns" /\ pc' = "SetDevice" /\ mode' = m
     \/ handle = "inert" /\ UNCHANGED <<pc, mode>>
  /\ UNCHANGED <<apiVars, enabled, lastEnabled, open, busy, slVars, inits, sets, frames>>

\* Mutant: new takes the API first, and a failure drops it.
SetDeviceReturns_Takes ==
  /\ \/ Goto("SetDevice", "Resolve") /\ slDevice' = TRUE /\ UNCHANGED handle
     \/ Goto("SetDevice", "app") /\ handle' = "inert" /\ UNCHANGED slDevice
  /\ UNCHANGED <<ctx, resolved, modeVars, open, busy, slUp, slMode, slOnMode, slRefused,
                 counters>>

\* slSetD3DDevice: or an error, or not a Dx12 device.
SetDeviceReturns ==
  /\ \/ Goto("SetDevice", "Resolve") /\ slDevice' = TRUE
     \/ Goto("SetDevice", "app") /\ UNCHANGED slDevice
  /\ UNCHANGED <<apiVars, modeVars, open, busy, slUp, slMode, slOnMode, slRefused,
                 counters>>

\* resolve_feature_functions: all of them, or none.
ResolveReturns ==
  /\ \/ Goto("Resolve", "Supported") /\ resolved' = TRUE
     \/ Goto("Resolve", "app") /\ UNCHANGED resolved
  /\ UNCHANGED <<handle, ctx, modeVars, open, busy, slVars, counters>>

\* slIsFeatureSupported, slReflexSetOptions: an error leaves new.
SupportedReturns ==
  /\ Goto("Supported", "Reflex") \/ Goto("Supported", "app")
  /\ UNCHANGED <<apiVars, modeVars, open, busy, slVars, counters>>

ReflexReturns ==
  /\ Goto("Reflex", "Enable") \/ Goto("Reflex", "app")
  /\ UNCHANGED <<apiVars, modeVars, open, busy, slVars, counters>>

\* Streamline puts mode m in force.
Accept(m) ==
  /\ slMode' = m /\ slRefused' = FALSE
  /\ slOnMode' = IF m = "Off" THEN slOnMode ELSE m

\* The API moves into the context: the last step of new.
MoveApi == ctx' = "live" /\ handle' = "inert"

\* Mutant: new clones what owns the API instead of taking it.
EnableReturns_Clones ==
  /\ \/ /\ Goto("Enable", "app")
        /\ Accept(mode)
        /\ ctx' = "live"
        /\ enabled' = (mode # "Off")
        /\ lastEnabled' = IF mode = "Off" THEN "On" ELSE mode
     \/ /\ Goto("Enable", "app")
        /\ UNCHANGED <<ctx, enabled, lastEnabled, slMode, slRefused, slOnMode>>
  /\ UNCHANGED <<handle, resolved, mode, open, busy, slUp, slDevice, counters>>

\* slDLSSGSetOptions(options): on success the context exists.
EnableReturns ==
  /\ \/ /\ Goto("Enable", "app")
        /\ Accept(mode)
        /\ MoveApi
        /\ enabled' = (mode # "Off")
        /\ lastEnabled' = IF mode = "Off" THEN "On" ELSE mode
     \/ /\ Goto("Enable", "app")
        /\ UNCHANGED <<handle, ctx, enabled, lastEnabled, slMode, slRefused, slOnMode>>
  /\ UNCHANGED <<resolved, mode, open, busy, slUp, slDevice, counters>>

-----------------------------------------------------------------------------
(* A live context *)

\* The application can call a method of the context: no Frame borrows it.
Free == pc = "app" /\ ctx = "live" /\ ~open

\* Mutant: the mirror of the mode is set whatever Streamline answers.
SetMode_MirrorsFirst(m) ==
  /\ Free /\ sets < MaxSets
  /\ sets' = sets + 1
  /\ mode' = m
  /\ enabled' = (m # "Off")
  /\ lastEnabled' = IF m = "Off" THEN lastEnabled ELSE m
  /\ \/ resolved /\ Accept(m)
     \/ UNCHANGED <<slMode, slRefused, slOnMode>>
  /\ UNCHANGED <<pc, apiVars, open, busy, slUp, slDevice, inits, news, frames>>

\* Mutant: an accepted Off is remembered as the last enabled mode.
SetMode_RemembersOff(m) ==
  /\ Free /\ sets < MaxSets
  /\ sets' = sets + 1
  /\ mode' = m
  /\ \/ resolved /\ Accept(m) /\ enabled' = (m # "Off") /\ lastEnabled' = m
     \/ UNCHANGED <<enabled, lastEnabled, slMode, slRefused, slOnMode>>
  /\ UNCHANGED <<pc, apiVars, open, busy, slUp, slDevice, inits, news, frames>>

\* set_mode: the option first, then the call; its mirrors only on success.
SetMode(m) ==
  /\ Free /\ sets < MaxSets
  /\ sets' = sets + 1
  /\ mode' = m
  /\ \/ /\ resolved
        /\ Accept(m)
        /\ enabled' = (m # "Off")
        /\ lastEnabled' = IF m = "Off" THEN lastEnabled ELSE m
     \/ UNCHANGED <<enabled, lastEnabled, slMode, slRefused, slOnMode>>
  /\ UNCHANGED <<pc, apiVars, open, busy, slUp, slDevice, inits, news, frames>>

\* begin_frame hands out a Frame (FgFrame says what becomes of it).
BeginFrame ==
  /\ Free /\ frames < MaxFrames
  /\ frames' = frames + 1
  /\ open' = TRUE
  /\ UNCHANGED <<pc, apiVars, modeVars, busy, slVars, inits, news, sets>>

\* The application submits the scene and the tags of the frame.
SubmitFrame ==
  /\ open /\ ~busy
  /\ busy' = TRUE
  /\ UNCHANGED <<pc, apiVars, modeVars, open, slVars, counters>>

GpuCompletes ==
  /\ busy
  /\ busy' = FALSE
  /\ UNCHANGED <<pc, apiVars, modeVars, open, slVars, counters>>

DropFrame ==
  /\ open
  /\ open' = FALSE
  /\ UNCHANGED <<pc, apiVars, modeVars, busy, slVars, counters>>

-----------------------------------------------------------------------------
(* FrameGenerationContext::drop *)

\* Mutant: the drop does not switch generation off.
DropContext_LeavesOn ==
  /\ Free
  /\ pc' = "Poll"
  /\ UNCHANGED <<apiVars, modeVars, open, busy, slVars, counters>>

DropContext ==
  /\ Free
  /\ pc' = "TurnOff"
  /\ UNCHANGED <<apiVars, modeVars, open, busy, slVars, counters>>

\* slDLSSGSetOptions(eOff): an error is logged.
TurnOffReturns ==
  /\ Goto("TurnOff", "Poll")
  /\ \/ Accept("Off")
     \/ slRefused' = TRUE /\ UNCHANGED <<slMode, slOnMode>>
  /\ UNCHANGED <<apiVars, modeVars, open, busy, slUp, slDevice, counters>>

\* Mutant: the poll does not wait.
PollReturns_DontWait ==
  /\ Goto("Poll", "CtxShutdown")
  /\ UNCHANGED <<apiVars, modeVars, open, busy, slVars, counters>>

\* Mutant: after the wait, eOff is sent again, a loop without a way out.
PollReturns_Loops ==
  /\ ~busy
  /\ Goto("Poll", "TurnOff")
  /\ UNCHANGED <<apiVars, modeVars, open, busy, slVars, counters>>

\* Device::poll(wait_indefinitely).
PollReturns ==
  /\ ~busy
  /\ Goto("Poll", "CtxShutdown")
  /\ UNCHANGED <<apiVars, modeVars, open, busy, slVars, counters>>

CtxShutdownReturns ==
  /\ Goto("CtxShutdown", "app")
  /\ ctx' = "none"
  /\ SlStops
  /\ UNCHANGED <<handle, resolved, modeVars, open, busy, counters>>

-----------------------------------------------------------------------------
\* The application is in its own code and may end.
AtRest == pc = "app" /\ UNCHANGED vars

NewStep ==
  \/ SetDeviceReturns \/ ResolveReturns \/ SupportedReturns \/ ReflexReturns
  \/ EnableReturns

DropStep == TurnOffReturns \/ PollReturns \/ CtxShutdownReturns \/ HandleShutdownReturns

Next ==
  \/ InitFails \/ InitSucceeds \/ DropHandle
  \/ \E m \in Modes : CallNew(m) \/ SetMode(m)
  \/ NewStep
  \/ BeginFrame \/ SubmitFrame \/ DropFrame
  \/ DropContext \/ DropStep
  \/ GpuCompletes
  \/ AtRest

Spec == Init /\ [][Next]_vars

\* The calls of new and of the drops return; the GPU finishes its work.
Fairness == WF_vars(NewStep) /\ WF_vars(DropStep) /\ WF_vars(GpuCompletes)

FairSpec == Spec /\ Fairness
-----------------------------------------------------------------------------
FlagsOK ==
  /\ resolved \in BOOLEAN /\ enabled \in BOOLEAN
  /\ open \in BOOLEAN /\ busy \in BOOLEAN
  /\ slUp \in BOOLEAN /\ slDevice \in BOOLEAN /\ slRefused \in BOOLEAN

WordsOK ==
  /\ pc \in {"app"} \cup NewPoints \cup DropPoints
  /\ handle \in {"none", "owns", "inert"} /\ ctx \in {"none", "live"}
  /\ mode \in Modes /\ lastEnabled \in {"On", "Auto"}
  /\ slMode \in Modes /\ slOnMode \in {"none", "On", "Auto"}
  /\ inits \in Nat /\ news \in Nat /\ sets \in Nat /\ frames \in Nat

TypeOK == FlagsOK /\ WordsOK

\* frame_gen.rs:60-63: as long as Streamline is up, exactly one object owes it
\* the slShutdown; once it is down, none does.
OneOwner ==
  /\ slUp <=> handle = "owns" \/ ctx = "live"
  /\ ~(handle = "owns" /\ ctx = "live")

\* frame_gen.rs:425-428: between calls, is_enabled says whether Streamline
\* generates, after any sequence of mode changes it accepted or refused.
EnabledMirrorsRuntime ==
  pc = "app" /\ ctx = "live" => (enabled <=> slMode # "Off")

\* frame_gen.rs:458-460: query_state asks with the last mode Streamline accepted
\* that generates (eOn if there was none), so that an Off does not mask it.
QueryModeWasAccepted ==
  ctx = "live" => lastEnabled = (IF slOnMode = "none" THEN "On" ELSE slOnMode)

\* frame_gen.rs:585: when a context's drop calls slShutdown, generation is off, or
\* refused to be, and the GPU idle.  When a handle's does, it was never on.
ShutdownQuiet ==
  /\ pc = "CtxShutdown" => ~busy /\ (slMode = "Off" \/ slRefused)
  /\ pc = "HandleShutdown" => slMode = "Off"

\* new returns with the API moved into a context, or with it where it was.
NewEndsWell ==
  pc \in NewPoints /\ pc' = "app" =>
    \/ ctx' = "live" /\ handle' = "inert" /\ slMode' = mode
    \/ ctx' = "none" /\ handle' = "owns" /\ slUp' /\ slMode' = slMode

\* frame_gen.rs:299-300: a new that fails, at any step, leaves the handle with
\* the API and Streamline up; one that succeeds leaves it inert.
NewMovesOrKeeps == [][NewEndsWell]_vars

\* Dropping either object ends, whatever Streamline answers.
DropCompletes == pc \in DropPoints ~> pc = "app"
-----------------------------------------------------------------------------
(* The inductive invariant behind the properties *)

\* Who is inside which call, and what it has by then.
Phases ==
  /\ pc \in NewPoints \cup {"HandleShutdown"} => handle = "owns"
  /\ pc \in {"TurnOff", "Poll", "CtxShutdown"} => ctx = "live" /\ ~open
  /\ open => ctx = "live"
  /\ pc \in {"Resolve", "Supported", "Reflex", "Enable"} => slDevice
  /\ ctx = "live" => slDevice

\* What Streamline was told of the mode, and what is remembered of it.
Mirrors ==
  /\ ctx = "none" => slMode = "Off"
  /\ handle = "owns" => slOnMode = "none"
  /\ QueryModeWasAccepted
  /\ EnabledMirrorsRuntime
  /\ pc \in {"Poll", "CtxShutdown"} => slMode = "Off" \/ slRefused
  /\ pc = "CtxShutdown" => ~busy

IndInv == OneOwner /\ Phases /\ Mirrors

-----------------------------------------------------------------------------
Sl == INSTANCE SlService WITH
  up <- slUp,
  device <- slDevice,
  generation <- IF slMode = "Off" THEN "off" ELSE IF slRefused THEN "refused" ELSE "on"

\* The crate keeps Streamline's contract.
RefinesStreamline == Sl!Spec
=============================================================================
