# A verification of dlss_wgpu_dx12

`dlss_wgpu_dx12` gives wgpu applications on Direct3D 12 NVIDIA's DLSS: super
resolution (SR), Ray Reconstruction (RR) and, through Streamline, frame
generation (FG). Nearly all of its code sits between two parties it does not
control, an application and a library behind a C interface that is not
thread-safe, keeps process-global state and reports mistakes late or never. What
can go wrong is therefore a matter of order: who may call when, what must be
finished before, what a failure half-way leaves behind.

This directory holds TLA+ models of that order, TLC configurations that check
them on small instances, and TLAPS proofs of what matters most for instances of
any size. Paths such as `sdk.rs:63` are relative to the crate's `src/`
directory.

    tlc -workers 2 -config MCNgxSdk_threads.cfg MCNgxSdk.tla    # one run
    tlapm NgxSdk_proofs.tla                                     # one module's proofs

`PROJECT.json` lists the components, the runs, for each property a mutant of the
code that breaks it, the source lines of each definition, the findings, the
hazards and the theorems.

## 1. The system

### Components

| Component (source) | State it keeps | Operations | Talks to |
|---|---|---|---|
| `DlssSdk` (`sdk.rs`) | the NGX parameter block, the device; shared as `Arc<Mutex<DlssSdk>>` | `new` (Init, GetCapabilityParameters, SR probe), `vram_allocated_bytes`, drop of the last `Arc` clone (poll, DestroyParameters, Shutdown1) | NGX, `Device::poll` |
| `NgxFeature` (`ngx_feature.rs`) | a feature handle, an `Arc` clone, the resolutions | `create` (settings query, encoder, CREATE, submit), `evaluate` (transitions, EVALUATE, submit), `suggested_jitter`, drop (poll, lock, ReleaseFeature) | `DlssSdk` through the Mutex, the wgpu queue, the GPU |
| `DlssContext`, `DlssRayReconstructionContext` (`context.rs`, `ray_reconstruction.rs`) | an `NgxFeature`; RR: the roughness mode | `new`, `render`, getters | `NgxFeature` |
| Parameters, configuration, jitter (`render_parameters.rs`, `config.rs`, `jitter.rs`, `hal.rs`) | none: values | `validate`, `barrier_list`, `as_perf_quality_value`, `as_flags`, `halton_sequence` | both contexts |
| `Streamline` and `FrameGenerationContext` (`streamline/frame_gen.rs`, `streamline/api.rs`) | the `SlApi` (one owner at a time), options, `dlssg_enabled`, `last_enabled_mode` | `init`, `new`, `set_mode`, `query_state`, `begin_frame`, both drops | Streamline, `Device::poll` |
| `Frame` (`streamline/frame_gen.rs`) | token, index, last step, `presented` | `set_constants`, `acquire`, `tag`, `end_render`, `present` | Streamline, the wgpu surface |
| Tags and constants (`streamline/tagging.rs`, `streamline/types.rs`) | none: values | `FgResources::tags`, `FgConstants::derive`, status decoding | `Frame`, parameters |
| Loader (`streamline/ffi.rs`) | the mapped, leaked interposer | `SlApi::load`: shims, gate, siblings, map, exports | the file system, Win32, the gate |
| Signature gate (`streamline/security.rs`) | the share lock on the file it verifies | `verify_interposer_signature`, `verify_signed_dll` | WinVerifyTrust, the loader |
| wgpu patches (`patches/`) | | factory upgrade in `Instance::init`; raw command list | the image the loader mapped |
| Windowed examples (`examples/frame_generation.rs`, `examples/sr_plus_fg.rs`) | `App` (the `Streamline` handle, an optional `GpuState`), the frame number, the requests of the event loop | `main`, `resumed`, `RedrawRequested`, `CloseRequested`, `GpuState::new`, `render`, the drops of `App` and `GpuState` | all of the above, winit, the wgpu surface |
| Headless examples (`examples/super_resolution.rs`, `dynamic_resolution.rs`, `ray_reconstruction.rs`, `sr_rr_toggle.rs`) | locals of `run` | `run`: bring-up, a loop of frames | one or two upscaler contexts |
| `instance.rs`, `feature_info.rs`, `ngx_log.rs`, `nvsdk_ngx.rs`, `build.rs`, `lib.rs` | none, or logging | descriptors, argument blocks, bindings | |

### How they interact

*Shared state.* All contexts of an application share one `DlssSdk` behind a
Mutex, and behind it one NGX parameter block into which each settings query and
each create writes. They share one wgpu queue and one GPU. The DLL that
`SlApi::load` maps is shared with the patched wgpu: `Instance::init` looks it up
by name and upgrades its DXGI factory through it.

*Ownership.* Each context owns an `Arc` clone; whichever thread drops the last
one shuts NGX down. The `SlApi` starts with the `Streamline` handle and moves
into the `FrameGenerationContext` at the end of its constructor; both have a
`Drop` that calls `slShutdown`.

*Hand-over.* A frame's depth and motion vectors go to an upscaler, which moves
them to a resource state, and then to Streamline with a tag that says which state
that is; the constants for Streamline are derived from the upscaler's parameters.

### What is hard, and what makes each part correct

* **`DlssSdk`/`NgxFeature`.** Threads interleave at each call; any call may
  fail; calls out of the crate may unwind and poison the Mutex; the GPU lags
  behind. Correct means: NGX calls never overlap, not even the unlocked ones of
  `new` and of the last drop; nothing is called after the shutdown; the shutdown
  finds no live handle; features are released when the GPU has finished with
  them; what the settings query put into the shared block is what the create
  finds; an evaluate sees its inputs transitioned; a poisoned Mutex stops nobody
  and every drop ends.
* **`Streamline`/`FrameGenerationContext`.** A fallible constructor of five
  calls takes over an object with a `Drop`; a refused mode change must not make
  `is_enabled` lie. Correct means: one `slShutdown` per successful `slInit`, by
  the one owner, with generation off and the GPU idle; a failed `new` leaves the
  handle usable; the mirrored mode is the mode in force.
* **`Frame`.** An application may call its methods in any order, repeat them,
  ignore their errors and drop the Frame at any point. Correct means: a wrong
  order is always reported and a right one never; a back buffer is never
  presented without its index query; the first presented frame resets the
  history.
* **Loader and gate.** Files may be replaced between any two steps, every Win32
  call may fail, another thread may create the wgpu `Instance` at any time.
  Correct means: what is mapped is what was verified; a load that reports Ok
  looked at every sibling and every shim; a proxy factory never outlives the
  image.
* **Contexts and parameters.** Lists that must agree are written in different
  places (bound textures and transitions, tags and types), numbers come in by
  way of NGX. Correct means: NGX is asked for nothing it refuses; each bound
  texture is there and in its state; a subrect is within its textures; the
  suggested jitter samples each output pixel; the upscaler and frame generation
  mean the same by the same buffers.

* **Examples.** They are the crate's proven order of calls, written out: objects
  are made and dropped in an order that Streamline's hooks depend on, a frame is a
  dozen calls that may each end it, and the windowed ones live on the redraws they
  ask for. Correct means: a swapchain is made after the device is registered and
  through a factory that Streamline was asked to upgrade; whatever fails, no Frame is
  reported out of order, and a bring-up turns generation off before its swapchain
  goes; what is evaluated or presented was drawn and submitted in this very frame, and
  a history is that of the frame before or reset; a subrect lies in its inputs; every
  program comes to its end.

The individual hazards, at their lines, are in `PROJECT.json` under `hazards`,
with the properties that would show them.

## 2. The modules

| Module | Models | Composed with |
|---|---|---|
| `NgxService` | abstract: what NGX demands of its callers | `NgxSdk` implements it |
| `NgxSdk` | `DlssSdk`, `NgxFeature` and the control of both contexts' `new` and `render`, with cameras, queue and GPU | |
| `NgxSdk_proofs`, `NgxSdkRefinement_proofs` | theorems | extend `NgxSdk` |
| `SlService` | abstract: what Streamline demands | `FgContext` implements it |
| `FgContext` | `Streamline`, `FrameGenerationContext`, the GPU | |
| `FgContext_proofs` | theorems | extends `FgContext` |
| `FgFrame` | `Frame`, `begin_frame`, the surface | |
| `Examples` | the six programs of `examples/`, with winit's loop | extends `FgFrame`: its actions are their operations on a Frame |
| `FgFrame_proofs`, `Examples_proofs` | theorems | the second extends both |
| `SlLoader` | `SlApi::load`, the signature gate, the factory upgrade, the files | |
| `SlLoader_proofs`, `SlLoaderQuiet_proofs` | theorems | extend `SlLoader` |
| `Upscaler` | what the two contexts pass to NGX; transitions; jitter | |
| `FgHandoff` | tags and constants for frame generation | extends `Upscaler` |
| `FgHandoff_proofs` | theorems | extends `FgHandoff` |
| `MC*` | values for TLC | extend one of the above |

An operator whose name carries a suffix after an underscore and whose comment
begins with "Mutant" is not part of a model. It is what the operator after it
would be with a plausible bug in the code, and `PROJECT.json` says which property
finds it.

### NgxSdk

An actor is a thread: the application's (`Main`) or a camera's, which has at most
one context at a time. `pc[a]` is what it is executing. A name in `NgxCalls` is
an NGX export the thread is *inside* of: calls begin and return in different
steps, so that an overlap is a state.

| Code | Actions |
|---|---|
| `DlssSdk::new` | `NewSdk`, `InitReturns`, `GetCapsReturns`, `ProbeReturns`, `ProbeDestroyReturns` |
| `vram_allocated_bytes` on the application's guard | `CallStats`, `StatsBegins`, `StatsReturns`, `StatsPanics` |
| `NgxFeature::create` | `CallCreate`, `CreateBegins` (lock), `SettingsReturns`, `RecordCreate`, `CreateReturns`, `CreateSubmits`, `CreateSubmitPanics` |
| `render`, `NgxFeature::evaluate` | `CallRender`, `EvalBegins` (lock), `EvalHasNoList`, `EvalReturns`, `EvalSubmits`, `EvalSubmitPanics` |
| `NgxFeature::drop` | `DropContext`, `PollReturns`, `ReleaseBegins` (lock), `ReleaseReturns` |
| drop of an `Arc` clone, `DlssSdk::drop` | `DropSdkClone`, `DropArc`, `SdkPollReturns`, `DestroyReturns`, `ShutdownReturns` |
| wgpu queue, `Device::poll` | `submitted`, `completed`, `lastUse`, `target`; `GpuCompletes` |

`lock`/`poisoned` are the Mutex (every `lock()` of the crate goes on with the
inner value of a poisoned one), `owners` the `Arc`'s clones, `live` the handles
NGX gave out, `primed` whose values are in the parameter block. `tex` and `seen`
are the state of an input that all cameras share: what the submitted work leaves
it in, and what the last evaluate found. `PanicPoints` says which calls out of
the crate may unwind, so that a property can be stated for the ones under which
it holds. Each call returns well or badly, whatever was done before it.
`abandoned` is a history variable: the handles whose creator unwound, in
`CreateSubmitPanics`, before an object owned them. In `NgxService` they are `lost`,
and a shutdown may leave exactly those behind.

### FgContext

One thread owns the objects, as the context's `&mut self` methods and its missing
`Sync` (`frame_gen.rs:616`) have it; the GPU runs beside it. `pc` is the Streamline or wgpu call the thread
is inside of; `handle` and `ctx` are the two objects, `resolved` the `OnceLock` of
feature functions, `mode`/`enabled`/`lastEnabled` the context's fields, and the
`sl*` variables what Streamline was told and accepted. `InitFails`,
`InitSucceeds`, `CallNew` and the five `*Returns` of `NewStep`, `SetMode`,
`BeginFrame`/`DropFrame` (a borrow of the context), `DropContext`, `DropHandle`
and the four `*Returns` of `DropStep` are the code's; `SubmitFrame` and
`GpuCompletes` are the application's and the GPU's.

### FgFrame

The `Frame`'s fields (`index`, `step`, `presented`; `misordered` is what
`advance` reports), the Streamline `calls` made for it in order, and the surface:
whether the application holds a texture, and whether the back-buffer index has
been queried since the last present. Each method is one action that advances the
step first, as in the code, whatever comes of it after that; `OutOfOrderPanics`
is the debug build's assertion. `debug` is chosen initially.

### Examples

A function of a program is the sequence of its operations, named for the function
(`FrameGenerationNew`, `SrPlusFgEnd`, `DynamicResolutionFrame`, ...); a machine runs
it, `script`, one operation at a time, `at`. An operation that may fail
either goes on or is given up, and a function given up drops what it has borrowed
or made: locals in the reverse order (`BringUpFails`, then `DropObject`), a frame's
texture before its `Frame` (`GiveUp`).

| Code | Actions |
|---|---|
| `main` | `StartStreamline`, `StartRun`, `Leave`, `DropObject`, `EndOfProgram` |
| `App::resumed`, `GpuState::new`, the first part of a headless `run` | `Resumed`, `MakeObject`, `MakeUpscaler`, `MakeFrameGeneration`, `Configure`, `MakeTextures`, `BringUpFails`, `EndOfBringUp` |
| `App::window_event` | `Redraw`, `CloseRequested`; `SystemRedraw` is the window system's |
| the `for` of a headless `run` | `ForLoop`, `Poll` |
| `GpuState::render` | `DrawCommands`, `Submit`, `UpscaleImage`, `BeginsFrame`, `SetsConstants`, `Acquires`, `Tags`, `EndsRender`, `Presents`, `Drops`, `RequestRedraw`, `EndOfFrame` |

`current` is the set of textures whose content is of this frame, `pending` says of each
texture whose content will be in it once what is recorded is submitted: a draw takes
effect with the submission (`DrawCommands`, `Submit`), which is what an evaluate on
command lists of its own sees. `history` is the feature that evaluated last, `held` what
the program owns in the order in which it would drop, a `GpuState`'s fields as they are
declared, locals in the reverse order; `owner` is who owes the `slShutdown`. `factory`
is what the patched `Instance::init` made of wgpu's factory: without the interposer it
is left alone; with it, Streamline is asked for a proxy, and it may decline in each of
the ways `SlLoader`'s `Upgrade` has in detail, upon which the patch logs a line and wgpu
goes on with the factory it has (`Upgraded`). A swapchain is bound if its factory is a
proxy and the device was registered before (`Configure`). The
program `"any client"` is `FgFrame`'s own client, which calls a Frame's methods in
any order, so that one run checks both.

### SlLoader

A file is a directory (the executable's or the SDK's) and a name; its content is
an element of `Contents` that CONSTANT functions classify (trust of the chain,
signer, completeness of exports). `phase` and `todo` are where `load` is;
`locked` the files it holds open with `FILE_SHARE_READ` only. `BeginLoad`,
`RejectShims`, `OpenLocked`, `VerifyTrust`, `VerifyTrustOffline`, `VerifySigner`,
`NextSibling`, `MapImage`, `ResolveExports` follow the code; every one of them may
fail. `UpdateFile` replaces any file that is not locked, between any two steps,
and `ResolveUpgrade`/`Upgrade` are the patched `Instance::init` of another thread.
`waived` and `quiet` are history variables: which checks a content passed over
because their means failed, and whether files stood still during the load.

### Upscaler and FgHandoff

`create` and `eval` are the arguments of the last CREATE and EVALUATE calls, `res`
the context's resolutions, `tex` and `state` each texture's size (or `Nothing` for
one without a raw resource) and wgpu state. `Create` covers both constructors
(quality, flags, forced flags, presets, DLAA), `Render` both `render`s up to the
NGX call: validation, the transitions, the bound textures, subrect and
motion-vector scale. `PhaseCount`, `Halton` and `Sample` are
`suggested_jitter` and `halton_sequence` on exact fractions. `FgHandoff` adds
`Tag` (types and textures from the two places that list them, the assumed state)
and `SetConstants` (`derive`).

## 3. What is checked

Twelve runs; those that expect a violation are the findings of section 6.

| Run | Properties | What it shows |
|---|---|---|
| `ngx_threads` | `TypeOK`, `NgxSerialized`, `NoUseAfterShutdown`, `ReleasedOrAbandoned`, `UseOnlyLiveHandles`, `ReleaseOnlyIdle`, `PrimingSurvives`, `EvaluateSeesTransitions`, `RefinesService`, `LockWaitersProceed`, `TeardownCompletes` | In every interleaving of two cameras and the application, with every failure and a panic in every call out of the crate, NGX is called by one thread at a time, between its Init and its Shutdown, on live handles, and released idle; no handle outlives it but those a panic abandoned; every step is one of the abstract service; a thread waiting for the Mutex, poisoned or not, gets its call done, and every drop ends. |
| `ngx_submit_panic` | `ShutdownAfterRelease` | violated, finding 2 |
| `ngx_failed_new` | `InitMatchedByShutdown` | violated, finding 1 |
| `examples_safety` | `ProgramTypeOK`, `OrderReported`, `NoPresentWithoutIndex`, `FirstFrameResets`, `ProgramsInOrder`, `SwapchainBinds`, `UnwindsInOrder`, `NothingStale`, `SubrectsFit`, `ProgramEnds` | For all sequences of method calls in both builds: the order check reports exactly the deviations from the sequence that the crate's own test spells out, and the index query cannot be skipped. For the six programs, whichever of their calls fails: none is ever reported, nothing is evaluated or presented that is not of its frame, the swapchain binds unless Streamline declined to upgrade the factory, a failed bring-up turns generation off before its swapchain goes, and the program ends or waits for a surface. |
| `examples_teardown` | `GenerationOffFirst` | violated, finding 7 |
| `examples_reset` | `FirstPresentedResets` | violated, finding 3 |
| `fgcontext_life` | `TypeOK`, `OneOwner`, `EnabledMirrorsRuntime`, `QueryModeWasAccepted`, `ShutdownQuiet`, `NewMovesOrKeeps`, `DropCompletes`, `RefinesStreamline` | Any series of init, new, set_mode, frames and drops, with every call failing or not: one owner, one shutdown, true mirrors, drops that end. |
| `slloader_safety` | `TypeOK`, `MappedWasAccepted`, `QuietLoadIsClean`, `ProxyStaysMapped` | Two loads while a file is replaced and an Instance created at any point. |
| `slloader_export` | `NeverFreed` | violated, finding 4 |
| `handoff_safety` | `HandoffTypeOK`, `NgxTakesCalls`, `BoundInNeededState`, `JitterCovers`, `TagsArePaired`, `TagsTellTheState`, `SameMotion` | For both kinds of context, all modes and flags modelled, and any series of frames: the arguments NGX gets are ones it takes (`NgxTakesCalls`: presets pinned, HDR as it must be, DLAA at output size, required textures there), and agree with what frame generation is told. |
| `upscaler_subrect` | `SubrectFits` | violated, finding 5 |
| `upscaler_roughness` | `RoughnessIsThere` | violated, finding 6 |

### Bounds, and why they are enough

* **NgxSdk.** Two cameras: every property relates at most two threads, and with
  `Main` there are three to interleave. One `new` (a failed `new` ends the run's
  interest, a second one starts from the same state but for the leak of finding
  1), one context per camera, one render of each, and one statistics call, so that
  one camera creates or drops while the other renders. There is no symmetry, which
  would be unsound for the run's liveness properties. What the bounds leave out the
  theorems of section 5 cover, for any number of cameras, contexts and renders.
* **FgContext.** Two inits, three `new`s, three mode changes, two frames: a
  failed `new`, one that succeeds and one after it; two changes and the one that
  is refused between them. The theorems hold for all bounds.
* **FgFrame.** Two frames of up to six method calls: the sequence has five
  methods, so a frame may make one too many at any place, and what one frame
  leaves behind (a texture, an index) meets the next one. The theorems hold for
  all bounds.
* **Examples.** Two frames stand for the `MAX_FRAMES` of 300: a frame hands to the
  next one nothing but the history, the contents of the textures and a redraw. The
  headless programs run their own `FRAME_COUNT` in full, since the sweep of
  `dynamic_resolution` depends on it. Resolutions are numbers along one axis, as
  `lerp_resolution` treats the two alike, with answers of NGX that leave a wide
  range, a narrow one and none. The theorems hold for any number of windowed
  frames and any answer.
* **SlLoader.** One plugin, one shim name, two directories, one replacement, two
  loads, three contents: NVIDIA's DLL, an unsigned one, and one that fails every
  check there is but can be waved through by an unreachable revocation server, an
  unreadable signer and the opt-out, and that lacks an export. One replacement is
  enough to separate what was verified from what is mapped; a second load is
  needed for the image that is mapped already. The theorems hold for all.
* **Upscaler, FgHandoff.** Four outputs, one for each quality `Auto` picks; NGX
  answers of the output's size, its half and its third, with and without a range
  between them, on the first output, and one answer with a range on the others
  (what the properties say of an answer depends on its ratio to the output only);
  one scale of motion vectors beside the default; hand-over to frame generation in
  one mode (`FgModes`), since what is handed over does not depend on it. Frames
  are not bounded; each is rendered once. `upscaler_subrect` has one output, which
  `Auto` upscales to, and the answer with a range.

Deadlock is checked but in `Examples`, with `FgFrame`, and `SlLoader`, where a program that
has ended, or an application that has used up its calls, can do nothing more and
that is the end of the run. In
`NgxSdk` and `FgContext` an explicit stuttering step, `AtRest`, marks the states
in which the program may end, and any other state without a step is reported.

### Fairness

Weak fairness only, and only of what the program is obliged to do: a thread that
is inside the crate goes on and the NGX, Streamline and wgpu calls it is in return
(`NewStep`, `StatsStep`, each camera's `CreateStep`, `RenderStep`, `ReleaseStep`
taken together, each actor's `TeardownStep`; in FgContext `NewStep`, `DropStep`),
the GPU finishes what is submitted (`GpuCompletes`), and in Examples a function
runs to its end, winit delivers the redraw that is pending and paints a window that
was just shown (`ProgramStep`). Nothing obliges the
application to create, render, drop or panic, a user to close the window, or the
system to paint it again. A `std::sync::Mutex` is not fair;
weak fairness suffices for a waiter because the bounds make the number of calls
finite, so that the lock is free for good in the end. That a thread is not
starved by others who call for ever is therefore not claimed.

## 4. Assumptions about what is outside

What is not the crate's is modelled by how the crate uses it.

* NGX and Streamline: each call returns, with success or an error, and keeps the
  contracts `NgxService` and `SlService`. A release gives the handle back whatever
  it answers (`ngx_feature.rs` has no second attempt), and `slShutdown` ends
  Streamline likewise. The settings NGX answers are ordered: minimum, optimum,
  maximum, output.
* wgpu: submissions finish in order; `poll(wait_indefinitely)` returns when what
  was submitted before it is finished. A poll that fails on a lost
  device is left out: there is no work then to wait for. `finish` puts deferred
  transitions before what was recorded raw, which is what the crate's two encoders
  rely on.
* The application keeps one `DlssSdk` (`sdk.rs:8`) and one Streamline API, gives
  one number to each `begin_frame`, renders once per frame with a context and
  passes subrects it has drawn.
* Win32: a file opened with `FILE_SHARE_READ` alone is not replaced while it is
  open. `security.rs:101` says itself that this *narrows* the window; the theorem
  about the gate is one for an effective share lock. `LoadLibrary` of a mapped
  image adds a reference. The environment variables of the opt-out do not change
  while the process runs. No plugin and no shim is called `sl.interposer.dll`
  (`LoaderAssumption`).

## 5. What is proved

For every value of the constants, hence for any number of cameras, calls, frames,
files and loads:

| Module | Theorem | Statement |
|---|---|---|
| `NgxSdk_proofs` | `TypeCorrect` | `[]TypeOK` |
| | `ProtocolHolds` | `[]Protocol`: lock, owners and what is up follow from the control points |
| | `Serialized` | `[]NgxSerialized` |
| | `NothingAfterShutdown` | `[]NoUseAfterShutdown` |
| | `HandlesUsedAreLive` | `[]UseOnlyLiveHandles` |
| | `OnlyAbandonedOutlive` | `[]ReleasedOrAbandoned` |
| | `ShutdownIsLast` | `[]ShutdownAfterRelease`, if `"create submit" \notin PanicPoints` |
| | `SettingsReachCreate` | `[]PrimingSurvives` |
| | `ReleasedIdle` | `[]ReleaseOnlyIdle` |
| | `TransitionsFirst` | `[]EvaluateSeesTransitions` |
| | `NobodyStuck` | `[]WaitsAreShort`: no wait is for one who waits |
| | `CallsEnd` | `[][CallsGoForward]_vars`: a call is over in at most twelve steps of its thread |
| | `OnlyFailedNewLeaves` | `[][LeftoverByFailedNew]_vars` |
| `NgxSdkRefinement_proofs` | `ImplementsService` | `RefinesService`, whatever panics |
| `FgContext_proofs` | `TypeCorrect`, `IndInvHolds` | `[]TypeOK`, `[]IndInv` |
| | `OneOwes` | `[]OneOwner` |
| | `ModesMirrored` | `[]EnabledMirrorsRuntime` |
| | `QueryAsksAccepted` | `[]QueryModeWasAccepted` |
| | `QuietAtShutdown` | `[]ShutdownQuiet` |
| | `FailedNewKeeps` | `NewMovesOrKeeps` |
| | `ImplementsStreamline` | `RefinesStreamline` |
| | `ApiCallsEnd` | `[][CallsGoOn]_vars`: `new` and the drops make at most five calls |
| `SlLoader_proofs` | `TypeCorrect` | `[]TypeOK` |
| | `GateHolds` | `[]MappedWasAccepted` |
| | `ProxyHolds` | `[]ProxyStaysMapped` |
| | `OnlyOwnIsFreed` | `[][FreesOnlyItsOwn]_vars` |
| | `CompleteIsNeverFreed` | `[]NeverFreed`, if every signed interposer has all exports |
| `SlLoaderQuiet_proofs` | `QuietLoadsAreClean` | `[]QuietLoadIsClean` |
| `FgFrame_proofs` | `TypeCorrect` | `[]TypeOK` |
| | `OrderIsReported` | `[]OrderReported` |
| | `IndexBeforePresent` | `[]NoPresentWithoutIndex` |
| | `FirstResets` | `[]FirstFrameResets` |
| `Examples_proofs` | `ProgramsUseFrames` | `ProgramSpec => Spec`: the programs are clients of `FgFrame` |
| | `ProgramsKeepFrames` | the three properties of `FgFrame` hold of every program |
| | `ProgramInvariant` | `[]ProgramInv`, the invariant the next seven rest on |
| | `ProgramTypeCorrect` | `[]ProgramTypeOK` |
| | `ProgramsKeepOrder` | `[]ProgramsInOrder` |
| | `SwapchainsBind` | `[]SwapchainBinds` |
| | `NothingIsStale` | `[]NothingStale` |
| | `SubrectsAreWithin` | `[]SubrectsFit` |
| | `BringUpUnwinds` | `[]UnwindsInOrder` |
| | `NextFrameIsAskedFor` | `[]NextIsAskedFor` |
| `FgHandoff_proofs` | `CallsAreTaken` | `[]NgxTakesCalls` |
| | `BoundIsReady` | `[]BoundInNeededState` |
| | `TagsMatch` | `[]TagsArePaired` |
| | `TagsAreTrue` | `[]TagsTellTheState` |
| | `MotionIsSame` | `[]SameMotion` |
| | `HandoffTypeCorrect` | `[]HandoffTypeOK` |
| | `JitterResolves` | `[]JitterCovers`, if a render pixel has at most four output pixels an axis, and as many on one as on the other but for one |
| | `JitterStays` | `[]JitterIsWithin`: at least eight phases, and every offset within the pixel |
| | `SamplesDiffer` | no two frame indexes have the same offset, on either axis |

The condition on `PanicPoints` is finding 2: with it dropped, the run
`ngx_submit_panic` refutes the statement. `OnlyAbandonedOutlive` is what holds
without it.

**NgxSdk.** None of its safety properties is inductive; each speaks of a few
control points only. The invariant has four parts, each preserved by every step
given the type invariant and the first part:

* `Protocol`: a thread holds the Mutex exactly at the points in `Critical` and a
  clone of the `Arc` exactly at those in `Owning`; a thread in `DlssSdk::new` or
  in the last drop is alone; at all points that still need the parameter block or
  NGX, they are there. Serialization follows: two threads inside NGX would both
  hold the lock, or one of them would not be alone.
* `Handles`: a context's handle is out while the context exists, and no other one
  is but those that are abandoned. With `Protocol` it
  follows that the thread which tears down finds none.
* `Primed`: from the settings query to the end of the create, the block holds the
  camera's values, because whoever writes to it holds the lock.
* `Fences`: a camera's feature may be busy on the GPU only between a submission
  and the poll after it, and the poll's target covers its last submission.

`RefinesService` maps `inside` to the threads whose `pc` names an export,
`handles` to `live` and `lost` to `abandoned`. Each of the 35 kinds of step is shown
to enter an export nobody is inside of, to leave one with the effect of the
service's action, to lose a handle, or to stutter. `TransitionsFirst` needs no
invariant beyond itself: the one step that makes an evaluate see its inputs submits
the transitions before it.

The three last theorems are about ends. `WaitsAreShort` follows from `Protocol` and
from what a target of a poll is, a submission: whoever waits for the Mutex waits for a
thread at a point in `Critical`, none of which is a wait, and a poll is never made with
the Mutex held. `CallsGoForward` is an action property with a measure, `StepsLeft`: the
control points of the crate form no cycle, whatever panics, and the other threads do
not move one's own. `LeftoverByFailedNew` is finding 1 turned round: of all the ways to
leave NGX up with nobody to shut it down, an error in `new` after Init is the only one.

**FgContext.** `IndInv` is `OneOwner` with `Phases` (each call of `new` runs with
the handle owning the API, each call of the context's drop with a context and no
Frame) and `Mirrors` (what Streamline was told of the mode, and what of that is
remembered). `NewMovesOrKeeps` is a property of steps and follows from `Phases`, and so
does `CallsGoOn`: its measure `CallsLeft` decreases with each call whatever it answers,
and while a drop runs no Frame is there that could submit what its poll waits for.

**SlLoader.** `IndInv` strengthens `MappedWasAccepted` by what makes the gate and
the mapping one: a file under verification is locked and there (`HoldsCurrent`),
and from the gate to the map the interposer is locked and acceptable
(`HoldsInterposer`), while the siblings are being locked and unlocked in between.
This needs that no sibling *is* the interposer (`InterposerIsNoSibling`), which is
the assumption on the names. `RefsOK` counts the references: a load that returned
Ok left one for good, so that a later load that fails gives back only its own.
`KeptIsComplete` adds that the image such a load left has every export, since it
resolved them all. So a load that finds one missing is the one that mapped the image
(`FreesOnlyItsOwn`), and with interposers that are complete none does
(`CompleteIsNeverFreed`, whose hypothesis is what finding 4 does without).

`QuietInv` says how far a load has come if no file was replaced in it: each sibling
is still in the list of those to look at, or was looked at (`SiblingsSeen`), and once
the list is empty all of them were. It leans on `GateHolds`' invariant, and on where
the names of the two directories end up in the list that `load` builds.

**FgFrame.** `OrderReported` compares the calls a Frame made with the proven
sequence. In `OrderInv` the step alone tells how many of them were made, as long as
nothing is reported; once something is, the calls have left the sequence at some
place, and calls that are appended leave it there. `IndexInv` is that a texture in
hand has been indexed, and `ResetInv` that before the first present, if nothing was
given up or skipped, the Frame in hand has index 0, which forces the flag.

**Examples.** `ProgramsUseFrames` is a refinement without a mapping: each operation of
a program is a step of `FgFrame` or leaves its variables alone. The theorems about
`FgFrame` carry over.

The rest follows from `ProgramInv`, for any number of frames (`MaxFrames`), any set of
programs, whatever NGX answers and whatever fails. None of the four properties is
inductive: whether a present is of its frame is settled by a draw several operations
before it, and whether the swapchain may bind by the order of the bring-up. `ProgramInv`
therefore says, of each position a function may be at, what the operations before it
have left:

* `ShapeInv`: `script` is that of the function that runs, whole, or what `GiveUp` and
  an unavailable surface leave of it (`Whole`, `Short`); nothing else is ever run.
* `OwnerInv`, `NewInv`, `LoopInv`: `held` lists an object once; in a bring-up, what is
  held is not `Ahead` in the script, and what is not held is; `owner` is the handle
  until `"fg"` has been made; a loop runs with a complete `GpuState`, or none. With
  them, `"configure"` finds the context made and the factory asked for.
* `StepInv`: the `step` of the Frame before each operation of a windowed program's
  frame, so that each of the operations is the next in the proven sequence.
* `ImageInv`, `HistoryInv`: which textures are in `current`, and what is in `pending`,
  between a draw, the submit after it, and what reads it; the history is of the feature
  of the frame before. With them, `StaleInv`.
* `FlagsInv`: a swapchain that exists is bound, or its factory was declined.
* `RangeInv`, `SubrectInv`: sizes come from an answer of NGX; an interpolated subrect
  lies between the ends of the range, which is a lemma about `Lerp` for all integers.

TLC found no violation of `ProgramInv` on the instance of `examples_safety` (908 808
states) before it was proved. Each conjunct has a lemma that all steps preserve it, given
the whole invariant before the step. The proof of the frames goes by program and by
position, since what an operation does depends on the operation that stands there; the
two sequences that are concatenations are told apart once, in lemmas that give the
operation at each place.

`BringUpUnwinds` and `NextFrameIsAskedFor` add an invariant each, which TLC checked
first on the same instance. `UnwindInv`: in a bring-up, the surface stands below the
context in `held`, because each script makes it first, and locals drop from the top; so
whatever had been made when it failed, generation is off before the swapchain goes.
`AskInv`: a frame that runs has asked for the next one, has `request_redraw` still
ahead of it, has given the frame up for an unavailable surface or has failed, and a
failure closes the loop.

**FgHandoff.** `HandoffInv` keeps, for the context that exists, that NGX took its
creation (`CreateInv`), and, for the last evaluate, that it found each bound texture
and left it in the state `BarrierState` says (`EvalInv`); tags and constants are of
the frame of that evaluate (`HandedInv`). `TagsMatch` is about two sequences joined
from the same optional pieces; it holds because each piece pairs up by itself
(`PairedJoin`). For `HandoffTypeOK`, `TypeInv` adds what a creation is made of and that
a context's textures are those of its roles; the model's `Nothing`, which stands for
`None` and for null, must be none of the creations (`NothingAssumption`), which is what
makes an absent context one.

The three theorems about jitter rest on what the loop of `halton_sequence` computes,
for every index. It is a recursive function, and what is proved of it goes by the least
counterexample (`Least`, from the well-foundedness of the natural numbers): the loop has
a result (`LoopExists`), its fraction stays below one (`LoopBelowOne`), and the digits it
takes off a number's end come back in the order of a Halton sequence (`HaltonInverts`,
from which `SamplesDiffer`). For `JitterCovers`, a ratio of two makes at least 32 phases
(`PhasesEnough`), 8 and 32 samples are computed by the loop's equation (`Samples2`,
`Samples3`), and `Covered` finds one for each output pixel, for each pair of
numbers of them up to four. The hypothesis on NGX's answers is about ratios: it holds
for a mode down to a third of the output, rounding included, and TLC finds it true of
the answers of `handoff_safety`. Something like it is needed: an answer that scales the
axes differently, say to 2 by 4 output pixels a render pixel, has too few phases, since
`suggested_jitter` counts them from the widths alone.

The model has exact fractions where the code has `f32`. For the number of phases the
proof needs only that ratios of at least 1 and 2 make at least 8 and 32; rounding keeps
order and these numbers are exact, so `f32` has as many. The indexes of a period are far
below 2^24, where `index as f32 / base as f32` has the integer quotient as its floor.
`SamplesDiffer` and `JitterStays` are about every index in exact arithmetic, and about
the code for the indexes a period has.

### What is only model-checked

Liveness (`LockWaitersProceed`, `TeardownCompletes`, `DropCompletes`, `ProgramEnds`):
fairness and `ENABLED` are beyond the proof system. The part of each that is about
steps is proved, for every value of the constants: nobody waits for one who waits and
calls end (`NobodyStuck`, `CallsEnd`), the calls of a drop end and its poll waits for no
more than was submitted before it (`ApiCallsEnd`), and a program's loop goes on and
leaves nothing (`NextFrameIsAskedFor`). What is left to TLC is that the steps are taken.

Every other property of a passing run is a theorem, `JitterCovers` under its condition
on the ratios. The violated properties are refuted by their runs; where a condition
separates the failure from what holds, sections 5 and 6 name the theorem.

## 6. Findings

Each is a run that TLC finds violated, with the code's own words against it.

1. **A failed `DlssSdk::new` leaves NGX up** (`ngx_failed_new`). Errors after
   Init succeeded (`sdk.rs:63`, `:84-87`) return without Shutdown1, and no object
   is left whose drop would call it; `tests/headless.rs:226-227` says that `new`
   runs Init and Drop the matching Shutdown. `OnlyFailedNewLeaves`: nothing else does this.
2. **A submit that unwinds in `create` leaks the feature handle**
   (`ngx_submit_panic`). `ngx_feature.rs:110` submits after the handle exists and
   before its owner does; NGX is then shut down with the handle live, which
   `sdk.rs:13-17` calls unsupported.
3. **The first presented frame may go without the reset flag** (`examples_reset`).
   `frame_gen.rs:815` forces it on frame 0 only. The windowed examples give a frame up
   when its surface is unavailable (`frame_generation.rs:540-548`,
   `sr_plus_fg.rs:772-778`), as `frame_gen.rs:846-847` prescribes: begun, its constants
   set, nothing acquired, all in order. In the run this happens to frame 0, with the
   swapchain bound; frame 1 is then the first that is presented, and its flag is plain.
   `frame_gen.rs:814` says the caller cannot forget.
4. **A missing export frees the interposer** (`slloader_export`). Each `resolve`
   with `?` (`ffi.rs:369-382`) comes before `mem::forget` (`:389`), so the Library
   is dropped; `ffi.rs:237-240` says it never is. `ProxyStaysMapped` shows that the
   image stays mapped all the same where an earlier load succeeded, `OnlyOwnIsFreed` that
   the load frees no one else's, and `CompleteIsNeverFreed` that with all exports there the
   comment is true.
5. **The default subrect is not the full texture** (`upscaler_subrect`). It is
   `max_render_resolution` (`context.rs:106-108`), while applications are told to
   render at `render_resolution`; `render_parameters.rs:60` describes the subrect
   as optional, instead of the full textures. The crate's `README.md:105-106` has the
   pitfall ("Leaving this None defaults to the max render resolution, which mismatches
   smaller inputs."), and `docs/BACKLOG.md` (M11) that the example there once fell for it.
6. **An unpacked roughness may be null** (`upscaler_roughness`). `validate`
   (`ray_reconstruction.rs:53-66`) leaves roughness out for the sake of
   `RoughnessMode::Packed`, whatever the mode is.
7. **The swapchain goes while generation is on** (`examples_teardown`). `GpuState`
   declares `surface` before `fg` (`frame_generation.rs:191`, `:219`;
   `sr_plus_fg.rs:231`, `:274`), and fields drop in the order of their declaration;
   the crate's `README.md:212-216` asks for the opposite. A bring-up that fails drops its
   locals in the right order (`UnwindsInOrder`, proved as `BringUpUnwinds`).

Met on the way, and not a run: after a frame given up for an unavailable surface no
redraw is asked for (`frame_generation.rs:540-548`, `sr_plus_fg.rs:772-778`), so that
the loop stands still until the system paints the window (`waiting` in `ProgramEnds`);
the sweep of `dynamic_resolution.rs:176-177` "visits the full `[min, max]` range (and
its endpoints)" but peaks at 14/15 of it, as 16 frames have no midpoint; the doc of `LowResolutionMotionVectors`
(`config.rs:70`) says "at the upscaled (output) resolution", the opposite of
`ray_reconstruction.rs:113-115`; if Streamline declines to upgrade the factory, only a log
line says so (lines 127 and 202-219 of the factory patch) and the application goes on with a
context whose generation never attaches; `Auto` picks DLAA's quality below 2.03 megapixels,
but `ngx_feature.rs:73` makes the resolutions the output's for the mode `Dlaa` alone, so that
there it is NGX that has to answer so.

## 7. What is not modelled

* `instance.rs`, `feature_info.rs`, `ngx_log.rs`: they build descriptors and
  argument blocks or forward log lines; there is no state and no order.
* `nvsdk_ngx.rs`, `build.rs`, `lib.rs`: generated bindings, a table from results
  to errors, re-exports.
* `streamline/types.rs`: the ABI structures; of the status word, its decoding. Of
  `tagging.rs`: formats, and the camera's part of `FgConstants`.
* The reading of the certificate store in `security.rs`: its result, readable or
  not, is one choice.
* wgpu's own validation in a frame: an example that trips it panics, and is out of
  the model then. The drawing itself is which frame a texture's content is of.
* Reflex, PCL statistics and `query_state` beyond the mode it asks with: they
  change nothing the crate reads again.
* The wgpu raw-command-list patch, beyond that a raw list may not be had.

## 8. Plan

The order is that of importance; the first eight are done.

1. `NgxService`, `NgxSdk` with its theorems and refinement: the shared state and
   the concurrency. *Done.*
2. `SlService`, `FgContext`, `FgFrame`: ownership and order in frame generation.
   *Done.*
3. `SlLoader`: the gate and the mapping. *Done.*
4. `Upscaler`, `FgHandoff`: the arguments. *Done.*
5. `Examples`: programs that use all of it, composed with `FgFrame`. *Done.*
6. Proofs of every safety property of `NgxSdk`, `FgContext`, `FgFrame` and
   `SlLoader` and `FgHandoff`, the jitter's loop included. *Done.*
7. Proofs that the programs keep the order, that their swapchains bind, that nothing
   stale is evaluated or presented and that subrects fit, for any number of frames.
   *Done.*
8. Proofs of what liveness rests on beside fairness, and of the conditions under which
   the violated properties hold or what remains of them. *Done.*
9. `FgProcess`, composing the loader, the patched `Instance::init` and the
   context in one process: the interposer stays mapped after `slInit` failed or
   `slShutdown` ran, and an `Instance` created then is upgraded through a
   Streamline that is not running. Its run would take in that of `FgContext`.
10. Two `DlssSdk` objects over the one process-global NGX, against the
   documentation's "one per application".
11. The decoding of the frame-generation status, and the camera's part of
    `FgConstants`.
