------------------------------- MODULE NgxSdk -------------------------------
(***************************************************************************)
(* The NGX side of the crate: one DlssSdk (src/sdk.rs), shared as          *)
(* Arc<Mutex<DlssSdk>> by an application thread and by any number of       *)
(* cameras, each of which creates, renders with and drops an NgxFeature    *)
(* (src/ngx_feature.rs, the core of DlssContext and of                     *)
(* DlssRayReconstructionContext).                                          *)
(*                                                                         *)
(* An actor's pc names what it is executing.  A pc in NgxCalls means that  *)
(* the actor is inside that NGX export: the call begins in one step and    *)
(* returns in a later one, so that two calls overlapping is a state.  The  *)
(* result of a call is a choice between its outcomes.                      *)
(***************************************************************************)
EXTENDS Naturals, FiniteSets

CONSTANTS
  Cameras,      \* the camera threads, each with at most one context at a time
  Main,         \* the application thread that calls DlssSdk::new
  NoOne,        \* a value that is no actor
  SrProbe,      \* TRUE iff the super-resolution cargo feature is on
  PanicPoints,  \* the places where a call out of the crate may unwind
  MaxNews,      \* bound: calls of DlssSdk::new
  MaxStats,     \* bound: calls of vram_allocated_bytes
  MaxCreates,   \* bound: contexts created per camera
  MaxRenders    \* bound: renders per camera

Actors == Cameras \cup {Main}

ASSUME ActorsAssumption == Main \notin Cameras /\ NoOne \notin Actors

ASSUME BoundsAssumption ==
  /\ SrProbe \in BOOLEAN
  /\ PanicPoints \subseteq {"record", "create submit", "eval submit", "stats"}
  /\ MaxNews \in Nat /\ MaxStats \in Nat
  /\ MaxCreates \in Nat /\ MaxRenders \in Nat

VARIABLES
  pc,         \* what each actor is executing
  ngx,        \* "down" | "up": NVSDK_NGX_D3D12_Init / Shutdown1
  params,     \* "none" | "live": the capability parameter block
  primed,     \* whose values the shared parameter block holds
  lock,       \* holder of the Mutex, or NoOne
  poisoned,   \* the Mutex was unlocked by an unwinding thread
  owners,     \* actors that hold a clone of the Arc
  live,       \* feature handles NGX handed out and did not get back
  abandoned,  \* those of them whose create unwound before anything owned them
  creates,    \* contexts each camera has started to create
  renders,    \* renders each camera has started
  news, stats,\* calls of new and of vram_allocated_bytes so far
  submitted,  \* wgpu queue: index of the last submission
  completed,  \* wgpu queue: index of the last submission the GPU finished
  lastUse,    \* last submission that uses a camera's feature
  target,     \* the submission an actor's device poll waits for
  tex,        \* state the submitted work leaves the cameras' shared input in
  seen        \* state that input was in when the last evaluate ran

ngxVars == <<ngx, params>>
lockVars == <<lock, poisoned>>
liveVars == <<live, abandoned>>
counters == <<creates, renders, news, stats>>
queueVars == <<submitted, completed, lastUse, target>>
texVars == <<tex, seen>>
vars == <<pc, ngxVars, primed, lockVars, owners, liveVars, counters, queueVars, texVars>>

-----------------------------------------------------------------------------
(* Control points *)

NgxCalls == {"Init", "GetCaps", "Probe", "ProbeDestroy", "Settings", "Create",
             "Eval", "Release", "Stats", "Destroy", "Shutdown"}

\* Points at which an actor holds the Mutex guard.
Critical == {"Settings", "Record", "Create", "CreateSubmit", "Eval", "Release", "Stats"}

\* Points of DlssSdk::new and of DlssSdk::drop, which run without the Mutex.
Constructing == {"Init", "GetCaps", "Probe", "ProbeDestroy"}
TearingDown == {"SdkPoll", "Destroy", "Shutdown"}

\* Points at which an actor holds a clone of the Arc.
Owning == {"up", "StatsLock", "Stats", "CreateLock", "Settings", "Record", "Create",
           "CreateSubmit", "ready", "EvalLock", "Eval", "EvalSubmit", "Poll",
           "ReleaseLock", "Release", "DropArc"}

\* Points at which a camera's context owns a feature handle.
HasHandle == {"CreateSubmit", "ready", "EvalLock", "Eval", "EvalSubmit", "Poll",
              "ReleaseLock", "Release"}

Labels == {"out"} \cup Owning \cup Constructing \cup TearingDown

InCall(a) == pc[a] \in NgxCalls

\* The handle of the context camera c is working with.
Handle(c) == <<c, creates[c]>>

Goto(a, from, to) == pc[a] = from /\ pc' = [pc EXCEPT ![a] = to]

\* Mutex::lock, poison-tolerant: a poisoned lock is taken like any other.
Acquire(a) == lock = NoOne /\ lock' = a /\ UNCHANGED poisoned

\* The MutexGuard goes out of scope.
Unlock == lock' = NoOne /\ UNCHANGED poisoned

\* The MutexGuard is dropped by an unwinding thread.
UnlockUnwinding == lock' = NoOne /\ poisoned' = TRUE

\* Queue::submit: one more submission, the last one to use c's feature.
SubmitFeatureWork(c) ==
  /\ submitted' = submitted + 1
  /\ lastUse' = [lastUse EXCEPT ![c] = submitted + 1]
  /\ UNCHANGED <<completed, target>>

\* Mutant: the poll waits for a submission nobody made.
BeginPoll_OffByOne(a) ==
  /\ target' = [target EXCEPT ![a] = submitted + 1]
  /\ UNCHANGED <<submitted, completed, lastUse>>

\* Device::poll(wait_indefinitely): wait for what is submitted by now.
BeginPoll(a) ==
  /\ target' = [target EXCEPT ![a] = submitted]
  /\ UNCHANGED <<submitted, completed, lastUse>>

Init ==
  /\ pc = [a \in Actors |-> "out"]
  /\ ngx = "down" /\ params = "none" /\ primed = NoOne
  /\ lock = NoOne /\ poisoned = FALSE
  /\ owners = {} /\ live = {} /\ abandoned = {}
  /\ creates = [c \in Cameras |-> 0] /\ renders = [c \in Cameras |-> 0]
  /\ news = 0 /\ stats = 0
  /\ submitted = 0 /\ completed = 0
  /\ lastUse = [c \in Cameras |-> 0]
  /\ target = [a \in Actors |-> 0]
  /\ tex = "target" /\ seen = "none"

-----------------------------------------------------------------------------
(* DlssSdk::new, on the application thread *)

\* The application keeps one DlssSdk: new is called when none exists.
NewSdk ==
  /\ news < MaxNews
  /\ owners = {} /\ \A c \in Cameras : pc[c] = "out"
  /\ Goto(Main, "out", "Init")
  /\ news' = news + 1
  /\ UNCHANGED <<ngxVars, primed, lockVars, owners, liveVars, creates, renders, stats,
                 queueVars, texVars>>

InitReturns ==
  /\ \/ Goto(Main, "Init", "GetCaps") /\ ngx' = "up"
     \/ Goto(Main, "Init", "out") /\ UNCHANGED ngx        \* Err: returned by `?`
  /\ UNCHANGED <<params, primed, lockVars, owners, liveVars, counters, queueVars, texVars>>

\* new returns the Arc: the object exists and the application holds it.
SdkReady(from) == Goto(Main, from, "up") /\ owners' = {Main}

\* An error leaves NGX initialized: no DlssSdk exists whose Drop shuts it down.
GetCapsReturns ==
  /\ \/ /\ params' = "live"
        /\ IF SrProbe THEN Goto(Main, "GetCaps", "Probe") /\ UNCHANGED owners
                      ELSE SdkReady("GetCaps")
     \/ Goto(Main, "GetCaps", "out") /\ UNCHANGED <<params, owners>>
  /\ UNCHANGED <<ngx, primed, lockVars, liveVars, counters, queueVars, texVars>>

ProbeReturns ==
  /\ \/ SdkReady("Probe")
     \/ Goto(Main, "Probe", "ProbeDestroy") /\ UNCHANGED owners  \* no SR support
  /\ UNCHANGED <<ngxVars, primed, lockVars, liveVars, counters, queueVars, texVars>>

ProbeDestroyReturns ==
  /\ Goto(Main, "ProbeDestroy", "out")
  /\ params' = "none"
  /\ UNCHANGED <<ngx, primed, lockVars, owners, liveVars, counters, queueVars, texVars>>

-----------------------------------------------------------------------------
(* vram_allocated_bytes, called by the application on its lock guard *)

CallStats ==
  /\ stats < MaxStats
  /\ Goto(Main, "up", "StatsLock")
  /\ stats' = stats + 1
  /\ UNCHANGED <<ngxVars, primed, lockVars, owners, liveVars, creates, renders, news,
                 queueVars, texVars>>

StatsBegins ==
  /\ Goto(Main, "StatsLock", "Stats")
  /\ Acquire(Main)
  /\ primed' = Main
  /\ UNCHANGED <<ngxVars, owners, liveVars, counters, queueVars, texVars>>

StatsReturns ==
  /\ Goto(Main, "Stats", "up")
  /\ Unlock
  /\ UNCHANGED <<ngxVars, primed, owners, liveVars, counters, queueVars, texVars>>

\* The application panics while it holds the guard, and drops its clone.
StatsPanics ==
  /\ "stats" \in PanicPoints
  /\ Goto(Main, "Stats", "DropArc")
  /\ UnlockUnwinding
  /\ UNCHANGED <<ngxVars, primed, owners, liveVars, counters, queueVars, texVars>>

DropSdkClone ==
  /\ Goto(Main, "up", "DropArc")
  /\ UNCHANGED <<ngxVars, primed, lockVars, owners, liveVars, counters, queueVars, texVars>>

-----------------------------------------------------------------------------
(* NgxFeature::create *)

\* Mutant: the context borrows the SDK instead of owning a clone.
CallCreate_Borrows(c) ==
  /\ pc[Main] = "up" /\ creates[c] < MaxCreates
  /\ Goto(c, "out", "CreateLock")
  /\ creates' = [creates EXCEPT ![c] = @ + 1]
  /\ UNCHANGED <<ngxVars, primed, lockVars, owners, liveVars, renders, news, stats,
                 queueVars, texVars>>

\* The application clones its Arc for a context's constructor.
CallCreate(c) ==
  /\ pc[Main] = "up" /\ creates[c] < MaxCreates
  /\ Goto(c, "out", "CreateLock")
  /\ owners' = owners \cup {c}
  /\ creates' = [creates EXCEPT ![c] = @ + 1]
  /\ UNCHANGED <<ngxVars, primed, lockVars, liveVars, renders, news, stats, queueVars, texVars>>

\* Lock the Mutex, then GET_OPTIMAL_SETTINGS, which primes the parameter block.
CreateBegins(c) ==
  /\ Goto(c, "CreateLock", "Settings")
  /\ Acquire(c)
  /\ primed' = c
  /\ UNCHANGED <<ngxVars, owners, liveVars, counters, queueVars, texVars>>

\* Mutant: the guard covers each NGX call, but not the two of them together.
SettingsReturns_Unlocks(c) ==
  /\ Goto(c, "Settings", "Record") \/ Goto(c, "Settings", "DropArc")
  /\ Unlock
  /\ UNCHANGED <<ngxVars, primed, owners, liveVars, counters, queueVars, texVars>>

SettingsReturns(c) ==
  /\ \/ Goto(c, "Settings", "Record") /\ UNCHANGED lockVars
     \/ Goto(c, "Settings", "DropArc") /\ Unlock           \* Err
  /\ UNCHANGED <<ngxVars, primed, owners, liveVars, counters, queueVars, texVars>>

\* The throwaway encoder; CREATE_*_EXT starts on its raw list, if it has one.
RecordCreate(c) ==
  /\ \/ Goto(c, "Record", "Create") /\ primed' = c /\ UNCHANGED lockVars
     \/ Goto(c, "Record", "DropArc") /\ Unlock /\ UNCHANGED primed  \* not Dx12
     \/ /\ "record" \in PanicPoints
        /\ Goto(c, "Record", "DropArc") /\ UnlockUnwinding /\ UNCHANGED primed
  /\ UNCHANGED <<ngxVars, owners, liveVars, counters, queueVars, texVars>>

\* Mutant: the result of CREATE_*_EXT is not looked at.
CreateReturns_IgnoresError(c) ==
  /\ Goto(c, "Create", "CreateSubmit")
  /\ live' = live \cup {Handle(c)} \/ UNCHANGED live
  /\ UNCHANGED <<ngxVars, primed, lockVars, owners, abandoned, counters, queueVars, texVars>>

CreateReturns(c) ==
  /\ \/ Goto(c, "Create", "CreateSubmit") /\ live' = live \cup {Handle(c)}
                                          /\ UNCHANGED lockVars
     \/ Goto(c, "Create", "DropArc") /\ Unlock /\ UNCHANGED live    \* Err
  /\ UNCHANGED <<ngxVars, primed, owners, abandoned, counters, queueVars, texVars>>

\* queue.submit, drop(guard), Ok(Self): the context owns handle and clone.
CreateSubmits(c) ==
  /\ Goto(c, "CreateSubmit", "ready")
  /\ SubmitFeatureWork(c)
  /\ Unlock
  /\ UNCHANGED <<ngxVars, primed, owners, liveVars, counters, texVars>>

\* submit unwinds: guard and clone are dropped, but no NgxFeature exists yet
\* whose Drop would give the handle back.
CreateSubmitPanics(c) ==
  /\ "create submit" \in PanicPoints
  /\ Goto(c, "CreateSubmit", "DropArc")
  /\ abandoned' = abandoned \cup {Handle(c)}
  /\ UnlockUnwinding
  /\ UNCHANGED <<ngxVars, primed, owners, live, counters, queueVars, texVars>>

-----------------------------------------------------------------------------
(* NgxFeature::evaluate, called by render *)

\* The application submits a scene pass that writes an input the cameras share,
\* which leaves it in the render-target state.
SubmitScene(c) ==
  /\ pc[c] = "ready" /\ renders[c] < MaxRenders
  /\ tex = "input"
  /\ tex' = "target"
  /\ submitted' = submitted + 1
  /\ UNCHANGED <<pc, ngxVars, primed, lockVars, owners, liveVars, counters, completed,
                 lastUse, target, seen>>

\* render: inputs validated, the transitions recorded on their own encoder.
CallRender(c) ==
  /\ renders[c] < MaxRenders
  /\ Goto(c, "ready", "EvalLock")
  /\ renders' = [renders EXCEPT ![c] = @ + 1]
  /\ UNCHANGED <<ngxVars, primed, lockVars, owners, liveVars, creates, news, stats,
                 queueVars, texVars>>

\* Mutant: the critical section is narrowed past the NGX call.
EvalBegins_Unlocked(c) ==
  /\ Goto(c, "EvalLock", "Eval")
  /\ primed' = c
  /\ UNCHANGED <<ngxVars, lockVars, owners, liveVars, counters, queueVars, texVars>>

\* Lock the Mutex, then EVALUATE_*_EXT on the second encoder's raw list.
EvalBegins(c) ==
  /\ Goto(c, "EvalLock", "Eval")
  /\ Acquire(c)
  /\ primed' = c
  /\ UNCHANGED <<ngxVars, owners, liveVars, counters, queueVars, texVars>>

\* No open raw list: the guard is taken and dropped without an NGX call.
EvalHasNoList(c) ==
  /\ lock = NoOne
  /\ Goto(c, "EvalLock", "ready")
  /\ UNCHANGED <<ngxVars, primed, lockVars, owners, liveVars, counters, queueVars, texVars>>

\* Mutant: the error path returns with the lock held.
EvalReturns_KeepsLock(c) ==
  /\ \/ Goto(c, "Eval", "EvalSubmit") /\ Unlock
     \/ Goto(c, "Eval", "ready") /\ UNCHANGED lockVars
  /\ UNCHANGED <<ngxVars, primed, owners, liveVars, counters, queueVars, texVars>>

\* On an error both encoders are dropped: nothing is submitted.
EvalReturns(c) ==
  /\ \/ Goto(c, "Eval", "EvalSubmit")
     \/ Goto(c, "Eval", "ready")
  /\ Unlock
  /\ UNCHANGED <<ngxVars, primed, owners, liveVars, counters, queueVars, texVars>>

\* Mutant: the evaluate is submitted ahead of its transitions.
EvalLists_Swapped == <<"evaluate", "transitions">>

\* The command lists of the one submission, in order.
EvalLists == <<"transitions", "evaluate">>

\* The state the evaluate list finds an input in that was in state s when the
\* submission was made: the lists before it have run.
EvaluateFinds(s) ==
  IF \E i, j \in DOMAIN EvalLists :
       i < j /\ EvalLists[i] = "transitions" /\ EvalLists[j] = "evaluate"
  THEN "input" ELSE s

EvalSubmits(c) ==
  /\ Goto(c, "EvalSubmit", "ready")
  /\ SubmitFeatureWork(c)
  /\ seen' = EvaluateFinds(tex)
  /\ tex' = "input"
  /\ UNCHANGED <<ngxVars, primed, lockVars, owners, liveVars, counters>>

\* submit unwinds through render: the context is dropped on the way out.
EvalSubmitPanics(c) ==
  /\ "eval submit" \in PanicPoints
  /\ Goto(c, "EvalSubmit", "Poll")
  /\ BeginPoll(c)
  /\ UNCHANGED <<ngxVars, primed, lockVars, owners, liveVars, counters, texVars>>

-----------------------------------------------------------------------------
(* NgxFeature::drop, then its fields; DlssSdk::drop by the last owner *)

DropContext(c) ==
  /\ Goto(c, "ready", "Poll")
  /\ BeginPoll(c)
  /\ UNCHANGED <<ngxVars, primed, lockVars, owners, liveVars, counters, texVars>>

\* Mutant: the poll does not wait.
PollReturns_DontWait(c) ==
  /\ Goto(c, "Poll", "ReleaseLock")
  /\ UNCHANGED <<ngxVars, primed, lockVars, owners, liveVars, counters, queueVars, texVars>>

PollReturns(c) ==
  /\ completed >= target[c]
  /\ Goto(c, "Poll", "ReleaseLock")
  /\ UNCHANGED <<ngxVars, primed, lockVars, owners, liveVars, counters, queueVars, texVars>>

\* Mutant: a poisoned Mutex makes the context skip ReleaseFeature.
ReleaseBegins_SkipsPoisoned(c) ==
  /\ \/ ~poisoned /\ Goto(c, "ReleaseLock", "Release") /\ Acquire(c)
     \/ poisoned /\ Goto(c, "ReleaseLock", "DropArc") /\ UNCHANGED lockVars
  /\ UNCHANGED <<ngxVars, primed, owners, liveVars, counters, queueVars, texVars>>

ReleaseBegins(c) ==
  /\ Goto(c, "ReleaseLock", "Release")
  /\ Acquire(c)
  /\ UNCHANGED <<ngxVars, primed, owners, liveVars, counters, queueVars, texVars>>

\* An error is only logged: either way the handle was given back.
ReleaseReturns(c) ==
  /\ Goto(c, "Release", "DropArc")
  /\ live' = live \ {Handle(c)}
  /\ Unlock
  /\ UNCHANGED <<ngxVars, primed, owners, abandoned, counters, queueVars, texVars>>

\* Mutant: the application's clone, not the last one, runs DlssSdk::drop.
DropArc_MainTearsDown(a) ==
  /\ owners' = owners \ {a}
  /\ \/ a # Main /\ Goto(a, "DropArc", "out") /\ UNCHANGED queueVars
     \/ a = Main /\ Goto(a, "DropArc", "SdkPoll") /\ BeginPoll(a)
  /\ UNCHANGED <<ngxVars, primed, lockVars, liveVars, counters, texVars>>

\* A clone of the Arc is dropped; the last one runs DlssSdk::drop.
DropArc(a) ==
  /\ owners' = owners \ {a}
  /\ \/ /\ owners # {a}
        /\ Goto(a, "DropArc", "out")
        /\ UNCHANGED queueVars
     \/ /\ owners = {a}
        /\ Goto(a, "DropArc", "SdkPoll")
        /\ BeginPoll(a)
  /\ UNCHANGED <<ngxVars, primed, lockVars, liveVars, counters, texVars>>

SdkPollReturns(a) ==
  /\ completed >= target[a]
  /\ Goto(a, "SdkPoll", "Destroy")
  /\ UNCHANGED <<ngxVars, primed, lockVars, owners, liveVars, counters, queueVars, texVars>>

\* Mutant: the block is destroyed and its pointer kept.
DestroyReturns_Dangling(a) ==
  /\ Goto(a, "Destroy", "Shutdown")
  /\ params' = "dangling"
  /\ UNCHANGED <<ngx, primed, lockVars, owners, liveVars, counters, queueVars, texVars>>

DestroyReturns(a) ==
  /\ Goto(a, "Destroy", "Shutdown")
  /\ params' = "none"
  /\ UNCHANGED <<ngx, primed, lockVars, owners, liveVars, counters, queueVars, texVars>>

ShutdownReturns(a) ==
  /\ Goto(a, "Shutdown", "out")
  /\ ngx' = "down"
  /\ UNCHANGED <<params, primed, lockVars, owners, liveVars, counters, queueVars, texVars>>

-----------------------------------------------------------------------------
\* The GPU finishes the submissions in order.
GpuCompletes ==
  /\ completed < submitted
  /\ completed' = completed + 1
  /\ UNCHANGED <<pc, ngxVars, primed, lockVars, owners, liveVars, counters, submitted,
                 lastUse, target, texVars>>

\* Every actor is at rest: the program may end here.
AtRest ==
  /\ \A a \in Actors : pc[a] = "out"
  /\ completed = submitted
  /\ UNCHANGED vars

NewStep == InitReturns \/ GetCapsReturns \/ ProbeReturns \/ ProbeDestroyReturns

StatsStep == StatsBegins \/ StatsReturns

CreateStep(c) ==
  CreateBegins(c) \/ SettingsReturns(c) \/ RecordCreate(c) \/ CreateReturns(c)
    \/ CreateSubmits(c)

RenderStep(c) == EvalBegins(c) \/ EvalHasNoList(c) \/ EvalReturns(c) \/ EvalSubmits(c)

ReleaseStep(c) == PollReturns(c) \/ ReleaseBegins(c) \/ ReleaseReturns(c)

TeardownStep(a) ==
  DropArc(a) \/ SdkPollReturns(a) \/ DestroyReturns(a) \/ ShutdownReturns(a)

AppStep(c) == CallCreate(c) \/ SubmitScene(c) \/ CallRender(c) \/ DropContext(c)

Panic(c) == CreateSubmitPanics(c) \/ EvalSubmitPanics(c)

Next ==
  \/ NewSdk \/ CallStats \/ StatsPanics \/ DropSdkClone
  \/ NewStep \/ StatsStep
  \/ \E c \in Cameras :
       AppStep(c) \/ Panic(c) \/ CreateStep(c) \/ RenderStep(c) \/ ReleaseStep(c)
  \/ \E a \in Actors : TeardownStep(a)
  \/ GpuCompletes
  \/ AtRest

Spec == Init /\ [][Next]_vars

\* A thread inside the crate, and the GPU, keep running; the application is
\* never obliged to create, render or drop.
Fairness ==
  /\ WF_vars(NewStep) /\ WF_vars(StatsStep) /\ WF_vars(GpuCompletes)
  /\ \A c \in Cameras : WF_vars(CreateStep(c) \/ RenderStep(c) \/ ReleaseStep(c))
  /\ \A a \in Actors : WF_vars(TeardownStep(a))

FairSpec == Spec /\ Fairness
-----------------------------------------------------------------------------
TypeOK ==
  /\ pc \in [Actors -> Labels]
  /\ ngx \in {"down", "up"} /\ params \in {"none", "live"}
  /\ primed \in Actors \cup {NoOne}
  /\ lock \in Actors \cup {NoOne} /\ poisoned \in BOOLEAN
  /\ owners \subseteq Actors
  /\ live \subseteq Cameras \X Nat /\ abandoned \subseteq Cameras \X Nat
  /\ creates \in [Cameras -> Nat] /\ renders \in [Cameras -> Nat]
  /\ news \in Nat /\ stats \in Nat
  /\ submitted \in Nat /\ completed \in Nat
  /\ lastUse \in [Cameras -> Nat] /\ target \in [Actors -> Nat]
  /\ tex \in {"target", "input"} /\ seen \in {"none", "target", "input"}

\* NGX is not thread-safe (sdk.rs:11): no two threads are ever inside an NGX
\* export at once, the unlocked calls of DlssSdk::new and drop included.
NgxSerialized ==
  \A a, b \in Actors : InCall(a) /\ InCall(b) => a = b

\* No thread is inside an export while NGX is shut down, or inside one that
\* reads the parameter block after DestroyParameters.
NoUseAfterShutdown ==
  \A a \in Actors :
    /\ InCall(a) /\ pc[a] # "Init" => ngx = "up"
    /\ InCall(a) /\ pc[a] \notin {"Init", "GetCaps", "Shutdown"} => params = "live"

\* sdk.rs:13-17: when the last clone tears NGX down, no feature handle is live.
ShutdownAfterRelease ==
  \A a \in Actors : pc[a] \in {"Destroy", "Shutdown"} => live = {}

\* sdk.rs:13-17: whatever panics, a handle outlives the last clone only if its create
\* unwound before the NgxFeature existed whose Drop gives it back.
ReleasedOrAbandoned ==
  \A a \in Actors : pc[a] \in {"Destroy", "Shutdown"} => live \subseteq abandoned

\* A feature is evaluated and released through a handle NGX still knows.
UseOnlyLiveHandles ==
  \A c \in Cameras : pc[c] \in {"Eval", "Release"} => Handle(c) \in live

\* ngx_feature.rs:230-231: while a feature is being released, and while NGX is
\* being torn down, the GPU has finished all submitted work that uses it.
ReleaseOnlyIdle ==
  \A c \in Cameras :
    \/ pc[c] = "Release"
    \/ \E a \in Actors : pc[a] \in {"Destroy", "Shutdown"}
    => lastUse[c] <= completed

\* ray_reconstruction.rs:127-128: CREATE reads what the same thread's settings
\* query put into the one shared parameter block; nobody writes in between.
PrimingSurvives ==
  \A c \in Cameras : pc[c] \in {"Record", "Create"} => primed = c

\* ngx_feature.rs:152-155: the GPU never evaluates a feature before its inputs
\* have been transitioned away from the state the scene pass left them in.
EvaluateSeesTransitions == seen # "target"

\* headless.rs:226-227: DlssSdk::new runs Init and Drop runs the matching
\* Shutdown: with no object left and no call running, NGX is down.
InitMatchedByShutdown ==
  (\A a \in Actors : pc[a] = "out") => ngx = "down"

\* A thread that waits for the Mutex in new or render, whatever others do and
\* however the Mutex was poisoned, gets its call done.
LockWaitersProceed ==
  \A c \in Cameras :
    /\ pc[c] = "CreateLock" ~> pc[c] \in {"ready", "out"}
    /\ pc[c] = "EvalLock" ~> pc[c] = "ready" \/ pc[c] = "Poll"

\* Dropping a context or a clone ends, through the SDK's own teardown if it was
\* the last one.
TeardownCompletes ==
  \A a \in Actors : pc[a] \in {"Poll", "DropArc"} ~> pc[a] = "out"
-----------------------------------------------------------------------------
(* The inductive invariant behind the safety properties *)

\* Points from which the parameter block is still going to be used.
NeedsParams == Owning \cup {"Probe", "ProbeDestroy", "SdkPoll", "Destroy"}

\* Points at which work on a camera's feature may be unfinished on the GPU.
MayBeBusy == {"ready", "EvalLock", "Eval", "EvalSubmit", "Poll"}

\* Who holds the Mutex, who owns the Arc, who runs alone, what is up.
Protocol ==
  /\ \A a \in Actors : lock = a <=> pc[a] \in Critical
  /\ \A a \in Actors : a \in owners <=> pc[a] \in Owning
  /\ \A a, b \in Actors :
       pc[a] \in Constructing \cup TearingDown => a = b \/ pc[b] = "out"
  /\ \A a \in Actors : pc[a] \in NeedsParams => params = "live"
  /\ \A a \in Actors :
       pc[a] \in NeedsParams \cup {"GetCaps", "Shutdown"} => ngx = "up"

\* From the settings query to the end of the create, the block is the camera's.
Primed == \A c \in Cameras : pc[c] \in {"Settings", "Record", "Create"} => primed = c

\* Points of a create before NGX has handed a handle out.
Creating == {"CreateLock", "Settings", "Record", "Create"}

\* A context's handle is out, and only they and the abandoned ones are; the handle
\* of a create is a new one.
Handles ==
  /\ abandoned \subseteq live
  /\ \A c \in Cameras : pc[c] \in HasHandle => Handle(c) \in live \ abandoned
  /\ \A c \in Cameras : pc[c] \in Creating => Handle(c) \notin live
  /\ \A c \in Cameras, n \in Nat :
       /\ <<c, n>> \in live => n <= creates[c]
       /\ <<c, n>> \in live \ abandoned => pc[c] \in HasHandle /\ n = creates[c]
  /\ "create submit" \notin PanicPoints => abandoned = {}

\* Only between a submission and the poll that follows it can a feature be busy.
Fences ==
  /\ completed <= submitted
  /\ \A c \in Cameras :
       /\ lastUse[c] <= submitted
       /\ pc[c] = "Poll" => lastUse[c] <= target[c]
       /\ pc[c] \notin MayBeBusy => lastUse[c] <= completed

-----------------------------------------------------------------------------
Inside == {a \in Actors : InCall(a)}

Service == INSTANCE NgxService WITH
  Callers <- Actors,
  up <- ngx = "up",
  inside <- Inside,
  handles <- live,
  lost <- abandoned

\* The crate as a whole keeps NGX's contract: every step of every thread is a
\* step of the abstract service, or none.
RefinesService == Service!Spec
=============================================================================
