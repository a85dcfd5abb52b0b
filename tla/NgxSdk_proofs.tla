---------------------------- MODULE NgxSdk_proofs ----------------------------
(***************************************************************************)
(* Proofs about NgxSdk, for any set of cameras and any bounds.  Each layer *)
(* of the inductive invariant uses the ones before it:                     *)
(*                                                                         *)
(*   TypeOK     the type invariant                                         *)
(*   Protocol   who holds the Mutex, who owns the Arc, who runs alone, and *)
(*              when NGX and its parameter block are up                    *)
(*   Handles    which handles NGX has out, and whose they are              *)
(*   Primed     whose values the shared parameter block holds              *)
(*   Fences     what of a camera's GPU work may be unfinished, and when    *)
(***************************************************************************)
EXTENDS NgxSdk, TLAPS

\* Every actor is one, and every control point a label.
LEMMA Known ==
  /\ Main \in Actors
  /\ \A c \in Cameras : c \in Actors
  /\ Labels = {"out", "up", "StatsLock", "Stats", "CreateLock", "Settings", "Record",
               "Create", "CreateSubmit", "ready", "EvalLock", "Eval", "EvalSubmit",
               "Poll", "ReleaseLock", "Release", "DropArc", "Init", "GetCaps",
               "Probe", "ProbeDestroy", "SdkPoll", "Destroy", "Shutdown"}
  BY DEF Actors, Labels, Owning, Constructing, TearingDown

-----------------------------------------------------------------------------
\* Every variable keeps its type, whatever the threads do.
THEOREM TypeCorrect == Spec => []TypeOK
<1>1. Init => TypeOK
  <2> SUFFICES ASSUME Init
               PROVE  TypeOK
    OBVIOUS
  <2>1. pc \in [Actors -> Labels] /\ target \in [Actors -> Nat]
    BY DEF Init, Labels
  <2>2. /\ creates \in [Cameras -> Nat] /\ renders \in [Cameras -> Nat]
        /\ lastUse \in [Cameras -> Nat]
    BY DEF Init
  <2>3. QED
    BY <2>1, <2>2 DEF Init, TypeOK
<1>2. TypeOK /\ [Next]_vars => TypeOK'
  <2> SUFFICES ASSUME TypeOK, [Next]_vars
               PROVE  TypeOK'
    OBVIOUS
  <2> USE Known DEF TypeOK, Goto, queueVars, ngxVars, lockVars, liveVars, counters, texVars
  <2>1. CASE NewSdk
    BY <2>1 DEF NewSdk
  <2>2. CASE InitReturns
    BY <2>2 DEF InitReturns
  <2>3. CASE GetCapsReturns
    BY <2>3 DEF GetCapsReturns, SdkReady
  <2>4. CASE ProbeReturns
    BY <2>4 DEF ProbeReturns, SdkReady
  <2>5. CASE ProbeDestroyReturns
    BY <2>5 DEF ProbeDestroyReturns
  <2>6. CASE CallStats
    BY <2>6 DEF CallStats
  <2>7. CASE StatsBegins
    BY <2>7 DEF StatsBegins, Acquire
  <2>8. CASE StatsReturns
    BY <2>8 DEF StatsReturns, Unlock
  <2>9. CASE StatsPanics
    BY <2>9 DEF StatsPanics, UnlockUnwinding
  <2>10. CASE DropSdkClone
    BY <2>10 DEF DropSdkClone
  <2>11. ASSUME NEW c \in Cameras, CallCreate(c)
        PROVE  TypeOK'
    BY <2>11 DEF CallCreate
  <2>12. ASSUME NEW c \in Cameras, CreateBegins(c)
        PROVE  TypeOK'
    BY <2>12 DEF CreateBegins, Acquire
  <2>13. ASSUME NEW c \in Cameras, SettingsReturns(c)
        PROVE  TypeOK'
    BY <2>13 DEF SettingsReturns, Unlock
  <2>14. ASSUME NEW c \in Cameras, RecordCreate(c)
        PROVE  TypeOK'
    BY <2>14 DEF RecordCreate, Unlock, UnlockUnwinding
  <2>15. ASSUME NEW c \in Cameras, CreateReturns(c)
        PROVE  TypeOK'
    BY <2>15 DEF CreateReturns, Unlock, Handle
  <2>16. ASSUME NEW c \in Cameras, CreateSubmits(c)
        PROVE  TypeOK'
    BY <2>16 DEF CreateSubmits, SubmitFeatureWork, Unlock
  <2>17. ASSUME NEW c \in Cameras, CreateSubmitPanics(c)
        PROVE  TypeOK'
    <3>1. Handle(c) \in Cameras \X Nat
      BY DEF Handle
    <3>2. abandoned' \subseteq Cameras \X Nat
      BY <2>17, <3>1 DEF CreateSubmitPanics
    <3>3. pc' \in [Actors -> Labels]
      BY <2>17 DEF CreateSubmitPanics
    <3>4. QED
      BY <2>17, <3>2, <3>3 DEF CreateSubmitPanics, UnlockUnwinding
  <2>18. ASSUME NEW c \in Cameras, SubmitScene(c)
        PROVE  TypeOK'
    BY <2>18 DEF SubmitScene
  <2>19. ASSUME NEW c \in Cameras, CallRender(c)
        PROVE  TypeOK'
    BY <2>19 DEF CallRender
  <2>20. ASSUME NEW c \in Cameras, EvalBegins(c)
        PROVE  TypeOK'
    BY <2>20 DEF EvalBegins, Acquire
  <2>21. ASSUME NEW c \in Cameras, EvalHasNoList(c)
        PROVE  TypeOK'
    BY <2>21 DEF EvalHasNoList
  <2>22. ASSUME NEW c \in Cameras, EvalReturns(c)
        PROVE  TypeOK'
    BY <2>22 DEF EvalReturns, Unlock
  <2>23. ASSUME NEW c \in Cameras, EvalSubmits(c)
        PROVE  TypeOK'
    BY <2>23 DEF EvalSubmits, SubmitFeatureWork, EvaluateFinds
  <2>24. ASSUME NEW c \in Cameras, EvalSubmitPanics(c)
        PROVE  TypeOK'
    BY <2>24 DEF EvalSubmitPanics, BeginPoll
  <2>25. ASSUME NEW c \in Cameras, DropContext(c)
        PROVE  TypeOK'
    BY <2>25 DEF DropContext, BeginPoll
  <2>26. ASSUME NEW c \in Cameras, PollReturns(c)
        PROVE  TypeOK'
    BY <2>26 DEF PollReturns
  <2>27. ASSUME NEW c \in Cameras, ReleaseBegins(c)
        PROVE  TypeOK'
    BY <2>27 DEF ReleaseBegins, Acquire
  <2>28. ASSUME NEW c \in Cameras, ReleaseReturns(c)
        PROVE  TypeOK'
    BY <2>28 DEF ReleaseReturns, Unlock, Handle
  <2>29. ASSUME NEW a \in Actors, DropArc(a)
        PROVE  TypeOK'
    BY <2>29 DEF DropArc, BeginPoll
  <2>30. ASSUME NEW a \in Actors, SdkPollReturns(a)
        PROVE  TypeOK'
    BY <2>30 DEF SdkPollReturns
  <2>31. ASSUME NEW a \in Actors, DestroyReturns(a)
        PROVE  TypeOK'
    BY <2>31 DEF DestroyReturns
  <2>32. ASSUME NEW a \in Actors, ShutdownReturns(a)
        PROVE  TypeOK'
    BY <2>32 DEF ShutdownReturns
  <2>33. CASE GpuCompletes
    BY <2>33 DEF GpuCompletes
  <2>34. CASE AtRest
    BY <2>34 DEF AtRest, vars
  <2>35. CASE UNCHANGED vars
    BY <2>35 DEF vars
  <2>36. QED
    BY <2>1, <2>2, <2>3, <2>4, <2>5, <2>6, <2>7, <2>8, <2>9, <2>10, <2>11,
       <2>12, <2>13, <2>14, <2>15, <2>16, <2>17, <2>18, <2>19, <2>20, <2>21,
       <2>22, <2>23, <2>24, <2>25, <2>26, <2>27, <2>28, <2>29, <2>30, <2>31,
       <2>32, <2>33, <2>34, <2>35
       DEF NewStep, StatsStep, AppStep, Panic, CreateStep, RenderStep,
           ReleaseStep, TeardownStep, Next
<1>3. QED
  BY <1>1, <1>2, PTL DEF Spec

-----------------------------------------------------------------------------
\* The Mutex, the Arc and NGX itself are where the control points say.
LEMMA ProtocolInit == Init => Protocol
  BY Known, ActorsAssumption DEF Init, Protocol, Critical, Owning, Constructing,
     TearingDown, NeedsParams

\* Every step of every thread keeps them there.
LEMMA ProtocolNext == TypeOK /\ Protocol /\ [Next]_vars => Protocol'
<1> SUFFICES ASSUME TypeOK, Protocol, [Next]_vars
             PROVE  Protocol'
  OBVIOUS
<1> USE Known, ActorsAssumption
    DEF TypeOK, Protocol, Goto, queueVars, ngxVars, lockVars, liveVars, counters, texVars,
        Critical, Owning, Constructing, TearingDown, NeedsParams
<1>1. CASE NewSdk
  BY <1>1 DEF NewSdk, Actors
<1>2. CASE InitReturns
  BY <1>2 DEF InitReturns
<1>3. CASE GetCapsReturns
  BY <1>3 DEF GetCapsReturns, SdkReady
<1>4. CASE ProbeReturns
  BY <1>4 DEF ProbeReturns, SdkReady
<1>5. CASE ProbeDestroyReturns
  BY <1>5 DEF ProbeDestroyReturns
<1>6. CASE CallStats
  BY <1>6 DEF CallStats
<1>7. CASE StatsBegins
  BY <1>7 DEF StatsBegins, Acquire
<1>8. CASE StatsReturns
  BY <1>8 DEF StatsReturns, Unlock
<1>9. CASE StatsPanics
  BY <1>9 DEF StatsPanics, UnlockUnwinding
<1>10. CASE DropSdkClone
  BY <1>10 DEF DropSdkClone
<1>11. ASSUME NEW c \in Cameras, CallCreate(c)
      PROVE  Protocol'
  BY <1>11 DEF CallCreate
<1>12. ASSUME NEW c \in Cameras, CreateBegins(c)
      PROVE  Protocol'
  BY <1>12 DEF CreateBegins, Acquire
<1>13. ASSUME NEW c \in Cameras, SettingsReturns(c)
      PROVE  Protocol'
  BY <1>13 DEF SettingsReturns, Unlock
<1>14. ASSUME NEW c \in Cameras, RecordCreate(c)
      PROVE  Protocol'
  BY <1>14 DEF RecordCreate, Unlock, UnlockUnwinding
<1>15. ASSUME NEW c \in Cameras, CreateReturns(c)
      PROVE  Protocol'
  BY <1>15 DEF CreateReturns, Unlock, Handle
<1>16. ASSUME NEW c \in Cameras, CreateSubmits(c)
      PROVE  Protocol'
  BY <1>16 DEF CreateSubmits, SubmitFeatureWork, Unlock
<1>17. ASSUME NEW c \in Cameras, CreateSubmitPanics(c)
      PROVE  Protocol'
  <2>1. /\ pc[c] = "CreateSubmit" /\ pc' = [pc EXCEPT ![c] = "DropArc"]
        /\ lock' = NoOne /\ UNCHANGED <<ngx, params, owners>>
    BY <1>17 DEF CreateSubmitPanics, UnlockUnwinding
  <2>2. QED
    BY <2>1
<1>18. ASSUME NEW c \in Cameras, SubmitScene(c)
      PROVE  Protocol'
  BY <1>18 DEF SubmitScene
<1>19. ASSUME NEW c \in Cameras, CallRender(c)
      PROVE  Protocol'
  BY <1>19 DEF CallRender
<1>20. ASSUME NEW c \in Cameras, EvalBegins(c)
      PROVE  Protocol'
  BY <1>20 DEF EvalBegins, Acquire
<1>21. ASSUME NEW c \in Cameras, EvalHasNoList(c)
      PROVE  Protocol'
  BY <1>21 DEF EvalHasNoList
<1>22. ASSUME NEW c \in Cameras, EvalReturns(c)
      PROVE  Protocol'
  <2>1. /\ pc[c] = "Eval" /\ lock' = NoOne /\ UNCHANGED <<ngx, params, owners>>
        /\ \E l \in {"EvalSubmit", "ready"} : pc' = [pc EXCEPT ![c] = l]
    BY <1>22 DEF EvalReturns, Unlock
  <2>2. QED
    BY <2>1
<1>23. ASSUME NEW c \in Cameras, EvalSubmits(c)
      PROVE  Protocol'
  BY <1>23 DEF EvalSubmits, SubmitFeatureWork, EvaluateFinds
<1>24. ASSUME NEW c \in Cameras, EvalSubmitPanics(c)
      PROVE  Protocol'
  <2>1. /\ pc[c] = "EvalSubmit" /\ pc' = [pc EXCEPT ![c] = "Poll"]
        /\ UNCHANGED <<ngx, params, owners, lock>>
    BY <1>24 DEF EvalSubmitPanics
  <2>2. QED
    BY <2>1
<1>25. ASSUME NEW c \in Cameras, DropContext(c)
      PROVE  Protocol'
  BY <1>25 DEF DropContext, BeginPoll
<1>26. ASSUME NEW c \in Cameras, PollReturns(c)
      PROVE  Protocol'
  BY <1>26 DEF PollReturns
<1>27. ASSUME NEW c \in Cameras, ReleaseBegins(c)
      PROVE  Protocol'
  BY <1>27 DEF ReleaseBegins, Acquire
<1>28. ASSUME NEW c \in Cameras, ReleaseReturns(c)
      PROVE  Protocol'
  BY <1>28 DEF ReleaseReturns, Unlock, Handle
<1>29. ASSUME NEW a \in Actors, DropArc(a)
      PROVE  Protocol'
  BY <1>29 DEF DropArc, BeginPoll
<1>30. ASSUME NEW a \in Actors, SdkPollReturns(a)
      PROVE  Protocol'
  BY <1>30 DEF SdkPollReturns
<1>31. ASSUME NEW a \in Actors, DestroyReturns(a)
      PROVE  Protocol'
  BY <1>31 DEF DestroyReturns
<1>32. ASSUME NEW a \in Actors, ShutdownReturns(a)
      PROVE  Protocol'
  BY <1>32 DEF ShutdownReturns
<1>33. CASE GpuCompletes
  BY <1>33 DEF GpuCompletes
<1>34. CASE AtRest
  BY <1>34 DEF AtRest, vars
<1>35. CASE UNCHANGED vars
  BY <1>35 DEF vars
<1>36. QED
  BY <1>1, <1>2, <1>3, <1>4, <1>5, <1>6, <1>7, <1>8, <1>9, <1>10, <1>11,
     <1>12, <1>13, <1>14, <1>15, <1>16, <1>17, <1>18, <1>19, <1>20, <1>21,
     <1>22, <1>23, <1>24, <1>25, <1>26, <1>27, <1>28, <1>29, <1>30, <1>31,
     <1>32, <1>33, <1>34, <1>35
     DEF NewStep, StatsStep, AppStep, Panic, CreateStep, RenderStep,
         ReleaseStep, TeardownStep, Next

\* At all times a thread's control point says whether it holds the Mutex (the guard
\* of ngx_feature.rs and context.rs), owns a clone of the Arc, or is alone in
\* DlssSdk::new or DlssSdk::drop, and what of NGX is up.
THEOREM ProtocolHolds == Spec => []Protocol
<1>1. QED
  BY TypeCorrect, ProtocolInit, ProtocolNext, PTL DEF Spec

\* NGX calls never overlap: those under the Mutex exclude each other, and those
\* of DlssSdk::new and DlssSdk::drop run when every other thread is out.
THEOREM Serialized == Spec => []NgxSerialized
<1>1. TypeOK /\ Protocol => NgxSerialized
  BY Known, ActorsAssumption DEF Protocol, NgxSerialized, InCall, NgxCalls, Critical,
     Constructing, TearingDown
<1>2. QED
  BY <1>1, TypeCorrect, ProtocolHolds, PTL

\* No call reaches NGX, or the parameter block, once it is gone.
THEOREM NothingAfterShutdown == Spec => []NoUseAfterShutdown
<1>1. TypeOK /\ Protocol => NoUseAfterShutdown
  BY Known DEF TypeOK, Protocol, NoUseAfterShutdown, InCall, NgxCalls, NeedsParams, Owning
<1>2. QED
  BY <1>1, TypeCorrect, ProtocolHolds, PTL

-----------------------------------------------------------------------------
\* A create counts up, so that the handle it asks for is one that never was.
LEMMA CallCreateHandles ==
  ASSUME TypeOK, Handles, NEW c \in Cameras, CallCreate(c)
  PROVE  Handles'
<1>1. /\ pc[c] = "out" /\ pc' = [pc EXCEPT ![c] = "CreateLock"]
      /\ UNCHANGED <<live, abandoned>>
      /\ creates' = [creates EXCEPT ![c] = creates[c] + 1]
  BY DEF CallCreate, Goto, liveVars
<1>2. c \in Actors /\ pc \in [Actors -> Labels] /\ creates \in [Cameras -> Nat]
  BY DEF TypeOK, Actors
<1>3. creates[c] \in Nat /\ creates'[c] = creates[c] + 1 /\ pc'[c] = "CreateLock"
  BY <1>1, <1>2
<1>4. \A d \in Cameras : d # c => pc'[d] = pc[d] /\ creates'[d] = creates[d]
  BY <1>1, <1>2
<1>5. \A n \in Nat : <<c, n>> \in live => n <= creates[c] /\ <<c, n>> \in abandoned
  BY <1>1 DEF Handles, HasHandle
<1>6. <<c, creates'[c]>> \notin live
  BY <1>3, <1>5
<1>7. ASSUME NEW d \in Cameras
      PROVE  /\ pc'[d] \in HasHandle => <<d, creates'[d]>> \in live \ abandoned
             /\ pc'[d] \in Creating => <<d, creates'[d]>> \notin live
  <2>1. CASE d = c
    BY <2>1, <1>3, <1>6 DEF HasHandle
  <2>2. CASE d # c
    BY <2>2, <1>4 DEF Handles, Handle
  <2>3. QED
    BY <2>1, <2>2
<1>8. ASSUME NEW d \in Cameras, NEW n \in Nat
      PROVE  /\ <<d, n>> \in live => n <= creates'[d]
             /\ <<d, n>> \in live \ abandoned => pc'[d] \in HasHandle /\ n = creates'[d]
  <2>1. CASE d = c
    BY <2>1, <1>3, <1>5
  <2>2. CASE d # c
    BY <2>2, <1>4 DEF Handles
  <2>3. QED
    BY <2>1, <2>2
<1>9. QED
  BY <1>1, <1>7, <1>8 DEF Handles, Handle

\* The handle that NGX hands out is the context's, and was not out before.
LEMMA CreateReturnsHandles ==
  ASSUME TypeOK, Handles, NEW c \in Cameras, pc[c] = "Create",
         pc' = [pc EXCEPT ![c] = "CreateSubmit"], live' = live \cup {Handle(c)},
         UNCHANGED <<abandoned, creates>>
  PROVE  Handles'
<1>1. c \in Actors /\ pc \in [Actors -> Labels] /\ creates \in [Cameras -> Nat]
  BY DEF TypeOK, Actors
<1>2. pc'[c] = "CreateSubmit" /\ \A d \in Cameras : d # c => pc'[d] = pc[d]
  BY <1>1
<1>3. <<c, creates[c]>> \notin live /\ <<c, creates[c]>> \notin abandoned
  BY DEF Handles, Handle, Creating
<1>4. \A d \in Cameras, n \in Nat : <<d, n>> \in live' =>
        <<d, n>> \in live \/ (d = c /\ n = creates[c])
  BY DEF Handle
<1>5. ASSUME NEW d \in Cameras
      PROVE  /\ pc'[d] \in HasHandle => <<d, creates[d]>> \in live' \ abandoned
             /\ pc'[d] \in Creating => <<d, creates[d]>> \notin live'
  <2>1. CASE d = c
    BY <2>1, <1>2, <1>3 DEF Creating, Handle
  <2>2. CASE d # c
    BY <2>2, <1>1, <1>2, <1>4 DEF Handles, Handle
  <2>3. QED
    BY <2>1, <2>2
<1>6. ASSUME NEW d \in Cameras, NEW n \in Nat
      PROVE  /\ <<d, n>> \in live' => n <= creates[d]
             /\ <<d, n>> \in live' \ abandoned => pc'[d] \in HasHandle /\ n = creates[d]
  <2>1. creates[d] \in Nat
    BY <1>1
  <2>2. CASE d = c /\ n = creates[c]
    BY <2>1, <2>2, <1>2 DEF HasHandle
  <2>3. CASE ~(d = c /\ n = creates[c])
    <3>1. <<d, n>> \in live' => <<d, n>> \in live
      BY <1>4, <2>3
    <3>2. d = c => pc[d] \notin HasHandle
      BY DEF HasHandle
    <3>3. QED
      BY <3>1, <3>2, <1>2 DEF Handles
  <2>4. QED
    BY <2>2, <2>3
<1>7. QED
  BY <1>5, <1>6 DEF Handles, Handle

\* A camera's control point says whether its handle is out.
LEMMA HandlesNext == TypeOK /\ Protocol /\ Handles /\ [Next]_vars => Handles'
<1> SUFFICES ASSUME TypeOK, Protocol, Handles, [Next]_vars
             PROVE  Handles'
  OBVIOUS
<1> USE Known, ActorsAssumption
    DEF TypeOK, Handles, Handle, Goto, queueVars, ngxVars, lockVars, liveVars, counters, texVars,
        HasHandle, Creating
<1>1. CASE NewSdk
  BY <1>1 DEF NewSdk
<1>2. CASE InitReturns
  <2>1. UNCHANGED <<live, abandoned, creates>> /\ \E l : pc' = [pc EXCEPT ![Main] = l]
    BY <1>2 DEF InitReturns
  <2>2. QED
    BY <2>1
<1>3. CASE GetCapsReturns
  <2>1. UNCHANGED <<live, abandoned, creates>> /\ \E l : pc' = [pc EXCEPT ![Main] = l]
    BY <1>3 DEF GetCapsReturns, SdkReady
  <2>2. QED
    BY <2>1
<1>4. CASE ProbeReturns
  <2>1. UNCHANGED <<live, abandoned, creates>> /\ \E l : pc' = [pc EXCEPT ![Main] = l]
    BY <1>4 DEF ProbeReturns, SdkReady
  <2>2. QED
    BY <2>1
<1>5. CASE ProbeDestroyReturns
  BY <1>5 DEF ProbeDestroyReturns
<1>6. CASE CallStats
  BY <1>6 DEF CallStats
<1>7. CASE StatsBegins
  BY <1>7 DEF StatsBegins
<1>8. CASE StatsReturns
  BY <1>8 DEF StatsReturns
<1>9. CASE StatsPanics
  BY <1>9 DEF StatsPanics
<1>10. CASE DropSdkClone
  BY <1>10 DEF DropSdkClone
<1>11. ASSUME NEW c \in Cameras, CallCreate(c)
      PROVE  Handles'
  BY <1>11, CallCreateHandles
<1>12. ASSUME NEW c \in Cameras, CreateBegins(c)
      PROVE  Handles'
  BY <1>12 DEF CreateBegins
<1>13. ASSUME NEW c \in Cameras, SettingsReturns(c)
      PROVE  Handles'
  <2>1. /\ pc[c] = "Settings" /\ UNCHANGED <<live, abandoned, creates>>
        /\ \E l \in {"Record", "DropArc"} : pc' = [pc EXCEPT ![c] = l]
    BY <1>13 DEF SettingsReturns
  <2>2. QED
    BY <2>1
<1>14. ASSUME NEW c \in Cameras, RecordCreate(c)
      PROVE  Handles'
  <2>1. /\ pc[c] = "Record" /\ UNCHANGED <<live, abandoned, creates>>
        /\ \E l \in {"Create", "DropArc"} : pc' = [pc EXCEPT ![c] = l]
    BY <1>14 DEF RecordCreate
  <2>2. QED
    BY <2>1
<1>15. ASSUME NEW c \in Cameras, CreateReturns(c)
      PROVE  Handles'
  <2>1. pc[c] = "Create" /\ UNCHANGED <<abandoned, creates>>
    BY <1>15 DEF CreateReturns
  <2>2. CASE pc' = [pc EXCEPT ![c] = "CreateSubmit"] /\ live' = live \cup {Handle(c)}
    BY <2>1, <2>2, CreateReturnsHandles
  <2>3. CASE pc' = [pc EXCEPT ![c] = "DropArc"] /\ UNCHANGED live
    BY <2>1, <2>3
  <2>4. QED
    BY <1>15, <2>2, <2>3 DEF CreateReturns
<1>16. ASSUME NEW c \in Cameras, CreateSubmits(c)
      PROVE  Handles'
  BY <1>16 DEF CreateSubmits
<1>17. ASSUME NEW c \in Cameras, CreateSubmitPanics(c)
      PROVE  Handles'
  BY <1>17 DEF CreateSubmitPanics
<1>18. ASSUME NEW c \in Cameras, SubmitScene(c)
      PROVE  Handles'
  BY <1>18 DEF SubmitScene
<1>19. ASSUME NEW c \in Cameras, CallRender(c)
      PROVE  Handles'
  BY <1>19 DEF CallRender
<1>20. ASSUME NEW c \in Cameras, EvalBegins(c)
      PROVE  Handles'
  BY <1>20 DEF EvalBegins
<1>21. ASSUME NEW c \in Cameras, EvalHasNoList(c)
      PROVE  Handles'
  BY <1>21 DEF EvalHasNoList
<1>22. ASSUME NEW c \in Cameras, EvalReturns(c)
      PROVE  Handles'
  BY <1>22, ZenonT(60) DEF EvalReturns
<1>23. ASSUME NEW c \in Cameras, EvalSubmits(c)
      PROVE  Handles'
  BY <1>23 DEF EvalSubmits
<1>24. ASSUME NEW c \in Cameras, EvalSubmitPanics(c)
      PROVE  Handles'
  BY <1>24 DEF EvalSubmitPanics
<1>25. ASSUME NEW c \in Cameras, DropContext(c)
      PROVE  Handles'
  BY <1>25 DEF DropContext
<1>26. ASSUME NEW c \in Cameras, PollReturns(c)
      PROVE  Handles'
  BY <1>26 DEF PollReturns
<1>27. ASSUME NEW c \in Cameras, ReleaseBegins(c)
      PROVE  Handles'
  BY <1>27 DEF ReleaseBegins
<1>28. ASSUME NEW c \in Cameras, ReleaseReturns(c)
      PROVE  Handles'
  BY <1>28, ZenonT(60) DEF ReleaseReturns
<1>29. ASSUME NEW a \in Actors, DropArc(a)
      PROVE  Handles'
  <2>1. /\ pc[a] = "DropArc" /\ UNCHANGED <<live, abandoned, creates>>
        /\ \E l \in {"out", "SdkPoll"} : pc' = [pc EXCEPT ![a] = l]
    BY <1>29 DEF DropArc
  <2>2. QED
    BY <2>1
<1>30. ASSUME NEW a \in Actors, SdkPollReturns(a)
      PROVE  Handles'
  BY <1>30 DEF SdkPollReturns
<1>31. ASSUME NEW a \in Actors, DestroyReturns(a)
      PROVE  Handles'
  BY <1>31 DEF DestroyReturns
<1>32. ASSUME NEW a \in Actors, ShutdownReturns(a)
      PROVE  Handles'
  BY <1>32 DEF ShutdownReturns
<1>33. CASE GpuCompletes
  BY <1>33 DEF GpuCompletes
<1>34. CASE AtRest
  BY <1>34 DEF AtRest, vars
<1>35. CASE UNCHANGED vars
  BY <1>35 DEF vars
<1>36. QED
  BY <1>1, <1>2, <1>3, <1>4, <1>5, <1>6, <1>7, <1>8, <1>9, <1>10, <1>11,
     <1>12, <1>13, <1>14, <1>15, <1>16, <1>17, <1>18, <1>19, <1>20, <1>21,
     <1>22, <1>23, <1>24, <1>25, <1>26, <1>27, <1>28, <1>29, <1>30, <1>31,
     <1>32, <1>33, <1>34, <1>35
     DEF NewStep, StatsStep, AppStep, Panic, CreateStep, RenderStep,
         ReleaseStep, TeardownStep, Next

\* At all times the handles that are out are those of the contexts that exist.
THEOREM HandlesHold == Spec => []Handles
<1>1. Init => Handles
  BY Known DEF Init, Handles, HasHandle, Creating
<1>2. QED
  BY <1>1, TypeCorrect, ProtocolHolds, HandlesNext, PTL DEF Spec

\* A feature is used through a handle NGX knows, even when other threads panic.
THEOREM HandlesUsedAreLive == Spec => []UseOnlyLiveHandles
<1>1. Handles => UseOnlyLiveHandles
  BY DEF Handles, UseOnlyLiveHandles, HasHandle
<1>2. QED
  BY <1>1, HandlesHold, PTL

\* A handle names its camera and the number of the context.
LEMMA Pair ==
  ASSUME NEW h \in Cameras \X Nat
  PROVE  \E c \in Cameras, n \in Nat : h = <<c, n>>
  BY SMT

\* The thread that tears NGX down is the last to be anything but out, and every
\* handle that had an owner is back.
LEMMA LastToLeave ==
  ASSUME TypeOK, Protocol, Handles
  PROVE  ReleasedOrAbandoned
<1> SUFFICES ASSUME NEW a \in Actors, pc[a] \in {"Destroy", "Shutdown"},
                    NEW h \in live, h \notin abandoned
             PROVE  FALSE
  BY DEF ReleasedOrAbandoned
<1>1. h \in Cameras \X Nat
  BY DEF TypeOK
<1>2. PICK c \in Cameras, n \in Nat : h = <<c, n>>
  BY <1>1, Pair
<1>3. pc[c] \in HasHandle
  BY <1>2 DEF Handles
<1>4. a = c \/ pc[c] = "out"
  BY Known DEF Protocol, TearingDown
<1>5. QED
  BY <1>3, <1>4 DEF HasHandle

\* Whatever panics, the last clone tears NGX down with no feature handle
\* outstanding that a Drop could still give back.
THEOREM OnlyAbandonedOutlive == Spec => []ReleasedOrAbandoned
<1>1. TypeOK /\ Protocol /\ Handles => ReleasedOrAbandoned
  BY LastToLeave
<1>2. QED
  BY <1>1, TypeCorrect, ProtocolHolds, HandlesHold, PTL

\* If create's submit cannot unwind, there is no feature handle outstanding.
THEOREM ShutdownIsLast ==
  ASSUME "create submit" \notin PanicPoints
  PROVE  Spec => []ShutdownAfterRelease
<1>1. TypeOK /\ Protocol /\ Handles => ShutdownAfterRelease
  BY LastToLeave DEF Handles, ReleasedOrAbandoned, ShutdownAfterRelease
<1>2. QED
  BY <1>1, TypeCorrect, ProtocolHolds, HandlesHold, PTL

-----------------------------------------------------------------------------
\* The settings query and the create that follows it run under one guard, so no
\* other thread can prime the block in between.
LEMMA PrimedNext == TypeOK /\ Protocol /\ Primed /\ [Next]_vars => Primed'
<1> SUFFICES ASSUME TypeOK, Protocol, Primed, [Next]_vars
             PROVE  Primed'
  OBVIOUS
<1> USE Known, ActorsAssumption
    DEF TypeOK, Primed, Goto, queueVars, ngxVars, lockVars, liveVars, counters, texVars
<1>1. CASE NewSdk
  BY <1>1 DEF NewSdk
<1>2. CASE InitReturns
  BY <1>2 DEF InitReturns
<1>3. CASE GetCapsReturns
  BY <1>3 DEF GetCapsReturns, SdkReady
<1>4. CASE ProbeReturns
  BY <1>4 DEF ProbeReturns, SdkReady
<1>5. CASE ProbeDestroyReturns
  BY <1>5 DEF ProbeDestroyReturns
<1>6. CASE CallStats
  BY <1>6 DEF CallStats
<1>7. CASE StatsBegins
  BY <1>7 DEF StatsBegins, Acquire, Protocol, Critical
<1>8. CASE StatsReturns
  BY <1>8 DEF StatsReturns
<1>9. CASE StatsPanics
  BY <1>9 DEF StatsPanics
<1>10. CASE DropSdkClone
  BY <1>10 DEF DropSdkClone
<1>11. ASSUME NEW c \in Cameras, CallCreate(c)
      PROVE  Primed'
  BY <1>11 DEF CallCreate
<1>12. ASSUME NEW c \in Cameras, CreateBegins(c)
      PROVE  Primed'
  BY <1>12 DEF CreateBegins, Acquire, Protocol, Critical
<1>13. ASSUME NEW c \in Cameras, SettingsReturns(c)
      PROVE  Primed'
  BY <1>13 DEF SettingsReturns
<1>14. ASSUME NEW c \in Cameras, RecordCreate(c)
      PROVE  Primed'
  BY <1>14 DEF RecordCreate, Protocol, Critical
<1>15. ASSUME NEW c \in Cameras, CreateReturns(c)
      PROVE  Primed'
  BY <1>15 DEF CreateReturns
<1>16. ASSUME NEW c \in Cameras, CreateSubmits(c)
      PROVE  Primed'
  BY <1>16 DEF CreateSubmits
<1>17. ASSUME NEW c \in Cameras, CreateSubmitPanics(c)
      PROVE  Primed'
  BY <1>17 DEF CreateSubmitPanics
<1>18. ASSUME NEW c \in Cameras, SubmitScene(c)
      PROVE  Primed'
  BY <1>18 DEF SubmitScene
<1>19. ASSUME NEW c \in Cameras, CallRender(c)
      PROVE  Primed'
  BY <1>19 DEF CallRender
<1>20. ASSUME NEW c \in Cameras, EvalBegins(c)
      PROVE  Primed'
  BY <1>20 DEF EvalBegins, Acquire, Protocol, Critical
<1>21. ASSUME NEW c \in Cameras, EvalHasNoList(c)
      PROVE  Primed'
  BY <1>21 DEF EvalHasNoList
<1>22. ASSUME NEW c \in Cameras, EvalReturns(c)
      PROVE  Primed'
  BY <1>22 DEF EvalReturns
<1>23. ASSUME NEW c \in Cameras, EvalSubmits(c)
      PROVE  Primed'
  BY <1>23 DEF EvalSubmits
<1>24. ASSUME NEW c \in Cameras, EvalSubmitPanics(c)
      PROVE  Primed'
  BY <1>24 DEF EvalSubmitPanics
<1>25. ASSUME NEW c \in Cameras, DropContext(c)
      PROVE  Primed'
  BY <1>25 DEF DropContext
<1>26. ASSUME NEW c \in Cameras, PollReturns(c)
      PROVE  Primed'
  BY <1>26 DEF PollReturns
<1>27. ASSUME NEW c \in Cameras, ReleaseBegins(c)
      PROVE  Primed'
  BY <1>27 DEF ReleaseBegins
<1>28. ASSUME NEW c \in Cameras, ReleaseReturns(c)
      PROVE  Primed'
  BY <1>28 DEF ReleaseReturns
<1>29. ASSUME NEW a \in Actors, DropArc(a)
      PROVE  Primed'
  BY <1>29 DEF DropArc
<1>30. ASSUME NEW a \in Actors, SdkPollReturns(a)
      PROVE  Primed'
  BY <1>30 DEF SdkPollReturns
<1>31. ASSUME NEW a \in Actors, DestroyReturns(a)
      PROVE  Primed'
  BY <1>31 DEF DestroyReturns
<1>32. ASSUME NEW a \in Actors, ShutdownReturns(a)
      PROVE  Primed'
  BY <1>32 DEF ShutdownReturns
<1>33. CASE GpuCompletes
  BY <1>33 DEF GpuCompletes
<1>34. CASE AtRest
  BY <1>34 DEF AtRest, vars
<1>35. CASE UNCHANGED vars
  BY <1>35 DEF vars
<1>36. QED
  BY <1>1, <1>2, <1>3, <1>4, <1>5, <1>6, <1>7, <1>8, <1>9, <1>10, <1>11,
     <1>12, <1>13, <1>14, <1>15, <1>16, <1>17, <1>18, <1>19, <1>20, <1>21,
     <1>22, <1>23, <1>24, <1>25, <1>26, <1>27, <1>28, <1>29, <1>30, <1>31,
     <1>32, <1>33, <1>34, <1>35
     DEF NewStep, StatsStep, AppStep, Panic, CreateStep, RenderStep,
         ReleaseStep, TeardownStep, Next

\* What GET_OPTIMAL_SETTINGS put into the shared parameter block is what the same
\* thread's CREATE finds there (ray_reconstruction.rs:127-128).
THEOREM SettingsReachCreate == Spec => []PrimingSurvives
<1>1. Init => Primed
  BY Known DEF Init, Primed
<1>2. Primed => PrimingSurvives
  BY DEF Primed, PrimingSurvives
<1>3. QED
  BY <1>1, <1>2, TypeCorrect, ProtocolHolds, PrimedNext, PTL DEF Spec

-----------------------------------------------------------------------------
\* Where a camera may still have GPU work: from a submission to the next poll.
LEMMA FencesNext == TypeOK /\ Fences /\ [Next]_vars => Fences'
<1> SUFFICES ASSUME TypeOK, Fences, [Next]_vars
             PROVE  Fences'
  OBVIOUS
<1> USE Known, ActorsAssumption
    DEF TypeOK, Fences, Goto, queueVars, ngxVars, lockVars, liveVars, counters, texVars, MayBeBusy
<1>1. CASE NewSdk
  BY <1>1 DEF NewSdk
<1>2. CASE InitReturns
  BY <1>2 DEF InitReturns
<1>3. CASE GetCapsReturns
  BY <1>3 DEF GetCapsReturns, SdkReady
<1>4. CASE ProbeReturns
  BY <1>4 DEF ProbeReturns, SdkReady
<1>5. CASE ProbeDestroyReturns
  BY <1>5 DEF ProbeDestroyReturns
<1>6. CASE CallStats
  BY <1>6 DEF CallStats
<1>7. CASE StatsBegins
  BY <1>7 DEF StatsBegins
<1>8. CASE StatsReturns
  BY <1>8 DEF StatsReturns
<1>9. CASE StatsPanics
  BY <1>9 DEF StatsPanics
<1>10. CASE DropSdkClone
  BY <1>10 DEF DropSdkClone
<1>11. ASSUME NEW c \in Cameras, CallCreate(c)
      PROVE  Fences'
  BY <1>11 DEF CallCreate
<1>12. ASSUME NEW c \in Cameras, CreateBegins(c)
      PROVE  Fences'
  BY <1>12 DEF CreateBegins
<1>13. ASSUME NEW c \in Cameras, SettingsReturns(c)
      PROVE  Fences'
  BY <1>13 DEF SettingsReturns
<1>14. ASSUME NEW c \in Cameras, RecordCreate(c)
      PROVE  Fences'
  BY <1>14 DEF RecordCreate
<1>15. ASSUME NEW c \in Cameras, CreateReturns(c)
      PROVE  Fences'
  BY <1>15 DEF CreateReturns
<1>16. ASSUME NEW c \in Cameras, CreateSubmits(c)
      PROVE  Fences'
  BY <1>16 DEF CreateSubmits, SubmitFeatureWork
<1>17. ASSUME NEW c \in Cameras, CreateSubmitPanics(c)
      PROVE  Fences'
  BY <1>17 DEF CreateSubmitPanics
<1>18. ASSUME NEW c \in Cameras, SubmitScene(c)
      PROVE  Fences'
  BY <1>18 DEF SubmitScene
<1>19. ASSUME NEW c \in Cameras, CallRender(c)
      PROVE  Fences'
  BY <1>19 DEF CallRender
<1>20. ASSUME NEW c \in Cameras, EvalBegins(c)
      PROVE  Fences'
  BY <1>20 DEF EvalBegins
<1>21. ASSUME NEW c \in Cameras, EvalHasNoList(c)
      PROVE  Fences'
  BY <1>21 DEF EvalHasNoList
<1>22. ASSUME NEW c \in Cameras, EvalReturns(c)
      PROVE  Fences'
  BY <1>22 DEF EvalReturns
<1>23. ASSUME NEW c \in Cameras, EvalSubmits(c)
      PROVE  Fences'
  BY <1>23 DEF EvalSubmits, SubmitFeatureWork
<1>24. ASSUME NEW c \in Cameras, EvalSubmitPanics(c)
      PROVE  Fences'
  BY <1>24 DEF EvalSubmitPanics, BeginPoll
<1>25. ASSUME NEW c \in Cameras, DropContext(c)
      PROVE  Fences'
  BY <1>25 DEF DropContext, BeginPoll
<1>26. ASSUME NEW c \in Cameras, PollReturns(c)
      PROVE  Fences'
  BY <1>26 DEF PollReturns
<1>27. ASSUME NEW c \in Cameras, ReleaseBegins(c)
      PROVE  Fences'
  BY <1>27 DEF ReleaseBegins
<1>28. ASSUME NEW c \in Cameras, ReleaseReturns(c)
      PROVE  Fences'
  BY <1>28 DEF ReleaseReturns
<1>29. ASSUME NEW a \in Actors, DropArc(a)
      PROVE  Fences'
  BY <1>29 DEF DropArc, BeginPoll
<1>30. ASSUME NEW a \in Actors, SdkPollReturns(a)
      PROVE  Fences'
  BY <1>30 DEF SdkPollReturns
<1>31. ASSUME NEW a \in Actors, DestroyReturns(a)
      PROVE  Fences'
  BY <1>31 DEF DestroyReturns
<1>32. ASSUME NEW a \in Actors, ShutdownReturns(a)
      PROVE  Fences'
  BY <1>32 DEF ShutdownReturns
<1>33. CASE GpuCompletes
  BY <1>33 DEF GpuCompletes
<1>34. CASE AtRest
  BY <1>34 DEF AtRest, vars
<1>35. CASE UNCHANGED vars
  BY <1>35 DEF vars
<1>36. QED
  BY <1>1, <1>2, <1>3, <1>4, <1>5, <1>6, <1>7, <1>8, <1>9, <1>10, <1>11,
     <1>12, <1>13, <1>14, <1>15, <1>16, <1>17, <1>18, <1>19, <1>20, <1>21,
     <1>22, <1>23, <1>24, <1>25, <1>26, <1>27, <1>28, <1>29, <1>30, <1>31,
     <1>32, <1>33, <1>34, <1>35
     DEF NewStep, StatsStep, AppStep, Panic, CreateStep, RenderStep,
         ReleaseStep, TeardownStep, Next

\* At all times a feature may be busy only between its submission and a poll.
THEOREM FencesHold == Spec => []Fences
<1>1. Init => Fences
  BY Known DEF Init, Fences, MayBeBusy
<1>2. QED
  BY <1>1, TypeCorrect, FencesNext, PTL DEF Spec

\* Features are released, and NGX is shut down, only when the GPU is done with
\* every feature.
THEOREM ReleasedIdle == Spec => []ReleaseOnlyIdle
<1>1. TypeOK /\ Protocol /\ Fences => ReleaseOnlyIdle
  BY Known DEF Protocol, Fences, ReleaseOnlyIdle, MayBeBusy, TearingDown
<1>2. QED
  BY <1>1, TypeCorrect, ProtocolHolds, FencesHold, PTL

-----------------------------------------------------------------------------
\* Only the submission of an evaluate makes one see its inputs.
LEMMA SeenNext == [Next]_vars => seen' = seen \/ seen' = "input"
<1> SUFFICES ASSUME [Next]_vars
             PROVE  seen' = seen \/ seen' = "input"
  OBVIOUS
<1> USE DEF texVars
<1>1. CASE NewSdk \/ CallStats \/ StatsPanics \/ DropSdkClone
  BY <1>1, Zenon DEF NewSdk, CallStats, StatsPanics, DropSdkClone
<1>2. CASE NewStep \/ StatsStep
  BY <1>2, Zenon DEF NewStep, InitReturns, GetCapsReturns, ProbeReturns, ProbeDestroyReturns,
     StatsStep, StatsBegins, StatsReturns
<1>3. ASSUME NEW c \in Cameras, AppStep(c) \/ Panic(c)
      PROVE  seen' = seen
  BY <1>3, Zenon DEF AppStep, CallCreate, SubmitScene, CallRender, DropContext, Panic,
     CreateSubmitPanics, EvalSubmitPanics
<1>4. ASSUME NEW c \in Cameras, CreateStep(c) \/ ReleaseStep(c)
      PROVE  seen' = seen
  BY <1>4, Zenon DEF CreateStep, CreateBegins, SettingsReturns, RecordCreate, CreateReturns,
     CreateSubmits, ReleaseStep, PollReturns, ReleaseBegins, ReleaseReturns
<1>5. ASSUME NEW c \in Cameras, EvalBegins(c) \/ EvalHasNoList(c) \/ EvalReturns(c)
      PROVE  seen' = seen
  BY <1>5, Zenon DEF EvalBegins, EvalHasNoList, EvalReturns
<1>6. ASSUME NEW c \in Cameras, EvalSubmits(c)
      PROVE  seen' = "input"
  <2>1. EvalLists[1] = "transitions" /\ EvalLists[2] = "evaluate" /\ DOMAIN EvalLists = 1..2
    BY DEF EvalLists
  <2>2. EvaluateFinds(tex) = "input"
    BY <2>1 DEF EvaluateFinds
  <2>3. QED
    BY <1>6, <2>2 DEF EvalSubmits
<1>7. ASSUME NEW a \in Actors, TeardownStep(a)
      PROVE  seen' = seen
  BY <1>7, Zenon DEF TeardownStep, DropArc, SdkPollReturns, DestroyReturns, ShutdownReturns
<1>8. CASE GpuCompletes
  BY <1>8, Zenon DEF GpuCompletes
<1>9. CASE AtRest \/ UNCHANGED vars
  BY <1>9 DEF AtRest, vars
<1>10. QED
  BY <1>1, <1>2, <1>3, <1>4, <1>5, <1>6, <1>7, <1>8, <1>9 DEF Next, RenderStep

\* No evaluate is executed on an input that is still in the state its scene pass
\* left it in: the transitions are earlier in the submission of ngx_feature.rs.
THEOREM TransitionsFirst == Spec => []EvaluateSeesTransitions
<1>1. Init => EvaluateSeesTransitions
  BY DEF Init, EvaluateSeesTransitions
<1>2. EvaluateSeesTransitions /\ [Next]_vars => EvaluateSeesTransitions'
  BY SeenNext DEF EvaluateSeesTransitions
<1>3. QED
  BY <1>1, <1>2, PTL DEF Spec

-----------------------------------------------------------------------------
(* Nobody is stuck: what can be said of progress without fairness *)

\* What a step may do to one actor: the edges of the crate's calls.
Edge(l, m) ==
  \/ l = "out" /\ m \in {"Init", "CreateLock"}
  \/ l = "Init" /\ m \in {"GetCaps", "out"}
  \/ l = "GetCaps" /\ m \in {"Probe", "up", "out"}
  \/ l = "Probe" /\ m \in {"ProbeDestroy", "up"}
  \/ l = "ProbeDestroy" /\ m = "out"
  \/ l = "up" /\ m \in {"StatsLock", "DropArc"}
  \/ l = "StatsLock" /\ m = "Stats"
  \/ l = "Stats" /\ m \in {"up", "DropArc"}
  \/ l = "CreateLock" /\ m = "Settings"
  \/ l = "Settings" /\ m \in {"Record", "DropArc"}
  \/ l = "Record" /\ m \in {"Create", "DropArc"}
  \/ l = "Create" /\ m \in {"CreateSubmit", "DropArc"}
  \/ l = "CreateSubmit" /\ m \in {"ready", "DropArc"}
  \/ l = "ready" /\ m \in {"EvalLock", "Poll"}
  \/ l = "EvalLock" /\ m \in {"Eval", "ready"}
  \/ l = "Eval" /\ m \in {"EvalSubmit", "ready"}
  \/ l = "EvalSubmit" /\ m \in {"ready", "Poll"}
  \/ l = "Poll" /\ m = "ReleaseLock"
  \/ l = "ReleaseLock" /\ m = "Release"
  \/ l = "Release" /\ m = "DropArc"
  \/ l = "DropArc" /\ m \in {"out", "SdkPoll"}
  \/ l = "SdkPoll" /\ m = "Destroy"
  \/ l = "Destroy" /\ m = "Shutdown"
  \/ l = "Shutdown" /\ m = "out"

\* Nobody moves, and NGX stays as it is.
Rests == UNCHANGED <<pc, ngx>>

\* Actor a takes one of its edges, and no other actor moves.
Moves(a) ==
  /\ Edge(pc[a], pc'[a]) /\ \A b \in Actors \ {a} : pc'[b] = pc[b]
  /\ pc[a] = "Shutdown" => ngx' = "down"
  /\ pc[a] # "Shutdown" /\ pc'[a] # "GetCaps" => ngx' = ngx
  /\ pc[a] = "DropArc" /\ pc'[a] = "out" => owners # {a}
  /\ pc[a] \in Constructing => a = Main

\* A step moves one actor along one of its edges, or none; NGX comes up on the way
\* to "GetCaps" and goes down at "Shutdown".
LEMMA OneMoves ==
  TypeOK /\ [Next]_vars => Rests \/ \E a \in Actors : Moves(a)
<1> SUFFICES ASSUME TypeOK, [Next]_vars
             PROVE  Rests \/ \E a \in Actors : Moves(a)
  OBVIOUS
<1> USE Known DEF TypeOK, Goto, ngxVars, Rests, Moves, Edge, Constructing
<1>1. CASE NewSdk
  BY <1>1 DEF NewSdk
<1>2. CASE InitReturns
  BY <1>2 DEF InitReturns
<1>3. CASE GetCapsReturns
  BY <1>3 DEF GetCapsReturns, SdkReady
<1>4. CASE ProbeReturns
  BY <1>4 DEF ProbeReturns, SdkReady
<1>5. CASE ProbeDestroyReturns
  BY <1>5 DEF ProbeDestroyReturns
<1>6. CASE CallStats
  BY <1>6 DEF CallStats
<1>7. CASE StatsBegins
  BY <1>7 DEF StatsBegins, Acquire
<1>8. CASE StatsReturns
  BY <1>8 DEF StatsReturns, Unlock
<1>9. CASE StatsPanics
  BY <1>9 DEF StatsPanics, UnlockUnwinding
<1>10. CASE DropSdkClone
  BY <1>10 DEF DropSdkClone
<1>11. ASSUME NEW c \in Cameras, CallCreate(c)
      PROVE  Rests \/ \E b \in Actors : Moves(b)
  BY <1>11 DEF CallCreate
<1>12. ASSUME NEW c \in Cameras, CreateBegins(c)
      PROVE  Rests \/ \E b \in Actors : Moves(b)
  BY <1>12 DEF CreateBegins, Acquire
<1>13. ASSUME NEW c \in Cameras, SettingsReturns(c)
      PROVE  Rests \/ \E b \in Actors : Moves(b)
  BY <1>13 DEF SettingsReturns, Unlock
<1>14. ASSUME NEW c \in Cameras, RecordCreate(c)
      PROVE  Rests \/ \E b \in Actors : Moves(b)
  BY <1>14 DEF RecordCreate, Unlock, UnlockUnwinding
<1>15. ASSUME NEW c \in Cameras, CreateReturns(c)
      PROVE  Rests \/ \E b \in Actors : Moves(b)
  BY <1>15 DEF CreateReturns, Unlock
<1>16. ASSUME NEW c \in Cameras, CreateSubmits(c)
      PROVE  Rests \/ \E b \in Actors : Moves(b)
  BY <1>16 DEF CreateSubmits, SubmitFeatureWork, Unlock
<1>17. ASSUME NEW c \in Cameras, CreateSubmitPanics(c)
      PROVE  Rests \/ \E b \in Actors : Moves(b)
  BY <1>17 DEF CreateSubmitPanics, UnlockUnwinding
<1>18. ASSUME NEW c \in Cameras, SubmitScene(c)
      PROVE  Rests \/ \E b \in Actors : Moves(b)
  BY <1>18 DEF SubmitScene
<1>19. ASSUME NEW c \in Cameras, CallRender(c)
      PROVE  Rests \/ \E b \in Actors : Moves(b)
  BY <1>19 DEF CallRender
<1>20. ASSUME NEW c \in Cameras, EvalBegins(c)
      PROVE  Rests \/ \E b \in Actors : Moves(b)
  BY <1>20 DEF EvalBegins, Acquire
<1>21. ASSUME NEW c \in Cameras, EvalHasNoList(c)
      PROVE  Rests \/ \E b \in Actors : Moves(b)
  BY <1>21 DEF EvalHasNoList
<1>22. ASSUME NEW c \in Cameras, EvalReturns(c)
      PROVE  Rests \/ \E b \in Actors : Moves(b)
  BY <1>22 DEF EvalReturns, Unlock
<1>23. ASSUME NEW c \in Cameras, EvalSubmits(c)
      PROVE  Rests \/ \E b \in Actors : Moves(b)
  BY <1>23 DEF EvalSubmits, SubmitFeatureWork
<1>24. ASSUME NEW c \in Cameras, EvalSubmitPanics(c)
      PROVE  Rests \/ \E b \in Actors : Moves(b)
  BY <1>24 DEF EvalSubmitPanics, BeginPoll
<1>25. ASSUME NEW c \in Cameras, DropContext(c)
      PROVE  Rests \/ \E b \in Actors : Moves(b)
  BY <1>25 DEF DropContext, BeginPoll
<1>26. ASSUME NEW c \in Cameras, PollReturns(c)
      PROVE  Rests \/ \E b \in Actors : Moves(b)
  BY <1>26 DEF PollReturns
<1>27. ASSUME NEW c \in Cameras, ReleaseBegins(c)
      PROVE  Rests \/ \E b \in Actors : Moves(b)
  BY <1>27 DEF ReleaseBegins, Acquire
<1>28. ASSUME NEW c \in Cameras, ReleaseReturns(c)
      PROVE  Rests \/ \E b \in Actors : Moves(b)
  BY <1>28 DEF ReleaseReturns, Unlock
<1>29. ASSUME NEW a \in Actors, DropArc(a)
      PROVE  Rests \/ \E b \in Actors : Moves(b)
  BY <1>29 DEF DropArc, BeginPoll
<1>30. ASSUME NEW a \in Actors, SdkPollReturns(a)
      PROVE  Rests \/ \E b \in Actors : Moves(b)
  BY <1>30 DEF SdkPollReturns
<1>31. ASSUME NEW a \in Actors, DestroyReturns(a)
      PROVE  Rests \/ \E b \in Actors : Moves(b)
  BY <1>31 DEF DestroyReturns
<1>32. ASSUME NEW a \in Actors, ShutdownReturns(a)
      PROVE  Rests \/ \E b \in Actors : Moves(b)
  BY <1>32 DEF ShutdownReturns
<1>33. CASE GpuCompletes
  BY <1>33 DEF GpuCompletes
<1>34. CASE AtRest
  BY <1>34 DEF AtRest, vars
<1>35. CASE UNCHANGED vars
  BY <1>35 DEF vars
<1>36. QED
  BY <1>1, <1>2, <1>3, <1>4, <1>5, <1>6, <1>7, <1>8, <1>9, <1>10, <1>11, <1>12,
     <1>13, <1>14, <1>15, <1>16, <1>17, <1>18, <1>19, <1>20, <1>21, <1>22, <1>23,
     <1>24, <1>25, <1>26, <1>27, <1>28, <1>29, <1>30, <1>31, <1>32, <1>33, <1>34,
     <1>35
     DEF NewStep, StatsStep, AppStep, Panic, CreateStep, RenderStep,
         ReleaseStep, TeardownStep, Next

\* A poll waits for a submission that was made.
TargetsSubmitted == \A a \in Actors : target[a] <= submitted

\* Submissions are only added, and a poll's target is the last one there is.
LEMMA TargetsNext ==
  TypeOK /\ TargetsSubmitted /\ [Next]_vars => TargetsSubmitted'
<1> SUFFICES ASSUME TypeOK, TargetsSubmitted, [Next]_vars
             PROVE  TargetsSubmitted'
  OBVIOUS
<1> USE Known DEF TypeOK, TargetsSubmitted
<1>1. CASE UNCHANGED <<target, submitted>>
  BY <1>1
<1>2. ASSUME NEW a \in Actors, BeginPoll(a)
      PROVE  TargetsSubmitted'
  BY <1>2 DEF BeginPoll
<1>3. ASSUME NEW c \in Cameras, SubmitFeatureWork(c) \/ SubmitScene(c)
      PROVE  TargetsSubmitted'
  BY <1>3 DEF SubmitFeatureWork, SubmitScene
<1>4. CASE NewSdk \/ CallStats \/ StatsPanics \/ DropSdkClone \/ NewStep \/ StatsStep
  BY <1>1, <1>4, Zenon DEF NewSdk, CallStats, StatsPanics, DropSdkClone, NewStep, InitReturns,
     GetCapsReturns, ProbeReturns, ProbeDestroyReturns, StatsStep, StatsBegins, StatsReturns,
     queueVars
<1>5. ASSUME NEW c \in Cameras, AppStep(c) \/ Panic(c)
      PROVE  TargetsSubmitted'
  BY <1>1, <1>2, <1>3, <1>5, Known, Zenon DEF AppStep, CallCreate, CallRender, DropContext, Panic,
     CreateSubmitPanics, EvalSubmitPanics, queueVars
<1>6. ASSUME NEW c \in Cameras, CreateStep(c) \/ RenderStep(c) \/ ReleaseStep(c)
      PROVE  TargetsSubmitted'
  BY <1>1, <1>3, <1>6, Zenon DEF CreateStep, CreateBegins, SettingsReturns, RecordCreate,
     CreateReturns, CreateSubmits, RenderStep, EvalBegins, EvalHasNoList, EvalReturns,
     EvalSubmits, ReleaseStep, PollReturns, ReleaseBegins, ReleaseReturns, queueVars
<1>7. ASSUME NEW a \in Actors, TeardownStep(a)
      PROVE  TargetsSubmitted'
  BY <1>1, <1>2, <1>7, Zenon DEF TeardownStep, DropArc, SdkPollReturns, DestroyReturns,
     ShutdownReturns, queueVars
<1>8. CASE GpuCompletes \/ AtRest \/ UNCHANGED vars
  BY <1>1, <1>8, Zenon DEF GpuCompletes, AtRest, vars, queueVars
<1>9. QED
  BY <1>4, <1>5, <1>6, <1>7, <1>8 DEF Next

\* The threads that are inside the crate, and what they may be waiting for there.
InCrate(a) == pc[a] \notin {"out", "up", "ready"}

WaitsForLock(a) ==
  pc[a] \in {"StatsLock", "CreateLock", "EvalLock", "ReleaseLock"} /\ lock # NoOne

WaitsForGpu(a) == pc[a] \in {"Poll", "SdkPoll"} /\ completed < target[a]

\* Whoever waits for the Mutex waits for a thread that is in the crate and waits for
\* nothing; whoever waits for the GPU does not hold the Mutex, and the GPU has work
\* left.  No wait is on a wait, so no set of threads waits for itself.
WaitsAreShort ==
  \A a \in Actors :
    /\ WaitsForLock(a) =>
         \E b \in Actors : lock = b /\ InCrate(b) /\ ~WaitsForLock(b) /\ ~WaitsForGpu(b)
    /\ WaitsForGpu(a) => lock # a /\ completed < submitted

\* No deadlock, for any number of cameras: Mutex and device polls (sdk.rs,
\* ngx_feature.rs) never wait for each other, in new, render or any drop.
THEOREM NobodyStuck == Spec => []WaitsAreShort
<1>1. Init => TargetsSubmitted
  BY DEF Init, TargetsSubmitted
<1>2. TypeOK /\ Protocol /\ TargetsSubmitted => WaitsAreShort
  <2> SUFFICES ASSUME TypeOK, Protocol, TargetsSubmitted, NEW a \in Actors
               PROVE  /\ WaitsForLock(a) =>
                           \E b \in Actors : lock = b /\ InCrate(b) /\ ~WaitsForLock(b)
                                                      /\ ~WaitsForGpu(b)
                      /\ WaitsForGpu(a) => lock # a /\ completed < submitted
    BY DEF WaitsAreShort
  <2>1. ASSUME WaitsForLock(a)
        PROVE  \E b \in Actors : lock = b /\ InCrate(b) /\ ~WaitsForLock(b) /\ ~WaitsForGpu(b)
    <3>1. lock \in Actors
      BY <2>1 DEF WaitsForLock, TypeOK
    <3>2. pc[lock] \in Critical
      BY <3>1 DEF Protocol
    <3>3. QED
      BY <3>1, <3>2 DEF Critical, InCrate, WaitsForLock, WaitsForGpu
  <2>2. ASSUME WaitsForGpu(a)
        PROVE  lock # a /\ completed < submitted
    <3>1. lock # a
      BY <2>2 DEF WaitsForGpu, Protocol, Critical
    <3>2. completed < target[a] /\ target[a] <= submitted
      BY <2>2 DEF WaitsForGpu, TargetsSubmitted
    <3>3. completed \in Nat /\ submitted \in Nat /\ target[a] \in Nat
      BY DEF TypeOK
    <3>4. QED
      BY <3>1, <3>2, <3>3
  <2>3. QED
    BY <2>1, <2>2
<1>3. QED
  BY <1>1, <1>2, TargetsNext, TypeCorrect, ProtocolHolds, PTL DEF Spec

\* How many steps of its own a thread in the crate may still need.
StepsLeft(l) ==
  CASE l \in {"out", "up", "ready"} -> 0
    [] l \in {"Shutdown", "ProbeDestroy"} -> 1
    [] l \in {"Destroy", "Probe"} -> 2
    [] l \in {"SdkPoll", "GetCaps"} -> 3
    [] l \in {"DropArc", "Init"} -> 4
    [] l \in {"Release", "Stats"} -> 5
    [] l \in {"ReleaseLock", "StatsLock"} -> 6
    [] l = "Poll" -> 7
    [] l \in {"EvalSubmit", "CreateSubmit"} -> 8
    [] l \in {"Eval", "Create"} -> 9
    [] l \in {"EvalLock", "Record"} -> 10
    [] l = "Settings" -> 11
    [] l = "CreateLock" -> 12

\* A thread in the crate never goes back.
CallsGoForward ==
  \A a \in Actors :
    InCrate(a) => pc'[a] = pc[a] \/ StepsLeft(pc'[a]) < StepsLeft(pc[a])

\* An edge leads nearer to the end of the call.
LEMMA EdgeGoesForward ==
  ASSUME NEW l, NEW m, Edge(l, m), l \notin {"out", "up", "ready"}
  PROVE  StepsLeft(m) < StepsLeft(l)
<1>1. /\ StepsLeft("out") = 0 /\ StepsLeft("up") = 0 /\ StepsLeft("ready") = 0
      /\ StepsLeft("Shutdown") = 1 /\ StepsLeft("ProbeDestroy") = 1
      /\ StepsLeft("Destroy") = 2 /\ StepsLeft("Probe") = 2
      /\ StepsLeft("SdkPoll") = 3 /\ StepsLeft("GetCaps") = 3
      /\ StepsLeft("DropArc") = 4 /\ StepsLeft("Init") = 4
  BY DEF StepsLeft
<1>2. /\ StepsLeft("Release") = 5 /\ StepsLeft("Stats") = 5
      /\ StepsLeft("ReleaseLock") = 6 /\ StepsLeft("StatsLock") = 6
      /\ StepsLeft("Poll") = 7
      /\ StepsLeft("EvalSubmit") = 8 /\ StepsLeft("CreateSubmit") = 8
  BY DEF StepsLeft
<1>3. /\ StepsLeft("Eval") = 9 /\ StepsLeft("Create") = 9
      /\ StepsLeft("EvalLock") = 10 /\ StepsLeft("Record") = 10
      /\ StepsLeft("Settings") = 11 /\ StepsLeft("CreateLock") = 12
  BY DEF StepsLeft
<1>4. QED
  BY <1>1, <1>2, <1>3 DEF Edge

\* No call loops: whatever fails or unwinds, a call of the crate is over after at most
\* twelve steps of its own thread, the drops it runs on the way out included.
THEOREM CallsEnd == Spec => [][CallsGoForward]_vars
<1>1. TypeOK /\ [Next]_vars => CallsGoForward
  <2> SUFFICES ASSUME TypeOK, [Next]_vars, NEW a \in Actors, InCrate(a)
               PROVE  pc'[a] = pc[a] \/ StepsLeft(pc'[a]) < StepsLeft(pc[a])
    BY DEF CallsGoForward
  <2>1. CASE Rests
    BY <2>1 DEF Rests
  <2>2. ASSUME NEW b \in Actors, Moves(b)
        PROVE  pc'[a] = pc[a] \/ StepsLeft(pc'[a]) < StepsLeft(pc[a])
    <3>1. CASE a # b
      BY <2>2, <3>1 DEF Moves
    <3>2. CASE a = b
      BY <2>2, <3>2, EdgeGoesForward DEF Moves, InCrate
    <3>3. QED
      BY <3>1, <3>2
  <2>3. QED
    BY <2>1, <2>2, OneMoves
<1>2. QED
  BY <1>1, TypeCorrect, PTL DEF Spec

\* NGX is up with nobody left who would shut it down.
Leftover == ngx = "up" /\ \A a \in Actors : pc[a] \in {"out", "Init"}

\* It becomes so only when new gives up after Init.
LeftoverByFailedNew ==
  ~Leftover /\ Leftover' => pc[Main] \in {"GetCaps", "ProbeDestroy"} /\ pc'[Main] = "out"

\* A failed new is the only way to leave NGX up with no DlssSdk to shut it down
\* (sdk.rs:40-79): no panic, no order of drops, and no failing context does.
THEOREM OnlyFailedNewLeaves == Spec => [][LeftoverByFailedNew]_vars
<1>1. TypeOK /\ Protocol /\ [Next]_vars => LeftoverByFailedNew
  <2> SUFFICES ASSUME TypeOK, Protocol, [Next]_vars, ~Leftover, Leftover'
               PROVE  pc[Main] \in {"GetCaps", "ProbeDestroy"} /\ pc'[Main] = "out"
    BY DEF LeftoverByFailedNew
  <2>1. ~Rests
    BY DEF Rests, Leftover
  <2>2. PICK a \in Actors : Moves(a)
    BY <2>1, OneMoves
  <2>3. ngx' = "up" /\ \A b \in Actors : pc'[b] \in {"out", "Init"}
    BY DEF Leftover
  <2>4. \A b \in Actors \ {a} : pc[b] \in {"out", "Init"}
    BY <2>2, <2>3 DEF Moves
  <2>5. ngx' = ngx /\ pc[a] \notin {"out", "Init", "Shutdown"}
    <3>1. pc[a] # "Shutdown" /\ ngx' = ngx
      BY <2>2, <2>3 DEF Moves
    <3>2. pc[a] \notin {"out", "Init"}
      BY <2>3, <2>4, <3>1 DEF Leftover
    <3> QED
      BY <3>1, <3>2
  <2>6. pc[a] # "DropArc"
    <3>1. ASSUME pc[a] = "DropArc"
          PROVE  FALSE
      <4>1. a \in owners /\ \A b \in Actors \ {a} : b \notin owners
        BY <2>4, <3>1 DEF Protocol, Owning
      <4>2. owners = {a}
        BY <4>1 DEF TypeOK
      <4>3. pc'[a] = "out"
        BY <2>2, <2>3, <3>1 DEF Moves, Edge
      <4> QED
        BY <2>2, <3>1, <4>2, <4>3 DEF Moves
    <3> QED
      BY <3>1
  <2>7. pc[a] \in {"GetCaps", "ProbeDestroy"} /\ pc'[a] = "out"
    BY <2>2, <2>3, <2>5, <2>6 DEF Moves, Edge
  <2>8. a = Main
    BY <2>2, <2>7 DEF Moves, Constructing
  <2> QED
    BY <2>7, <2>8
<1>2. QED
  BY <1>1, TypeCorrect, ProtocolHolds, PTL DEF Spec
=============================================================================
