----------------------- MODULE NgxSdkRefinement_proofs -----------------------
(***************************************************************************)
(* NgxSdk implements NgxService, for any set of cameras, panic points and  *)
(* bounds.  Every step enters or leaves one NGX export, loses a handle, or *)
(* stutters: Protocol says that the thread which enters finds no other     *)
(* inside, Handles that what it takes, loses and gives back is what the    *)
(* service has out.                                                        *)
(***************************************************************************)
EXTENDS NgxSdk_proofs

\* A thread inside an export is alone there.
LEMMA Alone ==
  ASSUME TypeOK, Protocol, NEW a \in Actors, InCall(a)
  PROVE  Inside = {a}
<1>1. NgxSerialized
  BY Known, ActorsAssumption DEF Protocol, NgxSerialized, InCall, NgxCalls, Critical,
     Constructing, TearingDown
<1>2. QED
  BY <1>1 DEF Inside, NgxSerialized

\* Whoever takes the free Mutex, while it is not out, finds nobody inside.
LEMMA FreeLock ==
  ASSUME TypeOK, Protocol, NEW a \in Actors, pc[a] # "out",
         pc[a] \notin NgxCalls, lock = NoOne
  PROVE  Inside = {}
<1> SUFFICES ASSUME NEW b \in Actors, InCall(b)
             PROVE  FALSE
  BY DEF Inside
<1>1. pc[b] \notin Critical
  BY ActorsAssumption DEF Protocol
<1>2. pc[b] \in Constructing \cup TearingDown
  BY <1>1 DEF InCall, NgxCalls, Critical, Constructing, TearingDown
<1>3. a = b
  BY <1>2 DEF Protocol
<1>4. QED
  BY <1>3 DEF InCall

\* A move between points outside of NGX changes nothing for the service.
LEMMA StaysOut ==
  ASSUME TypeOK, NEW a \in Actors, pc[a] \notin NgxCalls, NEW l, l \notin NgxCalls,
         pc' = [pc EXCEPT ![a] = l]
  PROVE  Inside' = Inside
<1>1. \A b \in Actors : InCall(b)' <=> InCall(b)
  BY DEF TypeOK, InCall
<1>2. QED
  BY <1>1 DEF Inside

\* A move into an export.
LEMMA Enters ==
  ASSUME TypeOK, NEW a \in Actors, NEW l \in NgxCalls, Inside = {},
         pc' = [pc EXCEPT ![a] = l]
  PROVE  Inside' = {a}
<1>1. \A b \in Actors : InCall(b)' <=> b = a
  BY DEF TypeOK, InCall, Inside
<1>2. QED
  BY <1>1 DEF Inside

\* A move out of an export, or on to the next one.
LEMMA Leaves ==
  ASSUME TypeOK, NEW a \in Actors, NEW l, Inside = {a},
         pc' = [pc EXCEPT ![a] = l]
  PROVE  Inside' \in {{}, {a}}
<1>1. \A b \in Actors : InCall(b)' => b = a
  BY DEF TypeOK, InCall, Inside
<1>2. CASE InCall(a)'
  BY <1>1, <1>2 DEF Inside
<1>3. CASE ~InCall(a)'
  BY <1>1, <1>3 DEF Inside
<1>4. QED
  BY <1>2, <1>3

\* Every step of the threads is a step of the service, or none.
LEMMA ServiceNext ==
  ASSUME TypeOK, Protocol, Handles, [Next]_vars
  PROVE  [Service!Next]_(Service!vars)
<1> DEFINE Stutter == Inside' = Inside /\ UNCHANGED <<ngx, live, abandoned>>
           Step(a) == \/ Service!Enter(a) \/ Service!Finish(a) \/ Service!Start(a)
                      \/ Service!Create(a) \/ Service!Release(a) \/ Service!Stop(a)
<1>a. Stutter => [Service!Next]_(Service!vars)
  BY DEF Service!vars
<1>b. ASSUME NEW a \in Actors, Step(a)
      PROVE  [Service!Next]_(Service!vars)
  BY <1>b DEF Service!Next
<1> HIDE DEF Stutter, Step
<1> USE Known, ActorsAssumption DEF Goto, ngxVars, liveVars
<1>1. CASE NewSdk
  <2>1. pc[Main] \notin NgxCalls /\ UNCHANGED <<ngx, live, abandoned>>
    BY <1>1 DEF NewSdk, NgxCalls
  <2>2. \E l \in NgxCalls : pc' = [pc EXCEPT ![Main] = l]
    BY <1>1 DEF NewSdk, NgxCalls
  <2>3. Inside = {}
    BY <2>1, <1>1 DEF NewSdk, Actors, Inside, InCall, NgxCalls
  <2>4. Inside' = {Main}
    BY <2>2, <2>3, Enters
  <2>5. QED
    BY <2>1, <2>3, <2>4, <1>b DEF Step, Service!Enter
<1>2. CASE InitReturns
  <2>1. Inside = {Main}
    BY <1>2, Alone DEF InitReturns, SdkReady, InCall, NgxCalls
  <2>2. \E l : pc' = [pc EXCEPT ![Main] = l]
    BY <1>2 DEF InitReturns, SdkReady
  <2>3. Service!Return(Main)
    BY <1>2, <2>1, <2>2, Leaves DEF Service!Return, InitReturns
  <2>4. UNCHANGED <<live, abandoned>> /\ (ngx' = "up" \/ UNCHANGED ngx)
    BY <1>2 DEF InitReturns
  <2>5. QED
    BY <2>3, <2>4, <1>b DEF Step, Service!Finish, Service!Start
<1>3. CASE GetCapsReturns
  <2>1. Inside = {Main}
    BY <1>3, Alone DEF GetCapsReturns, SdkReady, InCall, NgxCalls
  <2>2. \E l : pc' = [pc EXCEPT ![Main] = l]
    BY <1>3 DEF GetCapsReturns, SdkReady
  <2>3. Service!Return(Main)
    BY <1>3, <2>1, <2>2, Leaves DEF Service!Return, GetCapsReturns
  <2>4. UNCHANGED <<ngx, live, abandoned>>
    BY <1>3 DEF GetCapsReturns
  <2>5. QED
    BY <2>3, <2>4, <1>b DEF Step, Service!Finish
<1>4. CASE ProbeReturns
  <2>1. Inside = {Main}
    BY <1>4, Alone DEF ProbeReturns, SdkReady, InCall, NgxCalls
  <2>2. \E l : pc' = [pc EXCEPT ![Main] = l]
    BY <1>4 DEF ProbeReturns, SdkReady
  <2>3. Service!Return(Main)
    BY <1>4, <2>1, <2>2, Leaves DEF Service!Return, ProbeReturns
  <2>4. UNCHANGED <<ngx, live, abandoned>>
    BY <1>4 DEF ProbeReturns
  <2>5. QED
    BY <2>3, <2>4, <1>b DEF Step, Service!Finish
<1>5. CASE ProbeDestroyReturns
  <2>1. Inside = {Main}
    BY <1>5, Alone DEF ProbeDestroyReturns, SdkReady, InCall, NgxCalls
  <2>2. \E l : pc' = [pc EXCEPT ![Main] = l]
    BY <1>5 DEF ProbeDestroyReturns, SdkReady
  <2>3. Service!Return(Main)
    BY <1>5, <2>1, <2>2, Leaves DEF Service!Return, ProbeDestroyReturns
  <2>4. UNCHANGED <<ngx, live, abandoned>>
    BY <1>5 DEF ProbeDestroyReturns
  <2>5. QED
    BY <2>3, <2>4, <1>b DEF Step, Service!Finish
<1>6. CASE CallStats
  <2>1. pc[Main] \notin NgxCalls /\ UNCHANGED <<ngx, live, abandoned>>
    BY <1>6 DEF CallStats, NgxCalls
  <2>2. \E l : l \notin NgxCalls /\ pc' = [pc EXCEPT ![Main] = l]
    BY <1>6 DEF CallStats, NgxCalls
  <2>3. QED
    BY <2>1, <2>2, <1>a, StaysOut DEF Stutter
<1>7. CASE StatsBegins
  <2>1. pc[Main] \notin NgxCalls /\ UNCHANGED <<ngx, live, abandoned>>
    BY <1>7 DEF StatsBegins, NgxCalls
  <2>2. \E l \in NgxCalls : pc' = [pc EXCEPT ![Main] = l]
    BY <1>7 DEF StatsBegins, NgxCalls
  <2>3. Inside = {}
    BY <2>1, <1>7, FreeLock DEF StatsBegins, Acquire
  <2>4. Inside' = {Main}
    BY <2>2, <2>3, Enters
  <2>5. QED
    BY <2>1, <2>3, <2>4, <1>b DEF Step, Service!Enter
<1>8. CASE StatsReturns
  <2>1. Inside = {Main}
    BY <1>8, Alone DEF StatsReturns, SdkReady, InCall, NgxCalls
  <2>2. \E l : pc' = [pc EXCEPT ![Main] = l]
    BY <1>8 DEF StatsReturns, SdkReady
  <2>3. Service!Return(Main)
    BY <1>8, <2>1, <2>2, Leaves DEF Service!Return, StatsReturns
  <2>4. UNCHANGED <<ngx, live, abandoned>>
    BY <1>8 DEF StatsReturns
  <2>5. QED
    BY <2>3, <2>4, <1>b DEF Step, Service!Finish
<1>9. CASE StatsPanics
  <2>1. Inside = {Main}
    BY <1>9, Alone DEF StatsPanics, SdkReady, InCall, NgxCalls
  <2>2. \E l : pc' = [pc EXCEPT ![Main] = l]
    BY <1>9 DEF StatsPanics, SdkReady
  <2>3. Service!Return(Main)
    BY <1>9, <2>1, <2>2, Leaves DEF Service!Return, StatsPanics
  <2>4. UNCHANGED <<ngx, live, abandoned>>
    BY <1>9 DEF StatsPanics
  <2>5. QED
    BY <2>3, <2>4, <1>b DEF Step, Service!Finish
<1>10. CASE DropSdkClone
  <2>1. pc[Main] \notin NgxCalls /\ UNCHANGED <<ngx, live, abandoned>>
    BY <1>10 DEF DropSdkClone, NgxCalls
  <2>2. \E l : l \notin NgxCalls /\ pc' = [pc EXCEPT ![Main] = l]
    BY <1>10 DEF DropSdkClone, NgxCalls
  <2>3. QED
    BY <2>1, <2>2, <1>a, StaysOut DEF Stutter
<1>11. ASSUME NEW c \in Cameras, CallCreate(c)
      PROVE  [Service!Next]_(Service!vars)
  <2>1. pc[c] \notin NgxCalls /\ UNCHANGED <<ngx, live, abandoned>>
    BY <1>11 DEF CallCreate, NgxCalls
  <2>2. \E l : l \notin NgxCalls /\ pc' = [pc EXCEPT ![c] = l]
    BY <1>11 DEF CallCreate, NgxCalls
  <2>3. QED
    BY <2>1, <2>2, <1>a, StaysOut DEF Stutter
<1>12. ASSUME NEW c \in Cameras, CreateBegins(c)
      PROVE  [Service!Next]_(Service!vars)
  <2>1. pc[c] \notin NgxCalls /\ UNCHANGED <<ngx, live, abandoned>>
    BY <1>12 DEF CreateBegins, NgxCalls
  <2>2. \E l \in NgxCalls : pc' = [pc EXCEPT ![c] = l]
    BY <1>12 DEF CreateBegins, NgxCalls
  <2>3. Inside = {}
    BY <2>1, <1>12, FreeLock DEF CreateBegins, Acquire
  <2>4. Inside' = {c}
    BY <2>2, <2>3, Enters
  <2>5. QED
    BY <2>1, <2>3, <2>4, <1>b DEF Step, Service!Enter
<1>13. ASSUME NEW c \in Cameras, SettingsReturns(c)
      PROVE  [Service!Next]_(Service!vars)
  <2>1. Inside = {c}
    BY <1>13, Alone DEF SettingsReturns, SdkReady, InCall, NgxCalls
  <2>2. \E l : pc' = [pc EXCEPT ![c] = l]
    BY <1>13 DEF SettingsReturns, SdkReady
  <2>3. Service!Return(c)
    BY <1>13, <2>1, <2>2, Leaves DEF Service!Return, SettingsReturns
  <2>4. UNCHANGED <<ngx, live, abandoned>>
    BY <1>13 DEF SettingsReturns
  <2>5. QED
    BY <2>3, <2>4, <1>b DEF Step, Service!Finish
<1>14. ASSUME NEW c \in Cameras, RecordCreate(c)
      PROVE  [Service!Next]_(Service!vars)
  <2>1. pc[c] = "Record" /\ lock = c /\ UNCHANGED <<ngx, live, abandoned>>
    BY <1>14 DEF RecordCreate, Protocol, Critical
  <2>2. Inside = {}
    BY <2>1 DEF Inside, InCall, NgxCalls, Protocol, Critical, Constructing, TearingDown
  <2>3. CASE pc' = [pc EXCEPT ![c] = "Create"]
    <3>1. Inside' = {c}
      BY <2>2, <2>3, Enters DEF NgxCalls
    <3>2. QED
      BY <2>1, <2>2, <3>1, <1>b DEF Step, Service!Enter
  <2>4. CASE pc' = [pc EXCEPT ![c] = "DropArc"]
    BY <2>1, <2>4, <1>a, StaysOut DEF Stutter, NgxCalls
  <2>5. QED
    BY <1>14, <2>3, <2>4 DEF RecordCreate
<1>15. ASSUME NEW c \in Cameras, CreateReturns(c)
      PROVE  [Service!Next]_(Service!vars)
  <2>1. Inside = {c}
    BY <1>15, Alone DEF CreateReturns, SdkReady, InCall, NgxCalls
  <2>2. \E l : pc' = [pc EXCEPT ![c] = l]
    BY <1>15 DEF CreateReturns, SdkReady
  <2>3. Service!Return(c)
    BY <1>15, <2>1, <2>2, Leaves DEF Service!Return, CreateReturns
  <2>4. CASE live' = live \cup {Handle(c)}
    <3>1. ngx = "up" /\ UNCHANGED ngx
      BY <1>15 DEF CreateReturns, Protocol, NeedsParams, Owning
    <3>2. Handle(c) \notin live
      BY <1>15 DEF CreateReturns, Handles, Creating, Handle
    <3>3. QED
      BY <2>3, <2>4, <3>1, <3>2, <1>b DEF Step, Service!Create
  <2>5. CASE UNCHANGED live
    <3>1. UNCHANGED ngx
      BY <1>15 DEF CreateReturns
    <3>2. QED
      BY <2>3, <2>5, <3>1, <1>b DEF Step, Service!Finish
  <2>6. QED
    BY <1>15, <2>4, <2>5 DEF CreateReturns
<1>16. ASSUME NEW c \in Cameras, CreateSubmits(c)
      PROVE  [Service!Next]_(Service!vars)
  <2>1. pc[c] \notin NgxCalls /\ UNCHANGED <<ngx, live, abandoned>>
    BY <1>16 DEF CreateSubmits, NgxCalls
  <2>2. \E l : l \notin NgxCalls /\ pc' = [pc EXCEPT ![c] = l]
    BY <1>16 DEF CreateSubmits, NgxCalls
  <2>3. QED
    BY <2>1, <2>2, <1>a, StaysOut DEF Stutter
<1>17. ASSUME NEW c \in Cameras, SubmitScene(c)
      PROVE  [Service!Next]_(Service!vars)
  BY <1>17, <1>a DEF SubmitScene, Stutter, Inside, InCall
<1>18. ASSUME NEW c \in Cameras, CallRender(c)
      PROVE  [Service!Next]_(Service!vars)
  <2>1. pc[c] \notin NgxCalls /\ UNCHANGED <<ngx, live, abandoned>>
    BY <1>18 DEF CallRender, NgxCalls
  <2>2. \E l : l \notin NgxCalls /\ pc' = [pc EXCEPT ![c] = l]
    BY <1>18 DEF CallRender, NgxCalls
  <2>3. QED
    BY <2>1, <2>2, <1>a, StaysOut DEF Stutter
<1>19. ASSUME NEW c \in Cameras, EvalBegins(c)
      PROVE  [Service!Next]_(Service!vars)
  <2>1. pc[c] \notin NgxCalls /\ UNCHANGED <<ngx, live, abandoned>>
    BY <1>19 DEF EvalBegins, NgxCalls
  <2>2. \E l \in NgxCalls : pc' = [pc EXCEPT ![c] = l]
    BY <1>19 DEF EvalBegins, NgxCalls
  <2>3. Inside = {}
    BY <2>1, <1>19, FreeLock DEF EvalBegins, Acquire
  <2>4. Inside' = {c}
    BY <2>2, <2>3, Enters
  <2>5. QED
    BY <2>1, <2>3, <2>4, <1>b DEF Step, Service!Enter
<1>20. ASSUME NEW c \in Cameras, EvalHasNoList(c)
      PROVE  [Service!Next]_(Service!vars)
  <2>1. pc[c] \notin NgxCalls /\ UNCHANGED <<ngx, live, abandoned>>
    BY <1>20 DEF EvalHasNoList, NgxCalls
  <2>2. \E l : l \notin NgxCalls /\ pc' = [pc EXCEPT ![c] = l]
    BY <1>20 DEF EvalHasNoList, NgxCalls
  <2>3. QED
    BY <2>1, <2>2, <1>a, StaysOut DEF Stutter
<1>21. ASSUME NEW c \in Cameras, EvalReturns(c)
      PROVE  [Service!Next]_(Service!vars)
  <2>1. Inside = {c}
    BY <1>21, Alone DEF EvalReturns, SdkReady, InCall, NgxCalls
  <2>2. \E l : pc' = [pc EXCEPT ![c] = l]
    BY <1>21 DEF EvalReturns, SdkReady
  <2>3. Service!Return(c)
    BY <1>21, <2>1, <2>2, Leaves DEF Service!Return, EvalReturns
  <2>4. UNCHANGED <<ngx, live, abandoned>>
    BY <1>21 DEF EvalReturns
  <2>5. QED
    BY <2>3, <2>4, <1>b DEF Step, Service!Finish
<1>22. ASSUME NEW c \in Cameras, EvalSubmits(c)
      PROVE  [Service!Next]_(Service!vars)
  <2>1. pc[c] \notin NgxCalls /\ UNCHANGED <<ngx, live, abandoned>>
    BY <1>22 DEF EvalSubmits, NgxCalls
  <2>2. \E l : l \notin NgxCalls /\ pc' = [pc EXCEPT ![c] = l]
    BY <1>22 DEF EvalSubmits, NgxCalls
  <2>3. QED
    BY <2>1, <2>2, <1>a, StaysOut DEF Stutter
<1>23. ASSUME NEW c \in Cameras, EvalSubmitPanics(c)
      PROVE  [Service!Next]_(Service!vars)
  <2>1. pc[c] \notin NgxCalls /\ UNCHANGED <<ngx, live, abandoned>>
    BY <1>23 DEF EvalSubmitPanics, NgxCalls
  <2>2. \E l : l \notin NgxCalls /\ pc' = [pc EXCEPT ![c] = l]
    BY <1>23 DEF EvalSubmitPanics, NgxCalls
  <2>3. QED
    BY <2>1, <2>2, <1>a, StaysOut DEF Stutter
<1>24. ASSUME NEW c \in Cameras, DropContext(c)
      PROVE  [Service!Next]_(Service!vars)
  <2>1. pc[c] \notin NgxCalls /\ UNCHANGED <<ngx, live, abandoned>>
    BY <1>24 DEF DropContext, NgxCalls
  <2>2. \E l : l \notin NgxCalls /\ pc' = [pc EXCEPT ![c] = l]
    BY <1>24 DEF DropContext, NgxCalls
  <2>3. QED
    BY <2>1, <2>2, <1>a, StaysOut DEF Stutter
<1>25. ASSUME NEW c \in Cameras, PollReturns(c)
      PROVE  [Service!Next]_(Service!vars)
  <2>1. pc[c] \notin NgxCalls /\ UNCHANGED <<ngx, live, abandoned>>
    BY <1>25 DEF PollReturns, NgxCalls
  <2>2. \E l : l \notin NgxCalls /\ pc' = [pc EXCEPT ![c] = l]
    BY <1>25 DEF PollReturns, NgxCalls
  <2>3. QED
    BY <2>1, <2>2, <1>a, StaysOut DEF Stutter
<1>26. ASSUME NEW c \in Cameras, ReleaseBegins(c)
      PROVE  [Service!Next]_(Service!vars)
  <2>1. pc[c] \notin NgxCalls /\ UNCHANGED <<ngx, live, abandoned>>
    BY <1>26 DEF ReleaseBegins, NgxCalls
  <2>2. \E l \in NgxCalls : pc' = [pc EXCEPT ![c] = l]
    BY <1>26 DEF ReleaseBegins, NgxCalls
  <2>3. Inside = {}
    BY <2>1, <1>26, FreeLock DEF ReleaseBegins, Acquire
  <2>4. Inside' = {c}
    BY <2>2, <2>3, Enters
  <2>5. QED
    BY <2>1, <2>3, <2>4, <1>b DEF Step, Service!Enter
<1>27. ASSUME NEW c \in Cameras, ReleaseReturns(c)
      PROVE  [Service!Next]_(Service!vars)
  <2>1. Inside = {c}
    BY <1>27, Alone DEF ReleaseReturns, SdkReady, InCall, NgxCalls
  <2>2. \E l : pc' = [pc EXCEPT ![c] = l]
    BY <1>27 DEF ReleaseReturns, SdkReady
  <2>3. Service!Return(c)
    BY <1>27, <2>1, <2>2, Leaves DEF Service!Return, ReleaseReturns
  <2>4. ngx = "up" /\ UNCHANGED ngx /\ live' = live \ {Handle(c)}
    BY <1>27 DEF ReleaseReturns, Protocol, NeedsParams, Owning
  <2>5. Handle(c) \in live
    BY <1>27 DEF ReleaseReturns, Handles, HasHandle
  <2>6. QED
    BY <2>3, <2>4, <2>5, <1>b DEF Step, Service!Release
<1>28. ASSUME NEW a \in Actors, DropArc(a)
      PROVE  [Service!Next]_(Service!vars)
  <2>1. pc[a] \notin NgxCalls /\ UNCHANGED <<ngx, live, abandoned>>
    BY <1>28 DEF DropArc, NgxCalls
  <2>2. \E l : l \notin NgxCalls /\ pc' = [pc EXCEPT ![a] = l]
    BY <1>28 DEF DropArc, NgxCalls
  <2>3. QED
    BY <2>1, <2>2, <1>a, StaysOut DEF Stutter
<1>29. ASSUME NEW a \in Actors, SdkPollReturns(a)
      PROVE  [Service!Next]_(Service!vars)
  <2>1. pc[a] \notin NgxCalls /\ UNCHANGED <<ngx, live, abandoned>>
    BY <1>29 DEF SdkPollReturns, NgxCalls
  <2>2. \E l \in NgxCalls : pc' = [pc EXCEPT ![a] = l]
    BY <1>29 DEF SdkPollReturns, NgxCalls
  <2>3. Inside = {}
    BY <2>1, <1>29 DEF SdkPollReturns, Protocol, TearingDown, Inside, InCall, NgxCalls
  <2>4. Inside' = {a}
    BY <2>2, <2>3, Enters
  <2>5. QED
    BY <2>1, <2>3, <2>4, <1>b DEF Step, Service!Enter
<1>30. ASSUME NEW a \in Actors, DestroyReturns(a)
      PROVE  [Service!Next]_(Service!vars)
  <2>1. Inside = {a}
    BY <1>30, Alone DEF DestroyReturns, SdkReady, InCall, NgxCalls
  <2>2. \E l : pc' = [pc EXCEPT ![a] = l]
    BY <1>30 DEF DestroyReturns, SdkReady
  <2>3. Service!Return(a)
    BY <1>30, <2>1, <2>2, Leaves DEF Service!Return, DestroyReturns
  <2>4. UNCHANGED <<ngx, live, abandoned>>
    BY <1>30 DEF DestroyReturns
  <2>5. QED
    BY <2>3, <2>4, <1>b DEF Step, Service!Finish
<1>31. ASSUME NEW a \in Actors, ShutdownReturns(a)
      PROVE  [Service!Next]_(Service!vars)
  <2>1. Inside = {a}
    BY <1>31, Alone DEF ShutdownReturns, SdkReady, InCall, NgxCalls
  <2>2. \E l : pc' = [pc EXCEPT ![a] = l]
    BY <1>31 DEF ShutdownReturns, SdkReady
  <2>3. Service!Return(a)
    BY <1>31, <2>1, <2>2, Leaves DEF Service!Return, ShutdownReturns
  <2>4. ngx = "up" /\ ngx' = "down" /\ UNCHANGED live
    BY <1>31 DEF ShutdownReturns, Protocol
  <2>5. live \subseteq abandoned
    BY <1>31, LastToLeave DEF ShutdownReturns, ReleasedOrAbandoned
  <2>6. QED
    BY <2>3, <2>4, <2>5, <1>b DEF Step, Service!Stop
<1>32. ASSUME NEW c \in Cameras, CreateSubmitPanics(c)
      PROVE  [Service!Next]_(Service!vars)
  <2>1. /\ pc[c] = "CreateSubmit" /\ lock = c /\ UNCHANGED <<ngx, live>>
        /\ pc' = [pc EXCEPT ![c] = "DropArc"]
        /\ abandoned' = abandoned \cup {Handle(c)}
    BY <1>32 DEF CreateSubmitPanics, Protocol, Critical
  <2>2. Inside = {}
    BY <2>1 DEF Inside, InCall, NgxCalls, Protocol, Critical, Constructing, TearingDown
  <2>3. Inside' = Inside
    BY <2>1, StaysOut DEF NgxCalls
  <2>4. Handle(c) \in live \ abandoned
    BY <2>1 DEF Handles, HasHandle
  <2>5. Service!Lose
    BY <2>1, <2>2, <2>3, <2>4 DEF Service!Lose
  <2>6. QED
    BY <2>5 DEF Service!Next
<1>33. CASE GpuCompletes
  BY <1>33, <1>a DEF GpuCompletes, Stutter, Inside, InCall
<1>34. CASE AtRest
  BY <1>34, <1>a DEF AtRest, vars, Stutter, Inside, InCall
<1>35. CASE UNCHANGED vars
  BY <1>35, <1>a DEF vars, Stutter, Inside, InCall
<1>36. QED
  BY <1>1, <1>2, <1>3, <1>4, <1>5, <1>6, <1>7, <1>8, <1>9, <1>10, <1>11,
     <1>12, <1>13, <1>14, <1>15, <1>16, <1>17, <1>18, <1>19, <1>20, <1>21,
     <1>22, <1>23, <1>24, <1>25, <1>26, <1>27, <1>28, <1>29, <1>30, <1>31,
     <1>32, <1>33, <1>34, <1>35
     DEF NewStep, StatsStep, AppStep, Panic, CreateStep, RenderStep,
         ReleaseStep, TeardownStep, Next

\* The crate keeps NGX's contract: calls one at a time, handles created and
\* used only while NGX is up, and a shutdown with none outstanding that an
\* NgxFeature owns.
THEOREM ImplementsService == Spec => RefinesService
<1>1. Init => Service!Init
  BY DEF Init, Service!Init, Inside, InCall, NgxCalls
<1>2. TypeOK /\ Protocol /\ Handles /\ [Next]_vars => [Service!Next]_(Service!vars)
  BY ServiceNext
<1>3. QED
  BY <1>1, <1>2, TypeCorrect, ProtocolHolds, HandlesHold, PTL
  DEF Spec, RefinesService, Service!Spec
=============================================================================
