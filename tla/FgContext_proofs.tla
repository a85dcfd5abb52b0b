--------------------------- MODULE FgContext_proofs ---------------------------
(***************************************************************************)
(* Proofs about FgContext, for any number of calls: its type invariant,    *)
(* the inductive invariant IndInv (who owns the API, what each call of new *)
(* and of the drops may rely on, what is remembered of the mode), the      *)
(* safety properties that follow from it, and that every step is one that  *)
(* Streamline's contract SlService allows.                                 *)
(***************************************************************************)
EXTENDS FgContext, TLAPS

\* A flag stays a Boolean.
LEMMA FlagsNext == FlagsOK /\ [Next]_vars => FlagsOK'
<1> SUFFICES ASSUME FlagsOK, [Next]_vars
             PROVE  FlagsOK'
  OBVIOUS
<1> USE DEF FlagsOK, Goto, apiVars, modeVars, slVars, counters, Modes, NewPoints,
        DropPoints
<1>1. CASE InitFails
  BY <1>1, Zenon DEF InitFails
<1>2. CASE InitSucceeds
  BY <1>2, Zenon DEF InitSucceeds
<1>3. CASE DropHandle
  BY <1>3, Zenon DEF DropHandle
<1>4. CASE HandleShutdownReturns
  BY <1>4, Zenon DEF HandleShutdownReturns, SlStops
<1>5. ASSUME NEW m \in Modes, CallNew(m)
      PROVE  FlagsOK'
  BY <1>5, Zenon DEF CallNew
<1>6. CASE SetDeviceReturns
  BY <1>6, Zenon DEF SetDeviceReturns
<1>7. CASE ResolveReturns
  BY <1>7, Zenon DEF ResolveReturns
<1>8. CASE SupportedReturns
  BY <1>8, Zenon DEF SupportedReturns
<1>9. CASE ReflexReturns
  BY <1>9, Zenon DEF ReflexReturns
<1>10. CASE EnableReturns
  BY <1>10, Zenon DEF EnableReturns, Accept, MoveApi
<1>11. ASSUME NEW m \in Modes, SetMode(m)
      PROVE  FlagsOK'
  BY <1>11, Zenon DEF SetMode, Accept
<1>12. CASE BeginFrame
  BY <1>12, Zenon DEF BeginFrame
<1>13. CASE SubmitFrame
  BY <1>13, Zenon DEF SubmitFrame
<1>14. CASE GpuCompletes
  BY <1>14, Zenon DEF GpuCompletes
<1>15. CASE DropFrame
  BY <1>15, Zenon DEF DropFrame
<1>16. CASE DropContext
  BY <1>16, Zenon DEF DropContext
<1>17. CASE TurnOffReturns
  BY <1>17, Zenon DEF TurnOffReturns, Accept
<1>18. CASE PollReturns
  BY <1>18, Zenon DEF PollReturns
<1>19. CASE CtxShutdownReturns
  BY <1>19, Zenon DEF CtxShutdownReturns, SlStops
<1>20. CASE AtRest
  BY <1>20, Zenon DEF AtRest, vars
<1>21. CASE UNCHANGED vars
  BY <1>21, Zenon DEF vars
<1>22. QED
  BY <1>1, <1>2, <1>3, <1>4, <1>5, <1>6, <1>7, <1>8, <1>9, <1>10, <1>11,
     <1>12, <1>13, <1>14, <1>15, <1>16, <1>17, <1>18, <1>19, <1>20, <1>21
     DEF NewStep, DropStep, Next

\* The other variables keep their types.
LEMMA WordsNext == WordsOK /\ [Next]_vars => WordsOK'
<1> SUFFICES ASSUME WordsOK, [Next]_vars
             PROVE  WordsOK'
  OBVIOUS
<1> USE DEF WordsOK, Goto, apiVars, modeVars, slVars, counters, Modes, NewPoints,
        DropPoints
<1>1. CASE InitFails
  BY <1>1 DEF InitFails
<1>2. CASE InitSucceeds
  BY <1>2 DEF InitSucceeds
<1>3. CASE DropHandle
  BY <1>3 DEF DropHandle
<1>4. CASE HandleShutdownReturns
  BY <1>4 DEF HandleShutdownReturns, SlStops
<1>5. ASSUME NEW m \in Modes, CallNew(m)
      PROVE  WordsOK'
  BY <1>5 DEF CallNew
<1>6. CASE SetDeviceReturns
  BY <1>6 DEF SetDeviceReturns
<1>7. CASE ResolveReturns
  BY <1>7 DEF ResolveReturns
<1>8. CASE SupportedReturns
  BY <1>8 DEF SupportedReturns
<1>9. CASE ReflexReturns
  BY <1>9 DEF ReflexReturns
<1>10. CASE EnableReturns
  BY <1>10 DEF EnableReturns, Accept, MoveApi
<1>11. ASSUME NEW m \in Modes, SetMode(m)
      PROVE  WordsOK'
  BY <1>11 DEF SetMode, Accept
<1>12. CASE BeginFrame
  BY <1>12 DEF BeginFrame
<1>13. CASE SubmitFrame
  BY <1>13 DEF SubmitFrame
<1>14. CASE GpuCompletes
  BY <1>14 DEF GpuCompletes
<1>15. CASE DropFrame
  BY <1>15 DEF DropFrame
<1>16. CASE DropContext
  BY <1>16 DEF DropContext
<1>17. CASE TurnOffReturns
  BY <1>17 DEF TurnOffReturns, Accept
<1>18. CASE PollReturns
  BY <1>18 DEF PollReturns
<1>19. CASE CtxShutdownReturns
  BY <1>19 DEF CtxShutdownReturns, SlStops
<1>20. CASE AtRest
  BY <1>20 DEF AtRest, vars
<1>21. CASE UNCHANGED vars
  BY <1>21 DEF vars
<1>22. QED
  BY <1>1, <1>2, <1>3, <1>4, <1>5, <1>6, <1>7, <1>8, <1>9, <1>10, <1>11,
     <1>12, <1>13, <1>14, <1>15, <1>16, <1>17, <1>18, <1>19, <1>20, <1>21
     DEF NewStep, DropStep, Next

\* Every variable of the lifecycle keeps its type, for any number of calls.
THEOREM TypeCorrect == Spec => []TypeOK
<1>1. Init => FlagsOK
  BY Zenon DEF Init, FlagsOK
<1>2. Init => WordsOK
  BY DEF Init, WordsOK, Modes
<1>3. QED
  BY <1>1, <1>2, FlagsNext, WordsNext, PTL DEF Spec, TypeOK

-----------------------------------------------------------------------------
\* The ownership of the API and the phases of new and of the drops.
LEMMA IndInvNext == TypeOK /\ IndInv /\ [Next]_vars => IndInv'
<1> SUFFICES ASSUME TypeOK, IndInv, [Next]_vars
             PROVE  IndInv'
  OBVIOUS
<1> USE DEF TypeOK, FlagsOK, WordsOK, IndInv, OneOwner, Phases, Mirrors,
        QueryModeWasAccepted, EnabledMirrorsRuntime, Goto, apiVars, modeVars, slVars, counters, Modes,
        NewPoints, DropPoints
<1>1. CASE InitFails
  BY <1>1 DEF InitFails
<1>2. CASE InitSucceeds
  BY <1>2 DEF InitSucceeds
<1>3. CASE DropHandle
  BY <1>3 DEF DropHandle
<1>4. CASE HandleShutdownReturns
  BY <1>4 DEF HandleShutdownReturns, SlStops
<1>5. ASSUME NEW m \in Modes, CallNew(m)
      PROVE  IndInv'
  BY <1>5 DEF CallNew
<1>6. CASE SetDeviceReturns
  BY <1>6 DEF SetDeviceReturns
<1>7. CASE ResolveReturns
  BY <1>7 DEF ResolveReturns
<1>8. CASE SupportedReturns
  BY <1>8 DEF SupportedReturns
<1>9. CASE ReflexReturns
  BY <1>9 DEF ReflexReturns
<1>10. CASE EnableReturns
  BY <1>10 DEF EnableReturns, Accept, MoveApi
<1>11. ASSUME NEW m \in Modes, SetMode(m)
      PROVE  IndInv'
  BY <1>11 DEF SetMode, Accept, Free
<1>12. CASE BeginFrame
  BY <1>12 DEF BeginFrame, Free
<1>13. CASE SubmitFrame
  BY <1>13 DEF SubmitFrame
<1>14. CASE GpuCompletes
  BY <1>14 DEF GpuCompletes
<1>15. CASE DropFrame
  BY <1>15 DEF DropFrame
<1>16. CASE DropContext
  BY <1>16 DEF DropContext, Free
<1>17. CASE TurnOffReturns
  BY <1>17 DEF TurnOffReturns, Accept
<1>18. CASE PollReturns
  BY <1>18 DEF PollReturns
<1>19. CASE CtxShutdownReturns
  BY <1>19 DEF CtxShutdownReturns, SlStops
<1>20. CASE AtRest
  BY <1>20 DEF AtRest, vars
<1>21. CASE UNCHANGED vars
  BY <1>21 DEF vars
<1>22. QED
  BY <1>1, <1>2, <1>3, <1>4, <1>5, <1>6, <1>7, <1>8, <1>9, <1>10, <1>11,
     <1>12, <1>13, <1>14, <1>15, <1>16, <1>17, <1>18, <1>19, <1>20, <1>21
     DEF NewStep, DropStep, Next

\* At all times one object owes slShutdown, each call of new and of the drops runs
\* with what it needs, and the mirrored modes are those Streamline accepted.
THEOREM IndInvHolds == Spec => []IndInv
<1>1. Init => IndInv
  BY DEF Init, IndInv, OneOwner, Phases, Mirrors, QueryModeWasAccepted,
     EnabledMirrorsRuntime, NewPoints
<1>2. QED
  BY <1>1, TypeCorrect, IndInvNext, PTL DEF Spec

\* Streamline is up exactly as long as one object owes it the shutdown.
THEOREM OneOwes == Spec => []OneOwner
<1>1. IndInv => OneOwner
  BY DEF IndInv
<1>2. QED
  BY <1>1, IndInvHolds, PTL

\* is_enabled says what Streamline does, after every mode it accepted or refused.
THEOREM ModesMirrored == Spec => []EnabledMirrorsRuntime
<1>1. IndInv => EnabledMirrorsRuntime
  BY DEF IndInv, Mirrors
<1>2. QED
  BY <1>1, IndInvHolds, PTL

\* query_state asks with the last generating mode Streamline accepted, or eOn.
THEOREM QueryAsksAccepted == Spec => []QueryModeWasAccepted
<1>1. IndInv => QueryModeWasAccepted
  BY DEF IndInv, Mirrors
<1>2. QED
  BY <1>1, IndInvHolds, PTL

\* slShutdown finds generation off, or refused to be, and the GPU idle.
THEOREM QuietAtShutdown == Spec => []ShutdownQuiet
<1>1. TypeOK /\ IndInv => ShutdownQuiet
  BY DEF TypeOK, WordsOK, IndInv, OneOwner, Phases, Mirrors, ShutdownQuiet
<1>2. QED
  BY <1>1, TypeCorrect, IndInvHolds, PTL

\* A new that fails leaves the handle as it was; one that succeeds moves the API.
THEOREM FailedNewKeeps == Spec => NewMovesOrKeeps
<1>1. TypeOK /\ IndInv /\ [Next]_vars => [NewEndsWell]_vars
  <2> SUFFICES ASSUME TypeOK, IndInv, [Next]_vars
               PROVE  NewEndsWell \/ UNCHANGED vars
    OBVIOUS
  <2> USE DEF TypeOK, FlagsOK, WordsOK, IndInv, OneOwner, Phases, Mirrors,
          NewEndsWell, Goto, apiVars, modeVars, slVars, counters, NewPoints
  <2>1. CASE InitFails
    BY <2>1 DEF InitFails
  <2>2. CASE InitSucceeds
    BY <2>2 DEF InitSucceeds
  <2>3. CASE DropHandle
    BY <2>3 DEF DropHandle
  <2>4. CASE HandleShutdownReturns
    BY <2>4 DEF HandleShutdownReturns, SlStops
  <2>5. ASSUME NEW m \in Modes, CallNew(m)
        PROVE  NewEndsWell \/ UNCHANGED vars
    BY <2>5 DEF CallNew
  <2>6. CASE SetDeviceReturns
    BY <2>6 DEF SetDeviceReturns
  <2>7. CASE ResolveReturns
    BY <2>7 DEF ResolveReturns
  <2>8. CASE SupportedReturns
    BY <2>8 DEF SupportedReturns
  <2>9. CASE ReflexReturns
    BY <2>9 DEF ReflexReturns
  <2>10. CASE EnableReturns
    BY <2>10 DEF EnableReturns, Accept, MoveApi
  <2>11. ASSUME NEW m \in Modes, SetMode(m)
        PROVE  NewEndsWell \/ UNCHANGED vars
    BY <2>11 DEF SetMode, Accept, Free
  <2>12. CASE BeginFrame
    BY <2>12 DEF BeginFrame, Free
  <2>13. CASE SubmitFrame
    BY <2>13 DEF SubmitFrame
  <2>14. CASE GpuCompletes
    BY <2>14 DEF GpuCompletes
  <2>15. CASE DropFrame
    BY <2>15 DEF DropFrame
  <2>16. CASE DropContext
    BY <2>16 DEF DropContext, Free
  <2>17. CASE TurnOffReturns
    BY <2>17 DEF TurnOffReturns, Accept
  <2>18. CASE PollReturns
    BY <2>18 DEF PollReturns
  <2>19. CASE CtxShutdownReturns
    BY <2>19 DEF CtxShutdownReturns, SlStops
  <2>20. CASE AtRest
    BY <2>20 DEF AtRest, vars
  <2>21. CASE UNCHANGED vars
    BY <2>21 DEF vars
  <2>22. QED
    BY <2>1, <2>2, <2>3, <2>4, <2>5, <2>6, <2>7, <2>8, <2>9, <2>10, <2>11,
       <2>12, <2>13, <2>14, <2>15, <2>16, <2>17, <2>18, <2>19, <2>20, <2>21
       DEF NewStep, DropStep, Next
<1>2. QED
  BY <1>1, TypeCorrect, IndInvHolds, PTL DEF Spec, NewMovesOrKeeps

-----------------------------------------------------------------------------
(* How long new and the drops take *)

\* The calls left before new, or a drop, returns to the application.
CallsLeft ==
  CASE pc = "SetDevice" -> 5
    [] pc = "Resolve" -> 4
    [] pc \in {"Supported", "TurnOff"} -> 3
    [] pc \in {"Reflex", "Poll"} -> 2
    [] pc \in {"Enable", "CtxShutdown", "HandleShutdown"} -> 1
    [] pc = "app" -> 0

\* Whatever a call answers, the next is one nearer to the end; and nothing is submitted
\* meanwhile, so that what the poll waits for does not grow.
CallsGoOn ==
  pc # "app" =>
    /\ pc' = pc \/ CallsLeft' < CallsLeft
    /\ ~open' /\ (busy' => busy)

\* FrameGenerationContext::new and the two drops make at most five calls, of Streamline
\* or wgpu, each once, after any answers, and no new work of the GPU can keep the poll
\* of a drop waiting: what DropCompletes needs but that the calls return.
THEOREM ApiCallsEnd == Spec => [][CallsGoOn]_vars
<1>1. TypeOK /\ IndInv /\ [Next]_vars => [CallsGoOn]_vars
  <2> SUFFICES ASSUME TypeOK, IndInv, Next, pc # "app"
               PROVE  CallsGoOn
    BY DEF CallsGoOn
  <2> DEFINE Nearer == pc' = pc \/ CallsLeft' < CallsLeft
  <2>1. /\ pc \in {"SetDevice", "Resolve", "Supported", "Reflex", "Enable",
                  "TurnOff", "Poll", "CtxShutdown", "HandleShutdown"}
        /\ ~open
    BY DEF TypeOK, WordsOK, NewPoints, DropPoints, IndInv, OneOwner, Phases
  <2>2. CASE SetDeviceReturns \/ ResolveReturns \/ SupportedReturns \/ ReflexReturns
    <3>1. Nearer
      BY <2>2 DEF SetDeviceReturns, ResolveReturns, SupportedReturns, ReflexReturns,
         Goto, CallsLeft
    <3>2. UNCHANGED <<open, busy>>
      BY <2>2 DEF SetDeviceReturns, ResolveReturns, SupportedReturns, ReflexReturns
    <3> QED
      BY <2>1, <3>1, <3>2 DEF CallsGoOn
  <2>3. CASE EnableReturns \/ DropStep
    <3>1. Nearer
      BY <2>3 DEF EnableReturns, DropStep, TurnOffReturns, PollReturns,
         CtxShutdownReturns, HandleShutdownReturns, Goto, CallsLeft
    <3>2. UNCHANGED <<open, busy>>
      BY <2>3 DEF EnableReturns, DropStep, TurnOffReturns, PollReturns,
         CtxShutdownReturns, HandleShutdownReturns
    <3> QED
      BY <2>1, <3>1, <3>2 DEF CallsGoOn
  <2>4. CASE GpuCompletes
    BY <2>1, <2>4, Zenon DEF GpuCompletes, CallsGoOn
  <2>5. ~SubmitFrame /\ ~DropFrame
    BY <2>1, Zenon DEF SubmitFrame, DropFrame
  <2>6. /\ ~InitFails /\ ~InitSucceeds /\ ~DropHandle /\ ~BeginFrame /\ ~DropContext
        /\ ~AtRest
        /\ \A m \in Modes : ~CallNew(m) /\ ~SetMode(m)
    BY Zenon DEF InitFails, InitSucceeds, DropHandle, BeginFrame, DropContext, AtRest,
       CallNew, SetMode, Free, Goto
  <2> QED
    BY <2>2, <2>3, <2>4, <2>5, <2>6 DEF Next, NewStep
<1>2. QED
  BY <1>1, TypeCorrect, IndInvHolds, PTL DEF Spec

-----------------------------------------------------------------------------
\* Every step of the thread and of the GPU is one of Streamline's, or none.
LEMMA SlNext == TypeOK /\ IndInv /\ [Next]_vars => [Sl!Next]_(Sl!vars)
<1> SUFFICES ASSUME TypeOK, IndInv, [Next]_vars
             PROVE  Sl!Next \/ UNCHANGED Sl!vars
  OBVIOUS
<1> USE DEF TypeOK, FlagsOK, WordsOK, IndInv, OneOwner, Phases, Mirrors,
        Goto, apiVars, modeVars, slVars, counters, Modes, NewPoints, Sl!Next, Sl!vars
<1>1. CASE InitFails
  BY <1>1 DEF InitFails
<1>2. CASE InitSucceeds
  BY <1>2 DEF InitSucceeds, Sl!Start
<1>3. CASE DropHandle
  BY <1>3 DEF DropHandle
<1>4. CASE HandleShutdownReturns
  BY <1>4 DEF HandleShutdownReturns, SlStops, Sl!Stop
<1>5. ASSUME NEW m \in Modes, CallNew(m)
      PROVE  Sl!Next \/ UNCHANGED Sl!vars
  BY <1>5 DEF CallNew
<1>6. CASE SetDeviceReturns
  BY <1>6 DEF SetDeviceReturns, Sl!SetDevice
<1>7. CASE ResolveReturns
  BY <1>7 DEF ResolveReturns
<1>8. CASE SupportedReturns
  BY <1>8 DEF SupportedReturns
<1>9. CASE ReflexReturns
  BY <1>9 DEF ReflexReturns
<1>10. CASE EnableReturns
  BY <1>10 DEF EnableReturns, Accept, MoveApi, Sl!SetOptions
<1>11. ASSUME NEW m \in Modes, SetMode(m)
      PROVE  Sl!Next \/ UNCHANGED Sl!vars
  BY <1>11 DEF SetMode, Accept, Free, Sl!SetOptions
<1>12. CASE BeginFrame
  BY <1>12 DEF BeginFrame, Free
<1>13. CASE SubmitFrame
  BY <1>13 DEF SubmitFrame
<1>14. CASE GpuCompletes
  BY <1>14 DEF GpuCompletes
<1>15. CASE DropFrame
  BY <1>15 DEF DropFrame
<1>16. CASE DropContext
  BY <1>16 DEF DropContext, Free
<1>17. CASE TurnOffReturns
  BY <1>17 DEF TurnOffReturns, Accept, Sl!SetOptions
<1>18. CASE PollReturns
  BY <1>18 DEF PollReturns
<1>19. CASE CtxShutdownReturns
  BY <1>19 DEF CtxShutdownReturns, SlStops, Sl!Stop
<1>20. CASE AtRest
  BY <1>20 DEF AtRest, vars
<1>21. CASE UNCHANGED vars
  BY <1>21 DEF vars
<1>22. QED
  BY <1>1, <1>2, <1>3, <1>4, <1>5, <1>6, <1>7, <1>8, <1>9, <1>10, <1>11,
     <1>12, <1>13, <1>14, <1>15, <1>16, <1>17, <1>18, <1>19, <1>20, <1>21
     DEF NewStep, DropStep, Next

\* The crate keeps Streamline's contract.
THEOREM ImplementsStreamline == Spec => RefinesStreamline
<1>1. Init => Sl!Init
  BY DEF Init, Sl!Init
<1>2. QED
  BY <1>1, SlNext, TypeCorrect, IndInvHolds, PTL DEF Spec, RefinesStreamline, Sl!Spec
=============================================================================
