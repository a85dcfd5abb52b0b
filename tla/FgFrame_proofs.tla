---------------------------- MODULE FgFrame_proofs ----------------------------
(***************************************************************************)
(* Theorems about the per-frame sequence of FgFrame, for every number of   *)
(* frames and of calls, in a debug and in a release build.                 *)
(***************************************************************************)
EXTENDS FgFrame, TLAPS

\* How many of the proven calls a Frame has made when its last step is s.
MadeAt == [s \in Steps |->
             CASE s = "Begun" -> 4 [] s = "Constants" -> 5 [] s = "Acquired" -> 6
               [] s = "Tagged" -> 7 [] s = "RenderEnded" -> 8 [] s = "Presented" -> 10]

\* The calls left the proven sequence at one of them.
Left(cs) == \E i \in 1..Len(cs) : i > 10 \/ cs[i] # Proven[i]

\* As long as nothing is reported, the step tells which calls were made; once
\* something is, they have left the proven sequence for good.
OrderInv ==
  /\ calls = <<>> => ~open /\ ~misordered
  /\ calls # <<>> /\ ~misordered =>
       Len(calls) = MadeAt[step] /\ \A i \in 1..MadeAt[step] : calls[i] = Proven[i]
  /\ misordered => Left(calls)
  /\ debug => ~misordered

\* A texture the application holds came with its index.
IndexInv == (texture => indexed) /\ ~unindexed

\* As long as no frame was presented, given up or skipped, the Frame that exists
\* is frame 0, and plain constants are of a later one.
ResetInv ==
  /\ first = "no frame" /\ ~aborted /\ ~skipped =>
       (open => index = 0) /\ (~open => begins = 0)
  /\ open /\ presented => first # "no frame"
  /\ constants = "plain" => index # 0

-----------------------------------------------------------------------------
(* The proven sequence *)

\* Where the calls of two sequences are in the one after the other.
LEMMA Concatenated ==
  ASSUME NEW S, NEW s \in Seq(S), NEW t \in Seq(S), NEW u, u = s \o t
  PROVE  /\ u \in Seq(S) /\ Len(u) = Len(s) + Len(t)
         /\ \A i \in 1..Len(s) : u[i] = s[i]
         /\ \A i \in 1..Len(t) : u[Len(s) + i] = t[i]
OBVIOUS

Names == {"GetNewFrameToken", "ReflexSleep", "SimulationStart", "SimulationEnd",
          "SetConstants", "RenderSubmitStart", "SetTagForFrame", "RenderSubmitEnd",
          "PresentStart", "PresentEnd"}

\* The calls that follow those of begin_frame.
FrameCalls == <<"SetConstants", "RenderSubmitStart", "SetTagForFrame",
                "RenderSubmitEnd", "PresentStart", "PresentEnd">>

\* What the happy-path test spells out, call by call.
LEMMA ProvenIs ==
  /\ Len(Proven) = 10 /\ Proven \in Seq(Names)
  /\ Proven[1] = "GetNewFrameToken" /\ Proven[2] = "ReflexSleep"
  /\ Proven[3] = "SimulationStart" /\ Proven[4] = "SimulationEnd"
  /\ Proven[5] = "SetConstants" /\ Proven[6] = "RenderSubmitStart"
  /\ Proven[7] = "SetTagForFrame" /\ Proven[8] = "RenderSubmitEnd"
  /\ Proven[9] = "PresentStart" /\ Proven[10] = "PresentEnd"
<1>1. /\ BeginCalls \in Seq(Names) /\ Len(BeginCalls) = 4
      /\ BeginCalls[1] = "GetNewFrameToken" /\ BeginCalls[2] = "ReflexSleep"
      /\ BeginCalls[3] = "SimulationStart" /\ BeginCalls[4] = "SimulationEnd"
  BY DEF BeginCalls, Names
<1>2. /\ FrameCalls \in Seq(Names) /\ Len(FrameCalls) = 6
      /\ FrameCalls[1] = "SetConstants" /\ FrameCalls[2] = "RenderSubmitStart"
      /\ FrameCalls[3] = "SetTagForFrame" /\ FrameCalls[4] = "RenderSubmitEnd"
      /\ FrameCalls[5] = "PresentStart" /\ FrameCalls[6] = "PresentEnd"
  BY DEF Names, FrameCalls
<1>3. Proven = BeginCalls \o FrameCalls
  BY Zenon DEF Proven, FrameCalls
<1>4. BeginCalls \in Seq(Names) /\ FrameCalls \in Seq(Names)
  BY <1>1, <1>2
<1>5. /\ Proven \in Seq(Names) /\ Len(Proven) = Len(BeginCalls) + Len(FrameCalls)
      /\ \A i \in 1..Len(BeginCalls) : Proven[i] = BeginCalls[i]
      /\ \A i \in 1..Len(FrameCalls) : Proven[Len(BeginCalls) + i] = FrameCalls[i]
  BY <1>3, <1>4, Concatenated
<1>6. /\ Proven \in Seq(Names) /\ Len(Proven) = 10
      /\ \A i \in 1..4 : Proven[i] = BeginCalls[i]
      /\ \A i \in 1..6 : Proven[4 + i] = FrameCalls[i]
  BY <1>1, <1>2, <1>5
<1>7. /\ Proven[4 + 1] = FrameCalls[1] /\ Proven[4 + 2] = FrameCalls[2]
      /\ Proven[4 + 3] = FrameCalls[3] /\ Proven[4 + 4] = FrameCalls[4]
      /\ Proven[4 + 5] = FrameCalls[5] /\ Proven[4 + 6] = FrameCalls[6]
  BY <1>6
<1> QED
  BY <1>1, <1>2, <1>6, <1>7

\* A call of the sequence is one of CallNames.
LEMMA ProvenHas ==
  ASSUME NEW i \in 1..10
  PROVE  Proven[i] \in CallNames
<1>1. DOMAIN Proven = 1..10
  BY ProvenIs
<1> QED
  BY <1>1 DEF CallNames

\* IsPrefix and Left are the two outcomes, on every sequence of calls.
LEMMA PrefixOrLeft ==
  ASSUME NEW cs \in Seq(CallNames)
  PROVE  IsPrefix(cs, Proven) <=> ~Left(cs)
<1>1. ASSUME IsPrefix(cs, Proven), NEW i \in 1..Len(cs)
      PROVE  i <= 10 /\ cs[i] = Proven[i]
  <2>1. Len(cs) <= 10 /\ SubSeq(cs, 1, Len(cs)) = SubSeq(Proven, 1, Len(cs))
    BY <1>1, ProvenIs DEF IsPrefix
  <2>2. SubSeq(cs, 1, Len(cs))[i] = cs[i]
    OBVIOUS
  <2>3. SubSeq(Proven, 1, Len(cs))[i] = Proven[i]
    BY <2>1, ProvenIs
  <2> QED
    BY <2>1, <2>2, <2>3
<1>2. ASSUME ~Left(cs)
      PROVE  IsPrefix(cs, Proven)
  <2>1. \A i \in 1..Len(cs) : i <= 10 /\ cs[i] = Proven[i]
    BY <1>2 DEF Left
  <2>2. Len(cs) <= 10
    BY <2>1
  <2>3. SubSeq(cs, 1, Len(cs)) = SubSeq(Proven, 1, Len(cs))
    BY <2>1, <2>2, ProvenIs
  <2> QED
    BY <2>2, <2>3, ProvenIs DEF IsPrefix
<1> QED
  BY <1>1, <1>2 DEF Left

\* Nothing that follows brings the calls back into the sequence.
LEMMA LeftForGood ==
  ASSUME NEW cs \in Seq(CallNames), NEW more \in Seq(CallNames), Left(cs)
  PROVE  Left(cs \o more)
<1>1. PICK i \in 1..Len(cs) : i > 10 \/ cs[i] # Proven[i]
  BY DEF Left
<1>2. i \in 1..Len(cs \o more) /\ (cs \o more)[i] = cs[i]
  OBVIOUS
<1> QED
  BY <1>1, <1>2 DEF Left

\* What the methods of a Frame append to its calls.
Appended == {<<"SetConstants">>, <<"RenderSubmitStart">>, <<"SetTagForFrame">>,
             <<"RenderSubmitEnd">>, <<"PresentStart", "PresentEnd">>}

LEMMA CallsOf ==
  /\ BeginCalls \in Seq(CallNames) /\ Len(BeginCalls) = 4
  /\ \A i \in 1..4 : BeginCalls[i] = Proven[i]
  /\ Appended \subseteq Seq(CallNames)
<1>1. /\ Proven[1] \in CallNames /\ Proven[2] \in CallNames /\ Proven[3] \in CallNames
      /\ Proven[4] \in CallNames /\ Proven[5] \in CallNames /\ Proven[6] \in CallNames
      /\ Proven[7] \in CallNames /\ Proven[8] \in CallNames /\ Proven[9] \in CallNames
      /\ Proven[10] \in CallNames
  BY ProvenHas
<1>2. /\ "GetNewFrameToken" \in CallNames /\ "ReflexSleep" \in CallNames
      /\ "SimulationStart" \in CallNames /\ "SimulationEnd" \in CallNames
      /\ "SetConstants" \in CallNames /\ "RenderSubmitStart" \in CallNames
      /\ "SetTagForFrame" \in CallNames /\ "RenderSubmitEnd" \in CallNames
      /\ "PresentStart" \in CallNames /\ "PresentEnd" \in CallNames
  BY <1>1, ProvenIs, Zenon
<1>3. BeginCalls \in Seq(CallNames)
  BY <1>2 DEF BeginCalls
<1>4. /\ Len(BeginCalls) = 4
      /\ BeginCalls[1] = Proven[1] /\ BeginCalls[2] = Proven[2]
      /\ BeginCalls[3] = Proven[3] /\ BeginCalls[4] = Proven[4]
  BY ProvenIs DEF BeginCalls
<1>5. \A i \in 1..4 : BeginCalls[i] = Proven[i]
  BY <1>4
<1>6. /\ <<"SetConstants">> \in Seq(CallNames) /\ <<"RenderSubmitStart">> \in Seq(CallNames)
      /\ <<"SetTagForFrame">> \in Seq(CallNames) /\ <<"RenderSubmitEnd">> \in Seq(CallNames)
      /\ <<"PresentStart", "PresentEnd">> \in Seq(CallNames)
  BY <1>2
<1>7. Appended \subseteq Seq(CallNames)
  BY <1>6, Zenon DEF Appended
<1> QED
  BY <1>3, <1>4, <1>5, <1>7

-----------------------------------------------------------------------------
(* The type invariant *)

\* A flag stays a Boolean.
LEMMA FlagsNext == FlagsOK /\ [Next]_vars => FlagsOK'
<1> SUFFICES ASSUME FlagsOK, [Next]_vars
             PROVE  FlagsOK'
  OBVIOUS
<1> USE DEF FlagsOK, frameVars, surfaceVars, historyVars
<1>1. CASE BeginFrame /\ UNCHANGED debug
  BY <1>1, Zenon DEF BeginFrame
<1>2. CASE BeginFrameFails /\ UNCHANGED debug
  BY <1>2, Zenon DEF BeginFrameFails
<1>3. ASSUME NEW cut \in BOOLEAN, SetConstants(cut), UNCHANGED debug
      PROVE  FlagsOK'
  BY <1>3, Zenon DEF SetConstants, Method, Advance
<1>4. CASE Acquire /\ UNCHANGED debug
  BY <1>4, Zenon DEF Acquire, Method, Advance, AcquireReturns
<1>5. CASE Tag /\ UNCHANGED debug
  BY <1>5, Zenon DEF Tag, Method, Advance
<1>6. CASE TagHasNoRawHandle /\ UNCHANGED debug
  BY <1>6, Zenon DEF TagHasNoRawHandle
<1>7. CASE EndRender /\ UNCHANGED debug
  BY <1>7, Zenon DEF EndRender, Method, Advance
<1>8. CASE Present /\ UNCHANGED debug
  BY <1>8, Zenon DEF Present, Advance
<1>9. CASE OutOfOrderPanics /\ UNCHANGED debug
  BY <1>9, Zenon DEF OutOfOrderPanics
<1>10. CASE DropFrame /\ UNCHANGED debug
  BY <1>10, Zenon DEF DropFrame
<1>11. CASE DropTexture /\ UNCHANGED debug
  BY <1>11, Zenon DEF DropTexture
<1>12. CASE UNCHANGED vars
  BY <1>12, Zenon DEF vars
<1> QED
  BY <1>1, <1>2, <1>3, <1>4, <1>5, <1>6, <1>7, <1>8, <1>9, <1>10, <1>11, <1>12
  DEF Next, FrameStep

\* What a step makes of the calls: nothing, those of begin_frame, or more of them.
LEMMA CallsNext ==
  [Next]_vars => \/ calls' \in {calls, BeginCalls}
                 \/ \E cs \in Appended : calls' = calls \o cs
BY Zenon DEF Appended, Next, FrameStep, vars, frameVars, surfaceVars, historyVars,
   BeginFrame, BeginFrameFails, SetConstants, Method, Acquire, Tag, TagHasNoRawHandle,
   EndRender, Present, OutOfOrderPanics, DropFrame, DropTexture

\* A step moves the counters by one, or starts them over.
LEMMA CountsNext ==
  [Next]_vars => /\ index' \in {index, begins} /\ begins' \in {begins, begins + 1}
                 /\ methods' \in {0, methods, methods + 1}
BY Zenon DEF Next, FrameStep, vars, frameVars, surfaceVars, historyVars, BeginFrame,
   BeginFrameFails, SetConstants, Method, Acquire, Tag, TagHasNoRawHandle,
   EndRender, Present, OutOfOrderPanics, DropFrame, DropTexture

\* The last step of a Frame stays one of the steps.
LEMMA StepNext == step \in Steps /\ [Next]_vars => step' \in Steps
BY DEF Steps, Advance, Next, FrameStep, vars, frameVars, surfaceVars, historyVars, BeginFrame,
   BeginFrameFails, SetConstants, Method, Acquire, Tag, TagHasNoRawHandle,
   EndRender, Present, OutOfOrderPanics, DropFrame, DropTexture

\* What became of the constants stays one of the outcomes.
LEMMA ConstantsNext ==
  /\ constants \in {"none", "plain", "reset"}
  /\ first \in {"no frame", "none", "plain", "reset"}
  /\ [Next]_vars
  => /\ constants' \in {"none", "plain", "reset"}
     /\ first' \in {"no frame", "none", "plain", "reset"}
BY DEF Next, FrameStep, vars, frameVars, surfaceVars, historyVars, BeginFrame,
   BeginFrameFails, SetConstants, Method, Acquire, Tag, TagHasNoRawHandle,
   EndRender, Present, OutOfOrderPanics, DropFrame, DropTexture

\* A step keeps every variable's type.
LEMMA TypeNext == TypeOK /\ [Next]_vars => TypeOK'
<1> SUFFICES ASSUME TypeOK, [Next]_vars
             PROVE  TypeOK'
  OBVIOUS
<1>1. FlagsOK'
  BY FlagsNext DEF TypeOK
<1>2. index' \in Nat /\ begins' \in Nat /\ methods' \in Nat
  <2>1. index \in Nat /\ begins \in Nat /\ methods \in Nat
    BY Zenon DEF TypeOK
  <2> QED
    BY <2>1, CountsNext
<1>3. step' \in Steps
  BY StepNext DEF TypeOK
<1>4. calls' \in Seq(CallNames)
  <2>1. calls \in Seq(CallNames) /\ BeginCalls \in Seq(CallNames)
    BY CallsOf DEF TypeOK
  <2>2. ASSUME NEW cs \in Appended, calls' = calls \o cs
        PROVE  calls' \in Seq(CallNames)
    BY <2>1, <2>2, CallsOf
  <2> QED
    BY <2>1, <2>2, CallsNext
<1>5. /\ constants' \in {"none", "plain", "reset"}
      /\ first' \in {"no frame", "none", "plain", "reset"}
  BY ConstantsNext DEF TypeOK
<1> QED
  BY <1>1, <1>2, <1>3, <1>4, <1>5 DEF TypeOK

\* Every variable keeps its type, for any number of frames and of calls.
THEOREM TypeCorrect == Spec => []TypeOK
<1>1. Init => TypeOK
  <2> SUFFICES ASSUME Init
               PROVE  TypeOK
    OBVIOUS
  <2>1. FlagsOK
    BY Zenon DEF Init, FlagsOK
  <2>2. calls \in Seq(CallNames)
    <3>1. calls = <<>>
      BY Zenon DEF Init
    <3> QED
      BY <3>1
  <2>3. index \in Nat /\ begins \in Nat /\ methods \in Nat
    BY DEF Init
  <2>4. /\ step \in Steps /\ constants \in {"none", "plain", "reset"}
        /\ first \in {"no frame", "none", "plain", "reset"}
    BY DEF Init, Steps
  <2> QED
    BY <2>1, <2>2, <2>3, <2>4 DEF TypeOK
<1> QED
  BY <1>1, TypeNext, PTL DEF Spec

-----------------------------------------------------------------------------
(* The order of the calls *)

\* Calls made in order continue the sequence.
LEMMA InOrder ==
  ASSUME NEW cs \in Seq(CallNames), NEW more \in Seq(CallNames), NEW m \in 4..10,
         NEW n \in 4..10, Len(cs) = m, Len(more) = n - m,
         \A i \in 1..m : cs[i] = Proven[i],
         \A i \in 1..Len(more) : more[i] = Proven[m + i]
  PROVE  /\ Len(cs \o more) = n
         /\ \A i \in 1..n : (cs \o more)[i] = Proven[i]
<1> DEFINE u == cs \o more
<1>1. /\ Len(u) = Len(cs) + Len(more)
      /\ \A i \in 1..Len(cs) : u[i] = cs[i]
      /\ \A i \in 1..Len(more) : u[Len(cs) + i] = more[i]
  BY Concatenated
<1> HIDE DEF u
<1>2. ASSUME NEW i \in 1..n, ~(i <= m)
      PROVE  u[i] = Proven[i]
  <2>1. i - m \in 1..Len(more) /\ m + (i - m) = i
    BY <1>2
  <2> QED
    BY <1>1, <2>1, SMTT(60)
<1>3. Len(u) = n
  BY <1>1
<1>4. ASSUME NEW i \in 1..n, i <= m
      PROVE  u[i] = Proven[i]
  BY <1>1, <1>4
<1>5. Len(u) = n /\ \A i \in 1..n : u[i] = Proven[i]
  BY <1>2, <1>3, <1>4
<1> QED
  BY <1>5 DEF u

\* A call out of order is none that the sequence has at its place.
LEMMA OutOfOrder ==
  ASSUME NEW cs \in Seq(CallNames), NEW more \in Seq(CallNames), NEW m \in 4..10,
         NEW k \in 4..8, k # m, Len(cs) = m, Len(more) > 0, more[1] = Proven[k + 1]
  PROVE  Left(cs \o more)
<1> DEFINE u == cs \o more
<1>1. m + 1 \in 1..Len(u) /\ u[m + 1] = more[1]
  BY Concatenated
<1> HIDE DEF u
<1>2. m < 10 => Proven[k + 1] # Proven[m + 1]
  BY ProvenIs
<1>3. m + 1 > 10 \/ u[m + 1] # Proven[m + 1]
  BY <1>1, <1>2
<1>4. Left(u)
  BY <1>1, <1>3 DEF Left
<1> QED
  BY <1>4 DEF u

LEMMA NotEmpty ==
  ASSUME NEW S, NEW s \in Seq(S), NEW t \in Seq(S), Len(t) > 0
  PROVE  s \o t # <<>>
<1>1. Len(s \o t) = Len(s) + Len(t)
  BY Concatenated
<1>2. Len(s \o t) > 0
  BY <1>1
<1> QED
  BY <1>2

\* A method that advances keeps OrderInv: in order, its calls are the next of the
\* sequence; out of order, they leave it.
LEMMA MethodOrder ==
  ASSUME calls \in Seq(CallNames), step \in Steps, debug \in BOOLEAN,
         misordered \in BOOLEAN, OrderInv, open,
         NEW expected \in Steps \ {"Presented"}, NEW to \in Steps, NEW cs \in Appended,
         Advance(expected, to), calls' = calls \o cs, debug' = debug,
         Len(cs) = MadeAt[to] - MadeAt[expected], Len(cs) > 0,
         \A i \in 1..Len(cs) : cs[i] = Proven[MadeAt[expected] + i]
  PROVE  OrderInv'
<1>1. calls # <<>>
  BY Zenon DEF OrderInv
<1>2. /\ MadeAt[expected] \in 4..8 /\ MadeAt[to] \in 4..10 /\ MadeAt[step] \in 4..10
      /\ step # expected => MadeAt[step] # MadeAt[expected]
  BY SMTT(60) DEF Steps, MadeAt
<1>3. step' = to /\ misordered' = (misordered \/ step # expected)
      /\ (debug => step = expected)
  BY Zenon DEF Advance
<1>4. cs \in Seq(CallNames)
  BY CallsOf
<1>5. calls' # <<>>
  <2>1. calls \o cs # <<>>
    BY <1>4, NotEmpty
  <2> QED
    BY <2>1, Zenon
<1>6. ASSUME ~misordered
      PROVE  /\ Len(calls) = MadeAt[step]
             /\ \A i \in 1..MadeAt[step] : calls[i] = Proven[i]
  BY <1>1, <1>6, Zenon DEF OrderInv
<1>7. ASSUME ~misordered, step = expected
      PROVE  Len(calls') = MadeAt[to] /\ \A i \in 1..MadeAt[to] : calls'[i] = Proven[i]
  <2>1. /\ Len(calls) = MadeAt[expected]
        /\ \A i \in 1..MadeAt[expected] : calls[i] = Proven[i]
    BY <1>6, <1>7, Zenon
  <2>2. MadeAt[expected] \in 4..10
    BY <1>2
  <2>3. /\ Len(calls \o cs) = MadeAt[to]
        /\ \A i \in 1..MadeAt[to] : (calls \o cs)[i] = Proven[i]
    BY <2>1, <2>2, <1>2, <1>4, InOrder, SMTT(60)
  <2> QED
    BY <2>3, Zenon
<1>8. ASSUME ~misordered, step # expected
      PROVE  Left(calls')
  <2>1. cs[1] = Proven[MadeAt[expected] + 1]
    BY <1>2, <1>4
  <2> QED
    BY <1>2, <1>4, <1>6, <1>8, <2>1, OutOfOrder
<1>9. ASSUME misordered
      PROVE  Left(calls')
  <2>1. Left(calls)
    BY <1>9, Zenon DEF OrderInv
  <2> QED
    BY <2>1, <1>4, LeftForGood
<1>10. debug => ~misordered
  BY Zenon DEF OrderInv
<1> QED
  BY <1>3, <1>5, <1>7, <1>8, <1>9, <1>10, Zenon DEF OrderInv

\* Every step keeps OrderInv.
LEMMA OrderNext == TypeOK /\ OrderInv /\ [Next]_vars => OrderInv'
<1> SUFFICES ASSUME TypeOK, OrderInv, [Next]_vars
             PROVE  OrderInv'
  OBVIOUS
<1>a. calls \in Seq(CallNames) /\ step \in Steps /\ debug \in BOOLEAN /\ misordered \in BOOLEAN
  BY Zenon DEF TypeOK, FlagsOK
<1>b. UNCHANGED debug
  BY Zenon DEF Next, vars
<1>c. /\ MadeAt["Begun"] = 4 /\ MadeAt["Constants"] = 5 /\ MadeAt["Acquired"] = 6
      /\ MadeAt["Tagged"] = 7 /\ MadeAt["RenderEnded"] = 8 /\ MadeAt["Presented"] = 10
  BY DEF Steps, MadeAt
<1>d. ASSUME NEW expected \in Steps \ {"Presented"}, NEW to \in Steps, NEW name,
             <<name>> \in Appended, MadeAt[to] = MadeAt[expected] + 1,
             MadeAt[expected] \in 4..8,
             name = Proven[MadeAt[expected] + 1], Method(expected, to, <<name>>)
      PROVE  OrderInv'
  <2>1. open /\ Advance(expected, to) /\ calls' = calls \o <<name>>
    BY <1>d, Zenon DEF Method
  <2>2. /\ Len(<<name>>) = MadeAt[to] - MadeAt[expected] /\ Len(<<name>>) > 0
        /\ \A i \in 1..Len(<<name>>) : <<name>>[i] = Proven[MadeAt[expected] + i]
    BY <1>d
  <2> QED
    BY <1>a, <1>b, <1>d, <2>1, <2>2, MethodOrder
<1>1. CASE BeginFrame
  <2>1. calls' = BeginCalls /\ step' = "Begun" /\ misordered' = FALSE
    BY <1>1, Zenon DEF BeginFrame
  <2>2. BeginCalls # <<>>
    <3>1. Len(<<>>) = 0 /\ Len(BeginCalls) = 4
      BY CallsOf
    <3> QED
      BY <3>1
  <2>3. /\ Len(BeginCalls) = MadeAt["Begun"]
        /\ \A i \in 1..MadeAt["Begun"] : BeginCalls[i] = Proven[i]
    BY <1>c, CallsOf, Zenon
  <2> QED
    BY <2>1, <2>2, <2>3, Zenon DEF OrderInv
<1>2. CASE BeginFrameFails
  BY <1>2, <1>b, Zenon DEF BeginFrameFails, OrderInv, Left, frameVars
<1>3. ASSUME NEW cut \in BOOLEAN, SetConstants(cut)
      PROVE  OrderInv'
  <2>1. Method("Begun", "Constants", <<"SetConstants">>)
    BY <1>3, Zenon DEF SetConstants
  <2>2. /\ "Begun" \in Steps \ {"Presented"} /\ "Constants" \in Steps
        /\ <<"SetConstants">> \in Appended /\ Proven[4 + 1] = "SetConstants"
    BY ProvenIs DEF Steps, Appended
  <2> QED
    BY <1>c, <1>d, <2>1, <2>2
<1>4. CASE Acquire
  <2>1. Method("Constants", "Acquired", <<"RenderSubmitStart">>)
    BY <1>4, Zenon DEF Acquire
  <2>2. /\ "Constants" \in Steps \ {"Presented"} /\ "Acquired" \in Steps
        /\ <<"RenderSubmitStart">> \in Appended /\ Proven[5 + 1] = "RenderSubmitStart"
    BY ProvenIs DEF Steps, Appended
  <2> QED
    BY <1>c, <1>d, <2>1, <2>2
<1>5. CASE Tag
  <2>1. Method("Acquired", "Tagged", <<"SetTagForFrame">>)
    BY <1>5, Zenon DEF Tag
  <2>2. /\ "Acquired" \in Steps \ {"Presented"} /\ "Tagged" \in Steps
        /\ <<"SetTagForFrame">> \in Appended /\ Proven[6 + 1] = "SetTagForFrame"
    BY ProvenIs DEF Steps, Appended
  <2> QED
    BY <1>c, <1>d, <2>1, <2>2
<1>6. CASE TagHasNoRawHandle
  BY <1>6, <1>b, Zenon DEF TagHasNoRawHandle, OrderInv, Left
<1>7. CASE EndRender
  <2>1. Method("Tagged", "RenderEnded", <<"RenderSubmitEnd">>)
    BY <1>7, Zenon DEF EndRender
  <2>2. /\ "Tagged" \in Steps \ {"Presented"} /\ "RenderEnded" \in Steps
        /\ <<"RenderSubmitEnd">> \in Appended /\ Proven[7 + 1] = "RenderSubmitEnd"
    BY ProvenIs DEF Steps, Appended
  <2> QED
    BY <1>c, <1>d, <2>1, <2>2
<1>8. CASE Present
  <2>1. /\ open /\ Advance("RenderEnded", "Presented")
        /\ calls' = calls \o <<"PresentStart", "PresentEnd">>
    BY <1>8, Zenon DEF Present
  <2>2. /\ "RenderEnded" \in Steps \ {"Presented"} /\ "Presented" \in Steps
        /\ <<"PresentStart", "PresentEnd">> \in Appended
    BY DEF Steps, Appended
  <2>3. /\ Len(<<"PresentStart", "PresentEnd">>) = 2
        /\ <<"PresentStart", "PresentEnd">>[1] = Proven[8 + 1]
        /\ <<"PresentStart", "PresentEnd">>[2] = Proven[8 + 2]
    BY ProvenIs
  <2>4. \A i \in 1..2 : <<"PresentStart", "PresentEnd">>[i] = Proven[8 + i]
    BY <2>3
  <2> DEFINE cs == <<"PresentStart", "PresentEnd">>
  <2>5. /\ cs \in Appended /\ calls' = calls \o cs
        /\ Len(cs) = 2 /\ \A i \in 1..2 : cs[i] = Proven[8 + i]
    BY <2>1, <2>2, <2>3, <2>4, Zenon
  <2> HIDE DEF cs
  <2>6. /\ Len(cs) = MadeAt["Presented"] - MadeAt["RenderEnded"] /\ Len(cs) > 0
        /\ \A i \in 1..Len(cs) : cs[i] = Proven[MadeAt["RenderEnded"] + i]
    BY <1>c, <2>5
  <2> QED
    BY <1>a, <1>b, <2>1, <2>2, <2>5, <2>6, MethodOrder
<1>9. CASE OutOfOrderPanics
  BY <1>9, <1>b, Zenon DEF OutOfOrderPanics, OrderInv, Left
<1>10. CASE DropFrame
  BY <1>10, <1>b, Zenon DEF DropFrame, OrderInv, Left
<1>11. CASE DropTexture
  BY <1>11, <1>b, Zenon DEF DropTexture, OrderInv, Left, frameVars
<1>12. CASE UNCHANGED vars
  BY <1>12, Zenon DEF vars, frameVars, OrderInv, Left
<1> QED
  BY <1>1, <1>2, <1>3, <1>4, <1>5, <1>6, <1>7, <1>8, <1>9, <1>10, <1>11, <1>12, Zenon
  DEF Next, FrameStep

\* The order enforcement is exact: what a release build reports is what left the
\* proven sequence, and a debug build lets nothing leave it.
THEOREM OrderIsReported == Spec => []OrderReported
<1>1. Init => OrderInv
  BY Zenon DEF Init, OrderInv
<1>2. TypeOK /\ OrderInv => OrderReported
  <2> SUFFICES ASSUME TypeOK, OrderInv
               PROVE  OrderReported
    OBVIOUS
  <2>1. calls \in Seq(CallNames) /\ step \in Steps /\ misordered \in BOOLEAN
    BY Zenon DEF TypeOK, FlagsOK
  <2>2. misordered <=> Left(calls)
    <3>1. CASE calls = <<>>
      <4>1. ~misordered
        BY <3>1, Zenon DEF OrderInv
      <4>2. ~Left(<<>>)
        BY DEF Left
      <4> QED
        BY <3>1, <4>1, <4>2
    <3>2. CASE calls # <<>> /\ ~misordered
      <4>1. /\ Len(calls) = MadeAt[step]
            /\ \A i \in 1..MadeAt[step] : calls[i] = Proven[i]
        BY <3>2, Zenon DEF OrderInv
      <4>2. MadeAt[step] \in 4..10
        BY <2>1 DEF Steps, MadeAt
      <4>3. ~Left(calls)
        BY <4>1, <4>2 DEF Left
      <4> QED
        BY <3>2, <4>3
    <3>3. CASE misordered
      BY <3>3, Zenon DEF OrderInv
    <3> QED
      BY <3>1, <3>2, <3>3
  <2>3. IsPrefix(calls, Proven) <=> ~misordered
    BY <2>1, <2>2, PrefixOrLeft
  <2>4. debug => ~misordered
    BY Zenon DEF OrderInv
  <2> QED
    BY <2>3, <2>4, Zenon DEF OrderReported
<1> QED
  BY <1>1, <1>2, OrderNext, TypeCorrect, PTL DEF Spec

-----------------------------------------------------------------------------
(* The back buffer index and the reset flag *)

\* Whatever the application calls, no back buffer is presented unindexed.
THEOREM IndexBeforePresent == Spec => []NoPresentWithoutIndex
<1>1. Init => IndexInv
  BY Zenon DEF Init, IndexInv
<1>2. IndexInv /\ [Next]_vars => IndexInv'
  <2> SUFFICES ASSUME IndexInv, [Next]_vars
               PROVE  IndexInv'
    OBVIOUS
  <2>1. CASE Acquire
    <3>1. AcquireReturns
      BY <2>1, Zenon DEF Acquire
    <3>2. CASE indexed' = TRUE /\ unindexed' = unindexed
      BY <3>2, SMT DEF IndexInv
    <3>3. CASE UNCHANGED surfaceVars
      BY <3>3, Zenon DEF IndexInv, surfaceVars
    <3> QED
      BY <3>1, <3>2, <3>3, Zenon DEF AcquireReturns
  <2>2. CASE Present
    BY <2>2, Zenon DEF IndexInv, Present
  <2>3. CASE OutOfOrderPanics
    BY <2>3, Zenon DEF IndexInv, OutOfOrderPanics
  <2>4. CASE DropTexture
    BY <2>4, Zenon DEF IndexInv, DropTexture
  <2>5. CASE UNCHANGED <<texture, indexed, unindexed>>
    BY <2>5, Zenon DEF IndexInv
  <2>6. (BeginFrame \/ BeginFrameFails \/ Tag \/ EndRender \/ DropFrame)
          => UNCHANGED <<texture, indexed, unindexed>>
    BY DEF BeginFrame, BeginFrameFails, Tag, EndRender, DropFrame, surfaceVars
  <2>7. TagHasNoRawHandle \/ (\E cut \in BOOLEAN : SetConstants(cut)) \/ UNCHANGED vars
          => UNCHANGED <<texture, indexed, unindexed>>
    BY DEF TagHasNoRawHandle, SetConstants, vars, surfaceVars
  <2> QED
    BY <2>1, <2>2, <2>3, <2>4, <2>5, <2>6, <2>7, Zenon DEF Next, FrameStep
<1>3. IndexInv => NoPresentWithoutIndex
  BY Zenon DEF IndexInv, NoPresentWithoutIndex
<1> QED
  BY <1>1, <1>2, <1>3, PTL DEF Spec

\* Frame 0 is the first one presented, unless a frame before it was given up.
THEOREM FirstResets == Spec => []FirstFrameResets
<1>1. Init => ResetInv /\ FirstFrameResets
  BY Zenon DEF Init, ResetInv, FirstFrameResets
<1>2. TypeOK /\ ResetInv /\ FirstFrameResets /\ [Next]_vars => (ResetInv /\ FirstFrameResets)'
  <2> SUFFICES ASSUME TypeOK, ResetInv, FirstFrameResets, [Next]_vars
               PROVE  ResetInv' /\ FirstFrameResets'
    OBVIOUS
  <2>a. constants \in {"none", "plain", "reset"} /\ presented \in BOOLEAN
    BY Zenon DEF TypeOK, FlagsOK
  <2> USE DEF ResetInv, FirstFrameResets, frameVars, surfaceVars, historyVars
  <2>1. CASE BeginFrame
    BY <2>1, Zenon DEF BeginFrame
  <2>2. CASE BeginFrameFails
    BY <2>2, Zenon DEF BeginFrameFails
  <2>3. ASSUME NEW cut \in BOOLEAN, SetConstants(cut)
        PROVE  ResetInv' /\ FirstFrameResets'
    BY <2>3, Zenon DEF SetConstants, Method, ResetFlag
  <2>4. CASE Acquire
    BY <2>4, Zenon DEF Acquire, Method
  <2>5. CASE Tag
    BY <2>5, Zenon DEF Tag, Method
  <2>10. CASE EndRender
    BY <2>10, Zenon DEF EndRender, Method
  <2>11. CASE TagHasNoRawHandle
    BY <2>11, Zenon DEF TagHasNoRawHandle
  <2>12. CASE DropTexture
    BY <2>12, Zenon DEF DropTexture
  <2>6. CASE Present
    BY <2>6, <2>a, Zenon DEF Present
  <2>7. CASE OutOfOrderPanics
    BY <2>7, Zenon DEF OutOfOrderPanics
  <2>8. CASE DropFrame
    BY <2>8, Zenon DEF DropFrame
  <2>9. CASE UNCHANGED vars
    BY <2>9, Zenon DEF vars
  <2> QED
    BY <2>1, <2>2, <2>3, <2>4, <2>5, <2>6, <2>7, <2>8, <2>9, <2>10, <2>11,
       <2>12, Zenon DEF Next, FrameStep
<1> QED
  BY <1>1, <1>2, TypeCorrect, PTL DEF Spec
=============================================================================
