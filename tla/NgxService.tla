----------------------------- MODULE NgxService -----------------------------
(***************************************************************************)
(* What NGX demands of its callers, and what the crate promises to give    *)
(* it: calls one at a time, feature handles created and given back only    *)
(* while the service is up, and a service that goes down with no handle    *)
(* outstanding that anyone could still give back.  Which thread calls,     *)
(* which lock it holds and what keeps the service alive is not said here.  *)
(***************************************************************************)
CONSTANT Callers   \* the threads that may call NGX

VARIABLES
  up,        \* NGX is initialized
  inside,    \* the callers inside an NGX export
  handles,   \* the handles handed out and not given back
  lost       \* those whose creator unwound before it had one to own them

vars == <<up, inside, handles, lost>>

Init == up = FALSE /\ inside = {} /\ handles = {} /\ lost = {}

\* A thread enters an export, which no thread is inside of.
Enter(a) == inside = {} /\ inside' = {a} /\ UNCHANGED <<up, handles, lost>>

\* A call returns, or the same thread goes on to its next call.
Return(a) == inside = {a} /\ inside' \in {{}, {a}} /\ UNCHANGED lost

\* The call that returns had no effect a caller can see.
Finish(a) == Return(a) /\ UNCHANGED <<up, handles>>

Start(a) == Return(a) /\ up' = TRUE /\ UNCHANGED handles

Create(a) ==
  /\ Return(a) /\ up /\ UNCHANGED up
  /\ \E h \in handles' \ handles : handles' = handles \cup {h}

Release(a) ==
  /\ Return(a) /\ up /\ UNCHANGED up
  /\ \E h \in handles : handles' = handles \ {h}

Stop(a) ==
  /\ Return(a) /\ up /\ handles \subseteq lost
  /\ up' = FALSE /\ UNCHANGED handles

\* Between two calls, a creator unwinds.
Lose ==
  /\ inside = {}
  /\ \E h \in handles \ lost : lost' = lost \cup {h}
  /\ UNCHANGED <<up, inside, handles>>

Next ==
  \/ Lose
  \/ \E a \in Callers :
       Enter(a) \/ Finish(a) \/ Start(a) \/ Create(a) \/ Release(a) \/ Stop(a)

Spec == Init /\ [][Next]_vars
=============================================================================
