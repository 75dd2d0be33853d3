--------------------------- MODULE TaskLifecycle ---------------------------
(***************************************************************************)
(* What the task API promises to its clients, without the goroutines, the  *)
(* contexts and the counter that keep the promise: an accepted task stays  *)
(* known until it has ended, ends once, with one outcome that it keeps,    *)
(* is "killed" only when somebody asked for it, and is forgotten only      *)
(* after it has ended.                                                     *)
(***************************************************************************)
CONSTANTS Task, Outcome, Killed

VARIABLES
    phase,   \* "absent", "active", "ended" or "forgotten"
    outcome, \* the outcome of an ended task; Unknown before
    asked    \* the tasks whose cancellation was accepted while they were active

lifecycleVars == <<phase, outcome, asked>>

Unknown == "unknown"

Init ==
    /\ phase = [t \in Task |-> "absent"]
    /\ outcome = [t \in Task |-> Unknown]
    /\ asked = {}

Accept(t) ==
    /\ phase[t] = "absent"
    /\ phase' = [phase EXCEPT ![t] = "active"]
    /\ UNCHANGED <<outcome, asked>>

\* One task on a DELETE, every active one at shutdown.
Ask(S) ==
    /\ \A t \in S : phase[t] = "active"
    /\ asked' = asked \cup S
    /\ UNCHANGED <<phase, outcome>>

End(t, o) ==
    /\ phase[t] = "active"
    /\ o = Killed => t \in asked
    /\ phase' = [phase EXCEPT ![t] = "ended"]
    /\ outcome' = [outcome EXCEPT ![t] = o]
    /\ UNCHANGED asked

Forget(S) ==
    /\ \A t \in S : phase[t] = "ended"
    /\ phase' = [t \in Task |-> IF t \in S THEN "forgotten" ELSE phase[t]]
    /\ UNCHANGED <<outcome, asked>>

Next ==
    \/ \E t \in Task : Accept(t) \/ \E o \in Outcome : End(t, o)
    \/ \E S \in SUBSET Task : Ask(S) \/ Forget(S)

Spec == Init /\ [][Next]_lifecycleVars
=============================================================================
