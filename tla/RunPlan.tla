------------------------------- MODULE RunPlan -------------------------------
(***************************************************************************)
(* What the scheduler promises of the units of a run: single nodes and     *)
(* pipeline chains.  A unit is started at most once, when everything it    *)
(* waits for has an outcome; it gets one outcome, for work that was done   *)
(* or in place of it; and a run that is reported as completed has left no  *)
(* unit at work.                                                           *)
(***************************************************************************)
CONSTANT Node

VARIABLES
  waits,    \* for each unit, the units whose outcomes are its inputs
  begun,    \* the units whose work was started
  outcome,  \* what became of each unit; "none" before
  ended     \* the run was reported as completed

planVars == <<waits, begun, outcome, ended>>

PlanInit ==
  /\ \E U \in SUBSET Node : waits \in [U -> SUBSET U] /\ outcome \in [U -> {"none", "seed"}]
  /\ begun = {} /\ ended = FALSE

\* Not started, without an outcome, and with all of its inputs.
Open(u) == u \in DOMAIN waits /\ u \notin begun /\ outcome[u] = "none"
Able(u) == Open(u) /\ \A v \in waits[u] : outcome[v] # "none"
Comes(u, r) == outcome' = [outcome EXCEPT ![u] = r]

\* Work is started, and its outcome comes later or at once.
Begin(u) == /\ Able(u) /\ begun' = begun \cup {u} /\ UNCHANGED outcome
Work(u) == /\ Able(u) /\ begun' = begun \cup {u}
           /\ \E r \in {"output", "error", "continued", "waiting"} : Comes(u, r)
Answer(u) == /\ u \in begun /\ outcome[u] = "none" /\ UNCHANGED begun
             /\ \E r \in {"output", "error", "continued", "waiting"} : Comes(u, r)

\* Work is not done: another branch was taken, or a limit refused it.
Skip(u) == Open(u) /\ Comes(u, "skipped") /\ UNCHANGED begun
Refuse(u) == Able(u) /\ Comes(u, "error") /\ UNCHANGED begun

\* Nothing is at work when the run is over.
End == /\ \A u \in begun : outcome[u] # "none"
       /\ ended' = TRUE /\ UNCHANGED <<begun, outcome>>

PlanNext ==
  /\ ~ended /\ UNCHANGED waits
  /\ \/ End
     \/ /\ UNCHANGED ended
        /\ \E u \in Node : Begin(u) \/ Work(u) \/ Answer(u) \/ Skip(u) \/ Refuse(u)

PlanSpec == PlanInit /\ [][PlanNext]_planVars

=============================================================================
