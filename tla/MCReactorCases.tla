---------------------------- MODULE MCReactorCases ----------------------------
(***************************************************************************)
(* Workflows on which the code and what is said of it part.                *)
(***************************************************************************)
EXTENDS MCWorkflows

\* A node behind a condition, with a successor.
CascadeCase == { With({ Cond(1, 2), Link(1, 4), Link(2, 3) },
                      [AllModules EXCEPT ![3] = "local"], AllJoins, NoSets) }

\* A join of two that takes the first, and a successor.
AnyJoinCase == { With({ Link(1, 3), Link(2, 3), Link(3, 4) }, JoinAt(3), Joining(3, Any), NoSets) }

\* Two modules joined by nothing but an error edge.
ErrorChainCase == { With({ Fail(1, 2) }, AllModules, AllJoins, NoSets) }

=============================================================================
