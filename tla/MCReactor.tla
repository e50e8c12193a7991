------------------------------ MODULE MCReactor ------------------------------
(***************************************************************************)
(* Families of small workflows on which the reactor is model checked.      *)
(***************************************************************************)
EXTENDS MCWorkflows, FiniteSetsExt

\* Every graph of three nodes and every mix of kinds on them, beside a node on
\* its own.
KindsFamily ==
  { With(g, [n \in Node |-> IF n = 4 THEN "local" ELSE k[n]], AllJoins, [NoSets EXCEPT !.coe = c]) :
      g \in { h \in Graphs(3, {"plain", "error"}) : \A e \in h : e.dst # 4 },
      k \in [1 .. 3 -> {"module", "gate", "sub", "hard"}], c \in {{}, Node} }

\* A diamond 1 -> {2, 3} -> 4 with every pair of kinds on its two branches, and
\* skip conditions, or rate limits and continue_on_error, on some of its nodes.
Diamond == { Link(1, 2), Link(1, 3), Link(2, 4), Link(3, 4) }
DiamondFamily ==
  { With(Diamond, [n \in Node |-> IF n = 2 THEN k ELSE IF n = 3 THEN l ELSE "module"], AllJoins, s) :
      k \in Kind, l \in Kind,
      s \in { NoSets, [NoSets EXCEPT !.skip = {2, 4}],
              [NoSets EXCEPT !.limited = {1, 2, 3}, !.coe = {3}] } }

\* All-module graphs with every mix of edges: chains of every shape beside
\* single nodes, error branches, conditions and their cascades.
ShapesFamily ==
  { With(g, AllModules, AllJoins, [NoSets EXCEPT !.coe = c]) :
      g \in Graphs(4, {"plain", "error", "cond"}), c \in {{}, {4}} }

\* Resumed runs, from a set of results closed under ancestors.
ResumeFamily ==
  UNION { { With(g, AllModules, AllJoins, [NoSets EXCEPT !.seed = s]) :
            s \in { t \in SUBSET Node : t # {} /\ \A e \in g : e.dst \in t => e.src \in t } }
          : g \in Graphs(4, {"plain", "error"}) }

\* A fan-in of three modules in every join mode.
JoinsFamily ==
  { With({ Link(1, 4), Link(2, 4), Link(3, 4) }, JoinAt(4), Joining(4, j), [NoSets EXCEPT !.coe = c]) :
      j \in { All, Any, Majority, Exactly(2), Exactly(4) }, c \in SUBSET {1, 2} }

\* Parallel edges, edges that are both conditional and on error, and children
\* that a release does not start at once.
EdgePool == { Link(1, 2), [Fail(1, 2) EXCEPT !.key = 7], [Cond(1, 2) EXCEPT !.key = 8],
              [Fail(1, 3) EXCEPT !.cond = TRUE], [Link(1, 3) EXCEPT !.key = 9],
              Cond(2, 3), [Fail(2, 3) EXCEPT !.key = 30], Link(2, 4), Fail(1, 4) }
ParallelFamily ==
  { With(g, [AllModules EXCEPT ![3] = k], AllJoins, s) :
      g \in UNION { kSubset(k, EdgePool) : k \in 2 .. 4 }, k \in {"module", "handler"},
      s \in { NoSets, [NoSets EXCEPT !.coe = {1, 2}], [NoSets EXCEPT !.skip = {3}, !.limited = {2}] } }

\* For the invariants that hold of every workflow whose joins wait for all.
AllShapes == KindsFamily \cup ResumeFamily \cup ShapesFamily \cup ParallelFamily \cup DiamondFamily

\* A join of two or three in every mode with successors: behind it, beside it, and
\* a second join, that waits for it or takes the first.
EarlyFamily ==
  { With({ Link(1, 3), Link(2, 3) } \cup g, [n \in Node |-> IF n \in J THEN "fanin" ELSE "module"],
         [AllJoins EXCEPT ![3] = j, ![4] = k], [NoSets EXCEPT !.coe = c]) :
      g \in { { Link(3, 4) }, { Link(1, 4), Link(3, 4) }, { Link(1, 2), Link(3, 4) },
              { Link(1, 4), Link(2, 4) }, { Link(1, 2), Link(2, 4), Link(3, 4) } },
      J \in { {3}, {3, 4} }, j \in { Any, Majority, Exactly(2) }, k \in { All, Any }, c \in { {}, {2} } }

\* For the properties of joins, and of what is left when a run has ended.
KindsAndJoins == KindsFamily \cup DiamondFamily \cup JoinsFamily \cup EarlyFamily \cup ResumeFamily

=============================================================================
