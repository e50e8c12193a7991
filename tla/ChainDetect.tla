----------------------------- MODULE ChainDetect -----------------------------
(***************************************************************************)
(* detect_linear_chains: the node sequences that the scheduler batches     *)
(* into one pipeline dispatch.  The detector reads the topology only, not  *)
(* the edge types and not the conditions.                                  *)
(*                                                                         *)
(* An edge has at least src, dst and key, its place in the insertion       *)
(* order; neighbors_directed yields the edge added last first.             *)
(***************************************************************************)
EXTENDS Naturals, Sequences, FiniteSets, Functions

OutDegree(E, n) == Cardinality({ e \in E : e.src = n })
InDegree(E, n)  == Cardinality({ e \in E : e.dst = n })

\* neighbors_directed(n, Incoming).next(), and the same for Outgoing.
FirstParent(E, n) ==
  (CHOOSE e \in E : e.dst = n /\ \A f \in E : f.dst = n => f.key <= e.key).src
FirstChild(E, n) ==
  (CHOOSE e \in E : e.src = n /\ \A f \in E : f.src = n => f.key <= e.key).dst

\* Faulty variant of IsStart: the parent is not looked at.
IsStartAnywhere(E, n) == OutDegree(E, n) = 1

\* A start has one child, and no parent whose only child it is.
IsStart(E, n) ==
  /\ OutDegree(E, n) = 1
  /\ InDegree(E, n) = 0 \/ OutDegree(E, FirstParent(E, n)) # 1

\* Faulty variant of Continues: a fan-in does not stop the walk.
ContinuesThroughJoins(E, n) == OutDegree(E, n) = 1

\* The walk goes on from n: it has a single successor, which has a single parent.
Continues(E, n) == OutDegree(E, n) = 1 /\ InDegree(E, FirstChild(E, n)) = 1

\* The walk from a start: at most one step per node of an acyclic graph.
Walk(N, E, start) ==
  LET walk[k \in 0 .. Cardinality(N)] ==
        IF k = 0 THEN <<start>>
        ELSE LET c == walk[k - 1]
                 last == c[Len(c)]
             IN  IF Continues(E, last) THEN Append(c, FirstChild(E, last)) ELSE c
  IN  walk[Cardinality(N)]

\* No start lies on the walk from another (GraphLoad!ChainsAreDisjoint), so the
\* `visited' set of the code never skips one.
DetectLinearChains(N, E) ==
  { c \in { Walk(N, E, s) : s \in { n \in N : IsStart(E, n) } } : Len(c) >= 2 }

=============================================================================
