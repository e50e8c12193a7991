------------------------------ MODULE MCWorkflows ----------------------------
(***************************************************************************)
(* How the workflows that the reactor is checked on are put together.  The *)
(* nodes are numbered in a topological order.  Chains are the ones the     *)
(* detector finds, kept only when every member is a module.                *)
(***************************************************************************)
EXTENDS ReactorInv, ChainDetect

\* The pipeline chains of a fresh run; a resumed run has none.
PipelineChains(edges, kind, seed) ==
  IF seed # {} THEN {}
  ELSE { [head |-> c[1], tail |-> c[Len(c)], members |-> Range(c)] :
         c \in { d \in DetectLinearChains(Node, edges) : \A n \in Range(d) : kind[n] = "module" } }

All == [mode |-> "All", n |-> 0]
Any == [mode |-> "Any", n |-> 0]
Majority == [mode |-> "Majority", n |-> 0]
Exactly(k) == [mode |-> "N", n |-> k]

NoSets == [skip |-> {}, coe |-> {}, limited |-> {}, seed |-> {}]
With(edges, kind, join, sets) ==
  [edges |-> edges, kind |-> kind, join |-> join,
   skip |-> sets.skip, coe |-> sets.coe, limited |-> sets.limited, seed |-> sets.seed,
   chains |-> PipelineChains(edges, kind, sets.seed)]

\* Edges: plain, on error, conditional.
Link(m, n) == [src |-> m, dst |-> n, type |-> "default", cond |-> FALSE, key |-> 10 * m + n]
Fail(m, n) == [Link(m, n) EXCEPT !.type = "error"]
Cond(m, n) == [Link(m, n) EXCEPT !.cond = TRUE]

AllModules == [n \in Node |-> "module"]
AllJoins == [n \in Node |-> All]

\* A single fan-in among modules, and its join mode.
Joining(n, j) == [m \in Node |-> IF m = n THEN j ELSE All]
JoinAt(n) == [m \in Node |-> IF m = n THEN "fanin" ELSE "module"]

Pairs == { p \in Node \X Node : p[1] < p[2] }

\* Every graph with at most k edges of the given sorts.
Sorted(p, sort) == CASE sort = "plain" -> Link(p[1], p[2])
                     [] sort = "error" -> Fail(p[1], p[2])
                     [] sort = "cond"  -> Cond(p[1], p[2])
Graphs(k, sorts) ==
  UNION { { { Sorted(p, f[p]) : p \in ps } : f \in [ps -> sorts] }
          : ps \in { qs \in SUBSET Pairs : Cardinality(qs) <= k } }

=============================================================================
