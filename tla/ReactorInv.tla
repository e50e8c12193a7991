----------------------------- MODULE ReactorInv -----------------------------
(***************************************************************************)
(* The inductive invariant of the reactor, for a calm set of the nodes:    *)
(* one that no fan-in released early can reach.  What happens outside the  *)
(* set may start a node twice, or bring a counter below zero; inside it,   *)
(* the invariant ties the counters to the edges that have fired, and says  *)
(* where a node is between the moment its last edge fires and the moment   *)
(* its result is stored.                                                   *)
(***************************************************************************)
EXTENDS Reactor

\* No fan-in is released early; a seeded node has seeded parents.
Patient(w) ==
  /\ \A n \in Node : w.kind[n] = "fanin" => w.join[n].mode = "All"
  /\ \A e \in w.edges : e.dst \in w.seed => e.src \in w.seed

Waiting == Range(ready) \cup Range(keep)
Settled(n) == results[n] # "none"

\* An edge that its source has dealt with and that will never fire.
Dead(e) == Settled(e.src) /\ e \notin fired \cup todo \cup cascade

\* A pending count is the number of edges that have not fired.
CountsInv(N) ==
  \A n \in N \ (wf.seed \cup Interior(wf)) : pending[n] = Cardinality(In(wf, n) \ fired)

\* All edges into a released, started or seeded node have fired.
FiredInv(N) ==
  \A n \in N \ Interior(wf) :
    n \in Released \/ runs[n] > 0 \/ n \in wf.seed => In(wf, n) \subseteq fired

\* An edge is visited once, after its source has a result.
EdgesInv(N) ==
  \A e \in wf.edges : e.src \in N =>
    /\ e \in fired \cup todo \cup cascade => Settled(e.src)
    /\ e \in todo => e \notin fired /\ e \notin cascade /\ e.dst \notin Interior(wf)
    /\ e \in cascade => e \notin fired

\* The result a released node will be given is not there yet.
UnsettledInv(N) == \A n \in N : n \in Released => ~Settled(n) /\ ~Settled(Returned(n))

\* A node has its result only after all of its edges have fired, or because a
\* parent took another branch; inside a chain, only after the chain was started.
ExplainedInv(N) ==
  \A n \in N : Settled(n) =>
    IF n \in Interior(wf) THEN runs[n] = 1
    ELSE \/ In(wf, n) \subseteq fired
         \/ results[n] = "skipped" /\ \E e \in In(wf, n) : Dead(e)

\* A queue holds a node once, and a node is in one place.
Distinct(q, N) == \A i, j \in DOMAIN q : q[i] = q[j] /\ q[i] \in N => i = j
QueuesInv(N) ==
  /\ Distinct(ready, N) /\ Distinct(keep, N) /\ Distinct(batch, N)
  /\ \A n \in N : n \in Range(ready) => n \notin Range(keep)
  /\ \A n \in N : n \in Waiting => runs[n] = 0 /\ n # cur
  /\ \A n \in N : n \in Released => n \notin Interior(wf)

\* What is being worked on, and by whom.
WorkersInv(N) ==
  /\ pc = "inline" => cur \in Node
  /\ \A n \in N : n \in Range(batch) => runs[n] = 1 /\ wf.kind[n] = "sub"
  /\ \A n \in N : n = cur =>
       /\ ~InChain(wf, n)
       /\ wf.kind[n] \in {"module", "handler", "agent", "gate", "confidence", "hard"}
       /\ wf.kind[n] \in {"module", "handler"} => runs[n] = 0
  /\ \A n \in N : executing[n] <= 1
  /\ \A n \in N : n \in InFlight => runs[n] = 1 /\ wf.kind[n] \in {"module", "handler"}

\* The work of a chain is started in all of its members together.
ChainsInv(N) == \A c \in wf.chains : c.head \in N => \A n \in c.members : runs[n] = runs[c.head]

\* Work is started once, and never at a node that was skipped.
OnceInv(N) == \A n \in N : runs[n] <= 1
SkipInv(N) == \A n \in N : results[n] = "skipped" => runs[n] = 0

\* No counter underflows when every node is calm.
PanicInv(N) == N = Node => NeverUnderflows

\* The conjunction that keeps a node from being released twice, or early.
Inv(N) ==
  /\ CountsInv(N) /\ FiredInv(N) /\ EdgesInv(N) /\ UnsettledInv(N) /\ ExplainedInv(N)
  /\ QueuesInv(N) /\ WorkersInv(N) /\ ChainsInv(N)
  /\ OnceInv(N) /\ SkipInv(N) /\ PanicInv(N)
SafeInv == Inv(Steady(wf))

\* A sheltered join is released with its quorum; until it has that, its count is
\* the number of parents it has not heard from.
Joins == { n \in Node : wf.kind[n] = "fanin" /\ In(wf, n) # {} /\ Sheltered(wf, n) }
Met(n) == Cardinality(In(wf, n) \cap fired) >= Quorum(n)
QuorumInv ==
  \A n \in Joins : ~Met(n) => /\ n \notin Released /\ runs[n] = 0
                              /\ pending[n] = Cardinality(In(wf, n) \ fired)

-----------------------------------------------------------------------------
(* Routing: which edges a result lets through, and what is left at the end *)

\* Where the queues and the awaited node are known to be empty.
HandsInv ==
  /\ pc = "loop" => cur = NoNode /\ keep = <<>> /\ batch = <<>>
  /\ pc = "inline" => keep = <<>> /\ batch = <<>> /\ ~Routing
  /\ pc = "drain" => cur = NoNode
  /\ pc \in {"join", "store"} => cur = NoNode /\ keep = <<>>
  /\ pc = "done" => Released = {} /\ ~Routing
  /\ \A n \in Node : n = cur =>
       IF wf.kind[n] \in {"module", "handler"} THEN n \in wf.limited ELSE runs[n] = 1

\* A node that a condition may have skipped, and an edge out of one that was.
Conditioned(n) == \E f \in In(wf, n) : f.cond
Cascaded(e) == results[e.src] = "skipped" /\ Conditioned(e.src)

\* The loop over the edges of a module is the one for its result.
LoopInv ==
  /\ \A e \in todo : Plain(e.src) =>
       \/ results[e.src] = "output" /\ mode = "success"
       \/ results[e.src] = "error" /\ mode = "errored"
       \/ results[e.src] = "continued" /\ mode = "unblock"
  /\ \A e \in cascade : Cascaded(e)

\* What the result of a module says of each of its edges.
OutcomeInv ==
  /\ \A p \in Node : Plain(p) => results[p] \notin {"seed", "waiting"}
  /\ \A e \in fired : Plain(e.src) =>
       \/ results[e.src] = "output" /\ ~ErrorConnected(wf, e.src, e.dst)
       \/ results[e.src] = "error" /\ ErrorConnected(wf, e.src, e.dst)
       \/ results[e.src] = "continued"
       \/ Cascaded(e)
  /\ \A e \in wf.edges :
       Plain(e.src) /\ results[e.src] = "error" /\ ErrorConnected(wf, e.src, e.dst) => e \in todo \cup fired

\* The only edge into a node decides about it.
Sole(e) == In(wf, e.dst) = {e} /\ e.dst \notin Interior(wf) /\ Plain(e.src)
SoleInv ==
  \A e \in wf.edges : Sole(e) =>
    /\ e.dst \in Released \/ runs[e.dst] > 0 => results[e.src] # "skipped"
    /\ e \in fired /\ e.cond /\ results[e.src] = "output" => e \in judged
    /\ e.type = "error" /\ results[e.src] = "error" /\ Unguarded(e.dst) /\ Settled(e.dst) => runs[e.dst] > 0

\* When all edges into a node have fired it is released, has run or has a result,
\* unless the last of them was fired by a cascade.
ReleasedInv ==
  \A n \in Node \ (wf.seed \cup Interior(wf)) :
    In(wf, n) \subseteq fired =>
      n \in Released \/ runs[n] > 0 \/ Settled(n) \/ \E e \in In(wf, n) : Cascaded(e)

\* The work of a unit is in somebody's hands until its result is stored, or the run
\* has ended early.
HeldInv ==
  \A n \in Node \ Interior(wf) :
    runs[n] > 0 => n \in Released \/ Settled(Returned(n)) \/ pc \in Terminal \ {"done"}

RouteInv == HandsInv /\ LoopInv /\ OutcomeInv /\ SoleInv /\ ReleasedInv /\ HeldInv

\* The whole; the routing, under the condition on the workflow.
SchedulerInv == SafeInv /\ QuorumInv /\ (Patient(wf) => RouteInv)

-----------------------------------------------------------------------------
(* The run as RunPlan sees it *)

\* A single node, or a chain by its head; its outcome is what its dispatch returns,
\* or the mark that a loop leaves at the node or the head.
Units == Node \ Interior(wf)
UnitWaits == [u \in Units |-> { v \in Units : \E e \in In(wf, u) : e.src = Returned(v) }]
UnitsBegun == { u \in Units : runs[u] > 0 }
UnitOutcome == [u \in Units |-> IF results[u] = "skipped" THEN "skipped" ELSE results[Returned(u)]]

Plan == INSTANCE RunPlan WITH
  waits <- UnitWaits, begun <- UnitsBegun, outcome <- UnitOutcome, ended <- pc = "done"

\* The scheduler implements RunPlan where all joins wait: work starts with its
\* inputs there, an outcome comes once and only for what was started, refused or
\* skipped, and run_scheduler_loop returns with nothing in flight.
FollowsPlan == Plan!PlanSpec

\* No node behind a condition has a successor: no skip cascades.
Uncascaded(w) == \A e \in w.edges : e.cond => Out(w, e.dst) = {}

=============================================================================
