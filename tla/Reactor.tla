------------------------------- MODULE Reactor -------------------------------
(***************************************************************************)
(* The scheduler of the workflow engine: run_scheduler_loop of             *)
(* ParallelWorkflowEngine, with the completion handlers it calls           *)
(* (handle_node_success, handle_node_failure, unblock_successors,          *)
(* apply_fan_in_early_ready).  One task owns all of the state; it is       *)
(* concurrent with the futures in `executing', which finish in any order,  *)
(* and with the cancellation token and the wall-clock timeout that may     *)
(* drop it at an await.                                                    *)
(*                                                                         *)
(* A loop over the edges of a finished node is one step per edge, in any   *)
(* order: petgraph yields the edges in the order the workflow's author     *)
(* added them, which nothing constrains.                                   *)
(***************************************************************************)
EXTENDS Naturals, Sequences, FiniteSets, Functions

CONSTANTS
  Node,            \* the nodes of the workflow graph
  Workflow,        \* the workflows a run may be started with
  UsizeMod,        \* 2^w for the usize that counts pending parents
  OverflowChecks,  \* TRUE: debug build, arithmetic overflow panics
  NoNode           \* not a node

-----------------------------------------------------------------------------
(* Workflows *)

\* How a node looks to the reactor.  Several SystemNodeKinds share a shape.
Kind == { "module",     \* dispatched as a future
          "handler",    \* ErrorHandler: pattern filter, then a module
          "fanin",      \* FanIn: local, with a join mode
          "local",      \* Collect, Synthesize, WhileLoop, RepeatLoop
          "check",      \* Verify, InlineJudge: synchronous, may reject
          "agent",      \* AgentLoop: awaited in line, stores what it gets
          "gate",       \* Judge, Ensemble, ReflectiveRetry, LlmDispatch,
                        \* DynamicDispatch: awaited in line, may reject
          "confidence", \* ConfidenceGate: a gate that may also pause the run
          "hard",       \* CapabilityDispatch, Loop: error ends the run
          "wait",       \* Wait: pauses the run
          "sub" }       \* SubWorkflow: dispatched in batches

JoinMode == [mode : {"All", "Any", "Majority"}, n : {0}] \cup [mode : {"N"}, n : Nat]

\* key: the position of the edge in the insertion order of the graph.
Edge == [src : Node, dst : Node, type : {"default", "error"}, cond : BOOLEAN, key : Nat]

Chain == [head : Node, tail : Node, members : SUBSET Node]

In(w, n)  == { e \in w.edges : e.dst = n }
Out(w, n) == { e \in w.edges : e.src = n }
Connecting(w, m, n) == { e \in w.edges : e.src = m /\ e.dst = n }

\* The members of a chain that the scheduler never releases on their own.
Interior(w) == { n \in Node : \E c \in w.chains : n \in c.members /\ n # c.head }
InChain(w, n) == \E c \in w.chains : n \in c.members

\* What detect_linear_chains and the module-only filter guarantee of a chain.
ChainOK(w, c) ==
  /\ c.head \in c.members /\ c.tail \in c.members /\ c.head # c.tail
  /\ \A n \in c.members : w.kind[n] = "module"
  /\ \A n \in c.members \ {c.head} : In(w, n) # {}
  /\ \A e \in w.edges : e.dst \in c.members \ {c.head} => e.src \in c.members \ {c.tail}
  /\ \A e \in w.edges : e.src \in c.members \ {c.tail} =>
       e.dst \in c.members \ {c.head} /\ \A f \in w.edges : f.src = e.src => f = e
  /\ \A d \in w.chains : d # c => d.members \cap c.members = {}

\* petgraph::algo::is_cyclic_directed is FALSE: the graph has a topological rank.
Acyclic(w) ==
  \E rank \in [Node -> 0 .. Cardinality(Node)] : \A e \in w.edges : rank[e.src] < rank[e.dst]

\* A workflow that precheck_runnable lets through.
WellFormed(w) ==
  /\ w.edges \subseteq Edge
  /\ IsFiniteSet(w.edges)
  /\ Cardinality(w.edges) < UsizeMod
  /\ w.kind \in [Node -> Kind]
  /\ w.join \in [Node -> JoinMode]
  /\ w.skip \subseteq Node     \* nodes with a __skip_condition
  /\ w.coe \subseteq Node      \* nodes with __continue_on_error
  /\ w.limited \subseteq Node  \* nodes with a rate limit
  /\ w.seed \subseteq Node     \* nodes with a result in initial_results
  /\ w.chains \subseteq Chain
  /\ w.seed # {} => w.chains = {}
  /\ \A c \in w.chains : ChainOK(w, c)
  /\ Acyclic(w)

ASSUME ReactorAssumption ==
  /\ UsizeMod \in Nat \ {0}
  /\ OverflowChecks \in BOOLEAN
  /\ IsFiniteSet(Node) /\ NoNode \notin Node
  /\ \A w \in Workflow : WellFormed(w)

-----------------------------------------------------------------------------
(* State *)

VARIABLES
  wf,         \* the workflow being run; chosen once
  pc,         \* where the scheduler task is, or how the run ended
  ready,      \* queue of released nodes
  keep,       \* the queue a sub-workflow drain puts the other nodes in
  batch,      \* the sub-workflow nodes of the batch being dispatched
  cur,        \* the node whose in-line handler is being awaited
  executing,  \* futures in flight, by the node they were dispatched for
  pending,    \* in-degree counters
  results,    \* what the results map holds for each node
  mode,       \* which completion loop is running over todo
  todo,       \* edges that loop has still to visit
  truthy,     \* the conditional edges true of the output being routed
  cascade,    \* edges the cascade-skip loop has still to visit
  fired,      \* history: edges that have released their share of a child
  runs,       \* history: how often a node's own work was started
  judged      \* history: conditional edges whose condition was evaluated

routingVars == <<mode, todo, truthy, cascade>>
history == <<fired, runs, judged>>
vars == <<wf, pc, ready, keep, batch, cur, executing, pending, results,
          mode, todo, truthy, cascade, fired, runs, judged>>

Terminal == {"done", "failed", "paused", "cancelled", "timeout", "panicked"}
Location == {"loop", "inline", "drain", "join", "store"} \cup Terminal
Result == {"none", "seed", "output", "error", "continued", "skipped", "waiting"}

TypeOK ==
  /\ pc \in Location
  /\ ready \in Seq(Node) /\ keep \in Seq(Node) /\ batch \in Seq(Node)
  /\ cur \in Node \cup {NoNode}
  /\ executing \in [Node -> Nat]
  /\ pending \in [Node -> 0 .. UsizeMod - 1]
  /\ results \in [Node -> Result]
  /\ mode \in {"unblock", "success", "errored"}
  /\ todo \subseteq wf.edges /\ truthy \subseteq wf.edges /\ cascade \subseteq wf.edges
  /\ fired \subseteq wf.edges
  /\ runs \in [Node -> Nat]
  /\ judged \subseteq wf.edges

Routing == todo \cup cascade # {}

\* The chain future answers with its tail; any other with its own node.
Returned(n) ==
  IF \E c \in wf.chains : c.head = n
  THEN (CHOOSE c \in wf.chains : c.head = n).tail ELSE n
ChainMembers(n) == UNION { c.members : c \in { d \in wf.chains : n \in d.members } }

-----------------------------------------------------------------------------
(* Counters: usize arithmetic *)

\* Faulty variant of SatDec: the count is not tested before it is decremented.
SatDecUntested(c) == c - 1
SatDec(c)  == IF c > 0 THEN c - 1 ELSE 0
WrapDec(c) == IF c > 0 THEN c - 1 ELSE UsizeMod - 1
WrapSub(a, b) == IF a >= b THEN a - b ELSE (a + UsizeMod) - b

\* Faulty variant of EarlyReady: half of the parents make a majority.
EarlyReadyAtHalf(n, cnt) ==
  LET total == Cardinality(In(wf, n))
  IN  IF wf.kind[n] = "fanin" /\ cnt > 0 /\ WrapSub(total, cnt) >= total \div 2 THEN 0 ELSE cnt

\* apply_fan_in_early_ready: the count of child n once it is down to cnt.
EarlyReady(n, cnt) ==
  LET total == Cardinality(In(wf, n))
      completed == WrapSub(total, cnt)
      join == wf.join[n]
      enough == \/ join.mode = "Any"
                \/ join.mode = "Majority" /\ completed > total \div 2
                \/ join.mode = "N" /\ completed >= join.n
  IN  IF wf.kind[n] = "fanin" /\ cnt > 0 /\ enough THEN 0 ELSE cnt

-----------------------------------------------------------------------------
(* Start of a run: in-degrees, seeds, initial ready queue *)

\* Faulty variants of InitialPending: seeds are not propagated to the counts;
\* one seeded parent clears the whole count.
InitialPendingUnseeded(w) == [n \in Node |-> Cardinality(In(w, n))]
InitialPendingCleared(w) ==
  [n \in Node |-> IF n \in w.seed \/ \E e \in In(w, n) : e.src \in w.seed THEN 0
                  ELSE Cardinality(In(w, n))]

\* In-degree less the edges that come from a seeded node; a seeded node has 0.
InitialPending(w) ==
  [n \in Node |-> IF n \in w.seed THEN 0
                  ELSE Cardinality({ e \in In(w, n) : e.src \notin w.seed })]

\* The queue first holds each unseeded node with nothing pending, once; the
\* numbering of the nodes that orders it is the workflow author's.
Roots(w) == { n \in Node \ w.seed : InitialPending(w)[n] = 0 }

Init ==
  /\ wf \in Workflow
  /\ pc = "loop"
  /\ ready \in Injection(1 .. Cardinality(Roots(wf)), Roots(wf))
  /\ keep = <<>> /\ batch = <<>> /\ cur = NoNode
  /\ executing = [n \in Node |-> 0]
  /\ pending = InitialPending(wf)
  /\ results = [n \in Node |-> IF n \in wf.seed THEN "seed" ELSE "none"]
  /\ mode = "unblock" /\ todo = {} /\ truthy = {} /\ cascade = {}
  /\ fired = { e \in wf.edges : e.src \in wf.seed }
  /\ runs = [n \in Node |-> 0] /\ judged = {}

-----------------------------------------------------------------------------
(* Completion: what is stored, and which loop then visits the edges *)

\* results.insert, then unblock_successors over the edges of n.
StoreAndUnblock(n, r) ==
  /\ results' = [results EXCEPT ![n] = r]
  /\ mode' = "unblock" /\ todo' = Out(wf, n) /\ truthy' = {} /\ cascade' = {}
  /\ UNCHANGED pending

\* Faulty variant of ClearChain: the successors of the chain are cleared too.
ClearChainAndChildren(n) ==
  pending' = [m \in Node |->
                IF \E k \in ChainMembers(n) : m = k \/ Connecting(wf, k, m) # {} THEN 0 ELSE pending[m]]

\* The pending counts of a finished chain are cleared.
ClearChain(n) ==
  pending' = [m \in Node |-> IF m \in ChainMembers(n) THEN 0 ELSE pending[m]]

\* handle_node_success up to its loop; `holds' are the conditions true of the output.
Success(n, holds) ==
  /\ results' = [results EXCEPT ![n] = "output"]
  /\ ClearChain(n)
  /\ mode' = "success" /\ todo' = Out(wf, n) /\ truthy' = holds /\ cascade' = {}

\* find_edge answers with the edge added last among parallel ones.
FoundEdge(w, m, n) ==
  CHOOSE e \in Connecting(w, m, n) : \A f \in Connecting(w, m, n) : f.key <= e.key
HasErrorChild(w, n) == \E e \in Out(w, n) : FoundEdge(w, n, e.dst).type = "error"

\* handle_node_failure: error edges first, then continue_on_error, else the run ends.
Failure(n, next) ==
  \/ /\ HasErrorChild(wf, n)
     /\ results' = [results EXCEPT ![n] = "error"]
     /\ ClearChain(n)
     /\ mode' = "errored" /\ todo' = Out(wf, n) /\ truthy' = {} /\ cascade' = {}
     /\ pc' = next
  \/ /\ ~HasErrorChild(wf, n) /\ n \in wf.coe
     /\ StoreAndUnblock(n, "continued")
     /\ pc' = next
  \/ /\ ~HasErrorChild(wf, n) /\ n \notin wf.coe
     /\ pc' = "failed"
     /\ UNCHANGED <<results, pending, routingVars>>

\* How a handler that runs inside the reactor may end, by kind.
Outcomes(k) ==
  CASE k \in {"fanin", "local", "agent"} -> {"ok"}
    [] k \in {"check", "gate"}           -> {"ok", "reject"}
    [] k = "confidence"                  -> {"ok", "reject", "pause"}
    [] k = "hard"                        -> {"ok", "abort"}
    [] k = "wait"                        -> {"pause"}
    [] OTHER                             -> {}

\* What the reactor does with that outcome.
Settle(n, o) ==
  \/ /\ o = "ok" /\ StoreAndUnblock(n, "output") /\ pc' = "loop"
  \/ /\ o = "reject" /\ Failure(n, "loop")
  \/ /\ o = "pause"
     /\ results' = [results EXCEPT ![n] = "waiting"] /\ pc' = "paused"
     /\ UNCHANGED <<pending, routingVars>>
  \/ /\ o = "abort" /\ n \in wf.coe /\ StoreAndUnblock(n, "output") /\ pc' = "loop"
  \/ /\ o = "abort" /\ n \notin wf.coe /\ pc' = "failed"
     /\ UNCHANGED <<results, pending, routingVars>>

-----------------------------------------------------------------------------
(* The inner loop: ready.pop_front() and the handler of the node *)

Popped(n) ==
  /\ pc = "loop" /\ ~Routing
  /\ ready # <<>> /\ n = Head(ready)

Started(S) == runs' = [n \in Node |-> IF n \in S THEN runs[n] + 1 ELSE runs[n]]
Launch(n) == executing' = [executing EXCEPT ![n] = @ + 1]

\* A chain is dispatched from its head; a released interior is dropped.
PopChain ==
  \E n \in Node :
    /\ Popped(n) /\ InChain(wf, n)
    /\ ready' = Tail(ready)
    /\ IF n \in Interior(wf) THEN UNCHANGED <<executing, runs>>
       ELSE Launch(n) /\ Started(ChainMembers(n))
    /\ UNCHANGED <<wf, pc, keep, batch, cur, pending, results, routingVars, fired, judged>>

\* The skip condition is true, or an ErrorHandler's pattern does not match.
PopSkip ==
  \E n \in Node :
    /\ Popped(n) /\ ~InChain(wf, n)
    /\ n \in wf.skip \/ wf.kind[n] = "handler"
    /\ ready' = Tail(ready)
    /\ StoreAndUnblock(n, "skipped")
    /\ UNCHANGED <<wf, pc, keep, batch, cur, executing, history>>

\* A handler with no await in it.
PopSync ==
  \E n \in Node :
    /\ Popped(n)
    /\ wf.kind[n] \in {"fanin", "local", "check", "wait"}
    /\ ready' = Tail(ready)
    /\ \E o \in Outcomes(wf.kind[n]) : Settle(n, o)
    /\ Started({n})
    /\ UNCHANGED <<wf, keep, batch, cur, executing, fired, judged>>

\* A handler awaited in line: the reactor serves nothing else meanwhile.
PopInline ==
  \E n \in Node :
    /\ Popped(n)
    /\ wf.kind[n] \in {"agent", "gate", "confidence", "hard"}
    /\ ready' = Tail(ready) /\ cur' = n /\ pc' = "inline"
    /\ Started({n})
    /\ UNCHANGED <<wf, keep, batch, executing, pending, results, routingVars, fired, judged>>

InlineReturns ==
  /\ pc = "inline"
  /\ \E o \in Outcomes(wf.kind[cur]) : Settle(cur, o)
  /\ cur' = NoNode
  /\ UNCHANGED <<wf, ready, keep, batch, executing, history>>

\* A module with no rate limit becomes a future at once.
PopModule ==
  \E n \in Node :
    /\ Popped(n) /\ ~InChain(wf, n)
    /\ wf.kind[n] \in {"module", "handler"} /\ n \notin wf.limited
    /\ ready' = Tail(ready)
    /\ Launch(n) /\ Started({n})
    /\ UNCHANGED <<wf, pc, keep, batch, cur, pending, results, routingVars, fired, judged>>

\* check_rate_limit is awaited: the node is dispatched, or gets an error envelope.
PopLimited ==
  \E n \in Node :
    /\ Popped(n) /\ ~InChain(wf, n)
    /\ wf.kind[n] \in {"module", "handler"} /\ n \in wf.limited
    /\ ready' = Tail(ready) /\ cur' = n /\ pc' = "inline"
    /\ UNCHANGED <<wf, keep, batch, executing, pending, results, routingVars, fired, runs, judged>>

RateLimitAllows ==
  /\ pc = "inline" /\ wf.kind[cur] \in {"module", "handler"}
  /\ Launch(cur) /\ Started({cur})
  /\ cur' = NoNode /\ pc' = "loop"
  /\ UNCHANGED <<wf, ready, keep, batch, pending, results, routingVars, fired, judged>>

RateLimitRefuses ==
  /\ pc = "inline" /\ wf.kind[cur] \in {"module", "handler"}
  /\ StoreAndUnblock(cur, "error")
  /\ cur' = NoNode /\ pc' = "loop"
  /\ UNCHANGED <<wf, ready, keep, batch, executing, history>>

-----------------------------------------------------------------------------
(* Sub-workflows: drain the ready queue, join_all, store in turn *)

PopSub ==
  \E n \in Node :
    /\ Popped(n) /\ wf.kind[n] = "sub"
    /\ ready' = Tail(ready) /\ batch' = <<n>> /\ pc' = "drain"
    /\ Started({n})
    /\ UNCHANGED <<wf, keep, cur, executing, pending, results, routingVars, fired, judged>>

\* Faulty variant of Drain: the other nodes go back to the queue being drained.
DrainRotates ==
  /\ pc = "drain" /\ ready # <<>>
  /\ IF wf.kind[Head(ready)] = "sub"
     THEN ready' = Tail(ready) /\ batch' = Append(batch, Head(ready)) /\ Started({Head(ready)})
     ELSE ready' = Append(Tail(ready), Head(ready)) /\ UNCHANGED <<batch, runs>>
  /\ UNCHANGED <<wf, pc, keep, cur, executing, pending, results, routingVars, fired, judged>>

\* Neither the skip condition nor anything else is looked at while draining.
Drain ==
  /\ pc = "drain" /\ ready # <<>>
  /\ ready' = Tail(ready)
  /\ IF wf.kind[Head(ready)] = "sub"
     THEN batch' = Append(batch, Head(ready)) /\ Started({Head(ready)}) /\ UNCHANGED keep
     ELSE keep' = Append(keep, Head(ready)) /\ UNCHANGED <<batch, runs>>
  /\ UNCHANGED <<wf, pc, cur, executing, pending, results, routingVars, fired, judged>>

\* Faulty variant of DrainDone: what was kept does not come back.
DrainDoneForgets ==
  /\ pc = "drain" /\ ready = <<>>
  /\ keep' = <<>> /\ pc' = "join"
  /\ UNCHANGED <<wf, ready, batch, cur, executing, pending, results, routingVars, history>>

\* The queue is what was kept, and the batch is dispatched.
DrainDone ==
  /\ pc = "drain" /\ ready = <<>>
  /\ ready' = keep /\ keep' = <<>> /\ pc' = "join"
  /\ UNCHANGED <<wf, batch, cur, executing, pending, results, routingVars, history>>

\* Every sub-workflow of the batch has answered.
JoinReturns ==
  /\ pc = "join" /\ pc' = "store"
  /\ UNCHANGED <<wf, ready, keep, batch, cur, executing, pending, results, routingVars, history>>

\* An error envelope of a sub-workflow is stored like any output.
StoreNext ==
  /\ pc = "store" /\ ~Routing /\ batch # <<>>
  /\ StoreAndUnblock(Head(batch), "output")
  /\ batch' = Tail(batch)
  /\ pc' = IF Len(batch) = 1 THEN "loop" ELSE "store"
  /\ UNCHANGED <<wf, ready, keep, cur, executing, history>>

-----------------------------------------------------------------------------
(* The completion loops: one step per edge *)

\* Faulty variant of Release: off by one.
ReleaseEager(n, cnt) == ready' = IF cnt <= 1 THEN Append(ready, n) ELSE ready
Release(n, cnt) == ready' = IF cnt = 0 THEN Append(ready, n) ELSE ready
Visit(e) == todo' = todo \ {e}

\* unblock_successors, and the continue_on_error loop of handle_node_failure.
RouteUnblock ==
  \E e \in todo :
    LET n == e.dst
        cnt == SatDec(pending[n])
    IN  /\ mode = "unblock"
        /\ pending' = [pending EXCEPT ![n] = cnt]
        /\ Release(n, cnt)
        /\ Visit(e) /\ fired' = fired \cup {e}
        /\ UNCHANGED <<wf, pc, keep, batch, cur, executing, results, mode, truthy, cascade, runs, judged>>

\* Faulty variant of ErrorConnected: edge types are not looked at.
ErrorConnectedNever(w, m, n) == FALSE
ErrorConnected(w, m, n) == \E e \in Connecting(w, m, n) : e.type = "error"

\* Faulty variant of RouteDead: the child is marked, and then counted all the same.
RouteDeadCounts ==
  \E e \in todo :
    /\ cascade = {}
    /\ \/ mode = "success" /\ ErrorConnected(wf, e.src, e.dst)
       \/ mode = "errored" /\ ~ErrorConnected(wf, e.src, e.dst)
    /\ results' = [results EXCEPT ![e.dst] = "skipped"]
    /\ pending' = [pending EXCEPT ![e.dst] = SatDec(@)]
    /\ Release(e.dst, SatDec(pending[e.dst]))
    /\ Visit(e) /\ fired' = fired \cup {e}
    /\ UNCHANGED <<wf, pc, keep, batch, cur, executing, mode, truthy, cascade, runs, judged>>

\* The child is on the branch the outcome did not take: mark it, leave its count.
RouteDead ==
  \E e \in todo :
    /\ cascade = {}
    /\ \/ mode = "success" /\ ErrorConnected(wf, e.src, e.dst)
       \/ mode = "errored" /\ ~ErrorConnected(wf, e.src, e.dst)
    /\ results' = [results EXCEPT ![e.dst] = "skipped"]
    /\ Visit(e)
    /\ UNCHANGED <<wf, pc, ready, keep, batch, cur, executing, pending, mode, truthy, cascade, history>>

\* The conditions on the edges from the finished node to this child.
Conditional(e) == { f \in Connecting(wf, e.src, e.dst) : f.cond }
ConditionsHold(e) == Conditional(e) \subseteq truthy

\* handle_node_success for a child that is not on an error edge: `*cnt -= 1'.
RouteSuccess ==
  \E e \in todo :
    LET n == e.dst
        cnt == EarlyReady(n, WrapDec(pending[n]))
    IN  /\ mode = "success" /\ cascade = {} /\ ~ErrorConnected(wf, e.src, n)
        /\ ~(OverflowChecks /\ pending[n] = 0)
        /\ pending' = [pending EXCEPT ![n] = cnt]
        /\ Visit(e) /\ fired' = fired \cup {e}
        /\ judged' = IF cnt = 0 THEN judged \cup Conditional(e) ELSE judged
        /\ IF cnt # 0 \/ ConditionsHold(e)
           THEN Release(n, cnt) /\ UNCHANGED <<results, cascade>>
           ELSE /\ results' = [results EXCEPT ![n] = "skipped"]
                /\ cascade' = Out(wf, n)
                /\ UNCHANGED ready
        /\ UNCHANGED <<wf, pc, keep, batch, cur, executing, mode, truthy, runs>>

\* The same subtraction in a build with overflow checks.
RoutePanics ==
  /\ \E e \in todo :
       /\ mode = "success" /\ cascade = {} /\ ~ErrorConnected(wf, e.src, e.dst)
       /\ OverflowChecks /\ pending[e.dst] = 0
  /\ pc' = "panicked"
  /\ todo' = {} /\ UNCHANGED <<wf, ready, keep, batch, cur, executing, pending, results, mode, truthy, cascade, history>>

\* Cascade skip: the grandchildren's counts go down, and nothing is pushed.
RouteCascade ==
  \E e \in cascade :
    /\ pending' = [pending EXCEPT ![e.dst] = SatDec(@)]
    /\ cascade' = cascade \ {e} /\ fired' = fired \cup {e}
    /\ UNCHANGED <<wf, pc, ready, keep, batch, cur, executing, results, mode, todo, truthy, runs, judged>>

\* handle_node_failure for an error-edge child.
RouteErrored ==
  \E e \in todo :
    LET n == e.dst
        cnt == EarlyReady(n, SatDec(pending[n]))
    IN  /\ mode = "errored" /\ ErrorConnected(wf, e.src, n)
        /\ pending' = [pending EXCEPT ![n] = cnt]
        /\ Release(n, cnt)
        /\ Visit(e) /\ fired' = fired \cup {e}
        /\ UNCHANGED <<wf, pc, keep, batch, cur, executing, results, mode, truthy, cascade, runs, judged>>

-----------------------------------------------------------------------------
(* Awaiting the futures; the ends of a run *)

Quiet == pc = "loop" /\ ~Routing /\ ready = <<>>
InFlight == { n \in Node : executing[n] > 0 }

CompleteOk ==
  \E n \in InFlight :
    /\ Quiet
    /\ executing' = [executing EXCEPT ![n] = @ - 1]
    /\ \E holds \in SUBSET { e \in Out(wf, Returned(n)) : e.cond } : Success(Returned(n), holds)
    /\ UNCHANGED <<wf, pc, ready, keep, batch, cur, history>>

CompleteErr ==
  \E n \in InFlight :
    /\ Quiet
    /\ executing' = [executing EXCEPT ![n] = @ - 1]
    /\ Failure(Returned(n), "loop")
    /\ UNCHANGED <<wf, ready, keep, batch, cur, history>>

\* Faulty variant of Finish: the futures in flight are not waited for.
FinishBusy ==
  /\ Quiet
  /\ pc' = "done"
  /\ UNCHANGED <<wf, ready, keep, batch, cur, executing, pending, results, routingVars, history>>

Finish ==
  /\ Quiet /\ InFlight = {}
  /\ pc' = "done"
  /\ UNCHANGED <<wf, ready, keep, batch, cur, executing, pending, results, routingVars, history>>

\* The select in run_with_workflow_timeout drops the scheduler at an await.  (An
\* await of the event sink inside a handler is not told apart from the one before it.)
Interrupt ==
  /\ \/ Quiet /\ InFlight # {}
     \/ pc \in {"inline", "join"}
  /\ pc' \in {"cancelled", "timeout"}
  /\ UNCHANGED <<wf, ready, keep, batch, cur, executing, pending, results, routingVars, history>>

Progress ==
  \/ PopChain \/ PopSkip \/ PopSync \/ PopInline \/ InlineReturns
  \/ PopModule \/ PopLimited \/ RateLimitAllows \/ RateLimitRefuses
  \/ PopSub \/ Drain \/ DrainDone \/ JoinReturns \/ StoreNext
  \/ RouteUnblock \/ RouteDead \/ RouteSuccess \/ RoutePanics \/ RouteCascade \/ RouteErrored
  \/ CompleteOk \/ CompleteErr \/ Finish

\* A run that has ended stays as it ended.
Ended == pc \in Terminal /\ UNCHANGED vars

Next == Progress \/ Interrupt \/ Ended

Spec == Init /\ [][Next]_vars

\* The task is polled, and every dispatch has a timeout: it finishes.
FairSpec == Spec /\ WF_vars(Progress)

-----------------------------------------------------------------------------
(* Properties *)

\* Where a released node can be before its result is stored.
Released == Range(ready) \cup Range(keep) \cup Range(batch) \cup InFlight
              \cup { n \in Node : n = cur }

\* The work of a node is started at most once in a run: no interleaving of
\* completions pushes a node onto `ready' a second time.
AtMostOnce == \A n \in Node : runs[n] <= 1

\* A node is released only when every parent has its entry in the results map,
\* which is where gather_inputs looks for its inputs.
DependencyOrder ==
  \A n \in Node \ Interior(wf) :
    n \in Released \/ runs[n] > 0 => \A e \in In(wf, n) : results[e.src] # "none"

\* When the loop ends, a node all of whose edges have fired has run, or its
\* result says why it did not: no decrement to zero went unnoticed.
NoLostNode ==
  pc = "done" =>
    \A n \in Node \ (wf.seed \cup Interior(wf)) :
      In(wf, n) \subseteq fired => runs[n] > 0 \/ results[n] # "none"

\* `*cnt -= 1' in handle_node_success never finds a zero, so a build with
\* overflow checks does not panic there.
NeverUnderflows == pc # "panicked"

\* A module either succeeds or fails, so a node on one of its error edges and
\* a node on one of its other edges never both run.  (When the module itself was
\* skipped, or its failure continued, all of its edges count.)
Plain(p) == wf.kind[p] = "module" /\ p \notin wf.limited \cup wf.skip \cup wf.seed
BranchExclusive ==
  \A p \in Node : Plain(p) /\ results[p] \notin {"skipped", "continued"} =>
    \A e, f \in Out(wf, p) :
      e.type = "error" /\ (\A g \in Connecting(wf, p, f.dst) : g.type # "error")
        => ~(runs[e.dst] > 0 /\ runs[f.dst] > 0)

\* A node marked __skipped is not executed, before or after the mark.
SkippedNeverRuns == \A n \in Node : results[n] = "skipped" => runs[n] = 0

\* The number of parents a join waits for (JoinMode).
Quorum(n) ==
  LET total == Cardinality(In(wf, n))
  IN  CASE wf.join[n].mode = "Any"      -> 1
        [] wf.join[n].mode = "Majority" -> total \div 2 + 1
        [] wf.join[n].mode = "N"        -> IF wf.join[n].n > total THEN total ELSE wf.join[n].n
        [] OTHER                        -> total

\* A set of nodes that no fan-in released early can reach: it holds the parents of
\* its nodes and whole chains, and where a seeded node is in it, its parents are seeded.
Calm(w, N) ==
  /\ N \subseteq Node
  /\ \A n \in N : w.kind[n] = "fanin" => w.join[n].mode = "All"
  /\ \A e \in w.edges : e.dst \in N => e.src \in N
  /\ \A e \in w.edges : e.dst \in N /\ e.dst \in w.seed => e.src \in w.seed
  /\ \A c \in w.chains : c.members \cap N # {} => c.members \subseteq N
Steady(w) == IF Calm(w, Node) THEN Node ELSE UNION { N \in SUBSET Node : Calm(w, N) }

\* A fan-in none of whose parents can be started twice, or lost to a partial resume.
Sheltered(w, n) ==
  \A e \in In(w, n) : e.src \in Steady(w) /\ (n \in w.seed => e.src \in w.seed)

\* A fan-in does not run before its quorum of parents has released it, where no
\* join that is released early comes before it: such a join may run twice, and its
\* edges then count twice.
JoinQuorum ==
  \A n \in Node : wf.kind[n] = "fanin" /\ In(wf, n) # {} /\ Sheltered(wf, n) /\ runs[n] > 0
                   => Cardinality(In(wf, n) \cap fired) >= Quorum(n)

\* A run ends: the reactor never waits for a count that will not change.
Termination == <>(pc \in Terminal)

\* Nodes that a release always starts: no skip condition, pattern or rate limit.
Unguarded(n) == wf.kind[n] # "handler" /\ n \notin wf.skip \cup wf.limited

\* A node outside a chain with one incoming edge, from a module, obeys it: it runs
\* behind a condition only after the condition was evaluated or its parent failed,
\* behind an error edge only after its parent failed, and when the run is done a
\* failed parent's handler has run.  (A join evaluates the conditions of its last
\* parent only, a handler with two parents is marked skipped by the first that
\* succeeds, and the edges of a system node and of a parent in the seed count
\* whatever they are.)
EdgesObeyed ==
  \A e \in wf.edges : In(wf, e.dst) = {e} /\ ~InChain(wf, e.dst) /\ Plain(e.src) =>
    /\ runs[e.dst] > 0 /\ e.cond => e \in judged \/ results[e.src] \in {"error", "continued"}
    /\ runs[e.dst] > 0 /\ e.type = "error" => results[e.src] \in {"error", "continued"}
    /\ pc = "done" /\ e.type = "error" /\ results[e.src] = "error" /\ Unguarded(e.dst) => runs[e.dst] > 0

\* engine_completion.rs: error-edge children `only fire on failure'.
ErrorEdgesOnlyOnFailure ==
  \A e \in wf.edges : e.type = "error" /\ runs[e.dst] > 0 => results[e.src] \in {"error", "continued"}

=============================================================================
