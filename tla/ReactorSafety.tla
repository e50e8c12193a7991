---------------------------- MODULE ReactorSafety ----------------------------
(***************************************************************************)
(* Proofs about the reactor, for every graph, every mix of node kinds and  *)
(* every number of nodes: type correctness; the part of the invariant of   *)
(* ReactorInv that keeps a node of a calm set from being released twice,   *)
(* or early, whatever happens outside the set; and the quorums of joins.   *)
(***************************************************************************)
EXTENDS ReactorInv, FiniteSetTheorems, TLAPS

TypeInv == TypeOK /\ wf \in Workflow

-----------------------------------------------------------------------------
(* Facts about workflows and counters *)

\* What the proofs use of a well-formed workflow.
LEMMA WorkflowFacts ==
  ASSUME NEW w \in Workflow
  PROVE  /\ \A e \in w.edges : e.src \in Node /\ e.dst \in Node
         /\ IsFiniteSet(w.edges)
         /\ Cardinality(w.edges) < UsizeMod
         /\ w.kind \in [Node -> Kind]
<1>1. WellFormed(w) BY ReactorAssumption
<1>2. QED BY <1>1 DEF WellFormed, Edge

\* The edges into a node are finite in number, and fit a usize.
LEMMA SubsetFacts ==
  ASSUME NEW w \in Workflow, NEW S \in SUBSET w.edges
  PROVE  IsFiniteSet(S) /\ Cardinality(S) \in 0 .. UsizeMod - 1
<1>1. IsFiniteSet(S) /\ Cardinality(S) <= Cardinality(w.edges)
  BY WorkflowFacts, FS_Subset
<1>2. Cardinality(S) \in Nat /\ Cardinality(w.edges) \in Nat
  BY <1>1, WorkflowFacts, FS_CardinalityType
<1>3. QED BY <1>1, <1>2, WorkflowFacts, ReactorAssumption

\* The counter arithmetic stays within the usize range.
LEMMA CounterTypes ==
  ASSUME NEW c \in 0 .. UsizeMod - 1, NEW n
  PROVE  /\ SatDec(c) \in 0 .. UsizeMod - 1
         /\ WrapDec(c) \in 0 .. UsizeMod - 1
         /\ EarlyReady(n, c) \in 0 .. UsizeMod - 1
<1>1. SatDec(c) \in 0 .. UsizeMod - 1 /\ WrapDec(c) \in 0 .. UsizeMod - 1
  BY ReactorAssumption DEF SatDec, WrapDec
<1>2. EarlyReady(n, c) = 0 \/ EarlyReady(n, c) = c
  BY DEF EarlyReady
<1>3. QED BY <1>1, <1>2, ReactorAssumption

-----------------------------------------------------------------------------
(* Type correctness *)

\* A run starts well typed.
LEMMA InitType == Init => TypeInv
<1> SUFFICES ASSUME Init PROVE TypeInv OBVIOUS
<1>1. wf \in Workflow BY DEF Init
<1>2. ASSUME NEW n \in Node PROVE InitialPending(wf)[n] \in 0 .. UsizeMod - 1
  <2>1. Cardinality({ e \in In(wf, n) : e.src \notin wf.seed }) \in 0 .. UsizeMod - 1
    BY <1>1, SubsetFacts DEF In
  <2>2. QED BY <2>1, ReactorAssumption DEF InitialPending
<1>3. pending \in [Node -> 0 .. UsizeMod - 1]
  BY <1>2 DEF Init, InitialPending
<1>4. ready \in Seq(Node)
  <2>1. ready \in [1 .. Cardinality(Roots(wf)) -> Roots(wf)] BY DEF Init, Injection
  <2>2. Roots(wf) \subseteq Node BY DEF Roots
  <2>3. Cardinality(Roots(wf)) \in Nat
    BY <2>2, ReactorAssumption, FS_Subset, FS_CardinalityType
  <2>4. QED BY <2>1, <2>2, <2>3
<1>5. QED BY <1>1, <1>3, <1>4 DEF TypeInv, TypeOK, Init, Location, Result


\* The part of the type invariant that a completion touches.
StoredType ==
  /\ pending \in [Node -> 0 .. UsizeMod - 1]
  /\ results \in [Node -> Result]
  /\ mode \in {"unblock", "success", "errored"}
  /\ todo \subseteq wf.edges /\ truthy \subseteq wf.edges /\ cascade \subseteq wf.edges

\* unblock_successors and its callers store well-typed results.
LEMMA StoreType ==
  ASSUME TypeInv, wf' = wf, NEW n, NEW r \in Result, StoreAndUnblock(n, r)
  PROVE  StoredType'
BY DEF TypeInv, TypeOK, StoreAndUnblock, StoredType, Out

\* A finished chain leaves well-typed counts.
LEMMA ClearType ==
  ASSUME TypeInv, NEW n, ClearChain(n)
  PROVE  pending' \in [Node -> 0 .. UsizeMod - 1]
BY ReactorAssumption DEF TypeInv, TypeOK, ClearChain

\* handle_node_success up to its loop.
LEMMA SuccessType ==
  ASSUME TypeInv, wf' = wf, NEW n, NEW holds \in SUBSET wf.edges, Success(n, holds)
  PROVE  StoredType'
BY ClearType DEF TypeInv, TypeOK, Success, StoredType, Out, Result

\* handle_node_failure: each of its three ends.
LEMMA FailureType ==
  ASSUME TypeInv, wf' = wf, NEW n, NEW next \in Location, Failure(n, next)
  PROVE  StoredType' /\ pc' \in Location
<1>1. CASE HasErrorChild(wf, n)
  BY <1>1, ClearType DEF TypeInv, TypeOK, Failure, StoredType, Out, Result
<1>2. CASE ~HasErrorChild(wf, n) /\ n \in wf.coe
  BY <1>2, StoreType DEF Failure, Result
<1>3. CASE ~HasErrorChild(wf, n) /\ n \notin wf.coe
  BY <1>3 DEF TypeInv, TypeOK, Failure, StoredType, Location, Terminal, routingVars
<1>4. QED BY <1>1, <1>2, <1>3

\* Every outcome of a handler that runs inside the reactor.
LEMMA SettleType ==
  ASSUME TypeInv, wf' = wf, NEW n, NEW o, Settle(n, o)
  PROVE  StoredType' /\ pc' \in Location
<1>1. CASE StoreAndUnblock(n, "output") /\ pc' = "loop"
  BY <1>1, StoreType DEF Result, Location
<1>2. CASE Failure(n, "loop")
  BY <1>2, FailureType DEF Location
<1>3. CASE /\ results' = [results EXCEPT ![n] = "waiting"] /\ pc' = "paused"
           /\ UNCHANGED <<pending, routingVars>>
  BY <1>3 DEF TypeInv, TypeOK, StoredType, Location, Terminal, routingVars, Result
<1>4. CASE pc' = "failed" /\ UNCHANGED <<results, pending, routingVars>>
  BY <1>4 DEF TypeInv, TypeOK, StoredType, Location, Terminal, routingVars
<1>5. QED BY <1>1, <1>2, <1>3, <1>4 DEF Settle

\* Starting the work of nodes.
LEMMA StartType ==
  ASSUME TypeInv, NEW S, Started(S)
  PROVE  runs' \in [Node -> Nat]
BY DEF TypeInv, TypeOK, Started

\* executing.push counts one more future of a node.
LEMMA LaunchType ==
  ASSUME TypeInv, NEW n, Launch(n)
  PROVE  executing' \in [Node -> Nat]
<1>1. CASE n \in Node BY <1>1 DEF TypeInv, TypeOK, Launch
<1>2. CASE n \notin Node BY <1>2 DEF TypeInv, TypeOK, Launch
<1>3. QED BY <1>1, <1>2

\* ready.pop_front leaves a queue of nodes.
LEMMA TailType ==
  ASSUME TypeInv, ready # <<>>
  PROVE  Tail(ready) \in Seq(Node) /\ Head(ready) \in Node
BY DEF TypeInv, TypeOK

\* ready.push_back leaves a queue of nodes.
LEMMA ReleaseType ==
  ASSUME TypeInv, NEW n \in Node, NEW c, Release(n, c)
  PROVE  ready' \in Seq(Node)
BY DEF TypeInv, TypeOK, Release


\* Every step of the reactor keeps its state well typed.
LEMMA NextType == TypeInv /\ [Next]_vars => TypeInv'
<1> SUFFICES ASSUME TypeInv, [Next]_vars PROVE TypeInv' OBVIOUS
<1>e. \A e \in wf.edges : e.src \in Node /\ e.dst \in Node
  BY WorkflowFacts DEF TypeInv
<1>1. CASE PopChain
  BY <1>1, StartType, LaunchType, TailType DEF PopChain, Popped, TypeInv, TypeOK, routingVars
<1>2. CASE PopSkip
  BY <1>2, StoreType, TailType DEF PopSkip, Popped, TypeInv, TypeOK, StoredType, history, Result
<1>3. CASE PopSync
  BY <1>3, SettleType, StartType, TailType
  DEF PopSync, Popped, TypeInv, TypeOK, StoredType
<1>4. CASE PopInline
  BY <1>4, StartType, TailType
  DEF PopInline, Popped, TypeInv, TypeOK, Location, routingVars
<1>5. CASE InlineReturns
  BY <1>5, SettleType DEF InlineReturns, TypeInv, TypeOK, StoredType, history
<1>6. CASE PopModule
  BY <1>6, StartType, LaunchType, TailType
  DEF PopModule, Popped, TypeInv, TypeOK, routingVars
<1>7. CASE PopLimited
  BY <1>7, TailType DEF PopLimited, Popped, TypeInv, TypeOK, Location, routingVars
<1>8. CASE RateLimitAllows
  BY <1>8, StartType, LaunchType DEF RateLimitAllows, TypeInv, TypeOK, Location, routingVars
<1>9. CASE RateLimitRefuses
  BY <1>9, StoreType DEF RateLimitRefuses, TypeInv, TypeOK, StoredType, Location, Result, history
<1>10. CASE PopSub
  <2>1. PICK n \in Node : PopSub!(n) BY <1>10 DEF PopSub
  <2>2. <<n>> \in Seq(Node) OBVIOUS
  <2>3. ready' \in Seq(Node) /\ runs' \in [Node -> Nat]
    BY <2>1, StartType, TailType DEF Popped
  <2>4. QED BY <2>1, <2>2, <2>3 DEF TypeInv, TypeOK, Location, routingVars
<1>11. CASE Drain
  <2>1. Tail(ready) \in Seq(Node) /\ Head(ready) \in Node BY <1>11, TailType DEF Drain
  <2>2. Append(batch, Head(ready)) \in Seq(Node) /\ Append(keep, Head(ready)) \in Seq(Node)
    BY <2>1 DEF TypeInv, TypeOK
  <2>3. runs' \in [Node -> Nat] BY <1>11, StartType DEF Drain, TypeInv, TypeOK
  <2>4. batch' \in Seq(Node) /\ keep' \in Seq(Node)
    BY <1>11, <2>2 DEF Drain, TypeInv, TypeOK
  <2>5. QED BY <1>11, <2>1, <2>3, <2>4 DEF Drain, TypeInv, TypeOK, routingVars
<1>12. CASE DrainDone
  BY <1>12 DEF DrainDone, TypeInv, TypeOK, Location, routingVars, history
<1>13. CASE JoinReturns
  BY <1>13 DEF JoinReturns, TypeInv, TypeOK, Location, routingVars, history
<1>14. CASE StoreNext
  <2>1. Tail(batch) \in Seq(Node) BY <1>14 DEF StoreNext, TypeInv, TypeOK
  <2>2. QED BY <1>14, <2>1, StoreType
    DEF StoreNext, TypeInv, TypeOK, StoredType, Location, Result, history
<1>15. CASE RouteUnblock
  <2>1. PICK e \in todo : RouteUnblock!(e) BY <1>15 DEF RouteUnblock
  <2>2. QED BY <2>1, <1>e, ReleaseType, CounterTypes DEF Visit, TypeInv, TypeOK
<1>16. CASE RouteDead
  <2>1. PICK e \in todo : RouteDead!(e) BY <1>16 DEF RouteDead
  <2>2. QED BY <2>1, <1>e DEF Visit, TypeInv, TypeOK, Result, history
<1>17. CASE RouteSuccess
  <2>1. PICK e \in todo : RouteSuccess!(e) BY <1>17 DEF RouteSuccess
  <2>2. EarlyReady(e.dst, WrapDec(pending[e.dst])) \in 0 .. UsizeMod - 1
    BY <2>1, <1>e, CounterTypes DEF TypeInv, TypeOK
  <2>3. ready' \in Seq(Node) /\ results' \in [Node -> Result] /\ cascade' \subseteq wf.edges
    BY <2>1, <1>e, ReleaseType DEF TypeInv, TypeOK, Result, Out
  <2>4. QED BY <2>1, <2>2, <2>3, <1>e DEF Visit, TypeInv, TypeOK, Conditional, Connecting
<1>18. CASE RoutePanics
  BY <1>18 DEF RoutePanics, TypeInv, TypeOK, Location, Terminal, history
<1>19. CASE RouteCascade
  <2>1. PICK e \in cascade : RouteCascade!(e) BY <1>19 DEF RouteCascade
  <2>2. QED BY <2>1, <1>e, CounterTypes DEF TypeInv, TypeOK
<1>20. CASE RouteErrored
  <2>1. PICK e \in todo : RouteErrored!(e) BY <1>20 DEF RouteErrored
  <2>2. EarlyReady(e.dst, SatDec(pending[e.dst])) \in 0 .. UsizeMod - 1
    BY <2>1, <1>e, CounterTypes DEF TypeInv, TypeOK
  <2>3. QED BY <2>1, <2>2, <1>e, ReleaseType DEF Visit, TypeInv, TypeOK
<1>21. CASE CompleteOk
  <2>1. PICK n \in InFlight : CompleteOk!(n) BY <1>21 DEF CompleteOk
  <2>2. executing' \in [Node -> Nat] BY <2>1 DEF InFlight, TypeInv, TypeOK
  <2>3. StoredType' BY <2>1, SuccessType DEF Out
  <2>4. QED BY <2>1, <2>2, <2>3 DEF TypeInv, TypeOK, StoredType, history
<1>22. CASE CompleteErr
  <2>1. PICK n \in InFlight : CompleteErr!(n) BY <1>22 DEF CompleteErr
  <2>2. executing' \in [Node -> Nat] BY <2>1 DEF InFlight, TypeInv, TypeOK
  <2>3. StoredType' /\ pc' \in Location BY <2>1, FailureType DEF Location
  <2>4. QED BY <2>1, <2>2, <2>3 DEF TypeInv, TypeOK, StoredType, history
<1>23. CASE Finish
  BY <1>23 DEF Finish, TypeInv, TypeOK, Location, Terminal, routingVars, history
<1>24. CASE Interrupt
  BY <1>24 DEF Interrupt, TypeInv, TypeOK, Location, Terminal, routingVars, history
<1>25. CASE Ended \/ UNCHANGED vars
  BY <1>25 DEF Ended, vars, TypeInv, TypeOK
<1>26. QED
  BY <1>1, <1>2, <1>3, <1>4, <1>5, <1>6, <1>7, <1>8, <1>9, <1>10, <1>11, <1>12, <1>13,
     <1>14, <1>15, <1>16, <1>17, <1>18, <1>19, <1>20, <1>21, <1>22, <1>23, <1>24, <1>25
  DEF Next, Progress

\* The type invariant holds in every state of every run: among the rest, no
\* counter leaves the usize range and every queue holds nodes of the graph.
THEOREM TypeCorrect == Spec => []TypeOK
<1>1. TypeInv => TypeOK BY DEF TypeInv
<1>2. QED BY <1>1, InitType, NextType, PTL DEF Spec

-----------------------------------------------------------------------------
(* The invariant *)

\* The state the step lemmas start from.
Good(N) == TypeInv /\ Calm(wf, N) /\ Inv(N)

-----------------------------------------------------------------------------
(* Queues *)

\* pop_front takes a node out of a queue that holds it once.
LEMMA PopQueue ==
  ASSUME NEW q \in Seq(Node), NEW N, q # <<>>, Distinct(q, N)
  PROVE  /\ Head(q) \in Node /\ Distinct(Tail(q), N)
         /\ Head(q) \in N => Head(q) \notin Range(Tail(q))
         /\ Range(q) = Range(Tail(q)) \cup {Head(q)}
<1>1. Len(q) \in Nat /\ Len(q) >= 1 /\ DOMAIN q = 1 .. Len(q) OBVIOUS
<1>2. DOMAIN Tail(q) = 1 .. (Len(q) - 1) /\ \A i \in 1 .. (Len(q) - 1) : Tail(q)[i] = q[i + 1]
  BY <1>1
<1>3. Head(q) = q[1] /\ 1 \in DOMAIN q /\ q[1] \in Node BY <1>1
<1>4. \A i \in 1 .. (Len(q) - 1) : i + 1 \in DOMAIN q /\ i + 1 # 1 BY <1>1
<1>5. Head(q) \in N => Head(q) \notin Range(Tail(q)) BY <1>2, <1>3, <1>4 DEF Distinct, Range
<1>6. Distinct(Tail(q), N) BY <1>1, <1>2, <1>4 DEF Distinct
<1>7. \A j \in DOMAIN q : j = 1 \/ (j - 1 \in 1 .. (Len(q) - 1) /\ (j - 1) + 1 = j) BY <1>1
<1>8. Range(q) = Range(Tail(q)) \cup {Head(q)}
  BY <1>2, <1>3, <1>4, <1>7 DEF Range
<1>9. QED BY <1>3, <1>5, <1>6, <1>8

\* push_back of a node that is not there keeps the queue free of duplicates.
LEMMA PushQueue ==
  ASSUME NEW q \in Seq(Node), NEW N, NEW n \in Node
  PROVE  /\ Range(Append(q, n)) = Range(q) \cup {n}
         /\ Distinct(q, N) /\ (n \in N => n \notin Range(q)) => Distinct(Append(q, n), N)
<1>1. Len(q) \in Nat /\ DOMAIN q = 1 .. Len(q) OBVIOUS
<1>2. /\ DOMAIN Append(q, n) = 1 .. (Len(q) + 1) /\ Append(q, n)[Len(q) + 1] = n
      /\ \A i \in 1 .. Len(q) : Append(q, n)[i] = q[i]
  OBVIOUS
<1>3. \A i \in 1 .. (Len(q) + 1) : i \in 1 .. Len(q) \/ i = Len(q) + 1 BY <1>1
<1>4. \A i \in 1 .. Len(q) : i \in 1 .. (Len(q) + 1) BY <1>1
<1>5. Len(q) + 1 \in 1 .. (Len(q) + 1) BY <1>1
<1>6. Range(Append(q, n)) = Range(q) \cup {n} BY <1>1, <1>2, <1>3, <1>4, <1>5 DEF Range
<1>7. ASSUME Distinct(q, N), n \in N => n \notin Range(q) PROVE Distinct(Append(q, n), N)
  BY <1>1, <1>2, <1>3, <1>4, <1>5, <1>7 DEF Distinct, Range
<1>8. QED BY <1>6, <1>7

\* The queues and the futures are of nodes of the graph.
LEMMA PlaceTypes ==
  ASSUME TypeInv
  PROVE  /\ \A m \in Range(ready) : m \in Node
         /\ \A m \in Range(keep) : m \in Node
         /\ \A m \in Range(batch) : m \in Node
         /\ \A m \in Waiting : m \in Node
         /\ \A m \in InFlight : m \in Node
<1>1. ASSUME NEW q \in Seq(Node) PROVE \A m \in Range(q) : m \in Node BY DEF Range
<1>2. ready \in Seq(Node) /\ keep \in Seq(Node) /\ batch \in Seq(Node) BY DEF TypeInv, TypeOK
<1>3. QED BY <1>1, <1>2 DEF Waiting, InFlight

\* Starting one node changes nobody else's count.
LEMMA StartOne ==
  ASSUME TypeInv, NEW n \in Node, runs[n] = 0, runs' = runs \/ Started({n})
  PROVE  /\ runs' \in [Node -> Nat] /\ \A m \in Node : m # n => runs'[m] = runs[m]
         /\ Started({n}) => runs'[n] = 1
         /\ runs'[n] <= 1
<1>1. runs \in [Node -> Nat] BY DEF TypeInv, TypeOK
<1>2. CASE runs' = runs BY <1>1, <1>2 DEF Started
<1>3. CASE Started({n}) BY <1>1, <1>3 DEF Started
<1>4. QED BY <1>2, <1>3

-----------------------------------------------------------------------------
(* Chains *)

\* What the proofs use of the pipeline chains of a workflow.
LEMMA ChainFacts ==
  ASSUME wf \in Workflow
  PROVE  /\ \A c \in wf.chains :
              /\ c.head \in c.members /\ c.tail \in c.members /\ c.head # c.tail
              /\ c.members \subseteq Node
              /\ \A n \in c.members : wf.kind[n] = "module" /\ (n # c.head => n \in Interior(wf))
              /\ c.head \notin Interior(wf)
         /\ \A c, d \in wf.chains : \A n \in Node : n \in c.members /\ n \in d.members => c = d
         /\ \A n \in Interior(wf) : n \in Node /\ InChain(wf, n) /\ In(wf, n) # {}
         /\ \A e \in wf.edges : e.dst \in Interior(wf) =>
              \E c \in wf.chains : e.src \in c.members /\ e.src # c.tail
         /\ wf.seed # {} => wf.chains = {}
<1>1. WellFormed(wf) BY ReactorAssumption
<1>2. \A c \in wf.chains : ChainOK(wf, c) /\ c.members \subseteq Node
  BY <1>1 DEF WellFormed, Chain
<1>3. \A c, d \in wf.chains : \A n \in Node : n \in c.members /\ n \in d.members => c = d
  BY <1>2 DEF ChainOK
<1>4. ASSUME NEW c \in wf.chains
      PROVE  /\ c.head \in c.members /\ c.tail \in c.members /\ c.head # c.tail
             /\ c.members \subseteq Node
             /\ \A n \in c.members : wf.kind[n] = "module" /\ (n # c.head => n \in Interior(wf))
             /\ c.head \notin Interior(wf)
  <2>1. /\ c.head \in c.members /\ c.tail \in c.members /\ c.head # c.tail
        /\ c.members \subseteq Node /\ \A n \in c.members : wf.kind[n] = "module"
    BY <1>2 DEF ChainOK
  <2>2. \A n \in c.members : n # c.head => n \in Interior(wf) BY <2>1 DEF Interior
  <2>3. c.head \notin Interior(wf) BY <2>1, <1>3 DEF Interior
  <2>4. QED BY <2>1, <2>2, <2>3
<1>5. \A n \in Interior(wf) : n \in Node /\ InChain(wf, n) /\ In(wf, n) # {}
  BY <1>2 DEF Interior, InChain, ChainOK
<1>6. \A e \in wf.edges : e.dst \in Interior(wf) =>
        \E c \in wf.chains : e.src \in c.members /\ e.src # c.tail
  BY <1>2 DEF Interior, ChainOK
<1>7. wf.seed # {} => wf.chains = {} BY <1>1 DEF WellFormed
<1>8. QED BY <1>3, <1>4, <1>5, <1>6, <1>7

\* A node outside the chains answers for itself.
LEMMA ReturnedSelf ==
  ASSUME wf \in Workflow, NEW n \in Node, ~InChain(wf, n)
  PROVE  Returned(n) = n /\ ChainMembers(n) = {}
BY ChainFacts DEF Returned, ChainMembers, InChain

\* The head of a chain answers with the tail, which is inside the chain.
LEMMA ReturnedTail ==
  ASSUME wf \in Workflow, NEW n \in Node, InChain(wf, n), n \notin Interior(wf)
  PROVE  \E c \in wf.chains :
            /\ c.head = n /\ Returned(n) = c.tail /\ c.tail \in Interior(wf)
            /\ ChainMembers(n) = c.members /\ ChainMembers(c.tail) = c.members
<1>1. PICK c \in wf.chains : n \in c.members BY DEF InChain
<1>2. c.head = n BY <1>1, ChainFacts
<1>3. \A d \in wf.chains : d.head = n => d = c BY <1>1, ChainFacts
<1>4. Returned(n) = c.tail BY <1>2, <1>3 DEF Returned
<1>5. c.tail \in Interior(wf) /\ c.tail \in Node BY ChainFacts
<1>6. { d \in wf.chains : n \in d.members } = {c} BY <1>1, ChainFacts
<1>7. { d \in wf.chains : c.tail \in d.members } = {c} BY ChainFacts, <1>5
<1>8. ChainMembers(n) = c.members /\ ChainMembers(c.tail) = c.members
  BY <1>6, <1>7 DEF ChainMembers
<1>9. QED BY <1>2, <1>4, <1>5, <1>8

\* Two released nodes never answer for the same node, and the edges of the node
\* answered for leave its chain.
LEMMA ReturnedFacts ==
  ASSUME wf \in Workflow, NEW n \in Node, n \notin Interior(wf)
  PROVE  /\ Returned(n) \in Node
         /\ \A m \in Node \ Interior(wf) : Returned(m) = Returned(n) => m = n
         /\ Returned(n) \in Interior(wf) \/ Returned(n) = n
         /\ \A e \in Out(wf, Returned(n)) : e.dst \notin Interior(wf)
<1>1. \A m \in Node \ Interior(wf) :
        \/ ~InChain(wf, m) /\ Returned(m) = m
        \/ \E c \in wf.chains : c.head = m /\ Returned(m) = c.tail /\ c.tail \in Interior(wf)
  BY ReturnedSelf, ReturnedTail
<1>2. Returned(n) \in Node BY <1>1, ChainFacts
<1>3. \A m \in Node \ Interior(wf) : Returned(m) = Returned(n) => m = n
  BY <1>1, ChainFacts
<1>4. \A e \in Out(wf, Returned(n)) : e.dst \notin Interior(wf)
  BY <1>1, ChainFacts DEF Out, InChain
<1>5. QED BY <1>1, <1>2, <1>3, <1>4

\* A chain is calm as a whole, and so are a node and the one it answers for.
LEMMA CalmFacts ==
  ASSUME NEW N, Calm(wf, N), wf \in Workflow
  PROVE  /\ N \subseteq Node
         /\ \A e \in wf.edges : e.dst \in N => e.src \in N
         /\ \A n \in N : \A e \in In(wf, n) : e \in wf.edges /\ e.src \in N
         /\ \A c \in wf.chains : \A m \in c.members : m \in N => c.members \subseteq N
         /\ \A n \in Node : Returned(n) \in Node /\ (Returned(n) \in N <=> n \in N)
         /\ \A n \in Node : n \notin N => ChainMembers(n) \cap N = {}
<1>1. /\ N \subseteq Node /\ \A e \in wf.edges : e.dst \in N => e.src \in N
      /\ \A c \in wf.chains : \A m \in c.members : m \in N => c.members \subseteq N
  BY DEF Calm
<1>2. ASSUME NEW n \in Node PROVE Returned(n) \in Node /\ (Returned(n) \in N <=> n \in N)
  <2>1. CASE ~ \E c \in wf.chains : c.head = n BY <2>1 DEF Returned
  <2>2. CASE \E c \in wf.chains : c.head = n
    <3>1. PICK c \in wf.chains : c.head = n /\ Returned(n) = c.tail
      BY <2>2 DEF Returned
    <3>2. c.head \in c.members /\ c.tail \in c.members /\ c.tail \in Node BY ChainFacts
    <3>3. QED BY <1>1, <3>1, <3>2
  <2>3. QED BY <2>1, <2>2
<1>3. \A n \in Node : n \notin N => ChainMembers(n) \cap N = {} BY <1>1 DEF ChainMembers
<1>4. QED BY <1>1, <1>2, <1>3 DEF In

-----------------------------------------------------------------------------
(* Counters *)

\* What the proofs use of the edges of the workflow being run.
LEMMA EdgeFacts ==
  ASSUME TypeInv
  PROVE  /\ \A e \in wf.edges : e.src \in Node /\ e.dst \in Node
         /\ \A n : In(wf, n) \subseteq wf.edges /\ Out(wf, n) \subseteq wf.edges
         /\ todo \subseteq wf.edges /\ cascade \subseteq wf.edges /\ fired \subseteq wf.edges
BY WorkflowFacts DEF TypeInv, TypeOK, In, Out

\* One more edge fires: the number of unfired edges goes down by one, and is
\* zero exactly when that was the last.
LEMMA FireOne ==
  ASSUME TypeInv, NEW n \in Node, NEW e \in In(wf, n), e \notin fired
  PROVE  /\ Cardinality(In(wf, n) \ fired) \in Nat \ {0}
         /\ Cardinality(In(wf, n) \ (fired \cup {e})) = Cardinality(In(wf, n) \ fired) - 1
         /\ Cardinality(In(wf, n) \ fired) - 1 = 0 => In(wf, n) \subseteq fired \cup {e}
<1>1. IsFiniteSet(In(wf, n) \ fired) /\ IsFiniteSet(In(wf, n) \ (fired \cup {e}))
  BY SubsetFacts, EdgeFacts DEF TypeInv
<1>2. Cardinality(In(wf, n) \ fired) \in Nat /\ Cardinality(In(wf, n) \ (fired \cup {e})) \in Nat
  BY <1>1, FS_CardinalityType
<1>3. (In(wf, n) \ fired) \ {e} = In(wf, n) \ (fired \cup {e}) OBVIOUS
<1>4. Cardinality(In(wf, n) \ (fired \cup {e})) = Cardinality(In(wf, n) \ fired) - 1
  BY <1>1, <1>3, FS_RemoveElement
<1>5. Cardinality(In(wf, n) \ (fired \cup {e})) = 0 => In(wf, n) \ (fired \cup {e}) = {}
  BY <1>1, FS_EmptySet
<1>6. QED BY <1>2, <1>4, <1>5

\* A calm node is no fan-in that is released early.
LEMMA NeverEarly ==
  ASSUME NEW N, Calm(wf, N), NEW n \in N, NEW cnt
  PROVE  EarlyReady(n, cnt) = cnt
BY DEF Calm, EarlyReady

-----------------------------------------------------------------------------
(* What is known of a node when its turn comes *)

\* The child on an edge that a completion loop is about to visit has not been
\* released; if this edge is its last, it has no result either.
LEMMA TodoFacts ==
  ASSUME NEW N, Good(N), NEW e \in todo, e.dst \in N
  PROVE  /\ e.dst \in Node /\ e.dst \notin Interior(wf) /\ e.dst \notin wf.seed
         /\ e.dst \notin Released /\ runs[e.dst] = 0
         /\ e \in wf.edges /\ e.src \in N /\ Settled(e.src)
         /\ e \in In(wf, e.dst) /\ e \notin fired
         /\ pending[e.dst] = Cardinality(In(wf, e.dst) \ fired) /\ pending[e.dst] \in Nat \ {0}
         /\ Settled(e.dst) => results[e.dst] = "skipped"
         /\ pending[e.dst] - 1 = 0 => /\ In(wf, e.dst) \subseteq fired \cup {e}
                                       /\ ~Settled(e.dst) /\ ~Settled(Returned(e.dst))
<1> DEFINE n == e.dst
<1> USE DEF Good
<1>1. n \in Node /\ e \in In(wf, n) /\ e \in wf.edges /\ e.src \in N
  BY EdgeFacts, CalmFacts DEF In, TypeInv
<1>2. n \notin Interior(wf) /\ e \notin fired /\ Settled(e.src) BY <1>1 DEF Inv, EdgesInv
<1>3. n \notin Released /\ n \notin wf.seed /\ ~(runs[n] > 0) BY <1>1, <1>2 DEF Inv, FiredInv
<1>r. runs \in [Node -> Nat] BY DEF TypeInv, TypeOK
<1>4. runs[n] = 0 BY <1>1, <1>3, <1>r
<1>5. pending[n] = Cardinality(In(wf, n) \ fired) BY <1>1, <1>2, <1>3 DEF Inv, CountsInv
<1>6. pending[n] \in Nat \ {0} /\ (pending[n] - 1 = 0 => In(wf, n) \subseteq fired \cup {e})
  BY <1>1, <1>2, <1>5, FireOne
<1>7. Settled(n) => results[n] = "skipped" /\ \E f \in In(wf, n) : Dead(f)
  BY <1>1, <1>2 DEF Inv, ExplainedInv
<1>8. pending[n] - 1 = 0 => ~Settled(n) BY <1>6, <1>7 DEF Dead
<1>9. pending[n] - 1 = 0 => ~Settled(Returned(n))
  <2>1. CASE ~InChain(wf, n) BY <2>1, <1>1, <1>8, ReturnedSelf DEF TypeInv
  <2>2. CASE InChain(wf, n)
    <3>1. PICK c \in wf.chains : c.head = n /\ Returned(n) = c.tail /\ c.tail \in Interior(wf)
      BY <2>2, <1>1, <1>2, ReturnedTail DEF TypeInv
    <3>2. c.tail \in c.members /\ c.tail \in N BY <3>1, <1>1, ChainFacts, CalmFacts DEF TypeInv
    <3>3. runs[c.tail] = 0 BY <3>1, <3>2, <1>4 DEF Inv, ChainsInv
    <3>4. QED BY <3>1, <3>2, <3>3 DEF Inv, ExplainedInv
  <2>3. QED BY <2>1, <2>2
<1>10. QED BY <1>1, <1>2, <1>3, <1>4, <1>5, <1>6, <1>7, <1>8, <1>9

\* A node at the front of the ready queue has not run, has no result, and is
\* nowhere else.
LEMMA PopFacts ==
  ASSUME NEW N, Good(N), ready # <<>>, NEW n \in N, n = Head(ready)
  PROVE  /\ n \in Node /\ n \in Released /\ n \notin Interior(wf) /\ In(wf, n) \subseteq fired
         /\ runs[n] = 0 /\ ~Settled(n) /\ ~Settled(Returned(n))
         /\ n \notin Range(Tail(ready)) /\ Distinct(Tail(ready), N)
         /\ Range(ready) = Range(Tail(ready)) \cup {n}
         /\ n \notin Range(keep) /\ n \notin Range(batch) /\ n \notin InFlight /\ n # cur
         /\ executing[n] = 0
<1> USE DEF Good
<1>1. /\ n \in Node /\ n \notin Range(Tail(ready)) /\ Distinct(Tail(ready), N)
      /\ Range(ready) = Range(Tail(ready)) \cup {n}
  BY PopQueue DEF TypeInv, TypeOK, Inv, QueuesInv
<1>2. n \in Range(ready) BY <1>1
<1>3. n \in Released /\ n \in Waiting BY <1>2 DEF Released, Waiting
<1>4. n \notin Interior(wf) /\ runs[n] = 0 /\ n # cur /\ n \notin Range(keep)
  BY <1>2, <1>3 DEF Inv, QueuesInv
<1>5. In(wf, n) \subseteq fired BY <1>1, <1>3, <1>4 DEF Inv, FiredInv
<1>6. ~Settled(n) /\ ~Settled(Returned(n)) BY <1>3 DEF Inv, UnsettledInv
<1>7. n \notin Range(batch) /\ n \notin InFlight BY <1>4 DEF Inv, WorkersInv
<1>8. executing[n] = 0 BY <1>1, <1>7 DEF InFlight, TypeInv, TypeOK
<1>9. QED BY <1>1, <1>3, <1>4, <1>5, <1>6, <1>7, <1>8

-----------------------------------------------------------------------------
(* The completion loops *)

\* A count follows the edges that have fired.
LEMMA FireCounts ==
  ASSUME NEW N, Good(N), wf' = wf, NEW e \in wf.edges, e \notin fired, fired' = fired \cup {e},
         NEW cnt, pending' = [pending EXCEPT ![e.dst] = cnt],
         e.dst \notin wf.seed \cup Interior(wf) => cnt = pending[e.dst] - 1
  PROVE  CountsInv(N)'
<1> SUFFICES ASSUME NEW n \in N, n \notin wf.seed, n \notin Interior(wf)
             PROVE  pending'[n] = Cardinality(In(wf, n) \ fired')
  BY DEF CountsInv, Interior, In
<1>1. n \in Node /\ pending[n] = Cardinality(In(wf, n) \ fired)
  BY DEF Good, Calm, Inv, CountsInv
<1>2. pending \in [Node -> 0 .. UsizeMod - 1] BY DEF Good, TypeInv, TypeOK
<1>3. CASE n = e.dst
  <2>1. e \in In(wf, n) BY <1>3 DEF In
  <2>2. QED BY <1>1, <1>2, <1>3, <2>1, FireOne DEF Good
<1>4. CASE n # e.dst
  <2>1. In(wf, n) \ fired' = In(wf, n) \ fired BY <1>4 DEF In
  <2>2. QED BY <1>1, <1>2, <1>4, <2>1
<1>5. QED BY <1>3, <1>4

\* Nothing that holds of the queues, the workers and the runs depends on the
\* counters or the edges.
LEMMA PlacesFrame ==
  ASSUME NEW N, Inv(N), UNCHANGED <<wf, pc, ready, keep, batch, cur, executing, runs>>
  PROVE  QueuesInv(N)' /\ WorkersInv(N)' /\ ChainsInv(N)' /\ OnceInv(N)' /\ PanicInv(N)'
BY DEF Inv, QueuesInv, WorkersInv, ChainsInv, OnceInv, PanicInv, NeverUnderflows, Waiting, Released,
       InFlight, Interior, InChain, Distinct

\* A loop visits an edge that counts: the child is released when it is the last.
LEMMA ReleaseStep ==
  ASSUME NEW N, Good(N), NEW e \in todo, e.dst \in N, NEW cnt, cnt = pending[e.dst] - 1,
         pending' = [pending EXCEPT ![e.dst] = cnt], Release(e.dst, cnt), Visit(e),
         fired' = fired \cup {e},
         UNCHANGED <<wf, pc, keep, batch, cur, executing, results, cascade, runs>>
  PROVE  Inv(N)'
<1> DEFINE n == e.dst
<1> USE DEF Good
<1>t. /\ n \in Node /\ n \notin Interior(wf) /\ n \notin Released /\ runs[n] = 0
      /\ e \in wf.edges /\ e \notin fired /\ e \in In(wf, n)
      /\ cnt = 0 => In(wf, n) \subseteq fired \cup {e} /\ ~Settled(n) /\ ~Settled(Returned(n))
  BY TodoFacts
<1>q. \/ cnt # 0 /\ ready' = ready /\ Range(ready') = Range(ready)
      \/ cnt = 0 /\ ready' = Append(ready, n) /\ Range(ready') = Range(ready) \cup {n}
                 /\ Distinct(ready', N)
  <2>1. Distinct(ready, N) /\ ready \in Seq(Node) BY DEF Inv, QueuesInv, TypeInv, TypeOK
  <2>2. n \notin Range(ready) BY <1>t DEF Released
  <2>3. QED BY <2>1, <2>2, <1>t, PushQueue DEF Release
<1>r. /\ Released' = Released \/ (cnt = 0 /\ Released' = Released \cup {n})
      /\ InFlight' = InFlight
  BY <1>q DEF Released, InFlight
<1>s. \A m : Settled(m)' <=> Settled(m) BY DEF Settled
<1>w. Interior(wf)' = Interior(wf) /\ \A m : In(wf, m)' = In(wf, m) /\ Returned(m)' = Returned(m)
  BY DEF Interior, In, Returned
<1>1. CountsInv(N)' BY <1>t, FireCounts
<1>2. FiredInv(N)' BY <1>t, <1>r, <1>w DEF Inv, FiredInv
<1>3. EdgesInv(N)' BY <1>s, <1>w DEF Inv, EdgesInv, Visit
<1>4. UnsettledInv(N)' BY <1>t, <1>r, <1>s, <1>w DEF Inv, UnsettledInv
<1>5. ExplainedInv(N)'
  <2>1. \A f : Dead(f) => Dead(f)' BY <1>s DEF Dead, Visit
  <2>2. QED BY <2>1, <1>s, <1>w DEF Inv, ExplainedInv
<1>6. QueuesInv(N)'
  <2>1. n \notin Range(keep) /\ n # cur BY <1>t DEF Released
  <2>2. QED BY <2>1, <1>t, <1>q, <1>r, <1>w DEF Inv, QueuesInv, Waiting
<1>7. WorkersInv(N)' BY <1>r DEF Inv, WorkersInv, InChain
<1>8. ChainsInv(N)' /\ OnceInv(N)' /\ SkipInv(N)' /\ PanicInv(N)'
  BY DEF Inv, ChainsInv, OnceInv, SkipInv, PanicInv, NeverUnderflows
<1>9. QED BY <1>1, <1>2, <1>3, <1>4, <1>5, <1>6, <1>7, <1>8 DEF Inv

\* A loop marks a child as skipped: because its branch was not taken (the edge
\* stays unfired), or because it was the last edge and a condition failed.
LEMMA SkipStep ==
  ASSUME NEW N, Good(N), NEW e \in todo, e.dst \in N, cascade = {}, Visit(e),
         results' = [results EXCEPT ![e.dst] = "skipped"],
         \/ /\ UNCHANGED <<pending, fired, cascade>>
         \/ /\ pending[e.dst] - 1 = 0 /\ pending' = [pending EXCEPT ![e.dst] = 0]
            /\ fired' = fired \cup {e} /\ cascade' = Out(wf, e.dst),
         UNCHANGED <<wf, pc, ready, keep, batch, cur, executing, runs>>
  PROVE  Inv(N)'
<1> DEFINE n == e.dst
<1> DEFINE Last == /\ pending[n] - 1 = 0 /\ pending' = [pending EXCEPT ![n] = 0]
                   /\ fired' = fired \cup {e} /\ cascade' = Out(wf, n)
<1> USE DEF Good
<1>t. /\ n \in Node /\ n \notin Interior(wf) /\ n \notin Released /\ runs[n] = 0
      /\ e \in wf.edges /\ e \notin fired /\ e \in In(wf, n) /\ Settled(e.src)
      /\ pending[n] - 1 = 0 => In(wf, n) \subseteq fired \cup {e} /\ ~Settled(n)
  BY TodoFacts
<1>r. Released' = Released /\ InFlight' = InFlight BY DEF Released, InFlight
<1>s. /\ \A m : Settled(m)' <=> Settled(m) \/ m = n
      /\ \A m : m # n => results'[m] = results[m]
      /\ results'[n] = "skipped"
  BY <1>t DEF Settled, TypeInv, TypeOK
<1>w. Interior(wf)' = Interior(wf) /\ \A m : In(wf, m)' = In(wf, m) /\ Returned(m)' = Returned(m)
  BY DEF Interior, In, Returned
<1>c. \A f \in Out(wf, n) : f.src = n /\ f \in wf.edges BY DEF Out
<1>1. CountsInv(N)'
  <2>1. CASE Last
    BY <2>1, <1>t, FireCounts
  <2>2. CASE UNCHANGED <<pending, fired, cascade>>
    BY <2>2, <1>w DEF Inv, CountsInv
  <2>3. QED BY <2>1, <2>2
<1>2. FiredInv(N)' BY <1>t, <1>r, <1>w DEF Inv, FiredInv
<1>3. EdgesInv(N)'
  <2>1. CASE Last
    <3>1. ~Settled(n) BY <2>1, <1>t
    <3>2. \A f \in Out(wf, n) : f \notin fired /\ f \notin todo BY <3>1, <1>c DEF Inv, EdgesInv
    <3>3. e \notin Out(wf, n) BY <3>2
    <3>4. QED BY <2>1, <3>2, <3>3, <1>c, <1>s, <1>w DEF Inv, EdgesInv, Visit
  <2>2. CASE UNCHANGED <<pending, fired, cascade>>
    BY <2>2, <1>s, <1>w DEF Inv, EdgesInv, Visit
  <2>3. QED BY <2>1, <2>2
<1>4. UnsettledInv(N)'
  <2>1. \A m \in N : m \in Released => m # n /\ Returned(m) # n
    <3>1. \A m \in N : m \in Released => m \in Node /\ m \notin Interior(wf)
      BY DEF Inv, QueuesInv, Calm
    <3>2. QED BY <3>1, <1>t, ReturnedFacts DEF TypeInv
  <2>2. QED BY <2>1, <1>r, <1>s, <1>w DEF Inv, UnsettledInv
<1>5. ExplainedInv(N)'
  <2>1. \A f : Dead(f) => Dead(f)'
    <3>1. CASE Last BY <3>1, <1>t, <1>s, <1>c DEF Dead, Visit
    <3>2. CASE UNCHANGED <<pending, fired, cascade>> BY <3>2, <1>s DEF Dead, Visit
    <3>3. QED BY <3>1, <3>2
  <2>2. In(wf, n) \subseteq fired' \/ Dead(e)'
    BY <1>t, <1>s DEF Dead, Visit
  <2>3. \A m \in N \ Interior(wf) : m # n /\ Settled(m)' =>
           \/ In(wf, m) \subseteq fired'
           \/ results'[m] = "skipped" /\ \E f \in In(wf, m) : Dead(f)'
    BY <2>1, <1>s DEF Inv, ExplainedInv
  <2>4. \A m \in N : m \in Interior(wf) /\ Settled(m)' => runs[m] = 1
    BY <1>t, <1>s DEF Inv, ExplainedInv
  <2>5. QED BY <2>2, <2>3, <2>4, <1>s, <1>t, <1>w DEF ExplainedInv
<1>6. SkipInv(N)' BY <1>t, <1>s DEF Inv, SkipInv
<1>7. QED BY <1>1, <1>2, <1>3, <1>4, <1>5, <1>6, PlacesFrame DEF Inv

\* The cascade counts a grandchild down and releases nothing.
LEMMA CascadeStep ==
  ASSUME NEW N, Good(N), NEW e \in cascade, e.dst \in N, RouteCascade!(e)
  PROVE  Inv(N)'
<1> USE DEF Good
<1>1. /\ pending' = [pending EXCEPT ![e.dst] = SatDec(@)]
      /\ cascade' = cascade \ {e} /\ fired' = fired \cup {e}
      /\ UNCHANGED <<wf, pc, ready, keep, batch, cur, executing, results, mode, todo, truthy, runs>>
  OBVIOUS
<1>t. /\ e \in wf.edges /\ e \notin fired /\ e.dst \in Node /\ Settled(e.src) /\ e \in In(wf, e.dst)
      /\ e.src \in N
  BY EdgeFacts, CalmFacts DEF Inv, EdgesInv, In, TypeInv
<1>s. \A m : Settled(m)' <=> Settled(m) BY <1>1 DEF Settled
<1>r. Released' = Released /\ InFlight' = InFlight BY <1>1 DEF Released, InFlight
<1>w. Interior(wf)' = Interior(wf) /\ \A m : In(wf, m)' = In(wf, m) /\ Returned(m)' = Returned(m)
  BY <1>1 DEF Interior, In, Returned
<1>2. CountsInv(N)'
  <2>1. e.dst \notin wf.seed \cup Interior(wf) => SatDec(pending[e.dst]) = pending[e.dst] - 1
    <3>1. SUFFICES ASSUME e.dst \notin wf.seed \cup Interior(wf)
                   PROVE  pending[e.dst] \in Nat \ {0}
      BY DEF SatDec
    <3>2. pending[e.dst] = Cardinality(In(wf, e.dst) \ fired) BY <3>1 DEF Inv, CountsInv
    <3>3. QED BY <3>2, <1>t, FireOne
  <2>2. pending' = [pending EXCEPT ![e.dst] = SatDec(pending[e.dst])] BY <1>1
  <2>3. QED BY <2>1, <2>2, <1>1, <1>t, FireCounts
<1>3. FiredInv(N)' BY <1>1, <1>r, <1>w DEF Inv, FiredInv
<1>4. EdgesInv(N)' BY <1>1, <1>s, <1>w, <1>t DEF Inv, EdgesInv
<1>5. UnsettledInv(N)' BY <1>1, <1>r, <1>s, <1>w DEF Inv, UnsettledInv
<1>6. ExplainedInv(N)'
  <2>1. \A f : Dead(f) => Dead(f)' BY <1>1, <1>s DEF Dead
  <2>2. QED BY <2>1, <1>1, <1>s, <1>w DEF Inv, ExplainedInv
<1>7. SkipInv(N)' BY <1>1 DEF Inv, SkipInv
<1>8. QED BY <1>1, <1>2, <1>3, <1>4, <1>5, <1>6, <1>7, PlacesFrame DEF Inv

-----------------------------------------------------------------------------
(* Taking a node from the queue, and storing a result *)

\* A result is stored for a node whose edges have all fired, or for the tail of
\* a chain that was started; then its own edges are to be visited, or the run ends.
LEMMA StoredEdges ==
  ASSUME NEW N, Good(N), NEW n \in N, NEW r, r # "none", ~Settled(n),
         \/ n \notin Interior(wf) /\ In(wf, n) \subseteq fired
         \/ n \in Interior(wf) /\ runs'[n] = 1,
         \A m \in N : m \in Interior(wf) /\ Settled(m) => runs'[m] = 1,
         \A e \in Out(wf, n) : e.dst \notin Interior(wf),
         results' = [results EXCEPT ![n] = r], UNCHANGED <<wf, fired>>,
         \/ todo' = Out(wf, n) /\ cascade' = {}
         \/ UNCHANGED <<todo, cascade>>
  PROVE  EdgesInv(N)' /\ ExplainedInv(N)'
<1> USE DEF Good
<1>s. /\ \A m : Settled(m)' <=> Settled(m) \/ m = n
      /\ \A m : m # n => results'[m] = results[m]
  BY DEF Settled, TypeInv, TypeOK, Calm
<1>w. Interior(wf)' = Interior(wf) /\ \A m : In(wf, m)' = In(wf, m) /\ Returned(m)' = Returned(m)
  BY DEF Interior, In, Returned
<1>c. \A f \in Out(wf, n) : f.src = n /\ f \in wf.edges BY DEF Out
<1>1. EdgesInv(N)' BY <1>s, <1>w, <1>c DEF Inv, EdgesInv
<1>2. ExplainedInv(N)'
  <2>1. \A f : Dead(f) => Dead(f)' BY <1>s, <1>c DEF Dead
  <2>2. \A m \in N \ Interior(wf) : m # n /\ Settled(m)' =>
           \/ In(wf, m) \subseteq fired'
           \/ results'[m] = "skipped" /\ \E f \in In(wf, m) : Dead(f)'
    BY <2>1, <1>s DEF Inv, ExplainedInv
  <2>3. \A m \in N : m \in Interior(wf) /\ Settled(m)' => runs'[m] = 1
    BY <1>s DEF Inv, ExplainedInv
  <2>4. QED BY <2>2, <2>3, <1>s, <1>w DEF ExplainedInv
<1>3. QED BY <1>1, <1>2

\* The results are left alone; the edges to visit are left alone or dropped.
LEMMA UnstoredEdges ==
  ASSUME NEW N, Good(N), \A m \in N : m \in Interior(wf) /\ Settled(m) => runs'[m] = 1,
         UNCHANGED <<wf, fired, results, cascade>>, todo' = todo \/ todo' = {}
  PROVE  EdgesInv(N)' /\ ExplainedInv(N)'
<1> USE DEF Good
<1>s. \A m : Settled(m)' <=> Settled(m) BY DEF Settled
<1>w. Interior(wf)' = Interior(wf) /\ \A m : In(wf, m)' = In(wf, m)
  BY DEF Interior, In
<1>1. EdgesInv(N)' BY <1>s, <1>w DEF Inv, EdgesInv
<1>2. \A f : Dead(f) => Dead(f)' BY <1>s DEF Dead
<1>3. ExplainedInv(N)' BY <1>2, <1>s, <1>w DEF Inv, ExplainedInv
<1>4. QED BY <1>1, <1>3

\* What is released is a node outside the chains or the head of one.
LEMMA ReleasedNodes ==
  ASSUME NEW N, Good(N)
  PROVE  \A m \in N : m \in Released => m \in Node /\ m \notin Interior(wf)
BY DEF Good, Inv, QueuesInv, Calm

\* Released nodes keep having no result when only n is stored, and n is not the
\* answer of any of them.
LEMMA StoredUnsettled ==
  ASSUME NEW N, Good(N), NEW n \in Node, NEW r, UNCHANGED wf,
         results' = [results EXCEPT ![n] = r] \/ results' = results,
         \A m \in N : m \in Released' => m \in Released /\ m # n /\ Returned(m) # n
  PROVE  UnsettledInv(N)'
<1>1. \A m : Returned(m)' = Returned(m) BY DEF Returned
<1>2. \A m \in Node : m # n => results'[m] = results[m] BY DEF Good, TypeInv, TypeOK
<1>3. \A m \in N : m \in Released => m \in Node /\ Returned(m) \in Node
  BY ReleasedNodes, ReturnedFacts DEF Good, TypeInv
<1>4. QED BY <1>1, <1>2, <1>3 DEF Good, Inv, UnsettledInv, Settled

\* The counts of calm nodes do not change with the nodes that are
\* released or started, and what was fired stays fired.
LEMMA CountsFrame ==
  ASSUME NEW N, Good(N), UNCHANGED <<wf, fired, pending>>
  PROVE  CountsInv(N)'
BY DEF Good, Inv, CountsInv, Interior, In

\* Clearing the counts of a chain changes nothing once the edges into its head have fired.
LEMMA ClearCounts ==
  ASSUME NEW N, Good(N), NEW n \in N, n \in Released, ClearChain(Returned(n)), UNCHANGED <<wf, fired>>
  PROVE  CountsInv(N)'
<1> USE DEF Good
<1>n. n \in Node /\ n \notin Interior(wf) BY ReleasedNodes
<1> SUFFICES ASSUME NEW m \in N, m \notin wf.seed, m \notin Interior(wf)
             PROVE  pending'[m] = Cardinality(In(wf, m) \ fired)
  BY DEF CountsInv, Interior, In
<1>1. m \in Node /\ pending[m] = Cardinality(In(wf, m) \ fired) BY DEF Inv, CountsInv, Calm
<1>2. CASE m \notin ChainMembers(Returned(n)) BY <1>1, <1>2 DEF ClearChain
<1>3. CASE m \in ChainMembers(Returned(n))
  <2>1. InChain(wf, n) BY <1>n, <1>3, ReturnedSelf DEF TypeInv
  <2>2. PICK c \in wf.chains : c.head = n /\ ChainMembers(c.tail) = c.members /\ Returned(n) = c.tail
    BY <2>1, <1>n, ReturnedTail DEF TypeInv
  <2>3. m = n BY <1>3, <2>2, ChainFacts DEF TypeInv
  <2>4. In(wf, m) \ fired = {} BY <1>n, <2>3 DEF Inv, FiredInv
  <2>5. pending'[m] = 0 BY <1>1, <1>3 DEF ClearChain
  <2>6. QED BY <2>4, <2>5, FS_EmptySet
<1>4. QED BY <1>2, <1>3

\* FiredInv speaks only of what is released or started.
LEMMA FiredFrame ==
  ASSUME NEW N, Good(N), UNCHANGED <<wf, fired>>,
         \A m \in N : m \in Released' => m \in Released,
         \A m \in N \ Interior(wf) : runs'[m] > 0 => runs[m] > 0 \/ m \in Released
  PROVE  FiredInv(N)'
<1>1. Interior(wf)' = Interior(wf) /\ \A m : In(wf, m)' = In(wf, m) BY DEF Interior, In
<1>2. QED BY <1>1 DEF Good, Inv, FiredInv

\* What the invariant says of the graph, apart from where the nodes are.
GraphPart(N) == CountsInv(N) /\ FiredInv(N) /\ EdgesInv(N) /\ UnsettledInv(N) /\ ExplainedInv(N) /\ SkipInv(N)

\* What the end of a node's work may do to the results, the counts and the loops.
Stores(k) ==
  /\ pending' = pending \/ ClearChain(k)
  /\ \/ UNCHANGED <<results, todo, cascade>>
     \/ \E r \in Result :
          /\ r # "none" /\ (r = "skipped" => runs'[k] = 0)
          /\ results' = [results EXCEPT ![k] = r]
          /\ (todo' = Out(wf, k) /\ cascade' = {}) \/ UNCHANGED <<todo, cascade>>

\* A node that was released moves on, and nothing is stored.
LEMMA MoveStep ==
  ASSUME NEW N, Good(N), UNCHANGED <<wf, fired, pending, results, cascade>>, todo' = todo \/ todo' = {},
         \A m \in N : m \in Released' => m \in Released,
         \A m \in N \ Interior(wf) : runs'[m] > 0 => runs[m] > 0 \/ m \in Released,
         \A m \in N : Settled(m) => runs'[m] = runs[m]
  PROVE  GraphPart(N)'
<1> USE DEF Good
<1>1. CountsInv(N)' BY CountsFrame
<1>2. FiredInv(N)' BY FiredFrame
<1>3. \A m \in N : m \in Interior(wf) /\ Settled(m) => runs'[m] = 1
  BY DEF Inv, ExplainedInv
<1>4. EdgesInv(N)' /\ ExplainedInv(N)' BY <1>3, UnstoredEdges
<1>5. UnsettledInv(N)'
  <2>1. \A m : Returned(m)' = Returned(m) BY DEF Returned
  <2>2. QED BY <2>1 DEF Inv, UnsettledInv, Settled
<1>6. SkipInv(N)' BY DEF Inv, SkipInv, Settled
<1>7. QED BY <1>1, <1>2, <1>4, <1>5, <1>6 DEF GraphPart

\* The work of a released node ends, and it is no longer anywhere.
LEMMA StoresStep ==
  ASSUME NEW N, Good(N), NEW n \in N, n \in Released, Stores(Returned(n)), UNCHANGED <<wf, fired>>,
         \A m \in N : m \in Released' => m \in Released /\ m # n,
         runs' \in [Node -> Nat],
         \A m \in N : m # n => runs'[m] = runs[m],
         InChain(wf, n) => runs'[n] = runs[n] /\ runs[n] = 1
  PROVE  GraphPart(N)'
<1> DEFINE k == Returned(n)
<1> USE DEF Good
<1>n. /\ n \in Node /\ n \notin Interior(wf) /\ k \in Node /\ k \in N /\ In(wf, n) \subseteq fired
      /\ ~Settled(n) /\ ~Settled(k)
      /\ k \in Interior(wf) \/ k = n
      /\ \A e \in Out(wf, k) : e.dst \notin Interior(wf)
      /\ \A m \in N : m \in Released' => m # k /\ Returned(m) # k
  <2>1. n \in Node /\ n \notin Interior(wf) BY ReleasedNodes
  <2>2. In(wf, n) \subseteq fired /\ ~Settled(n) /\ ~Settled(k)
    BY <2>1 DEF Inv, FiredInv, UnsettledInv
  <2>3. /\ k \in Node /\ (k \in Interior(wf) \/ k = n)
        /\ \A e \in Out(wf, k) : e.dst \notin Interior(wf)
        /\ \A m \in Node \ Interior(wf) : Returned(m) = k => m = n
    BY <2>1, ReturnedFacts DEF TypeInv
  <2>4. \A m \in N : m \in Released' => m # k /\ Returned(m) # k BY <2>3, ReleasedNodes
  <2>5. k \in N BY <2>1, CalmFacts DEF TypeInv
  <2>6. QED BY <2>1, <2>2, <2>3, <2>4, <2>5
<1>i. /\ \A m \in N : m \in Interior(wf) /\ Settled(m) => runs'[m] = 1
      /\ k \in Interior(wf) => runs'[k] = 1
  <2>1. \A m \in N : m \in Interior(wf) => m # n /\ runs'[m] = runs[m]
    BY <1>n
  <2>2. k \in Interior(wf) => runs[k] = 1
    <3>1. SUFFICES ASSUME k \in Interior(wf) PROVE runs[k] = 1 OBVIOUS
    <3>2. InChain(wf, n) BY <3>1, <1>n, ReturnedSelf DEF TypeInv
    <3>3. PICK c \in wf.chains : c.head = n /\ k = c.tail
      BY <3>2, <1>n, ReturnedTail DEF TypeInv
    <3>4. runs[k] = runs[n] BY <3>3, ChainFacts DEF Inv, ChainsInv, TypeInv
    <3>5. QED BY <3>2, <3>4
  <2>3. QED BY <1>n, <2>1, <2>2 DEF Inv, ExplainedInv
<1>1. CountsInv(N)' BY CountsFrame, ClearCounts DEF Stores
<1>2. FiredInv(N)' BY FiredFrame
<1>3. EdgesInv(N)' /\ ExplainedInv(N)'
  <2>1. CASE UNCHANGED <<results, todo, cascade>> BY <2>1, <1>i, UnstoredEdges
  <2>2. CASE ~UNCHANGED <<results, todo, cascade>>
    <3>1. PICK r \in Result :
            /\ r # "none" /\ results' = [results EXCEPT ![k] = r]
            /\ (todo' = Out(wf, k) /\ cascade' = {}) \/ UNCHANGED <<todo, cascade>>
      BY <2>2 DEF Stores
    <3>2. QED BY <3>1, <1>n, <1>i, StoredEdges
  <2>3. QED BY <2>1, <2>2
<1>4. UnsettledInv(N)' BY <1>n, StoredUnsettled DEF Stores
<1>5. SkipInv(N)'
  <2>1. SUFFICES ASSUME NEW m \in N, results'[m] = "skipped" PROVE runs'[m] = 0
    BY DEF SkipInv
  <2>2. CASE m = k /\ results' # results
    BY <1>n, <2>1, <2>2 DEF Stores, TypeInv, TypeOK
  <2>3. CASE m # k \/ results' = results
    <3>0. m \in Node /\ results \in [Node -> Result] BY DEF Calm, TypeInv, TypeOK
    <3>1. results[m] = "skipped" BY <1>n, <2>1, <2>3, <3>0 DEF Stores
    <3>2. m # n BY <3>1, <1>n DEF Settled
    <3>3. QED BY <3>1, <3>2 DEF Inv, SkipInv
  <2>4. QED BY <2>2, <2>3
<1>6. QED BY <1>1, <1>2, <1>3, <1>4, <1>5 DEF GraphPart

\* The ends of a handler's work are of that form.
LEMMA FailureStores ==
  ASSUME NEW n, Failure(n, "loop")
  PROVE  Stores(n) /\ pc' \in {"loop", "failed"}
BY DEF Failure, Stores, StoreAndUnblock, Result, routingVars

\* So are all the outcomes of a handler that runs inside the reactor.
LEMMA SettleStores ==
  ASSUME NEW n, NEW o, Settle(n, o)
  PROVE  Stores(n) /\ pc' \in {"loop", "failed", "paused"}
<1>1. CASE Failure(n, "loop") BY <1>1, FailureStores
<1>2. CASE ~Failure(n, "loop")
  BY <1>2 DEF Settle, Stores, StoreAndUnblock, Result, routingVars
<1>3. QED BY <1>1, <1>2

-----------------------------------------------------------------------------
(* Steps *)

\* The kinds a step tells apart are not the kind of a chain member.
LEMMA KindFacts ==
  ASSUME TypeInv, NEW n \in Node, InChain(wf, n)
  PROVE  wf.kind[n] = "module"
BY ChainFacts DEF TypeInv, InChain

\* What the queues look like after a pop: nothing else moved.
LEMMA Popping ==
  ASSUME NEW N, Good(N), NEW n \in N, ready # <<>>, n = Head(ready), ready' = Tail(ready),
         UNCHANGED <<wf, keep, batch, cur, executing>>
  PROVE  /\ \A m : m \in Released' <=> m \in Released /\ m # n
         /\ \A m : m \in Waiting' <=> m \in Waiting /\ m # n
         /\ InFlight' = InFlight /\ Interior(wf)' = Interior(wf)
<1>1. InFlight' = InFlight /\ Interior(wf)' = Interior(wf) BY DEF InFlight, Interior
<1>2. QED BY <1>1, PopFacts DEF Released, Waiting

\* Starting one node outside the chains leaves the chains and the counts in order.
LEMMA StartOutside ==
  ASSUME NEW N, Good(N), NEW n \in N, ~InChain(wf, n), UNCHANGED wf, pc' # "panicked",
         \A m \in Node : m # n => runs'[m] = runs[m], runs'[n] <= 1
  PROVE  ChainsInv(N)' /\ OnceInv(N)' /\ PanicInv(N)'
<1> USE DEF Good
<1>1. \A c \in wf.chains : \A m \in c.members : m \in Node /\ m # n /\ c.head \in Node /\ c.head # n
  BY ChainFacts DEF InChain, TypeInv
<1>2. QED BY <1>1 DEF Inv, Calm, ChainsInv, OnceInv, PanicInv, NeverUnderflows

\* A node is popped and its work ends at once: skipped, or handled synchronously.
LEMMA PopStores ==
  ASSUME NEW N, Good(N), NEW n \in N, PopSkip!(n) \/ PopSync!(n)
  PROVE  Inv(N)'
<1> USE DEF Good
<1>0. n \in Node BY DEF Calm
<1>2. /\ n \in Released /\ runs[n] = 0 /\ ready # <<>> /\ n = Head(ready) /\ n # cur
      /\ Distinct(Tail(ready), N) /\ Range(ready) = Range(Tail(ready)) \cup {n}
      /\ n \notin Range(Tail(ready)) /\ n \notin Range(batch) /\ n \notin InFlight
  BY PopFacts DEF Popped
<1>1. /\ Popped(n) /\ ready' = Tail(ready) /\ Stores(n) /\ ~InChain(wf, n)
      /\ runs' = runs \/ Started({n})
      /\ pc' # "inline" /\ pc' # "panicked"
      /\ UNCHANGED <<wf, keep, batch, cur, executing, fired>>
  <2>1. CASE PopSkip!(n)
    BY <2>1, <1>2 DEF StoreAndUnblock, Stores, Result, history, Popped
  <2>2. CASE PopSync!(n)
    <3>1. ~InChain(wf, n) BY <2>2, <1>0, KindFacts
    <3>2. QED BY <2>2, <3>1, SettleStores
  <2>3. QED BY <2>1, <2>2
<1>3. /\ \A m : m \in Released' <=> m \in Released /\ m # n
      /\ \A m : m \in Waiting' <=> m \in Waiting /\ m # n
      /\ InFlight' = InFlight /\ Interior(wf)' = Interior(wf)
  BY <1>1, <1>2, Popping
<1>4. runs' \in [Node -> Nat] /\ (\A m \in Node : m # n => runs'[m] = runs[m]) /\ runs'[n] <= 1
  BY <1>0, <1>1, <1>2, StartOne
<1>4a. \A m \in N : m \in Node BY DEF Calm
<1>5. GraphPart(N)'
  <2>1. Returned(n) = n BY <1>0, <1>1, ReturnedSelf DEF TypeInv
  <2>2. QED BY <2>1, <1>1, <1>2, <1>3, <1>4, <1>4a, StoresStep
<1>6. QueuesInv(N)'
  BY <1>1, <1>2, <1>3, <1>4, <1>4a DEF Inv, QueuesInv
<1>7. WorkersInv(N)'
  BY <1>1, <1>2, <1>3, <1>4, <1>4a DEF Inv, WorkersInv, InChain
<1>8. ChainsInv(N)' /\ OnceInv(N)' /\ PanicInv(N)'
  BY <1>1, <1>4, StartOutside
<1>9. QED BY <1>5, <1>6, <1>7, <1>8 DEF Inv, GraphPart


\* A popped node becomes the one that is awaited in line.
LEMMA PopAwaits ==
  ASSUME NEW N, Good(N), NEW n \in N, PopInline!(n) \/ PopLimited!(n)
  PROVE  Inv(N)'
<1> USE DEF Good
<1>0. n \in Node BY DEF Calm
<1>1. /\ Popped(n) /\ ready' = Tail(ready) /\ cur' = n /\ pc' = "inline"
      /\ ~InChain(wf, n)
      /\ wf.kind[n] \in {"module", "handler", "agent", "gate", "confidence", "hard"}
      /\ runs' = runs \/ Started({n})
      /\ wf.kind[n] \in {"module", "handler"} => runs' = runs
      /\ UNCHANGED <<wf, keep, batch, executing, pending, results, todo, cascade, fired>>
  <2>1. CASE PopInline!(n)
    <3>1. ~InChain(wf, n) BY <2>1, <1>0, KindFacts
    <3>2. QED BY <2>1, <3>1 DEF routingVars
  <2>2. CASE PopLimited!(n) BY <2>2 DEF routingVars
  <2>3. QED BY <2>1, <2>2
<1>2. /\ n \in Released /\ runs[n] = 0 /\ ready # <<>> /\ n = Head(ready)
      /\ Distinct(Tail(ready), N) /\ Range(ready) = Range(Tail(ready)) \cup {n} /\ ~Settled(n)
      /\ n \notin Interior(wf)
      /\ n \notin Range(Tail(ready)) /\ n \notin Range(keep)
      /\ n \notin Range(batch) /\ n \notin InFlight
  BY <1>1, PopFacts DEF Popped
<1>3. /\ InFlight' = InFlight /\ Interior(wf)' = Interior(wf)
      /\ \A m : m \in Waiting' <=> m \in Waiting /\ m # n
      /\ \A m \in Released' : m \in Released
  <2>1. InFlight' = InFlight /\ Interior(wf)' = Interior(wf) BY <1>1 DEF InFlight, Interior
  <2>2. QED BY <2>1, <1>1, <1>2 DEF Released, Waiting
<1>4. /\ runs' \in [Node -> Nat] /\ (\A m \in Node : m # n => runs'[m] = runs[m]) /\ runs'[n] <= 1
  BY <1>0, <1>1, <1>2, StartOne
<1>4a. \A m \in N : m \in Node BY DEF Calm
<1>5. GraphPart(N)' BY <1>1, <1>2, <1>3, <1>4, <1>4a, MoveStep
<1>6. QueuesInv(N)' BY <1>1, <1>2, <1>3, <1>4, <1>4a DEF Inv, QueuesInv
<1>7. WorkersInv(N)' BY <1>0, <1>1, <1>2, <1>3, <1>4, <1>4a DEF Inv, WorkersInv, InChain
<1>8. ChainsInv(N)' /\ OnceInv(N)' /\ PanicInv(N)'
  BY <1>1, <1>4, StartOutside
<1>9. QED BY <1>5, <1>6, <1>7, <1>8 DEF Inv, GraphPart

\* A node becomes a future: on its own, from the queue or after the rate limiter
\* has let it through, or as the head of its chain.
LEMMA LaunchStep ==
  ASSUME NEW N, Good(N), NEW n \in N, n \in Released, NEW S \in SUBSET Node, n \in S, Launch(n), Started(S),
         runs[n] = 0, wf.kind[n] \in {"module", "handler"},
         IF InChain(wf, n) THEN S = ChainMembers(n) ELSE \A m \in S : m = n,
         Distinct(ready', N), \A m \in Range(ready') : m \in Range(ready) /\ m # n,
         n \notin Range(keep), cur' = cur \/ cur' = NoNode, n # cur', pc' = "loop",
         UNCHANGED <<wf, keep, batch, pending, results, todo, cascade, fired>>
  PROVE  Inv(N)'
<1> USE DEF Good
<1>n. n \in Node /\ n \notin Interior(wf) /\ ~Settled(n) /\ ~Settled(Returned(n)) /\ n \notin InFlight
      /\ n \notin Range(batch)
  BY ReleasedNodes DEF Inv, UnsettledInv, WorkersInv
<1>a. \A m \in N : m \in Node BY DEF Calm
<1>s. /\ \A m \in S : m # n => m \in Interior(wf) /\ m \in Node
      /\ S \subseteq N
      /\ \A m \in S : runs[m] = 0 /\ ~Settled(m) /\ wf.kind[m] \in {"module", "handler"}
      /\ \A c \in wf.chains : (c.members \subseteq S \/ c.members \cap S = {}) /\ c.head \in c.members
                               /\ c.members \subseteq Node
      /\ cur \in S => cur = n
  <2>1. CASE ~InChain(wf, n)
    <3>1. \A m \in S : m = n BY <2>1
    <3>2. \A c \in wf.chains : n \notin c.members BY <2>1 DEF InChain
    <3>3. S \subseteq N BY <3>1
    <3>4. QED BY <3>1, <3>2, <3>3, <1>n, ChainFacts DEF TypeInv
  <2>2. CASE InChain(wf, n)
    <3>1. PICK c \in wf.chains : c.head = n /\ S = c.members
      BY <2>2, <1>n, ReturnedTail DEF TypeInv
    <3>2. \A m \in S : m # n => m \in Interior(wf) /\ m \in Node BY <3>1, ChainFacts DEF TypeInv
    <3>3. \A m \in S : runs[m] = 0 /\ wf.kind[m] = "module"
      BY <3>1, ChainFacts DEF Inv, ChainsInv, TypeInv
    <3>8. S \subseteq N BY <3>1, CalmFacts, ChainFacts DEF TypeInv
    <3>4. \A m \in S : ~Settled(m) BY <3>2, <3>3, <3>8, <1>n DEF Inv, ExplainedInv
    <3>5. \A d \in wf.chains : d = c \/ d.members \cap c.members = {}
      BY ChainFacts DEF TypeInv
    <3>6. cur \in S => cur = n BY <3>1, <3>8 DEF Inv, WorkersInv, InChain
    <3>7. QED BY <3>1, <3>2, <3>3, <3>4, <3>5, <3>6, <3>8, ChainFacts DEF TypeInv
  <2>3. QED BY <2>1, <2>2
<1>e. /\ \A m \in Node : executing'[m] = IF m = n THEN 1 ELSE executing[m]
      /\ \A m : m \in InFlight' <=> m \in InFlight \/ m = n
  <2>1. executing \in [Node -> Nat] /\ executing[n] = 0 BY <1>n DEF InFlight, TypeInv, TypeOK
  <2>2. \A m \in Node : executing'[m] = IF m = n THEN 1 ELSE executing[m] BY <2>1, <1>n DEF Launch
  <2>3. QED BY <2>2, <1>n DEF InFlight
<1>r. \A m \in Node : runs'[m] = IF m \in S THEN 1 ELSE runs[m]
  BY <1>s DEF Started, TypeInv, TypeOK
<1>p. /\ \A m \in N : m \in Released' => m \in Released
      /\ \A m \in N : m \in Waiting' => m \in Waiting /\ m # n /\ m \notin S
      /\ Interior(wf)' = Interior(wf)
  <2>1. \A m \in N : m # cur' \/ m = cur BY <1>a, ReactorAssumption
  <2>2. Interior(wf)' = Interior(wf) BY DEF Interior
  <2>3. \A m \in Waiting' : m \in Waiting /\ m # n BY DEF Waiting
  <2>4. \A m \in N : m \in Waiting => m \notin Interior(wf) BY ReleasedNodes DEF Waiting, Released
  <2>5. QED BY <2>1, <2>2, <2>3, <2>4, <1>e, <1>s DEF Released
<1>5. GraphPart(N)'
  <2>1. \A m \in N \ Interior(wf) : runs'[m] > 0 => runs[m] > 0 \/ m \in Released BY <1>r, <1>s, <1>a
  <2>2. \A m \in N : Settled(m) => runs'[m] = runs[m] BY <1>r, <1>s, <1>a
  <2>3. QED BY <2>1, <2>2, <1>p, MoveStep
<1>6. QueuesInv(N)'
  <2>1. \A m \in N : m \in Waiting' => m # cur' BY <1>p, <1>a, ReactorAssumption DEF Inv, QueuesInv
  <2>2. QED BY <2>1, <1>a, <1>p, <1>r DEF Inv, QueuesInv
<1>7. WorkersInv(N)'
  <2>1. \A m \in N : m \in Range(batch) => m \notin S
    BY <1>s DEF Inv, WorkersInv
  <2>2. \A m \in N : m = cur' => m = cur /\ m \notin S BY <1>s, <1>a, ReactorAssumption
  <2>3. \A m \in N : m \in InFlight => runs'[m] = 1
    BY <1>r, <1>a DEF Inv, WorkersInv
  <2>4. QED BY <2>1, <2>2, <2>3, <1>a, <1>e, <1>r, <1>n DEF Inv, WorkersInv, InChain
<1>8. ChainsInv(N)'
  BY <1>r, <1>s DEF Inv, ChainsInv
<1>9. OnceInv(N)' /\ PanicInv(N)' BY <1>r, <1>a DEF Inv, OnceInv, PanicInv, NeverUnderflows
<1>10. QED BY <1>5, <1>6, <1>7, <1>8, <1>9 DEF Inv, GraphPart

\* A sub-workflow node joins the batch: the first, or a later one.
LEMMA BatchStep ==
  ASSUME NEW N, Good(N), PopSub \/ Drain, Head(ready) \in N
  PROVE  Inv(N)'
<1> USE DEF Good
<1> DEFINE n == Head(ready)
<1>a. \A m \in N : m \in Node BY DEF Calm
<1>1. /\ ready # <<>> /\ ready' = Tail(ready) /\ pc' = "drain"
      /\ \/ /\ wf.kind[n] = "sub" /\ Started({n}) /\ keep' = keep
            /\ batch' = <<n>> \/ batch' = Append(batch, n)
         \/ /\ wf.kind[n] # "sub" /\ keep' = Append(keep, n) /\ batch' = batch /\ runs' = runs
      /\ UNCHANGED <<wf, cur, executing, pending, results, todo, cascade, fired>>
  BY DEF PopSub, Drain, Popped, routingVars
<1>2. /\ n \in Node /\ n \in Released /\ runs[n] = 0 /\ n \notin Interior(wf) /\ ~Settled(n)
      /\ Distinct(Tail(ready), N) /\ Range(ready) = Range(Tail(ready)) \cup {n}
      /\ n \notin Range(Tail(ready)) /\ n \notin Range(keep)
      /\ n \notin Range(batch) /\ n \notin InFlight /\ n # cur
  BY <1>1, PopFacts
<1>w. InFlight' = InFlight /\ Interior(wf)' = Interior(wf) BY <1>1 DEF InFlight, Interior
<1>q. keep \in Seq(Node) /\ batch \in Seq(Node) /\ Distinct(keep, N) /\ Distinct(batch, N)
  BY DEF Inv, QueuesInv, TypeInv, TypeOK
<1>3. CASE wf.kind[n] = "sub"
  <2>1. /\ wf.kind[n] = "sub" /\ Started({n}) /\ keep' = keep
        /\ batch' = <<n>> \/ batch' = Append(batch, n)
    BY <1>1, <1>3
  <2>2. Distinct(batch', N) /\ \A m \in Range(batch') : m \in Range(batch) \/ m = n
    <3>1. CASE batch' = <<n>> BY <3>1 DEF Distinct, Range
    <3>2. CASE batch' = Append(batch, n) BY <3>2, <1>2, <1>q, PushQueue
    <3>3. QED BY <2>1, <3>1, <3>2
  <2>3. /\ \A m \in Released' : m \in Released
        /\ \A m \in Waiting' : m \in Waiting /\ m # n
    BY <1>1, <1>2, <1>w, <2>1, <2>2 DEF Released, Waiting
  <2>4. runs' \in [Node -> Nat] /\ (\A m \in Node : m # n => runs'[m] = runs[m]) /\ runs'[n] = 1
    BY <1>2, <2>1, StartOne
  <2>5. GraphPart(N)' BY <1>a, <1>1, <1>2, <2>3, <2>4, MoveStep
  <2>6. QueuesInv(N)' BY <1>a, <1>1, <1>2, <1>w, <2>1, <2>2, <2>3, <2>4 DEF Inv, QueuesInv
  <2>7. WorkersInv(N)' BY <1>a, <1>1, <1>2, <1>w, <2>1, <2>2, <2>4 DEF Inv, WorkersInv, InChain
  <2>8. ChainsInv(N)' /\ OnceInv(N)' /\ PanicInv(N)'
    <3>1. ~InChain(wf, n) BY <2>1, <1>2, KindFacts
    <3>2. QED BY <3>1, <1>1, <2>4, StartOutside
  <2>9. QED BY <2>5, <2>6, <2>7, <2>8 DEF Inv, GraphPart
<1>4. CASE wf.kind[n] # "sub"
  <2>1. keep' = Append(keep, n) /\ batch' = batch /\ runs' = runs BY <1>1, <1>4
  <2>2. Distinct(keep', N) /\ Range(keep') = Range(keep) \cup {n} BY <2>1, <1>2, <1>q, PushQueue
  <2>3. /\ \A m \in Released' : m \in Released
        /\ \A m \in Waiting' : m \in Waiting
    BY <1>1, <1>2, <1>w, <2>1, <2>2 DEF Released, Waiting
  <2>5. GraphPart(N)' BY <1>1, <1>2, <2>1, <2>3, MoveStep
  <2>6. QueuesInv(N)' BY <1>1, <1>2, <1>w, <2>1, <2>2, <2>3 DEF Inv, QueuesInv, Waiting
  <2>7. WorkersInv(N)' BY <1>1, <1>2, <1>w, <2>1 DEF Inv, WorkersInv, InChain
  <2>8. ChainsInv(N)' /\ OnceInv(N)' /\ PanicInv(N)'
    BY <1>1, <2>1 DEF Inv, ChainsInv, OnceInv, PanicInv, NeverUnderflows
  <2>9. QED BY <2>5, <2>6, <2>7, <2>8 DEF Inv, GraphPart
<1>5. QED BY <1>3, <1>4

\* The kept nodes become the queue again; the batch is awaited; the run ends.
LEMMA ControlStep ==
  ASSUME NEW N, Good(N), DrainDone \/ JoinReturns \/ Finish \/ Interrupt
  PROVE  Inv(N)'
<1> USE DEF Good
<1>1. /\ (ready' = keep /\ ready = <<>> /\ keep' = <<>>) \/ UNCHANGED <<ready, keep>>
      /\ pc' \notin {"inline", "panicked"}
      /\ UNCHANGED <<wf, batch, cur, executing, pending, results, todo, cascade, fired, runs>>
  BY DEF DrainDone, JoinReturns, Finish, Interrupt, routingVars, history
<1>2. Range(<<>>) = {} /\ Distinct(<<>>, N) BY DEF Range, Distinct
<1>3. /\ Released' = Released /\ Waiting' = Waiting
      /\ InFlight' = InFlight /\ Interior(wf)' = Interior(wf)
  <2>1. InFlight' = InFlight /\ Interior(wf)' = Interior(wf) BY <1>1 DEF InFlight, Interior
  <2>2. QED BY <1>1, <1>2, <2>1 DEF Released, Waiting
<1>4. GraphPart(N)' BY <1>1, <1>3, MoveStep
<1>5. QueuesInv(N)' BY <1>1, <1>2, <1>3 DEF Inv, QueuesInv
<1>6. WorkersInv(N)' /\ ChainsInv(N)' /\ OnceInv(N)' /\ PanicInv(N)'
  BY <1>1, <1>3 DEF Inv, WorkersInv, InChain, ChainsInv, OnceInv, PanicInv, NeverUnderflows
<1>7. QED BY <1>4, <1>5, <1>6 DEF Inv, GraphPart

\* The work of a released node ends: its in-line handler, its place in the
\* batch, or its future.
LEMMA EndStep ==
  ASSUME NEW N, Good(N), NEW n \in N, n \in Released, n \notin Waiting, Stores(Returned(n)),
         InChain(wf, n) => runs[n] = 1,
         \/ n = cur /\ n \notin Range(batch) /\ n \notin InFlight /\ cur' = NoNode
              /\ UNCHANGED <<batch, executing>>
         \/ n # cur /\ batch # <<>> /\ n = Head(batch) /\ n \notin InFlight /\ batch' = Tail(batch)
              /\ UNCHANGED <<cur, executing>>
         \/ n # cur /\ n \notin Range(batch) /\ executing' = [executing EXCEPT ![n] = @ - 1]
              /\ UNCHANGED <<cur, batch>>,
         pc' \notin {"inline", "panicked"},
         UNCHANGED <<wf, ready, keep, fired, runs>>
  PROVE  Inv(N)'
<1> USE DEF Good
<1>n. n \in Node /\ \A m \in N : m \in Node BY DEF Calm
<1>e. /\ executing \in [Node -> Nat]
      /\ \A m \in N : executing[m] <= 1
      /\ \A m \in N : executing'[m] <= 1
      /\ \A m \in InFlight' : m \in InFlight
      /\ n \notin InFlight \/ executing' = [executing EXCEPT ![n] = @ - 1] => n \notin InFlight'
  <2>1. executing \in [Node -> Nat] /\ \A m \in N : executing[m] <= 1
    BY DEF Inv, WorkersInv, TypeInv, TypeOK
  <2>2. CASE executing' = executing BY <2>1, <2>2, <1>n DEF InFlight
  <2>3. CASE executing' = [executing EXCEPT ![n] = @ - 1]
    <3>1. n \in InFlight \/ n \notin InFlight OBVIOUS
    <3>2. \A m \in Node : m # n => executing'[m] = executing[m] BY <2>1, <2>3, <1>n
    <3>3. executing'[n] = executing[n] - 1 BY <2>1, <2>3, <1>n
    <3>4. executing[n] \in {0, 1} BY <2>1, <1>n
    <3>5. executing'[n] <= 0 BY <3>3, <3>4
    <3>6. n \notin InFlight' BY <3>3, <3>4 DEF InFlight
    <3>7. \A m \in N : executing'[m] <= 1 BY <2>1, <3>2, <3>5, <1>n
    <3>8. \A m \in InFlight' : m \in InFlight BY <3>2, <3>6 DEF InFlight
    <3>9. QED BY <2>1, <3>6, <3>7, <3>8
  <2>4. QED BY <2>1, <2>2, <2>3
<1>b. /\ Distinct(batch', N) /\ \A m \in Range(batch') : m \in Range(batch) /\ m # n
  <2>1. batch \in Seq(Node) /\ Distinct(batch, N) BY DEF Inv, QueuesInv, TypeInv, TypeOK
  <2>2. CASE batch' = batch /\ n \notin Range(batch) BY <2>1, <2>2
  <2>3. CASE batch # <<>> /\ n = Head(batch) /\ batch' = Tail(batch) BY <2>1, <2>3, PopQueue
  <2>4. QED BY <2>2, <2>3
<1>p. /\ \A m \in Released' : m \in Released /\ m # n
      /\ Waiting' = Waiting /\ Interior(wf)' = Interior(wf)
      /\ \A m \in Node : m = cur' => m = cur
  <2>1. \A m \in Node : m = cur' => m = cur /\ m # n BY ReactorAssumption
  <2>2. Waiting' = Waiting /\ Interior(wf)' = Interior(wf) BY DEF Waiting, Interior
  <2>3. n \notin InFlight' BY <1>e
  <2>4. n \notin Range(ready) /\ n \notin Range(keep) BY DEF Waiting
  <2>5. QED BY <2>1, <2>2, <2>3, <2>4, <1>e, <1>b DEF Released
<1>1. GraphPart(N)'
  <2>1. runs' \in [Node -> Nat] BY DEF TypeInv, TypeOK
  <2>2. QED BY <2>1, <1>p, StoresStep
<1>2. QueuesInv(N)'
  <2>1. \A m \in N : m \in Waiting => m # cur' BY <1>n, <1>p DEF Inv, QueuesInv
  <2>2. QED BY <2>1, <1>b, <1>p DEF Inv, QueuesInv
<1>3. WorkersInv(N)' BY <1>e, <1>b, <1>n, <1>p DEF Inv, WorkersInv, InChain
<1>4. ChainsInv(N)' /\ OnceInv(N)' /\ PanicInv(N)'
  BY DEF Inv, ChainsInv, OnceInv, PanicInv, NeverUnderflows
<1>5. QED BY <1>1, <1>2, <1>3, <1>4 DEF Inv, GraphPart

-----------------------------------------------------------------------------
(* Steps about a node outside the calm set *)

\* What a calm set sees of such a step: its nodes stay where they are or leave a
\* queue, and its edges fire only into nodes outside of it.
Away(N) ==
  /\ wf' = wf /\ N # Node
  /\ \A m \in N :
       /\ results'[m] = results[m] /\ runs'[m] = runs[m]
       /\ pending'[m] = pending[m] /\ executing'[m] = executing[m]
       /\ m = cur' => m = cur
       /\ m \in Range(ready') => m \in Range(ready)
       /\ m \in Range(keep') => m \in Range(keep)
       /\ m \in Range(batch') => m \in Range(batch)
  /\ Distinct(ready', N) /\ Distinct(keep', N) /\ Distinct(batch', N)
  /\ pc' = "inline" => cur' \in Node
  /\ \A e \in wf.edges : e.src \in N =>
       /\ e \in fired => e \in fired'
       /\ e \in fired' => e \in fired \/ (e \in todo \cup cascade /\ e.dst \notin N)
       /\ e \in todo' => e \in todo /\ e \notin fired'
       /\ e \in cascade' => e \in cascade /\ e \notin fired'

\* Such a step keeps the invariant of the set.
LEMMA AwayStep ==
  ASSUME NEW N, Good(N), Away(N)
  PROVE  Inv(N)'
<1> USE DEF Good
<1>n. /\ \A m \in N : m \in Node /\ \A e \in In(wf, m) : e \in wf.edges /\ e.src \in N /\ e.dst = m
      /\ \A m \in N : m \in Node /\ Returned(m) \in N
      /\ \A c \in wf.chains : c.head \in N => c.members \subseteq N
  BY CalmFacts, ChainFacts DEF TypeInv, In
<1>w. /\ wf' = wf /\ Interior(wf)' = Interior(wf)
      /\ \A m : In(wf, m)' = In(wf, m) /\ Returned(m)' = Returned(m) /\ InChain(wf, m)' = InChain(wf, m)
  BY DEF Away, Interior, In, Returned, InChain
<1>p. \A m \in N : /\ m \in InFlight' <=> m \in InFlight
                   /\ m \in Waiting' => m \in Waiting
                   /\ m \in Released' => m \in Released
                   /\ Settled(m)' <=> Settled(m)
  BY <1>n DEF Away, InFlight, Waiting, Released, Settled
<1>f. \A m \in N : In(wf, m) \cap fired' = In(wf, m) \cap fired
  BY <1>n DEF Away
<1>1. CountsInv(N)'
  <2>1. \A m \in N : In(wf, m) \ fired' = In(wf, m) \ fired BY <1>f
  <2>2. QED BY <2>1, <1>w DEF Away, Inv, CountsInv
<1>2. FiredInv(N)' BY <1>f, <1>w, <1>p DEF Away, Inv, FiredInv
<1>3. EdgesInv(N)' BY <1>w, <1>p DEF Away, Inv, EdgesInv
<1>4. UnsettledInv(N)' BY <1>n, <1>w, <1>p DEF Inv, UnsettledInv
<1>5. ExplainedInv(N)'
  <2>1. \A m \in N : \A e \in In(wf, m) : Dead(e) => Dead(e)' BY <1>n, <1>p DEF Away, Dead
  <2>2. \A m \in N : results'[m] = results[m] /\ runs'[m] = runs[m] BY DEF Away
  <2>3. QED BY <2>1, <2>2, <1>f, <1>w, <1>p DEF Inv, ExplainedInv
<1>6. QueuesInv(N)' BY <1>w, <1>p DEF Away, Inv, QueuesInv
<1>7. WorkersInv(N)' BY <1>w, <1>p DEF Away, Inv, WorkersInv
<1>8. ChainsInv(N)'
  <2>1. \A c \in wf.chains : c.head \in N => \A m \in c.members : m \in N BY <1>n
  <2>2. \A m \in N : runs'[m] = runs[m] BY DEF Away
  <2>3. QED BY <2>1, <2>2, <1>w DEF Inv, ChainsInv
<1>9. OnceInv(N)' /\ SkipInv(N)' /\ PanicInv(N)' BY DEF Away, Inv, OnceInv, SkipInv, PanicInv
<1>10. QED BY <1>1, <1>2, <1>3, <1>4, <1>5, <1>6, <1>7, <1>8, <1>9 DEF Inv

\* A result may be stored for the node, its chain cleared, its edges taken up.
Puts(k) ==
  /\ pending' = pending \/ ClearChain(k)
  /\ \/ UNCHANGED <<results, todo, cascade>>
     \/ \E r :
          /\ results' = [results EXCEPT ![k] = r]
          /\ (todo' = Out(wf, k) /\ cascade' = {}) \/ UNCHANGED <<todo, cascade>>

\* That says nothing of the nodes of the set.
LEMMA AwayStores ==
  ASSUME NEW N, Good(N), NEW k \in Node, k \notin N, Puts(k)
  PROVE  /\ \A m \in N : results'[m] = results[m] /\ pending'[m] = pending[m]
         /\ \A e \in wf.edges : e.src \in N =>
              /\ e \in todo' => e \in todo /\ e \notin fired
              /\ e \in cascade' => e \in cascade /\ e \notin fired
<1> USE DEF Good
<1>0. ChainMembers(k) \cap N = {} BY CalmFacts DEF TypeInv
<1>1. \A m \in N : pending'[m] = pending[m] BY <1>0 DEF Puts, ClearChain, Calm
<1>a. results \in [Node -> Result] /\ N \subseteq Node BY DEF Calm, TypeInv, TypeOK
<1>2. \A m \in N : results'[m] = results[m] BY <1>a DEF Puts
<1>3. \A e \in Out(wf, k) : e.src = k BY DEF Out
<1>4. QED BY <1>1, <1>2, <1>3 DEF Puts, Inv, EdgesInv

\* Such a node is popped, and its work starts, or ends at once.
LEMMA AwayPop ==
  ASSUME NEW N, Good(N), NEW n \in Node, n \notin N,
         \/ PopChain!(n) \/ PopSkip!(n) \/ PopSync!(n) \/ PopInline!(n)
         \/ PopModule!(n) \/ PopLimited!(n) \/ PopSub!(n)
  PROVE  Inv(N)'
<1> USE DEF Good
<1>n. /\ \A m \in N : m \in Node /\ m # n /\ m \notin ChainMembers(n)
      /\ n \notin Interior(wf) \/ InChain(wf, n)
  BY CalmFacts, ChainFacts DEF TypeInv, InChain, Interior
<1>q. /\ ready # <<>> /\ n = Head(ready) /\ ready' = Tail(ready) /\ pc = "loop"
      /\ wf' = wf /\ keep' = keep /\ fired' = fired
      /\ cur' = cur \/ cur' = n
      /\ pc' = "inline" => cur' = n
  BY SettleStores DEF Popped, history
<1>r. /\ Distinct(ready', N) /\ Distinct(keep', N)
      /\ \A m \in Range(ready') : m \in Range(ready)
  BY <1>q, PopQueue DEF TypeInv, TypeOK, Inv, QueuesInv
<1>b. Distinct(batch', N) /\ \A m \in N : m \in Range(batch') => m \in Range(batch)
  <2>1. CASE batch' = batch BY <2>1 DEF Inv, QueuesInv
  <2>2. CASE batch' = <<n>> BY <2>2, <1>n DEF Distinct, Range
  <2>3. QED BY <2>1, <2>2
<1>s. \A m \in N : runs'[m] = runs[m] /\ executing'[m] = executing[m]
  BY <1>n DEF Started, Launch, history, TypeInv, TypeOK
<1>k. Puts(n)
  <2>1. CASE PopSkip!(n) BY <2>1 DEF StoreAndUnblock, Puts
  <2>2. CASE PopSync!(n) BY <2>2, SettleStores DEF Stores, Puts
  <2>3. CASE PopChain!(n) \/ PopInline!(n) \/ PopModule!(n) \/ PopLimited!(n) \/ PopSub!(n)
    BY <2>3 DEF routingVars, Puts
  <2>4. QED BY <2>1, <2>2, <2>3
<1>e. /\ \A m \in N : results'[m] = results[m] /\ pending'[m] = pending[m]
      /\ \A e \in wf.edges : e.src \in N =>
           /\ e \in todo' => e \in todo /\ e \notin fired
           /\ e \in cascade' => e \in cascade /\ e \notin fired
  BY <1>k, AwayStores
<1>1. Away(N) BY <1>n, <1>q, <1>r, <1>b, <1>s, <1>e DEF Away
<1>2. QED BY <1>1, AwayStep

\* Such a node is put in the batch, or back in the queue.
LEMMA AwayDrain ==
  ASSUME NEW N, Good(N), Drain, Head(ready) \notin N
  PROVE  Inv(N)'
<1> USE DEF Good
<1> DEFINE n == Head(ready)
<1>n. n \in Node /\ Tail(ready) \in Seq(Node) /\ \A m \in N : m \in Node /\ m # n
  BY TailType DEF Drain, Calm
<1>q. /\ ready # <<>> /\ ready' = Tail(ready) /\ pc' = "drain"
      /\ \/ keep' = Append(keep, n) /\ batch' = batch /\ runs' = runs
         \/ keep' = keep /\ batch' = Append(batch, n) /\ Started({n})
      /\ UNCHANGED <<wf, cur, executing, pending, results, todo, cascade, fired>>
  BY DEF Drain, routingVars
<1>r. /\ Distinct(ready', N) /\ \A m \in Range(ready') : m \in Range(ready)
  BY <1>q, PopQueue DEF TypeInv, TypeOK, Inv, QueuesInv
<1>b. /\ Distinct(keep', N) /\ Distinct(batch', N)
      /\ \A m \in N : m \in Range(keep') => m \in Range(keep)
      /\ \A m \in N : m \in Range(batch') => m \in Range(batch)
  <2>1. keep \in Seq(Node) /\ batch \in Seq(Node) /\ Distinct(keep, N) /\ Distinct(batch, N)
    BY DEF TypeInv, TypeOK, Inv, QueuesInv
  <2>2. /\ Range(Append(keep, n)) = Range(keep) \cup {n} /\ Distinct(Append(keep, n), N)
        /\ Range(Append(batch, n)) = Range(batch) \cup {n} /\ Distinct(Append(batch, n), N)
    BY <2>1, <1>n, PushQueue
  <2>3. n \notin N OBVIOUS
  <2>4. CASE keep' = Append(keep, n) /\ batch' = batch BY <2>1, <2>2, <2>3, <2>4
  <2>5. CASE keep' = keep /\ batch' = Append(batch, n) BY <2>1, <2>2, <2>3, <2>5
  <2>6. QED BY <1>q, <2>4, <2>5
<1>s. \A m \in N : runs'[m] = runs[m] BY <1>n, <1>q DEF Started, TypeInv, TypeOK
<1>1. Away(N) BY <1>n, <1>q, <1>r, <1>b, <1>s DEF Away, Inv, EdgesInv
<1>2. QED BY <1>1, AwayStep

\* The work of such a node ends, or starts after the rate limiter let it through.
LEMMA AwayEnd ==
  ASSUME NEW N, Good(N), NEW n \in Node, n \notin N,
         NEW k \in Node, k \notin N, Puts(k), pc' # "inline", cur' = cur \/ cur' = NoNode,
         batch' = batch \/ (batch # <<>> /\ batch' = Tail(batch)),
         executing' = executing \/ executing' = [executing EXCEPT ![n] = @ - 1] \/ Launch(n),
         runs' = runs \/ Started({n}),
         UNCHANGED <<wf, ready, keep, fired>>
  PROVE  Inv(N)'
<1> USE DEF Good
<1>n. \A m \in N : m \in Node /\ m # n /\ m # NoNode
  BY ReactorAssumption DEF Calm
<1>b. Distinct(batch', N) /\ \A m \in Range(batch') : m \in Range(batch)
  <2>1. batch \in Seq(Node) /\ Distinct(batch, N) BY DEF TypeInv, TypeOK, Inv, QueuesInv
  <2>2. CASE batch' = batch BY <2>1, <2>2
  <2>3. CASE batch # <<>> /\ batch' = Tail(batch) BY <2>1, <2>3, PopQueue
  <2>4. QED BY <2>2, <2>3
<1>s. \A m \in N : runs'[m] = runs[m] /\ executing'[m] = executing[m]
  BY <1>n DEF Started, Launch, TypeInv, TypeOK
<1>e. /\ \A m \in N : results'[m] = results[m] /\ pending'[m] = pending[m]
      /\ \A e \in wf.edges : e.src \in N =>
           /\ e \in todo' => e \in todo /\ e \notin fired
           /\ e \in cascade' => e \in cascade /\ e \notin fired
  BY AwayStores
<1>1. Away(N) BY <1>n, <1>b, <1>s, <1>e DEF Away, Inv, QueuesInv
<1>2. QED BY <1>1, AwayStep

\* A loop visits an edge into such a node.
LEMMA AwayLoop ==
  ASSUME NEW N, Good(N), NEW e \in todo \cup cascade, e.dst \notin N,
         \A m \in Node : m # e.dst => pending'[m] = pending[m] /\ results'[m] = results[m],
         ready' = ready \/ ready' = Append(ready, e.dst),
         fired' = fired \/ fired' = fired \cup {e},
         \/ todo' = todo \ {e} /\ e \in todo /\ (cascade' = cascade \/ cascade' = Out(wf, e.dst))
         \/ todo' = todo /\ e \in cascade /\ cascade' = cascade \ {e},
         UNCHANGED <<wf, pc, keep, batch, cur, executing, runs>>
  PROVE  Inv(N)'
<1> USE DEF Good
<1>n. /\ e.dst \in Node /\ e \in wf.edges /\ \A m \in N : m \in Node /\ m # e.dst
      /\ N # Node
  BY EdgeFacts DEF Calm
<1>q. Distinct(ready', N) /\ \A m \in N : m \in Range(ready') => m \in Range(ready)
  <2>1. ready \in Seq(Node) /\ Distinct(ready, N) BY DEF TypeInv, TypeOK, Inv, QueuesInv
  <2>2. Range(Append(ready, e.dst)) = Range(ready) \cup {e.dst} /\ Distinct(Append(ready, e.dst), N)
    BY <2>1, <1>n, PushQueue
  <2>3. CASE ready' = ready BY <2>1, <2>3
  <2>4. CASE ready' = Append(ready, e.dst) BY <2>2, <2>4
  <2>5. QED BY <2>3, <2>4
<1>e. \A f \in wf.edges : f.src \in N =>
        /\ f \in todo' => f \in todo /\ f \notin fired'
        /\ f \in cascade' => f \in cascade /\ f \notin fired'
  <2>1. \A f \in Out(wf, e.dst) : f.src = e.dst BY DEF Out
  <2>2. QED BY <2>1, <1>n DEF Inv, EdgesInv
<1>1. Away(N) BY <1>n, <1>q, <1>e DEF Away, Inv, QueuesInv, WorkersInv
<1>2. QED BY <1>1, AwayStep

\* A panic at an edge into such a node drops the loop.
LEMMA AwayPanic ==
  ASSUME NEW N, Good(N), NEW e \in todo, e.dst \notin N, RoutePanics
  PROVE  Inv(N)'
<1> USE DEF Good
<1>n. e.dst \in Node /\ \A m \in N : m \in Node BY EdgeFacts DEF Calm
<1>1. Away(N) BY <1>n DEF RoutePanics, history, Away, Inv, QueuesInv, EdgesInv
<1>2. QED BY <1>1, AwayStep

-----------------------------------------------------------------------------
(* The invariant *)

\* What a run starts with: the roots in the queue, and nothing anywhere else.
LEMMA InitFacts ==
  ASSUME Init
  PROVE  /\ Released = Range(ready) /\ Waiting = Range(ready) /\ InFlight = {}
         /\ \A n \in Node \ wf.seed : pending[n] = Cardinality(In(wf, n) \ fired)
         /\ \A n \in Range(ready) :
              n \in Node /\ n \notin wf.seed /\ In(wf, n) \subseteq fired /\ n \notin Interior(wf)
<1>t. TypeInv /\ wf \in Workflow BY InitType DEF TypeInv
<1>i. /\ keep = <<>> /\ batch = <<>> /\ cur = NoNode /\ executing = [n \in Node |-> 0]
      /\ pending = InitialPending(wf) /\ fired = { e \in wf.edges : e.src \in wf.seed }
      /\ \A n \in Range(ready) : n \in Roots(wf)
  BY DEF Init, Injection, Range
<1>p. Released = Range(ready) /\ Waiting = Range(ready) /\ InFlight = {}
  <2>1. Range(<<>>) = {} BY DEF Range
  <2>2. InFlight = {} BY <1>i DEF InFlight
  <2>3. QED BY <1>i, <2>1, <2>2, ReactorAssumption DEF Released, Waiting
<1>c. \A n \in Node \ wf.seed : pending[n] = Cardinality(In(wf, n) \ fired)
  <2>1. SUFFICES ASSUME NEW n \in Node \ wf.seed
                 PROVE  pending[n] = Cardinality(In(wf, n) \ fired)
    OBVIOUS
  <2>2. In(wf, n) \ fired = { e \in In(wf, n) : e.src \notin wf.seed } BY <1>i DEF In
  <2>3. QED BY <2>2, <1>i DEF InitialPending
<1>o. \A n \in Roots(wf) : n \in Node /\ n \notin wf.seed /\ In(wf, n) \subseteq fired /\ n \notin Interior(wf)
  <2>1. SUFFICES ASSUME NEW n \in Roots(wf)
                 PROVE  n \in Node /\ n \notin wf.seed /\ In(wf, n) \subseteq fired /\ n \notin Interior(wf)
    OBVIOUS
  <2>2. n \in Node /\ n \notin wf.seed /\ pending[n] = 0 BY <1>i DEF Roots
  <2>3. IsFiniteSet(In(wf, n) \ fired) BY <1>t, SubsetFacts, EdgeFacts
  <2>4. In(wf, n) \ fired = {} BY <2>2, <2>3, <1>c, FS_EmptySet
  <2>5. n \notin Interior(wf)
    <3>1. SUFFICES ASSUME n \in Interior(wf) PROVE FALSE OBVIOUS
    <3>2. wf.seed = {} /\ In(wf, n) # {} BY <3>1, <1>t, ChainFacts DEF InChain
    <3>3. QED BY <3>2, <2>4, <1>i
  <2>6. QED BY <2>2, <2>4, <2>5
<1>1. QED BY <1>i, <1>p, <1>c, <1>o

\* A run starts in the invariant: the roots are released, the seeds settled.
LEMMA InitInv ==
  ASSUME NEW N, Init, Calm(wf, N)
  PROVE  Inv(N)
<1>n. N \subseteq Node BY DEF Calm
<1>t. TypeInv BY InitType
<1>w. wf \in Workflow BY DEF Init
<1>i. /\ keep = <<>> /\ batch = <<>> /\ cur = NoNode /\ pc = "loop"
      /\ executing = [n \in Node |-> 0] /\ runs = [n \in Node |-> 0]
      /\ todo = {} /\ cascade = {}
      /\ results = [n \in Node |-> IF n \in wf.seed THEN "seed" ELSE "none"]
      /\ fired = { e \in wf.edges : e.src \in wf.seed }
  BY DEF Init
<1>r. Distinct(ready, N) BY DEF Init, Injection, IsInjective, Distinct
<1>s. \A n \in Node : Settled(n) <=> n \in wf.seed BY <1>i DEF Settled
<1>p. Released = Range(ready) /\ Waiting = Range(ready) /\ InFlight = {} BY InitFacts
<1>c. \A n \in Node \ wf.seed : pending[n] = Cardinality(In(wf, n) \ fired) BY InitFacts
<1>o. \A n \in Range(ready) :
        n \in Node /\ n \notin wf.seed /\ In(wf, n) \subseteq fired /\ n \notin Interior(wf)
  BY InitFacts
<1>1. CountsInv(N) BY <1>c, <1>n DEF CountsInv
<1>2. FiredInv(N)
  <2>1. \A n \in N : n \in wf.seed => In(wf, n) \subseteq fired BY <1>i DEF Calm, In
  <2>2. QED BY <2>1, <1>n, <1>i, <1>r, <1>p, <1>o DEF FiredInv
<1>3. EdgesInv(N) BY <1>i, <1>s, <1>t, EdgeFacts DEF EdgesInv
<1>4. UnsettledInv(N)
  <2>1. ASSUME NEW n \in Released PROVE ~Settled(n) /\ ~Settled(Returned(n))
    <3>1. n \in Node /\ n \notin wf.seed /\ n \notin Interior(wf) BY <1>p, <1>r, <1>o
    <3>2. CASE ~InChain(wf, n) BY <3>1, <3>2, <1>w, <1>s, ReturnedSelf
    <3>3. CASE InChain(wf, n)
      <4>1. wf.seed = {} BY <3>3, <1>w, ChainFacts DEF InChain
      <4>2. Returned(n) \in Node BY <3>1, <1>w, ReturnedFacts
      <4>3. QED BY <4>1, <4>2, <3>1, <1>s
    <3>4. QED BY <3>2, <3>3
  <2>2. QED BY <2>1 DEF UnsettledInv
<1>5. ExplainedInv(N)
  <2>1. \A n \in N : n \in wf.seed => In(wf, n) \subseteq fired BY <1>i DEF Calm, In
  <2>2. \A n \in Interior(wf) : n \in Node /\ n \notin wf.seed BY <1>w, ChainFacts DEF InChain
  <2>3. QED BY <2>1, <2>2, <1>n, <1>s DEF ExplainedInv
<1>6. QueuesInv(N)
  <2>1. Distinct(<<>>, N) /\ Range(<<>>) = {} BY DEF Distinct, Range
  <2>2. QED BY <2>1, <1>n, <1>i, <1>r, <1>p, <1>o, ReactorAssumption DEF QueuesInv
<1>7. WorkersInv(N)
  <2>1. Range(<<>>) = {} BY DEF Range
  <2>2. QED BY <2>1, <1>n, <1>i, <1>p, ReactorAssumption DEF WorkersInv
<1>8. ChainsInv(N) BY <1>i, <1>w, ChainFacts DEF ChainsInv
<1>9. OnceInv(N) /\ SkipInv(N) /\ PanicInv(N)
  BY <1>i, <1>n DEF OnceInv, SkipInv, PanicInv, NeverUnderflows
<1>10. QED BY <1>1, <1>2, <1>3, <1>4, <1>5, <1>6, <1>7, <1>8, <1>9 DEF Inv

\* Every step keeps the invariant of a calm set: by what it does to a node of the
\* set, or because its node is outside.
LEMMA NextInv ==
  ASSUME NEW N, Good(N), [Next]_vars
  PROVE  Inv(N)'
<1> USE DEF Good
<1>a. \A m \in N : m \in Node BY DEF Calm
<1>1. CASE PopChain
  <2>1. PICK n \in Node : PopChain!(n) BY <1>1 DEF PopChain
  <2>2. SUFFICES ASSUME n \in N PROVE Inv(N)' BY <2>1, AwayPop
  <2>3. /\ n \in Released /\ n \notin Interior(wf) /\ runs[n] = 0
        /\ Distinct(Tail(ready), N) /\ Range(ready) = Range(Tail(ready)) \cup {n}
        /\ n \notin Range(Tail(ready)) /\ n \notin Range(keep) /\ n # cur
    BY <2>1, <2>2, PopFacts DEF Popped
  <2>4. Launch(n) /\ Started(ChainMembers(n)) /\ InChain(wf, n) BY <2>1, <2>3
  <2>5. n \in ChainMembers(n) /\ ChainMembers(n) \subseteq Node
    BY <2>1, <2>3, <2>4, ReturnedTail, ChainFacts DEF TypeInv
  <2>6. wf.kind[n] = "module" BY <2>4, KindFacts
  <2>7. QED BY <2>1, <2>2, <2>3, <2>4, <2>5, <2>6, LaunchStep DEF Popped, routingVars
<1>2. CASE PopSkip
  <2>1. PICK n \in Node : PopSkip!(n) BY <1>2 DEF PopSkip
  <2>2. QED BY <2>1, PopStores, AwayPop
<1>3. CASE PopSync
  <2>1. PICK n \in Node : PopSync!(n) BY <1>3 DEF PopSync
  <2>2. QED BY <2>1, PopStores, AwayPop
<1>4. CASE PopInline
  <2>1. PICK n \in Node : PopInline!(n) BY <1>4 DEF PopInline
  <2>2. QED BY <2>1, PopAwaits, AwayPop
<1>5. CASE PopLimited
  <2>1. PICK n \in Node : PopLimited!(n) BY <1>5 DEF PopLimited
  <2>2. QED BY <2>1, PopAwaits, AwayPop
<1>6. CASE PopModule
  <2>1. PICK n \in Node : PopModule!(n) BY <1>6 DEF PopModule
  <2>o. SUFFICES ASSUME n \in N PROVE Inv(N)' BY <2>1, AwayPop
  <2>2. /\ n \in Released /\ n \notin Interior(wf) /\ runs[n] = 0
        /\ Distinct(Tail(ready), N) /\ Range(ready) = Range(Tail(ready)) \cup {n}
        /\ n \notin Range(Tail(ready)) /\ n \notin Range(keep) /\ n # cur
    BY <2>1, <2>o, PopFacts DEF Popped
  <2>s. PICK S : S = {n} OBVIOUS
  <2>3. S \in SUBSET Node /\ n \in S /\ \A m \in S : m = n BY <2>s
  <2>4. /\ ready' = Tail(ready) /\ Launch(n) /\ Started(S) /\ pc' = "loop" /\ cur' = cur
        /\ wf.kind[n] \in {"module", "handler"} /\ ~InChain(wf, n)
        /\ UNCHANGED <<wf, keep, batch, pending, results, todo, cascade, fired>>
        /\ Distinct(ready', N) /\ \A m \in Range(ready') : m \in Range(ready) /\ m # n
    BY <2>1, <2>2, <2>s DEF Popped, routingVars
  <2>5. QED BY <2>o, <2>2, <2>3, <2>4, LaunchStep
<1>7. CASE PopSub
  <2>1. PICK n \in Node : PopSub!(n) BY <1>7 DEF PopSub
  <2>2. QED BY <2>1, <1>7, BatchStep, AwayPop DEF Popped
<1>8. CASE Drain BY <1>8, BatchStep, AwayDrain
<1>9. CASE DrainDone \/ JoinReturns \/ Finish \/ Interrupt BY <1>9, ControlStep
<1>10. CASE RateLimitAllows
  <2>0. cur \in Node BY <1>10 DEF RateLimitAllows, Inv, WorkersInv
  <2>o. CASE cur \notin N
    <3>1. Puts(cur) BY <1>10 DEF RateLimitAllows, routingVars, Puts
    <3>2. QED BY <3>1, <2>0, <2>o, <1>10, AwayEnd DEF RateLimitAllows
  <2>i. CASE cur \in N
    <3>1. /\ cur \in Released /\ runs[cur] = 0 /\ ~InChain(wf, cur)
          /\ cur \notin Range(keep) /\ cur \notin Range(ready) /\ Distinct(ready, N)
      BY <1>10, <2>i, <2>0 DEF RateLimitAllows, Inv, WorkersInv, QueuesInv, Waiting, Released
    <3>2. cur # NoNode BY <2>0, ReactorAssumption
    <3>s. PICK S : S = {cur} OBVIOUS
    <3>3. S \in SUBSET Node /\ cur \in S /\ \A m \in S : m = cur BY <2>0, <3>s
    <3>4. /\ ready' = ready /\ Launch(cur) /\ Started(S) /\ pc' = "loop" /\ cur' = NoNode
          /\ wf.kind[cur] \in {"module", "handler"}
          /\ UNCHANGED <<wf, keep, batch, pending, results, todo, cascade, fired>>
          /\ Distinct(ready', N) /\ \A m \in Range(ready') : m \in Range(ready) /\ m # cur
      BY <1>10, <3>1, <3>s DEF RateLimitAllows, routingVars
    <3>5. QED BY <2>i, <3>1, <3>2, <3>3, <3>4, LaunchStep
  <2>1. QED BY <2>o, <2>i
<1>11. CASE InlineReturns \/ RateLimitRefuses
  <2>1. pc = "inline" /\ cur' = NoNode
        /\ UNCHANGED <<wf, ready, keep, batch, executing, fired, runs>>
    BY <1>11 DEF InlineReturns, RateLimitRefuses, history
  <2>2. cur \in Node BY <2>1 DEF Inv, WorkersInv
  <2>3. Stores(cur) /\ pc' \notin {"inline", "panicked"}
    <3>1. CASE InlineReturns BY <3>1, SettleStores DEF InlineReturns
    <3>2. CASE RateLimitRefuses
      BY <3>2 DEF RateLimitRefuses, StoreAndUnblock, Stores, Result
    <3>3. QED BY <1>11, <3>1, <3>2
  <2>o. CASE cur \notin N
    <3>1. Puts(cur) BY <2>3 DEF Stores, Puts
    <3>2. QED BY <3>1, <2>o, <2>1, <2>2, <2>3, AwayEnd
  <2>i. CASE cur \in N
    <3>3. ~InChain(wf, cur) BY <2>i DEF Inv, WorkersInv
    <3>r. Returned(cur) = cur BY <2>2, <3>3, ReturnedSelf DEF TypeInv
    <3>4. cur \in Released /\ cur \notin Waiting /\ cur \notin Range(batch)
      BY <2>i, <2>2 DEF Inv, WorkersInv, QueuesInv, Released
    <3>5. cur \notin InFlight
      <4>1. CASE InlineReturns
        <5>1. wf.kind[cur] \notin {"module", "handler"}
          BY <4>1 DEF InlineReturns, Outcomes
        <5>2. QED BY <5>1, <2>i DEF Inv, WorkersInv
      <4>2. CASE RateLimitRefuses
        BY <4>2, <2>i DEF RateLimitRefuses, Inv, WorkersInv
      <4>3. QED BY <1>11, <4>1, <4>2
    <3>6. QED BY <2>i, <2>1, <2>3, <3>3, <3>r, <3>4, <3>5, EndStep
  <2>7. QED BY <2>o, <2>i
<1>12. CASE StoreNext
  <2>1. /\ batch # <<>> /\ StoreAndUnblock(Head(batch), "output") /\ batch' = Tail(batch)
        /\ pc' \notin {"inline", "panicked"}
        /\ UNCHANGED <<wf, ready, keep, cur, executing, fired, runs>>
    BY <1>12 DEF StoreNext, history
  <2> DEFINE n == Head(batch)
  <2>2. n \in Node /\ n \in Range(batch)
    BY <2>1, PopQueue DEF Inv, QueuesInv, TypeInv, TypeOK
  <2>o. CASE n \notin N
    <3>1. Puts(n) BY <2>1 DEF StoreAndUnblock, Puts
    <3>2. QED BY <3>1, <2>o, <2>1, <2>2, AwayEnd
  <2>i. CASE n \in N
    <3>3. n \in Released /\ wf.kind[n] = "sub" /\ runs[n] = 1
      BY <2>2, <2>i DEF Released, Inv, WorkersInv
    <3>4. n # cur /\ n \notin InFlight /\ n \notin Waiting
      BY <2>2, <2>i, <3>3 DEF Inv, WorkersInv, QueuesInv
    <3>5. Returned(n) = n
      BY <2>2, <3>3, KindFacts, ReturnedSelf DEF TypeInv
    <3>6. Stores(n) BY <2>1 DEF StoreAndUnblock, Stores, Result
    <3>7. QED BY <2>i, <2>1, <3>3, <3>4, <3>5, <3>6, EndStep
  <2>3. QED BY <2>o, <2>i
<1>13. CASE CompleteOk \/ CompleteErr
  <2>1. PICK n \in InFlight :
          /\ executing' = [executing EXCEPT ![n] = @ - 1] /\ Stores(Returned(n))
          /\ pc' \notin {"inline", "panicked"}
          /\ UNCHANGED <<wf, ready, keep, batch, cur, fired, runs>>
    <3>1. CASE CompleteOk
      BY <3>1 DEF CompleteOk, Success, Stores, Result, Quiet, history
    <3>2. CASE CompleteErr BY <3>2, FailureStores DEF CompleteErr, history
    <3>3. QED BY <1>13, <3>1, <3>2
  <2>o. CASE n \notin N
    <3>1. n \in Node /\ Puts(Returned(n)) BY <2>1 DEF InFlight, Stores, Puts
    <3>2. Returned(n) \in Node /\ Returned(n) \notin N BY <3>1, <2>o, CalmFacts DEF TypeInv
    <3>3. QED BY <3>1, <3>2, <2>o, <2>1, AwayEnd
  <2>i. CASE n \in N
    <3>2. n \in Node /\ n \in Released /\ runs[n] = 1 /\ wf.kind[n] \in {"module", "handler"}
      BY <2>i DEF InFlight, Released, Inv, WorkersInv
    <3>3. n # cur /\ n \notin Range(batch) /\ n \notin Waiting
      BY <2>i, <3>2 DEF Inv, WorkersInv, QueuesInv
    <3>4. QED BY <2>i, <2>1, <3>2, <3>3, EndStep
  <2>2. QED BY <2>o, <2>i
<1>e. pending \in [Node -> 0 .. UsizeMod - 1] /\ results \in [Node -> Result]
  BY DEF TypeInv, TypeOK
<1>14. CASE RouteUnblock
  <2>1. PICK e \in todo : RouteUnblock!(e) BY <1>14 DEF RouteUnblock
  <2>o. CASE e.dst \notin N BY <2>1, <2>o, <1>e, AwayLoop DEF Release, Visit
  <2>i. CASE e.dst \in N
    <3>t. pending[e.dst] \in Nat \ {0} BY <2>i, TodoFacts
    <3>2. SatDec(pending[e.dst]) = pending[e.dst] - 1 BY <3>t DEF SatDec
    <3>3. QED BY <2>i, <2>1, <3>2, ReleaseStep
  <2>2. QED BY <2>o, <2>i
<1>15. CASE RouteErrored
  <2>1. PICK e \in todo : RouteErrored!(e) BY <1>15 DEF RouteErrored
  <2>o. CASE e.dst \notin N BY <2>1, <2>o, <1>e, AwayLoop DEF Release, Visit
  <2>i. CASE e.dst \in N
    <3>t. e.dst \in Node /\ pending[e.dst] \in Nat \ {0} BY <2>i, TodoFacts
    <3>2. EarlyReady(e.dst, SatDec(pending[e.dst])) = pending[e.dst] - 1
      BY <2>i, <3>t, NeverEarly DEF SatDec
    <3>3. QED BY <2>i, <2>1, <3>2, ReleaseStep
  <2>2. QED BY <2>o, <2>i
<1>16. CASE RouteDead
  <2>1. PICK e \in todo : RouteDead!(e) BY <1>16 DEF RouteDead
  <2>o. CASE e.dst \notin N BY <2>1, <2>o, <1>e, AwayLoop DEF Visit, history
  <2>i. CASE e.dst \in N BY <2>1, <2>i, SkipStep DEF history
  <2>2. QED BY <2>o, <2>i
<1>17. CASE RouteSuccess
  <2>1. PICK e \in todo : RouteSuccess!(e) BY <1>17 DEF RouteSuccess
  <2> DEFINE cnt == EarlyReady(e.dst, WrapDec(pending[e.dst]))
  <2>o. CASE e.dst \notin N BY <2>1, <2>o, <1>e, AwayLoop DEF Release, Visit
  <2>i. CASE e.dst \in N
    <3>t. e.dst \in Node /\ pending[e.dst] \in Nat \ {0} BY <2>i, TodoFacts
    <3>2. cnt = pending[e.dst] - 1 BY <2>i, <3>t, NeverEarly DEF WrapDec
    <3>3. CASE cnt # 0 \/ ConditionsHold(e) BY <2>i, <2>1, <3>2, <3>3, ReleaseStep
    <3>4. CASE ~(cnt # 0 \/ ConditionsHold(e)) BY <2>i, <2>1, <3>2, <3>4, SkipStep
    <3>5. QED BY <3>3, <3>4
  <2>2. QED BY <2>o, <2>i
<1>18. CASE RouteCascade
  <2>1. PICK e \in cascade : RouteCascade!(e) BY <1>18 DEF RouteCascade
  <2>o. CASE e.dst \notin N BY <2>1, <2>o, <1>e, AwayLoop
  <2>i. CASE e.dst \in N BY <2>1, <2>i, CascadeStep
  <2>2. QED BY <2>o, <2>i
<1>19. CASE RoutePanics
  <2>1. PICK e \in todo : pending[e.dst] = 0 BY <1>19 DEF RoutePanics
  <2>2. e.dst \notin N BY <2>1, TodoFacts
  <2>3. QED BY <2>2, <1>19, AwayPanic
<1>20. CASE Ended \/ UNCHANGED vars
  <2>1. UNCHANGED vars BY <1>20 DEF Ended
  <2>2. GraphPart(N)' BY <2>1, MoveStep DEF vars, Released, InFlight
  <2>3. QED BY <2>1, <2>2, PlacesFrame DEF vars, Inv, GraphPart
<1>21. QED
  BY <1>1, <1>2, <1>3, <1>4, <1>5, <1>6, <1>7, <1>8, <1>9, <1>10, <1>11, <1>12, <1>13,
     <1>14, <1>15, <1>16, <1>17, <1>18, <1>19, <1>20
  DEF Next, Progress

\* The workflow is chosen once.
LEMMA WorkflowFixed == [Next]_vars => wf' = wf
BY DEF Next, Progress, PopChain, PopSkip, PopSync, PopInline, InlineReturns, PopModule,
       PopLimited, RateLimitAllows, RateLimitRefuses, PopSub, Drain, DrainDone, JoinReturns,
       StoreNext, RouteUnblock, RouteDead, RouteSuccess, RoutePanics, RouteCascade,
       RouteErrored, CompleteOk, CompleteErr, Finish, Interrupt, Ended, vars

\* The steady nodes are calm, and in a patient workflow they are all of the nodes.
LEMMA SteadyCalm ==
  ASSUME NEW w
  PROVE  Calm(w, Steady(w))
<1>1. CASE Calm(w, Node) BY <1>1 DEF Steady
<1>2. CASE ~Calm(w, Node)
  <2>1. ASSUME NEW n \in Steady(w)
        PROVE  \E N \in SUBSET Node : n \in N /\ N \subseteq Steady(w) /\ Calm(w, N)
    BY <1>2 DEF Steady
  <2>2. QED BY <2>1 DEF Calm
<1>3. QED BY <1>1, <1>2

LEMMA PatientCalm ==
  ASSUME NEW w \in Workflow, Patient(w)
  PROVE  Calm(w, Node) /\ Steady(w) = Node
<1>1. \A c \in w.chains : c.members \subseteq Node BY ReactorAssumption DEF WellFormed, Chain
<1>2. Calm(w, Node) BY <1>1, WorkflowFacts DEF Calm, Patient
<1>3. Steady(w) \subseteq Node /\ Node \subseteq Steady(w) BY <1>2 DEF Steady
<1>4. QED BY <1>2, <1>3

\* Every step keeps the invariant of the steady nodes.
LEMMA SafeStep ==
  ASSUME TypeInv, SafeInv, [Next]_vars
  PROVE  SafeInv'
<1>1. PICK N : N = Steady(wf) OBVIOUS
<1>2. Good(N) BY <1>1, SteadyCalm DEF Good, SafeInv
<1>3. Inv(N)' BY <1>2, NextInv
<1>4. Steady(wf)' = N BY <1>1, WorkflowFixed DEF Steady, Calm
<1>5. QED BY <1>3, <1>4 DEF SafeInv

\* This half of the invariant holds in every state of every run of every workflow,
\* for the nodes that no fan-in released early can reach.
THEOREM Safe == Spec => []SafeInv
<1>1. Init => TypeInv /\ SafeInv BY InitType, InitInv, SteadyCalm DEF SafeInv
<1>2. TypeInv /\ SafeInv /\ [Next]_vars => (TypeInv /\ SafeInv)' BY NextType, SafeStep
<1>3. QED BY <1>1, <1>2, PTL DEF Spec

\* What it says of a patient workflow, where every node is steady.
LEMMA PatientInv ==
  ASSUME TypeInv, SafeInv, Patient(wf)
  PROVE  Good(Node)
BY PatientCalm DEF TypeInv, SafeInv, Good

\* Whatever the joins behind them do, the steady nodes of a workflow run at most
\* once, not at all when they are marked as skipped, and after their parents.
SteadyRuns ==
  \A n \in Steady(wf) :
    /\ runs[n] <= 1
    /\ results[n] = "skipped" => runs[n] = 0
    /\ n \notin Interior(wf) /\ (n \in Released \/ runs[n] > 0) =>
         \A e \in In(wf, n) : results[e.src] # "none"

\* That holds in every run of every workflow: a handler of a completion or a skip
\* cannot disturb a node from beyond an early join.
THEOREM SteadyNodes == Spec => []SteadyRuns
<1>1. TypeInv /\ SafeInv => SteadyRuns
  <2> SUFFICES ASSUME TypeInv, SafeInv PROVE SteadyRuns OBVIOUS
  <2>1. PICK N : N = Steady(wf) OBVIOUS
  <2>2. Good(N) BY <2>1, SteadyCalm DEF Good, SafeInv
  <2>3. \A n \in N : \A e \in In(wf, n) : e \in wf.edges /\ e.src \in N
    BY <2>2, CalmFacts DEF Good, TypeInv
  <2>4. QED BY <2>1, <2>2, <2>3
    DEF SteadyRuns, Good, Inv, OnceInv, SkipInv, FiredInv, EdgesInv, Settled
<1>2. Spec => []TypeInv BY InitType, NextType, PTL DEF Spec
<1>3. QED BY <1>1, <1>2, Safe, PTL

\* No interleaving of completions starts the work of a node twice, in a patient
\* workflow: its joins wait for all parents, its seed is closed under ancestors.
THEOREM RunsOnce == Spec => [](Patient(wf) => AtMostOnce)
<1>1. TypeInv /\ SafeInv => (Patient(wf) => AtMostOnce)
  BY PatientInv DEF Good, Inv, OnceInv, AtMostOnce
<1>2. Spec => []TypeInv BY InitType, NextType, PTL DEF Spec
<1>3. QED BY <1>1, <1>2, Safe, PTL

\* In a patient workflow a node that was marked as skipped has not run and will
\* not run.
THEOREM SkippedStays == Spec => [](Patient(wf) => SkippedNeverRuns)
<1>1. TypeInv /\ SafeInv => (Patient(wf) => SkippedNeverRuns)
  BY PatientInv DEF Good, Inv, SkipInv, SkippedNeverRuns
<1>2. Spec => []TypeInv BY InitType, NextType, PTL DEF Spec
<1>3. QED BY <1>1, <1>2, Safe, PTL

\* In a patient workflow the untested decrement of handle_node_success never finds
\* a zero.
THEOREM CountsSuffice == Spec => [](Patient(wf) => NeverUnderflows)
<1>1. TypeInv /\ SafeInv => (Patient(wf) => NeverUnderflows)
  BY PatientInv DEF Good, Inv, PanicInv
<1>2. Spec => []TypeInv BY InitType, NextType, PTL DEF Spec
<1>3. QED BY <1>1, <1>2, Safe, PTL

\* In a patient workflow a node is released only when each of its parents has a
\* result.
THEOREM InOrder == Spec => [](Patient(wf) => DependencyOrder)
<1>1. TypeInv /\ SafeInv => (Patient(wf) => DependencyOrder)
  <2> SUFFICES ASSUME TypeInv, SafeInv, Patient(wf) PROVE DependencyOrder OBVIOUS
  <2>1. Good(Node) BY PatientInv
  <2>2. \A e \in wf.edges : e.src \in Node BY EdgeFacts
  <2>3. QED BY <2>1, <2>2 DEF Good, Inv, FiredInv, EdgesInv, DependencyOrder, Settled, In
<1>2. Spec => []TypeInv BY InitType, NextType, PTL DEF Spec
<1>3. QED BY <1>1, <1>2, Safe, PTL

\* A step changes the result only of a node that has none: completions store for
\* a released node, and a loop marks only a child that it has not released.
LEMMA NextFinal ==
  ASSUME NEW N, Good(N), [Next]_vars
  PROVE  \A n \in N : Settled(n) => results'[n] = results[n]
<1> USE DEF Good
<1>a. results \in [Node -> Result] /\ \A n \in N : n \in Node BY DEF TypeInv, TypeOK, Calm
<1>b. ASSUME NEW k, k \in N => ~Settled(k), Puts(k)
      PROVE  \A n \in N : Settled(n) => results'[n] = results[n]
  BY <1>a, <1>b DEF Puts
<1>c. \A n \in N : n \in Released => ~Settled(n) /\ ~Settled(Returned(n)) BY DEF Inv, UnsettledInv
<1>1. CASE PopSkip
  <2>1. PICK n \in Node : PopSkip!(n) BY <1>1 DEF PopSkip
  <2>2. n \in N => ~Settled(n) BY <2>1, PopFacts DEF Popped
  <2>3. Puts(n) BY <2>1 DEF StoreAndUnblock, Puts
  <2>4. QED BY <2>2, <2>3, <1>b
<1>2. CASE PopSync
  <2>1. PICK n \in Node : PopSync!(n) BY <1>2 DEF PopSync
  <2>2. n \in N => ~Settled(n) BY <2>1, PopFacts DEF Popped
  <2>3. Puts(n) BY <2>1, SettleStores DEF Stores, Puts
  <2>4. QED BY <2>2, <2>3, <1>b
<1>3. CASE InlineReturns \/ RateLimitRefuses
  <2>1. cur \in N => ~Settled(cur) BY <1>a, <1>c DEF Released
  <2>2. Puts(cur)
    <3>1. CASE InlineReturns BY <3>1, SettleStores DEF InlineReturns, Stores, Puts
    <3>2. CASE RateLimitRefuses BY <3>2 DEF RateLimitRefuses, StoreAndUnblock, Puts
    <3>3. QED BY <1>3, <3>1, <3>2
  <2>3. QED BY <2>1, <2>2, <1>b
<1>4. CASE StoreNext
  <2>1. batch # <<>> /\ StoreAndUnblock(Head(batch), "output") BY <1>4 DEF StoreNext
  <2>2. Head(batch) \in Range(batch)
    BY <2>1, PopQueue DEF Inv, QueuesInv, TypeInv, TypeOK
  <2>3. Head(batch) \in N => ~Settled(Head(batch)) BY <2>2, <1>c DEF Released
  <2>4. Puts(Head(batch)) BY <2>1 DEF StoreAndUnblock, Puts
  <2>5. QED BY <2>3, <2>4, <1>b
<1>5. CASE CompleteOk \/ CompleteErr
  <2>1. PICK n \in InFlight : Puts(Returned(n))
    <3>1. CASE CompleteOk BY <3>1 DEF CompleteOk, Success, Puts
    <3>2. CASE CompleteErr BY <3>2, FailureStores DEF CompleteErr, Stores, Puts
    <3>3. QED BY <1>5, <3>1, <3>2
  <2>2. Returned(n) \in N => n \in N BY CalmFacts DEF InFlight, TypeInv
  <2>3. Returned(n) \in N => ~Settled(Returned(n)) BY <2>2, <1>c DEF Released
  <2>4. QED BY <2>1, <2>3, <1>b
<1>6. CASE RouteDead
  <2>1. PICK e \in todo : RouteDead!(e) BY <1>6 DEF RouteDead
  <2>2. e.dst \in N /\ Settled(e.dst) => results[e.dst] = "skipped" BY TodoFacts
  <2>3. QED BY <2>1, <2>2, <1>a
<1>7. CASE RouteSuccess
  <2>1. PICK e \in todo : RouteSuccess!(e) BY <1>7 DEF RouteSuccess
  <2>2. e.dst \in N /\ Settled(e.dst) => results[e.dst] = "skipped" BY TodoFacts
  <2>3. results' = results \/ results' = [results EXCEPT ![e.dst] = "skipped"] BY <2>1
  <2>4. QED BY <2>2, <2>3, <1>a
<1>8. QED
  BY <1>1, <1>2, <1>3, <1>4, <1>5, <1>6, <1>7
  DEF Next, Progress, PopChain, PopInline, PopModule, PopLimited, RateLimitAllows, PopSub, Drain,
      DrainDone, JoinReturns, RouteUnblock, RoutePanics, RouteCascade, RouteErrored, Finish,
      Interrupt, Ended, vars

\* What the results map says of a steady node is never rewritten, in any workflow.
SteadyFinal == [][\A n \in Steady(wf) : results[n] # "none" => results'[n] = results[n]]_vars

\* No handler stores over a result that a steady node already has.
THEOREM SteadyResults == Spec => SteadyFinal
<1>1. TypeInv /\ SafeInv /\ [Next]_vars
        => [\A n \in Steady(wf) : results[n] # "none" => results'[n] = results[n]]_vars
  <2> SUFFICES ASSUME TypeInv, SafeInv, [Next]_vars
               PROVE  \A n \in Steady(wf) : results[n] # "none" => results'[n] = results[n]
    OBVIOUS
  <2>1. PICK N : N = Steady(wf) OBVIOUS
  <2>2. Good(N) BY <2>1, SteadyCalm DEF Good, SafeInv
  <2>3. QED BY <2>1, <2>2, NextFinal DEF Settled
<1>2. Spec => []TypeInv BY InitType, NextType, PTL DEF Spec
<1>3. QED BY <1>1, <1>2, Safe, PTL DEF Spec, SteadyFinal

-----------------------------------------------------------------------------
(* Joins: released with their quorum, where what comes before them is calm *)

\* What is left of the parents, and what the quorum can be.
LEMMA JoinFacts ==
  ASSUME TypeInv, NEW n \in Joins, NEW F \in SUBSET wf.edges
  PROVE  /\ n \in Node /\ wf.kind[n] = "fanin" /\ ~InChain(wf, n) /\ n \notin Interior(wf)
         /\ IsFiniteSet(In(wf, n))
         /\ Cardinality(In(wf, n)) \in Nat \ {0}
         /\ Cardinality(In(wf, n) \cap F) \in Nat /\ Cardinality(In(wf, n) \ F) \in Nat
         /\ Cardinality(In(wf, n)) = Cardinality(In(wf, n) \cap F) + Cardinality(In(wf, n) \ F)
         /\ wf.join[n] \in JoinMode
         /\ Quorum(n) \in Nat /\ Quorum(n) <= Cardinality(In(wf, n))
<1> DEFINE I == In(wf, n)
<1>1. n \in Node /\ wf.kind[n] = "fanin" /\ I # {} BY DEF Joins
<1>2. ~InChain(wf, n) /\ n \notin Interior(wf)
  <2>1. ~InChain(wf, n) BY <1>1, KindFacts
  <2>2. QED BY <2>1 DEF InChain, Interior
<1>3. IsFiniteSet(I) /\ Cardinality(I) \in Nat
  BY SubsetFacts, EdgeFacts, FS_CardinalityType DEF TypeInv
<1>4. Cardinality(I) # 0 BY <1>1, <1>3, FS_EmptySet
<1>5. IsFiniteSet(I \cap F) /\ IsFiniteSet(I \ F) BY <1>3, FS_Intersection, FS_Difference
<1>6. Cardinality(I \cap F) \in Nat /\ Cardinality(I \ F) \in Nat BY <1>5, FS_CardinalityType
<1>7. Cardinality(I) = Cardinality(I \cap F) + Cardinality(I \ F)
  <2>1. Cardinality(I \ F) = Cardinality(I) - Cardinality(I \cap F) BY <1>3, FS_Difference
  <2>2. QED BY <2>1, <1>3, <1>6
<1>8. wf.join[n] \in JoinMode BY <1>1, ReactorAssumption DEF TypeInv, WellFormed
<1>9. Quorum(n) \in Nat /\ Quorum(n) <= Cardinality(I)
  <2>1. Cardinality(I) \div 2 \in Nat /\ Cardinality(I) \div 2 + 1 <= Cardinality(I)
    BY <1>3, <1>4
  <2>2. wf.join[n].mode = "N" => wf.join[n].n \in Nat BY <1>8 DEF JoinMode
  <2>3. QED BY <1>3, <1>4, <2>1, <2>2 DEF Quorum
<1>10. QED BY <1>1, <1>2, <1>3, <1>4, <1>6, <1>7, <1>8, <1>9

\* apply_fan_in_early_ready leaves the count of a join that has not met its quorum.
LEMMA EarlyExact ==
  ASSUME TypeInv, NEW n \in Joins, NEW F \in SUBSET wf.edges,
         In(wf, n) \cap F # {}, ~(Cardinality(In(wf, n) \cap F) >= Quorum(n)),
         NEW c, c = Cardinality(In(wf, n) \ F)
  PROVE  c # 0 /\ EarlyReady(n, c) = c
<1> DEFINE total == Cardinality(In(wf, n))
<1> DEFINE met == Cardinality(In(wf, n) \cap F)
<1>1. /\ total \in Nat \ {0} /\ met \in Nat /\ c \in Nat /\ total = met + c
      /\ Quorum(n) \in Nat /\ Quorum(n) <= total /\ wf.join[n] \in JoinMode
      /\ IsFiniteSet(In(wf, n))
  BY JoinFacts
<1>2. met # 0 BY <1>1, FS_Subset, FS_EmptySet
<1>3. met < Quorum(n) BY <1>1
<1>4. c # 0 BY <1>1, <1>3
<1>5. WrapSub(total, c) = met BY <1>1 DEF WrapSub
<1>6. wf.join[n].mode # "Any" BY <1>1, <1>2, <1>3 DEF Quorum
<1>7. wf.join[n].mode = "Majority" => ~(met > total \div 2)
  <2>1. total \div 2 \in Nat BY <1>1
  <2>2. QED BY <2>1, <1>1, <1>3 DEF Quorum
<1>8. wf.join[n].mode = "N" => ~(met >= wf.join[n].n)
  <2>1. wf.join[n].mode = "N" => wf.join[n].n \in Nat BY <1>1 DEF JoinMode
  <2>2. QED BY <2>1, <1>1, <1>3 DEF Quorum
<1>9. QED BY <1>4, <1>5, <1>6, <1>7, <1>8 DEF EarlyReady

\* A run starts with no join released before its quorum.
LEMMA InitQuorum == Init => QuorumInv
<1> SUFFICES ASSUME Init, NEW n \in Joins, ~Met(n)
             PROVE  n \notin Released /\ runs[n] = 0 /\ pending[n] = Cardinality(In(wf, n) \ fired)
  BY DEF QuorumInv
<1>1. TypeInv /\ fired \in SUBSET wf.edges BY InitType DEF TypeInv, TypeOK
<1>2. n \in Node /\ Quorum(n) <= Cardinality(In(wf, n)) BY <1>1, JoinFacts
<1>3. ~(In(wf, n) \subseteq fired)
  <2>1. SUFFICES ASSUME In(wf, n) \subseteq fired PROVE FALSE OBVIOUS
  <2>2. In(wf, n) \cap fired = In(wf, n) BY <2>1
  <2>3. QED BY <2>2, <1>2 DEF Met
<1>4. n \notin wf.seed
  <2>1. SUFFICES ASSUME n \in wf.seed PROVE FALSE OBVIOUS
  <2>2. \A e \in In(wf, n) : e.src \in wf.seed BY <2>1 DEF Joins, Sheltered
  <2>3. QED BY <2>2, <1>3 DEF Init, In
<1>5. QED BY <1>2, <1>3, <1>4, InitFacts DEF Init

\* A step that fires no edge into a join, and does not release it, leaves it waiting.
LEMMA QuorumFrame ==
  ASSUME TypeInv, QuorumInv, NEW n \in Joins, ~Met(n)', wf' = wf,
         In(wf, n) \cap fired' = In(wf, n) \cap fired,
         runs'[n] = runs[n] \/ n \in Released, pending'[n] = pending[n],
         n \in Released' => n \in Released
  PROVE  n \notin Released' /\ runs'[n] = 0 /\ pending'[n] = Cardinality(In(wf, n) \ fired')
<1>1. ~Met(n) BY DEF Met, Quorum, In
<1>2. In(wf, n) \ fired' = In(wf, n) \ fired OBVIOUS
<1>3. QED BY <1>1, <1>2 DEF QuorumInv

\* An edge into a join fires, and its quorum is not met yet: the count follows.
LEMMA QuorumFires ==
  ASSUME NEW N, N = Steady(wf), Good(N), QuorumInv, NEW n \in Joins, ~Met(n)', wf' = wf,
         NEW e \in todo \cup cascade, e.dst = n, fired' = fired \cup {e}
  PROVE  /\ n \notin Released /\ runs[n] = 0 /\ pending[n] \in Nat \ {0}
         /\ pending[n] - 1 = Cardinality(In(wf, n) \ fired')
         /\ pending[n] - 1 # 0 /\ EarlyReady(n, pending[n] - 1) = pending[n] - 1
<1> USE DEF Good
<1>1. e \in In(wf, n) /\ e \in wf.edges /\ n \in Node /\ fired \in SUBSET wf.edges
  BY EdgeFacts DEF In, Joins, TypeInv, TypeOK
<1>2. e.src \in N BY <1>1 DEF Joins, Sheltered
<1>3. e \notin fired BY <1>1, <1>2 DEF Inv, EdgesInv
<1>4. ~(Cardinality(In(wf, n) \cap (fired \cup {e})) >= Quorum(n)) BY DEF Met, Quorum, In
<1>5. ~(Cardinality(In(wf, n) \cap fired) >= Quorum(n))
  <2>1. IsFiniteSet(In(wf, n) \cap (fired \cup {e}))
    BY <1>1, JoinFacts, FS_Subset
  <2>2. Cardinality(In(wf, n) \cap fired) <= Cardinality(In(wf, n) \cap (fired \cup {e}))
    BY <2>1, FS_Subset
  <2>3. fired \cup {e} \in SUBSET wf.edges BY <1>1
  <2>4. /\ Cardinality(In(wf, n) \cap fired) \in Nat /\ Quorum(n) \in Nat
        /\ Cardinality(In(wf, n) \cap (fired \cup {e})) \in Nat
    BY <1>1, <2>3, JoinFacts
  <2>5. QED BY <2>2, <2>4, <1>4
<1>6. n \notin Released /\ runs[n] = 0 /\ pending[n] = Cardinality(In(wf, n) \ fired)
  BY <1>5 DEF QuorumInv, Met
<1>7. pending[n] \in Nat \ {0} /\ pending[n] - 1 = Cardinality(In(wf, n) \ fired')
  BY <1>1, <1>3, <1>6, FireOne
<1>8. pending[n] - 1 # 0 /\ EarlyReady(n, pending[n] - 1) = pending[n] - 1
  <2>1. fired \cup {e} \in SUBSET wf.edges /\ In(wf, n) \cap (fired \cup {e}) # {} BY <1>1
  <2>2. QED BY <2>1, <1>4, <1>7, EarlyExact
<1>9. QED BY <1>6, <1>7, <1>8

\* A finished chain says nothing of the count of a join.
LEMMA JoinPuts ==
  ASSUME TypeInv, NEW n \in Joins, NEW k, Puts(k)
  PROVE  pending'[n] = pending[n]
<1>1. n \in Node /\ ~InChain(wf, n) BY JoinFacts DEF TypeInv, TypeOK
<1>2. n \notin ChainMembers(k) BY <1>1 DEF ChainMembers, InChain
<1>3. QED BY <1>1, <1>2 DEF Puts, ClearChain

\* Joins are the joins of the workflow, whatever the state.
LEMMA JoinsFixed ==
  ASSUME wf' = wf
  PROVE  Joins' = Joins /\ \A n : In(wf, n)' = In(wf, n) /\ Quorum(n)' = Quorum(n)
BY DEF Joins, Sheltered, Steady, Calm, In, Quorum

\* Every step keeps a join that has not met its quorum waiting for it.
LEMMA QuorumStep ==
  ASSUME TypeInv, SafeInv, QuorumInv, [Next]_vars, NEW n \in Joins, ~Met(n)'
  PROVE  n \notin Released' /\ runs'[n] = 0 /\ pending'[n] = Cardinality(In(wf, n) \ fired')
<1> DEFINE Goal == n \notin Released' /\ runs'[n] = 0 /\ pending'[n] = Cardinality(In(wf, n) \ fired')
<1>w. wf' = wf BY WorkflowFixed
<1>n. /\ n \in Node /\ n # NoNode /\ ~InChain(wf, n) /\ n \notin Interior(wf)
      /\ wf.kind[n] = "fanin"
  BY JoinFacts, ReactorAssumption DEF TypeInv, TypeOK
<1>c. \A k : n \notin ChainMembers(k) BY <1>n DEF ChainMembers, InChain
<1>t. /\ runs \in [Node -> Nat] /\ executing \in [Node -> Nat] /\ pending \in [Node -> 0 .. UsizeMod - 1]
      /\ ready \in Seq(Node) /\ keep \in Seq(Node) /\ batch \in Seq(Node)
  BY DEF TypeInv, TypeOK
<1>q. \A q \in Seq(Node) : q # <<>> =>
        Head(q) \in Range(q) /\ \A m \in Range(Tail(q)) : m \in Range(q)
  <2>1. SUFFICES ASSUME NEW q \in Seq(Node), q # <<>>
                 PROVE  Head(q) \in Range(q) /\ \A m \in Range(Tail(q)) : m \in Range(q)
    OBVIOUS
  <2>2. Distinct(q, {}) BY DEF Distinct
  <2>3. QED BY <2>1, <2>2, PopQueue
<1>f. ASSUME fired' = fired, runs'[n] = runs[n] \/ n \in Released, pending'[n] = pending[n],
             n \in Released' => n \in Released
      PROVE  Goal
  BY <1>f, <1>w, QuorumFrame
<1>1. CASE PopChain \/ PopSkip \/ PopSync \/ PopInline \/ PopModule \/ PopLimited \/ PopSub
  <2>1. PICK m \in Node :
          /\ ready # <<>> /\ m = Head(ready) /\ ready' = Tail(ready) /\ keep' = keep /\ fired' = fired
          /\ batch' = batch \/ batch' = <<m>>
          /\ cur' = cur \/ cur' = m
          /\ executing' = executing \/ Launch(m)
          /\ runs' = runs \/ Started({m}) \/ Started(ChainMembers(m))
          /\ Puts(m)
    <3>1. CASE PopChain BY <3>1 DEF PopChain, Popped, routingVars, Puts
    <3>2. CASE PopSkip BY <3>2 DEF PopSkip, Popped, history, StoreAndUnblock, Puts
    <3>3. CASE PopSync BY <3>3, SettleStores DEF PopSync, Popped, Stores, Puts
    <3>4. CASE PopInline BY <3>4 DEF PopInline, Popped, routingVars, Puts
    <3>5. CASE PopModule BY <3>5 DEF PopModule, Popped, routingVars, Puts
    <3>6. CASE PopLimited BY <3>6 DEF PopLimited, Popped, routingVars, Puts
    <3>7. CASE PopSub BY <3>7 DEF PopSub, Popped, routingVars, Puts
    <3>8. QED BY <1>1, <3>1, <3>2, <3>3, <3>4, <3>5, <3>6, <3>7
  <2>2. m \in Range(ready) /\ \A k \in Range(ready') : k \in Range(ready) BY <2>1, <1>t, <1>q
  <2>3. m \in Released BY <2>2 DEF Released
  <2>4. \A k \in Range(batch') : k \in Range(batch) \/ k = m BY <2>1 DEF Range
  <2>5. \A k \in Node : executing'[k] > 0 => executing[k] > 0 \/ k = m BY <2>1, <1>t DEF Launch
  <2>6. n \in Released' => n \in Released
    BY <2>1, <2>2, <2>3, <2>4, <2>5, <1>n DEF Released, InFlight
  <2>7. runs'[n] = runs[n] \/ n \in Released BY <2>1, <2>3, <1>t, <1>n, <1>c DEF Started
  <2>8. QED BY <2>1, <2>6, <2>7, JoinPuts, <1>f
<1>2. CASE Drain
  <2>1. /\ ready # <<>> /\ ready' = Tail(ready) /\ fired' = fired /\ pending' = pending
        /\ keep' = keep \/ keep' = Append(keep, Head(ready))
        /\ batch' = batch \/ batch' = Append(batch, Head(ready))
        /\ runs' = runs \/ Started({Head(ready)})
        /\ UNCHANGED <<cur, executing>>
    BY <1>2 DEF Drain
  <2>2. /\ Head(ready) \in Node /\ Head(ready) \in Range(ready)
        /\ \A k \in Range(ready') : k \in Range(ready)
    BY <2>1, <1>t, <1>q, TailType
  <2>3. Head(ready) \in Released BY <2>2 DEF Released
  <2>4. /\ \A k \in Range(keep') : k \in Range(keep) \/ k = Head(ready)
        /\ \A k \in Range(batch') : k \in Range(batch) \/ k = Head(ready)
    <3>1. /\ Range(Append(keep, Head(ready))) = Range(keep) \cup {Head(ready)}
          /\ Range(Append(batch, Head(ready))) = Range(batch) \cup {Head(ready)}
      BY <1>t, <2>2, PushQueue
    <3>2. QED BY <2>1, <3>1
  <2>5. n \in Released' => n \in Released
    BY <2>1, <2>2, <2>3, <2>4 DEF Released, InFlight
  <2>6. runs'[n] = runs[n] \/ n \in Released BY <2>1, <2>3, <1>t, <1>n DEF Started
  <2>7. QED BY <2>1, <2>5, <2>6, <1>f
<1>3. CASE DrainDone \/ JoinReturns \/ Finish \/ Interrupt
  <2>1. /\ (ready' = keep /\ keep' = <<>>) \/ UNCHANGED <<ready, keep>>
        /\ UNCHANGED <<batch, cur, executing, pending, fired, runs>>
    BY <1>3 DEF DrainDone, JoinReturns, Finish, Interrupt, history
  <2>2. Range(<<>>) = {} BY DEF Range
  <2>3. n \in Released' => n \in Released BY <2>1, <2>2 DEF Released, InFlight
  <2>4. QED BY <2>1, <2>3, <1>f
<1>4. CASE InlineReturns \/ RateLimitAllows \/ RateLimitRefuses
  <2>1. /\ cur' = NoNode /\ fired' = fired /\ UNCHANGED <<ready, keep, batch>>
        /\ executing' = executing \/ Launch(cur)
        /\ runs' = runs \/ Started({cur})
        /\ Puts(cur)
    <3>1. CASE InlineReturns BY <3>1, SettleStores DEF InlineReturns, history, Stores, Puts
    <3>2. CASE RateLimitAllows BY <3>2 DEF RateLimitAllows, routingVars, Puts
    <3>3. CASE RateLimitRefuses BY <3>3 DEF RateLimitRefuses, history, StoreAndUnblock, Puts
    <3>4. QED BY <1>4, <3>1, <3>2, <3>3
  <2>2. n = cur => n \in Released BY <1>n DEF Released
  <2>3. executing'[n] > 0 => executing[n] > 0 \/ n = cur BY <2>1, <1>t, <1>n DEF Launch
  <2>4. n \in Released' => n \in Released BY <2>1, <2>2, <2>3, <1>n DEF Released, InFlight
  <2>5. runs'[n] = runs[n] \/ n \in Released BY <2>1, <2>2, <1>t, <1>n DEF Started
  <2>6. QED BY <2>1, <2>4, <2>5, JoinPuts, <1>f
<1>5. CASE StoreNext \/ CompleteOk \/ CompleteErr
  <2>1. /\ UNCHANGED <<ready, keep, cur, fired, runs>>
        /\ \E k : Puts(k)
        /\ batch' = batch \/ (batch # <<>> /\ batch' = Tail(batch))
        /\ executing' = executing \/ \E m \in InFlight : executing' = [executing EXCEPT ![m] = @ - 1]
    <3>1. CASE StoreNext BY <3>1 DEF StoreNext, history, StoreAndUnblock, Puts
    <3>2. CASE CompleteOk
      <4>1. PICK m \in InFlight : CompleteOk!(m) BY <3>2 DEF CompleteOk
      <4>2. Puts(Returned(m)) BY <4>1 DEF Success, Puts
      <4>3. QED BY <4>1, <4>2 DEF history
    <3>3. CASE CompleteErr
      <4>1. PICK m \in InFlight : CompleteErr!(m) BY <3>3 DEF CompleteErr
      <4>2. Puts(Returned(m)) BY <4>1, FailureStores DEF Stores, Puts
      <4>3. QED BY <4>1, <4>2 DEF history
    <3>4. QED BY <1>5, <3>1, <3>2, <3>3
  <2>2. \A k \in Range(batch') : k \in Range(batch) BY <2>1, <1>t, <1>q
  <2>3. executing'[n] > 0 => executing[n] > 0
    <3>1. CASE executing' = executing BY <3>1
    <3>2. CASE executing' # executing
      <4>1. PICK m \in InFlight : executing' = [executing EXCEPT ![m] = @ - 1] BY <2>1, <3>2
      <4>2. executing[n] \in Nat /\ executing[m] \in Nat /\ executing[m] > 0
        BY <1>t, <1>n DEF InFlight
      <4>3. QED BY <4>1, <4>2, <1>t, <1>n
    <3>3. QED BY <3>1, <3>2
  <2>4. n \in Released' => n \in Released BY <2>1, <2>2, <2>3, <1>n DEF Released, InFlight
  <2>5. QED BY <2>1, <2>4, JoinPuts, <1>f
<1>6. CASE \E e \in todo \cup cascade :
             /\ fired' = fired \/ fired' = fired \cup {e}
             /\ \A m \in Node : m # e.dst => pending'[m] = pending[m]
             /\ ready' = ready \/ ready' = Append(ready, e.dst)
             /\ e.dst = n =>
                  \/ fired' = fired /\ pending' = pending /\ ready' = ready
                  \/ /\ fired' = fired \cup {e}
                     /\ \/ pending'[n] = pending[n] - 1
                        \/ pending'[n] = EarlyReady(n, pending[n] - 1)
                        \/ pending[n] = 0
                     /\ ready' = ready \/ pending'[n] = 0
             /\ UNCHANGED <<keep, batch, cur, executing, runs>>
  <2>1. PICK e \in todo \cup cascade :
             /\ fired' = fired \/ fired' = fired \cup {e}
             /\ \A m \in Node : m # e.dst => pending'[m] = pending[m]
             /\ ready' = ready \/ ready' = Append(ready, e.dst)
             /\ e.dst = n =>
                  \/ fired' = fired /\ pending' = pending /\ ready' = ready
                  \/ /\ fired' = fired \cup {e}
                     /\ \/ pending'[n] = pending[n] - 1
                        \/ pending'[n] = EarlyReady(n, pending[n] - 1)
                        \/ pending[n] = 0
                     /\ ready' = ready \/ pending'[n] = 0
             /\ UNCHANGED <<keep, batch, cur, executing, runs>>
    BY <1>6
  <2>2. e.dst \in Node BY EdgeFacts
  <2>3. Range(Append(ready, e.dst)) = Range(ready) \cup {e.dst} BY <2>2, <1>t, PushQueue
  <2>4. \A m : m \in Released' => m \in Released \/ (m = e.dst /\ ready' # ready)
    BY <2>1, <2>3 DEF Released, InFlight
  <2>5. CASE e.dst # n
    <3>1. In(wf, n) \cap fired' = In(wf, n) \cap fired BY <2>1, <2>5 DEF In
    <3>2. QED BY <2>1, <2>4, <2>5, <3>1, <1>n, <1>w, QuorumFrame
  <2>6. CASE e.dst = n /\ fired' = fired /\ pending' = pending /\ ready' = ready
    BY <2>1, <2>4, <2>6, <1>f
  <2>7. CASE e.dst = n /\ fired' = fired \cup {e}
    <3>1. PICK N : N = Steady(wf) OBVIOUS
    <3>2. Good(N) BY <3>1, SteadyCalm DEF Good, SafeInv
    <3>3. /\ n \notin Released /\ runs[n] = 0 /\ pending[n] \in Nat \ {0}
          /\ pending[n] - 1 = Cardinality(In(wf, n) \ fired')
          /\ pending[n] - 1 # 0 /\ EarlyReady(n, pending[n] - 1) = pending[n] - 1
      BY <3>1, <3>2, <2>7, <1>w, QuorumFires
    <3>4. CASE fired' = fired
      <4>1. e \in In(wf, n) /\ e.src \in N BY <3>1, <2>7, EdgeFacts DEF In, Joins, Sheltered
      <4>2. FALSE BY <3>2, <3>4, <4>1, <2>7, EdgeFacts DEF Good, Inv, EdgesInv
      <4>3. QED BY <4>2
    <3>5. CASE fired' # fired
      <4>1. pending'[n] = pending[n] - 1 /\ ready' = ready BY <2>1, <2>7, <3>3, <3>5
      <4>2. QED BY <2>1, <2>4, <3>3, <4>1
    <3>6. QED BY <3>4, <3>5
  <2>8. QED BY <2>1, <2>5, <2>6, <2>7
<1>7. CASE RouteUnblock
  <2>1. PICK e \in todo : RouteUnblock!(e) BY <1>7 DEF RouteUnblock
  <2>2. SatDec(pending[n]) = pending[n] - 1 \/ pending[n] = 0 BY <1>t, <1>n DEF SatDec
  <2>3. QED BY <2>1, <2>2, <1>t, <1>n, <1>6 DEF Release
<1>8. CASE RouteErrored
  <2>1. PICK e \in todo : RouteErrored!(e) BY <1>8 DEF RouteErrored
  <2>2. SatDec(pending[n]) = pending[n] - 1 \/ pending[n] = 0 BY <1>t, <1>n DEF SatDec
  <2>3. QED BY <2>1, <2>2, <1>t, <1>n, <1>6 DEF Release
<1>9. CASE RouteSuccess
  <2>1. PICK e \in todo : RouteSuccess!(e) BY <1>9 DEF RouteSuccess
  <2>2. WrapDec(pending[n]) = pending[n] - 1 \/ pending[n] = 0 BY <1>t, <1>n DEF WrapDec
  <2>3. QED BY <2>1, <2>2, <1>t, <1>n, <1>6 DEF Release
<1>10. CASE RouteDead
  <2>1. PICK e \in todo : RouteDead!(e) BY <1>10 DEF RouteDead
  <2>2. QED BY <2>1, <1>6 DEF history
<1>11. CASE RouteCascade
  <2>1. PICK e \in cascade : RouteCascade!(e) BY <1>11 DEF RouteCascade
  <2>2. SatDec(pending[n]) = pending[n] - 1 \/ pending[n] = 0 BY <1>t, <1>n DEF SatDec
  <2>3. QED BY <2>1, <2>2, <1>t, <1>n, <1>6
<1>12. CASE RoutePanics \/ Ended \/ UNCHANGED vars
  <2>1. UNCHANGED <<ready, keep, batch, cur, executing, pending, fired, runs>>
    BY <1>12 DEF RoutePanics, Ended, history, vars
  <2>2. QED BY <2>1, <1>f DEF Released, InFlight
<1>13. QED
  BY <1>1, <1>2, <1>3, <1>4, <1>5, <1>7, <1>8, <1>9, <1>10, <1>11, <1>12 DEF Next, Progress

\* A sheltered join that has not got its quorum is not released, and its count is exact.
THEOREM QuorumsMet == Spec => []QuorumInv
<1>1. TypeInv /\ SafeInv /\ QuorumInv /\ [Next]_vars => QuorumInv'
  <2> SUFFICES ASSUME TypeInv, SafeInv, QuorumInv, [Next]_vars PROVE QuorumInv' OBVIOUS
  <2>1. Joins' = Joins /\ \A n : In(wf, n)' = In(wf, n) BY WorkflowFixed, JoinsFixed
  <2>2. QED BY <2>1, QuorumStep DEF QuorumInv
<1>2. Spec => []TypeInv BY InitType, NextType, PTL DEF Spec
<1>3. QED BY <1>1, <1>2, Safe, InitQuorum, PTL DEF Spec

\* A sheltered join runs only with its quorum: in every workflow, whatever the modes
\* of the joins, and however many of its parents have already answered.
THEOREM Quorums == Spec => []JoinQuorum
<1>1. QuorumInv => JoinQuorum
  <2> SUFFICES ASSUME QuorumInv, NEW n \in Joins, runs[n] > 0
               PROVE  Cardinality(In(wf, n) \cap fired) >= Quorum(n)
    BY DEF JoinQuorum, Joins
  <2>1. runs[n] # 0 OBVIOUS
  <2>2. QED BY <2>1 DEF QuorumInv, Met
<1>2. QED BY <1>1, QuorumsMet, PTL

=============================================================================
