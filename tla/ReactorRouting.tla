---------------------------- MODULE ReactorRouting ----------------------------
(***************************************************************************)
(* Which edges a result lets through, and what is left when a run is done: *)
(* the second half of the invariant of ReactorInv, and what follows from   *)
(* it for the branches of an outcome, for the edges into a node with one   *)
(* parent, and for the nodes that never run.  At the end, why the chains   *)
(* of the detector are as the reactor assumes them.                        *)
(***************************************************************************)
EXTENDS ReactorSafety, MCWorkflows, ChainProofs

\* The state the step lemmas start from.
Routed == Good(Node) /\ Patient(wf) /\ RouteInv

-----------------------------------------------------------------------------
(* Where the nodes are *)

\* Every step but the ones of the completion loops.
Working ==
  \/ PopChain \/ PopSkip \/ PopSync \/ PopInline \/ InlineReturns
  \/ PopModule \/ PopLimited \/ RateLimitAllows \/ RateLimitRefuses
  \/ PopSub \/ Drain \/ DrainDone \/ JoinReturns \/ StoreNext
  \/ CompleteOk \/ CompleteErr \/ Finish \/ Interrupt \/ Ended \/ UNCHANGED vars

\* What such a step does to the places of the nodes: none is released, and one
\* that leaves its place has run or has a result, and has got the result it was in
\* that place for, unless the run ends.
Moves ==
  /\ \A m \in Released' : m \in Released
  /\ \A m \in Node \ Interior(wf) : runs'[m] > 0 => runs[m] > 0 \/ m \in Released
  /\ \A m \in Released : m \in Released' \/ runs'[m] > 0 \/ Settled(m)'
  /\ \A m \in Node : runs[m] > 0 => runs'[m] > 0
  /\ \A m \in Released : m \in Released' \/ Settled(Returned(m))' \/ pc' \in {"failed", "paused"}

\* Starting work takes no count down, and starts released nodes and chain members.
LEMMA StartMoves ==
  ASSUME Routed, NEW S, Started(S) \/ runs' = runs,
         \A m \in S : m \in Released \/ m \in Interior(wf)
  PROVE  /\ \A m \in Node : runs[m] > 0 => runs'[m] > 0
         /\ \A m \in Node \ Interior(wf) : runs'[m] > 0 => runs[m] > 0 \/ m \in Released
         /\ Started(S) => \A m \in Node : m \in S => runs'[m] > 0
<1>1. runs \in [Node -> Nat] BY DEF Routed, Good, TypeInv, TypeOK
<1>2. CASE runs' = runs
  <2>1. Started(S) => \A m \in Node : m \in S => runs'[m] = runs[m] + 1 BY <1>1 DEF Started
  <2>2. Started(S) => \A m \in Node : m \in S => runs'[m] > 0 BY <1>1, <2>1
  <2>3. QED BY <1>1, <1>2, <2>2
<1>3. CASE Started(S) BY <1>1, <1>3 DEF Started
<1>4. QED BY <1>2, <1>3

\* What the answer to a node's work leaves: a result, or the end of the run.
LEMMA FailureAnswered ==
  ASSUME TypeInv, NEW k \in Node, Failure(k, "loop")
  PROVE  results'[k] # "none" \/ pc' = "failed"
BY DEF TypeInv, TypeOK, Failure, StoreAndUnblock

LEMMA SettleAnswered ==
  ASSUME TypeInv, NEW k \in Node, NEW o, Settle(k, o)
  PROVE  results'[k] # "none" \/ pc' \in {"failed", "paused"}
<1>1. CASE Failure(k, "loop") BY <1>1, FailureAnswered
<1>2. CASE ~Failure(k, "loop") BY <1>2 DEF Settle, TypeInv, TypeOK, StoreAndUnblock
<1>3. QED BY <1>1, <1>2

\* Nodes that are taken from the ready queue.
LEMMA PopMoves ==
  ASSUME Routed,
         PopChain \/ PopSkip \/ PopSync \/ PopInline \/ PopModule \/ PopLimited \/ PopSub
  PROVE  Moves
<1> USE DEF Routed
<1>1. PICK n \in Node : Popped(n) /\ ready' = Tail(ready) /\ UNCHANGED <<wf, keep>>
  BY DEF PopChain, PopSkip, PopSync, PopInline, PopModule, PopLimited, PopSub
<1>2. /\ n \in Released /\ n \notin Interior(wf) /\ ~Settled(n)
      /\ Range(ready) = Range(ready') \cup {n}
  BY <1>1, PopFacts DEF Popped
<1>3. n = Head(ready) /\ pc = "loop" /\ cur = NoNode /\ Range(batch) = {} /\ batch = <<>>
  BY <1>1 DEF Popped, RouteInv, HandsInv, Range
<1>4. NoNode \notin Node BY ReactorAssumption
<1>5. executing \in [Node -> Nat] BY DEF Good, TypeInv, TypeOK
<1>6. ASSUME Launch(n), UNCHANGED <<batch, cur>> PROVE Released' = Released
  <2>1. InFlight' = InFlight \cup {n} BY <1>5, <1>6 DEF Launch, InFlight
  <2>2. QED BY <2>1, <1>1, <1>2, <1>6 DEF Released
<1>7. ASSUME UNCHANGED <<executing, batch, cur>>
      PROVE  (\A m \in Released' : m \in Released) /\ (\A m \in Released : m \in Released' \/ m = n)
  BY <1>1, <1>2, <1>7 DEF Released, InFlight
<1>8. ASSUME UNCHANGED <<executing, batch>>, cur' = n PROVE Released' = Released
  BY <1>1, <1>2, <1>3, <1>4, <1>8 DEF Released, InFlight
<1>10. CASE PopChain
  <2>1. PopChain!(n) BY <1>10, <1>3 DEF PopChain, Popped
  <2>2. Launch(n) /\ Started(ChainMembers(n)) /\ UNCHANGED <<batch, cur>> BY <1>2, <2>1
  <2>3. \A m \in ChainMembers(n) : m \in Released \/ m \in Interior(wf)
    <3>1. PICK c \in wf.chains : c.head = n /\ ChainMembers(n) = c.members
      BY <2>1, <1>2, ReturnedTail DEF Good, TypeInv
    <3>2. QED BY <3>1, <1>2, ChainFacts DEF Good, TypeInv
  <2>4. QED BY <2>2, <2>3, <1>6, StartMoves DEF Moves
<1>11. CASE PopModule
  <2>1. PopModule!(n) BY <1>11, <1>3 DEF PopModule, Popped
  <2>2. QED BY <2>1, <1>2, <1>6, StartMoves DEF Moves
<1>12. CASE PopSkip
  <2>1. PopSkip!(n) BY <1>12, <1>3 DEF PopSkip, Popped
  <2>2. Settled(n)' /\ runs' = runs
    BY <2>1 DEF StoreAndUnblock, Settled, history, Good, TypeInv, TypeOK
  <2>3. Returned(n)' = n BY <1>1, <2>1, ReturnedSelf DEF Good, TypeInv, Returned
  <2>4. QED BY <2>1, <2>2, <2>3, <1>7, StartMoves DEF Moves
<1>13. CASE PopSync
  <2>1. PopSync!(n) BY <1>13, <1>3 DEF PopSync, Popped
  <2>2. runs'[n] > 0 BY <2>1, <1>2, StartMoves
  <2>3. ~InChain(wf, n) BY <2>1, KindFacts DEF Good
  <2>4. Returned(n)' = n BY <1>1, <2>3, ReturnedSelf DEF Good, TypeInv, Returned
  <2>5. results'[n] # "none" \/ pc' \in {"failed", "paused"} BY <2>1, SettleAnswered DEF Good
  <2>6. QED BY <2>1, <2>2, <2>4, <2>5, <1>2, <1>7, StartMoves DEF Moves, Settled
<1>14. CASE PopInline
  <2>1. PopInline!(n) BY <1>14, <1>3 DEF PopInline, Popped
  <2>2. QED BY <2>1, <1>2, <1>8, StartMoves DEF Moves
<1>15. CASE PopLimited
  <2>1. PopLimited!(n) BY <1>15, <1>3 DEF PopLimited, Popped
  <2>2. QED BY <2>1, <1>2, <1>8, StartMoves DEF Moves
<1>16. CASE PopSub
  <2>1. PopSub!(n) BY <1>16, <1>3 DEF PopSub, Popped
  <2>2. Range(batch') = {n} BY <2>1 DEF Range
  <2>3. Released' = Released BY <2>1, <2>2, <1>1, <1>2, <1>3 DEF Released, InFlight
  <2>4. QED BY <2>1, <2>3, <1>2, StartMoves DEF Moves
<1>17. QED BY <1>10, <1>11, <1>12, <1>13, <1>14, <1>15, <1>16

\* Nodes whose work ends, or goes on elsewhere.
LEMMA WorkMoves ==
  ASSUME Routed,
         \/ InlineReturns \/ RateLimitAllows \/ RateLimitRefuses \/ StoreNext
         \/ CompleteOk \/ CompleteErr
  PROVE  Moves
<1> USE DEF Routed
<1>1. executing \in [Node -> Nat] /\ results \in [Node -> Result] BY DEF Good, TypeInv, TypeOK
<1>2. NoNode \notin Node BY ReactorAssumption
<1>3. pc = "inline" => cur \in Node /\ cur \in Released /\ Returned(cur) = cur
  BY ReturnedSelf DEF Good, TypeInv, Inv, WorkersInv, Released
<1>r. ASSUME wf' = wf PROVE \A m : Returned(m)' = Returned(m) BY <1>r DEF Returned
<1>4. CASE InlineReturns
  <2>1. wf.kind[cur] \notin {"module", "handler"} BY <1>4 DEF InlineReturns, Outcomes
  <2>2. runs[cur] = 1 BY <1>3, <1>4, <2>1 DEF InlineReturns, RouteInv, HandsInv
  <2>3. /\ \A m \in Released' : m \in Released
        /\ \A m \in Released : m \in Released' \/ m = cur
    BY <1>2, <1>4 DEF InlineReturns, Released, InFlight
  <2>4. runs' = runs /\ wf' = wf BY <1>4 DEF InlineReturns, history
  <2>5. results'[cur] # "none" \/ pc' \in {"failed", "paused"}
    BY <1>3, <1>4, SettleAnswered DEF InlineReturns, Good
  <2>6. \A m \in Released : m \in Released' \/ Settled(Returned(m))' \/ pc' \in {"failed", "paused"}
    BY <1>3, <1>4, <1>r, <2>3, <2>4, <2>5 DEF Settled, InlineReturns
  <2>7. QED BY <2>2, <2>3, <2>4, <2>6 DEF Moves
<1>5. CASE RateLimitAllows
  <2>1. cur \in Node /\ InFlight' = InFlight \cup {cur}
    BY <1>1, <1>3, <1>5 DEF RateLimitAllows, Launch, InFlight
  <2>2. Released' = Released BY <2>1, <1>2, <1>5 DEF RateLimitAllows, Released
  <2>3. QED BY <2>2, <1>3, <1>5, StartMoves DEF RateLimitAllows, Moves
<1>6. CASE RateLimitRefuses
  <2>1. results'[cur] # "none" BY <1>1, <1>3, <1>6 DEF RateLimitRefuses, StoreAndUnblock
  <2>2. /\ \A m \in Released' : m \in Released
        /\ \A m \in Released : m \in Released' \/ m = cur
    BY <1>2, <1>6 DEF RateLimitRefuses, Released, InFlight
  <2>3. runs' = runs /\ wf' = wf /\ pc = "inline" BY <1>6 DEF RateLimitRefuses, history
  <2>4. \A m \in Released : m \in Released' \/ Settled(Returned(m))'
    BY <1>3, <1>r, <2>1, <2>2, <2>3 DEF Settled
  <2>5. QED BY <2>1, <2>2, <2>3, <2>4 DEF Moves, Settled
<1>7. CASE StoreNext
  <2>1. /\ batch # <<>> /\ batch' = Tail(batch) /\ runs' = runs
        /\ UNCHANGED <<wf, ready, keep, cur, executing>>
    BY <1>7 DEF StoreNext, history
  <2>2. Range(batch) = Range(Tail(batch)) \cup {Head(batch)}
    BY <2>1, PopQueue DEF Good, TypeInv, TypeOK, Inv, QueuesInv
  <2>3. runs[Head(batch)] = 1 BY <2>1, <2>2, PopQueue DEF Good, TypeInv, TypeOK, Inv, QueuesInv, WorkersInv
  <2>4. /\ \A m \in Released' : m \in Released
        /\ \A m \in Released : m \in Released' \/ m = Head(batch)
    BY <2>1, <2>2 DEF Released, InFlight
  <2>5. results'[Head(batch)] # "none" /\ Returned(Head(batch)) = Head(batch)
    <3>1. Head(batch) \in Node /\ wf.kind[Head(batch)] # "module"
      BY <2>1, <2>2, PopQueue DEF Good, TypeInv, TypeOK, Inv, QueuesInv, WorkersInv
    <3>2. ~InChain(wf, Head(batch)) BY <3>1, KindFacts DEF Good
    <3>3. QED BY <1>1, <1>7, <3>1, <3>2, ReturnedSelf DEF StoreNext, StoreAndUnblock, Good, TypeInv
  <2>6. \A m \in Released : m \in Released' \/ Settled(Returned(m))'
    BY <1>r, <2>1, <2>4, <2>5 DEF Settled
  <2>7. QED BY <2>1, <2>3, <2>4, <2>6 DEF Moves
<1>8. CASE CompleteOk \/ CompleteErr
  <2>1. PICK n \in InFlight : /\ executing' = [executing EXCEPT ![n] = @ - 1] /\ runs' = runs
                              /\ UNCHANGED <<wf, ready, keep, batch, cur>>
                              /\ \/ \E holds : Success(Returned(n), holds)
                                 \/ Failure(Returned(n), "loop")
    BY <1>8 DEF CompleteOk, CompleteErr, history
  <2>2. n \in Node /\ runs[n] = 1 BY <2>1 DEF InFlight, Good, Inv, WorkersInv
  <2>3. \A m \in Node : m # n => executing'[m] = executing[m] BY <2>1, <1>1
  <2>4. executing'[n] > 0 => executing[n] > 0 BY <2>1, <2>2, <1>1
  <2>5. (\A m \in InFlight' : m \in InFlight) /\ (\A m \in InFlight : m \in InFlight' \/ m = n)
    BY <2>1, <2>3 DEF InFlight
  <2>6. /\ \A m \in Released' : m \in Released
        /\ \A m \in Released : m \in Released' \/ m = n
    BY <2>1, <2>5 DEF Released
  <2>7. Returned(n) \in Node
    <3>1. n \in Released BY <2>1 DEF Released
    <3>2. QED BY <2>2, <3>1, ReleasedNodes, ReturnedFacts DEF Good, TypeInv
  <2>8. results'[Returned(n)] # "none" \/ pc' = "failed"
    BY <2>1, <2>7, <1>1, FailureAnswered DEF Success, Good
  <2>9. \A m \in Released : m \in Released' \/ Settled(Returned(m))' \/ pc' = "failed"
    BY <1>r, <2>1, <2>6, <2>8 DEF Settled
  <2>10. QED BY <2>1, <2>2, <2>6, <2>9 DEF Moves
<1>9. QED BY <1>4, <1>5, <1>6, <1>7, <1>8

\* The batch of sub-workflows, and the steps that only move the program counter.
LEMMA BatchMoves ==
  ASSUME Routed, Drain \/ DrainDone \/ JoinReturns \/ Finish \/ Interrupt \/ Ended \/ UNCHANGED vars
  PROVE  Moves
<1> USE DEF Routed
<1>1. CASE Drain
  <2>1. /\ ready # <<>> /\ ready' = Tail(ready) /\ UNCHANGED <<wf, cur, executing>>
        /\ \/ batch' = Append(batch, Head(ready)) /\ keep' = keep /\ Started({Head(ready)})
           \/ keep' = Append(keep, Head(ready)) /\ batch' = batch /\ runs' = runs
    BY <1>1 DEF Drain
  <2>2. /\ Head(ready) \in Node /\ Head(ready) \in Released
        /\ Range(ready) = Range(Tail(ready)) \cup {Head(ready)}
    BY <2>1, TailType, PopFacts DEF Good
  <2>3. /\ Range(Append(batch, Head(ready))) = Range(batch) \cup {Head(ready)}
        /\ Range(Append(keep, Head(ready))) = Range(keep) \cup {Head(ready)}
    BY <2>2, PushQueue DEF Good, TypeInv, TypeOK
  <2>4. Released' = Released BY <2>1, <2>2, <2>3 DEF Released, InFlight
  <2>5. QED BY <2>1, <2>2, <2>4, StartMoves DEF Moves
<1>2. CASE DrainDone
  <2>1. Range(<<>>) = {} BY DEF Range
  <2>2. Released' = Released /\ runs' = runs
    BY <1>2, <2>1 DEF DrainDone, Released, InFlight, history
  <2>3. QED BY <2>2 DEF Moves
<1>3. CASE JoinReturns \/ Finish \/ Interrupt \/ Ended \/ UNCHANGED vars
  <2>1. Released' = Released /\ runs' = runs
    BY <1>3 DEF JoinReturns, Finish, Interrupt, Ended, vars, history, Released, InFlight
  <2>2. QED BY <2>1 DEF Moves
<1>4. QED BY <1>1, <1>2, <1>3

\* Together: what the steps outside the completion loops do to the nodes.
LEMMA WorkingMoves == ASSUME Routed, Working PROVE Moves
BY PopMoves, WorkMoves, BatchMoves DEF Working


\* The queues and the awaited node are empty where HandsInv says so.
LEMMA HandsStep == ASSUME Routed, [Next]_vars PROVE HandsInv'
<1> USE DEF Routed
<1>n. NoNode \notin Node /\ Range(<<>>) = {} BY ReactorAssumption DEF Range
<1>f. wf' = wf BY WorkflowFixed
<1>1. CASE PopChain \/ PopSkip \/ PopModule
  <2>1. pc' = pc /\ pc = "loop" /\ UNCHANGED <<keep, batch, cur>>
    BY <1>1 DEF PopChain, PopSkip, PopModule, Popped
  <2>2. QED BY <2>1, <1>n DEF RouteInv, HandsInv
<1>2. CASE PopSync
  <2>1. pc = "loop" /\ pc' \in {"loop", "failed", "paused"} /\ UNCHANGED <<keep, batch, cur>>
    BY <1>2, SettleStores DEF PopSync, Popped
  <2>2. QED BY <2>1, <1>n DEF RouteInv, HandsInv
<1>3. CASE PopInline
  <2>1. PICK n \in Node : PopInline!(n) BY <1>3 DEF PopInline
  <2>2. runs'[n] = 1 BY <2>1, PopFacts, StartOne DEF Popped, Good
  <2>3. QED BY <2>1, <2>2, <1>f DEF RouteInv, HandsInv, Popped, Routing, routingVars
<1>4. CASE PopLimited
  BY <1>4, <1>f DEF PopLimited, Popped, RouteInv, HandsInv, Routing, routingVars
<1>5. CASE InlineReturns \/ RateLimitAllows \/ RateLimitRefuses
  <2>1. pc = "inline" /\ pc' \in {"loop", "failed", "paused"} /\ cur' = NoNode /\ UNCHANGED <<keep, batch>>
    BY <1>5, SettleStores DEF InlineReturns, RateLimitAllows, RateLimitRefuses
  <2>2. QED BY <2>1, <1>n DEF RouteInv, HandsInv
<1>6. CASE PopSub \/ Drain
  <2>1. pc \in {"loop", "drain"} /\ pc' = "drain" /\ UNCHANGED cur
    BY <1>6 DEF PopSub, Drain, Popped
  <2>2. QED BY <2>1, <1>n DEF RouteInv, HandsInv
<1>7. CASE DrainDone \/ JoinReturns
  <2>1. pc \in {"drain", "join"} /\ pc' \in {"join", "store"} /\ keep' \in {<<>>, keep} /\ UNCHANGED cur
        /\ (pc = "drain" => keep' = <<>>)
    BY <1>7 DEF DrainDone, JoinReturns
  <2>2. QED BY <2>1, <1>n DEF RouteInv, HandsInv
<1>8. CASE StoreNext
  <2>1. /\ pc = "store" /\ UNCHANGED <<keep, cur>> /\ batch # <<>> /\ batch' = Tail(batch)
        /\ pc' = IF Len(batch) = 1 THEN "loop" ELSE "store"
    BY <1>8 DEF StoreNext
  <2>2. batch \in Seq(Node) BY DEF Good, TypeInv, TypeOK
  <2>3. pc' = "loop" => batch' = <<>> BY <2>1, <2>2
  <2>4. QED BY <2>1, <2>3, <1>n DEF RouteInv, HandsInv
<1>9. CASE CompleteOk \/ CompleteErr
  <2>1. pc = "loop" /\ pc' \in {"loop", "failed"} /\ UNCHANGED <<keep, batch, cur>>
    BY <1>9, FailureStores DEF CompleteOk, CompleteErr, Quiet, Success
  <2>2. QED BY <2>1, <1>n DEF RouteInv, HandsInv
<1>10. CASE Finish
  <2>1. /\ pc = "loop" /\ pc' = "done" /\ ready = <<>> /\ InFlight = {} /\ ~Routing
        /\ UNCHANGED <<ready, keep, batch, cur, executing, todo, cascade>>
    BY <1>10 DEF Finish, Quiet, routingVars
  <2>2. keep = <<>> /\ batch = <<>> /\ cur = NoNode BY <2>1 DEF RouteInv, HandsInv
  <2>3. Released' = {} /\ ~Routing'
    BY <2>1, <2>2, <1>n DEF Released, InFlight, Routing
  <2>4. QED BY <2>1, <2>2, <2>3, <1>n DEF HandsInv
<1>11. CASE Interrupt
  BY <1>11, <1>f DEF Interrupt, RouteInv, HandsInv, history
<1>12. CASE RoutePanics
  BY <1>12, TodoFacts, EdgeFacts DEF RoutePanics, Good
<1>13. CASE RouteUnblock \/ RouteDead \/ RouteSuccess \/ RouteErrored \/ RouteCascade
  <2>1. Routing /\ UNCHANGED <<pc, keep, batch, cur, runs>>
    BY <1>13 DEF RouteUnblock, RouteDead, RouteSuccess, RouteErrored, RouteCascade, Routing, history
  <2>2. QED BY <2>1, <1>f DEF RouteInv, HandsInv
<1>14. CASE Ended \/ UNCHANGED vars
  <2>1. UNCHANGED vars BY <1>14 DEF Ended
  <2>2. QED BY <2>1 DEF vars, RouteInv, HandsInv, Released, InFlight, Routing
<1>15. QED
  BY <1>1, <1>2, <1>3, <1>4, <1>5, <1>6, <1>7, <1>8, <1>9, <1>10, <1>11, <1>12, <1>13, <1>14
  DEF Next, Progress

\* A run that ended early stays so, and a step outside the completion loops finds the
\* run where it has not ended.
LEMMA Endings ==
  ASSUME [Next]_vars
  PROVE  /\ pc \in Terminal \ {"done"} => pc' \in Terminal \ {"done"}
         /\ pc' = "done" /\ pc # "done" => Finish
<1>1. CASE \/ PopChain \/ PopSkip \/ PopInline \/ PopModule \/ PopLimited \/ RateLimitAllows
           \/ RateLimitRefuses \/ PopSub \/ Drain \/ DrainDone \/ JoinReturns \/ StoreNext
  BY <1>1 DEF Terminal, Popped, PopChain, PopSkip, PopInline, PopModule, PopLimited, RateLimitAllows,
              RateLimitRefuses, PopSub, Drain, DrainDone, JoinReturns, StoreNext
<1>2. CASE PopSync
  <2>1. pc = "loop" /\ pc' \in {"loop", "failed", "paused"} BY <1>2, SettleStores DEF PopSync, Popped
  <2>2. QED BY <2>1 DEF Terminal
<1>3. CASE InlineReturns
  <2>1. pc = "inline" /\ pc' \in {"loop", "failed", "paused"} BY <1>3, SettleStores DEF InlineReturns
  <2>2. QED BY <2>1 DEF Terminal
<1>4. CASE CompleteOk \/ CompleteErr
  <2>1. pc = "loop" /\ pc' \in {"loop", "failed"}
    BY <1>4, FailureStores DEF CompleteOk, CompleteErr, Quiet
  <2>2. QED BY <2>1 DEF Terminal
<1>5. CASE Finish BY <1>5 DEF Finish, Quiet, Terminal
<1>6. CASE RouteUnblock \/ RouteDead \/ RouteSuccess \/ RoutePanics \/ RouteCascade \/ RouteErrored
  BY <1>6 DEF Terminal, RouteUnblock, RouteDead, RouteSuccess, RoutePanics, RouteCascade, RouteErrored
<1>7. CASE Interrupt \/ Ended \/ UNCHANGED vars
  BY <1>7 DEF Interrupt, Quiet, Ended, vars, Terminal
<1>8. QED BY <1>1, <1>2, <1>3, <1>4, <1>5, <1>6, <1>7 DEF Next, Progress

\* The work of a unit that was started is in somebody's hands.
LEMMA HeldStep == ASSUME Routed, [Next]_vars PROVE HeldInv'
<1> USE DEF Routed
<1>f. wf' = wf BY WorkflowFixed
<1>r. Interior(wf)' = Interior(wf) /\ \A m : Returned(m)' = Returned(m) BY <1>f DEF Interior, Returned
<1>e. pc \in Terminal \ {"done"} => pc' \in Terminal \ {"done"} BY Endings
<1>s. \A m \in Node : Settled(m) => Settled(m)' BY NextFinal DEF Settled
<1>n. \A m \in Node \ Interior(wf) : Returned(m) \in Node BY ReturnedFacts DEF Good, TypeInv
<1>1. CASE Working
  <2>1. Moves BY <1>1, WorkingMoves
  <2>2. QED BY <2>1, <1>r, <1>e, <1>s, <1>n DEF Moves, RouteInv, HeldInv, Terminal
<1>2. CASE RouteUnblock \/ RouteDead \/ RouteSuccess \/ RouteErrored \/ RouteCascade \/ RoutePanics
  <2>1. /\ runs' = runs /\ UNCHANGED <<keep, batch, cur, executing>>
        /\ ready' = ready \/ \E e \in todo : ready' = Append(ready, e.dst)
    BY <1>2 DEF RouteUnblock, RouteDead, RouteSuccess, RouteErrored, RouteCascade, RoutePanics,
                Release, history
  <2>2. ready \in Seq(Node) /\ \A e \in todo : e.dst \in Node
    BY EdgeFacts DEF Good, TypeInv, TypeOK
  <2>3. \A m \in Range(ready) : m \in Range(ready') BY <2>1, <2>2, PushQueue
  <2>4. \A m \in Released : m \in Released' BY <2>1, <2>3 DEF Released, InFlight
  <2>5. QED BY <2>1, <2>4, <1>r, <1>e, <1>s, <1>n DEF RouteInv, HeldInv
<1>3. QED BY <1>1, <1>2 DEF Next, Progress, Working

-----------------------------------------------------------------------------
(* What a step stores *)

\* A result is stored at k and the loop for it is begun.
Stored(k, r) ==
  /\ ~Routing
  /\ k \in Node /\ ~Settled(k) /\ r \in Result \ {"none", "seed"}
  /\ results' = [results EXCEPT ![k] = r]
  /\ todo' = Out(wf, k) /\ cascade' = {}
  /\ Plain(k) => \/ r = "output" /\ mode' = "success"
                 \/ r = "error" /\ mode' = "errored"
                 \/ r = "continued" /\ mode' = "unblock"

\* A result is stored at a node that pauses the run, or nothing is.
Parked(k) == k \in Node /\ ~Settled(k) /\ ~Plain(k) /\ results' = [results EXCEPT ![k] = "waiting"]
             /\ UNCHANGED <<todo, cascade, mode>>
Unstored == UNCHANGED <<results, todo, cascade, mode>>

\* The node that gets the result of a step has run, unless it is inside a chain or guarded.
Accounted(k) == k \in Interior(wf) \/ ~Unguarded(k) \/ runs'[k] > 0

\* The three ways a step outside the completion loops treats the results.
Answers == \/ Unstored
           \/ \E k \in Node : Accounted(k) /\ (Parked(k) \/ \E r \in Result : Stored(k, r))

\* handle_node_failure stores an error, continues, or ends the run.
LEMMA FailureAnswers ==
  ASSUME ~Routing, NEW k \in Node, ~Settled(k), Accounted(k), Failure(k, "loop")
  PROVE  Answers
BY DEF Failure, Answers, Stored, Unstored, StoreAndUnblock, Result, routingVars

\* What a handler of another kind than a module stores.
LEMMA SettleAnswers ==
  ASSUME ~Routing, NEW k \in Node, ~Settled(k), Accounted(k), ~Plain(k), NEW o, Settle(k, o)
  PROVE  Answers
<1>1. CASE StoreAndUnblock(k, "output")
  BY <1>1 DEF Answers, Stored, StoreAndUnblock, Result
<1>2. CASE Failure(k, "loop") BY <1>2, FailureAnswers
<1>3. CASE results' = [results EXCEPT ![k] = "waiting"] /\ UNCHANGED routingVars
  BY <1>3 DEF Answers, Parked, routingVars
<1>4. CASE UNCHANGED <<results, routingVars>>
  BY <1>4 DEF Answers, Unstored, routingVars
<1>5. QED BY <1>1, <1>2, <1>3, <1>4 DEF Settle

\* Every step outside the completion loops is of that form, and fires nothing.
LEMMA WorkingAnswers ==
  ASSUME Routed, Working
  PROVE  Answers /\ UNCHANGED <<wf, fired, judged>>
<1> USE DEF Routed
<1>c. pc = "inline" => cur \in Node /\ cur \in Released /\ ~Settled(cur) /\ ~Routing
  BY DEF Good, Inv, WorkersInv, Released, UnsettledInv, RouteInv, HandsInv
<1>1. CASE \/ PopChain \/ PopInline \/ PopModule \/ PopLimited \/ RateLimitAllows \/ PopSub \/ Drain
           \/ DrainDone \/ JoinReturns \/ Finish \/ Interrupt \/ Ended \/ UNCHANGED vars
  BY <1>1 DEF PopChain, PopInline, PopModule, PopLimited, RateLimitAllows, PopSub, Drain, DrainDone,
              JoinReturns, Finish, Interrupt, Ended, vars, routingVars, history, Answers, Unstored
<1>2. CASE PopSkip
  <2>1. PICK n \in Node : PopSkip!(n) BY <1>2 DEF PopSkip
  <2>2. ~Settled(n) /\ ~Routing BY <2>1, PopFacts DEF Popped
  <2>3. ~Plain(n) /\ ~Unguarded(n) BY <2>1 DEF Plain, Unguarded
  <2>4. Stored(n, "skipped") BY <2>1, <2>2, <2>3 DEF Stored, StoreAndUnblock, Result
  <2>5. QED BY <2>1, <2>3, <2>4 DEF Answers, Accounted, Result, history
<1>3. CASE PopSync
  <2>1. PICK n \in Node : PopSync!(n) BY <1>3 DEF PopSync
  <2>2. ~Settled(n) /\ ~Routing /\ runs'[n] > 0 BY <2>1, PopFacts, StartOne DEF Popped, Good
  <2>3. ~Plain(n) /\ Accounted(n) BY <2>1, <2>2 DEF Plain, Accounted
  <2>4. QED BY <2>1, <2>2, <2>3, SettleAnswers
<1>4. CASE InlineReturns
  <2>1. PICK k : k = cur OBVIOUS
  <2>2. k \in Node /\ ~Settled(k) /\ ~Routing /\ wf.kind[k] \notin {"module", "handler"}
    BY <1>4, <1>c, <2>1 DEF InlineReturns, Outcomes
  <2>3. runs' = runs /\ runs[k] = 1 BY <1>4, <2>1, <2>2 DEF InlineReturns, RouteInv, HandsInv, history
  <2>4. ~Plain(k) /\ Accounted(k) BY <2>2, <2>3 DEF Plain, Accounted
  <2>5. PICK o : Settle(k, o) BY <1>4, <2>1 DEF InlineReturns
  <2>6. Answers BY <2>2, <2>4, <2>5, SettleAnswers
  <2>7. QED BY <1>4, <2>6 DEF InlineReturns, history
<1>5. CASE RateLimitRefuses
  <2>1. PICK k : k = cur OBVIOUS
  <2>2. k \in Node /\ ~Settled(k) /\ ~Routing /\ k \in wf.limited
    BY <1>5, <1>c, <2>1 DEF RateLimitRefuses, RouteInv, HandsInv
  <2>3. ~Plain(k) /\ ~Unguarded(k) BY <2>2 DEF Plain, Unguarded
  <2>4. StoreAndUnblock(k, "error") BY <1>5, <2>1 DEF RateLimitRefuses
  <2>5. Stored(k, "error") BY <2>2, <2>3, <2>4 DEF Stored, StoreAndUnblock, Result
  <2>6. QED BY <1>5, <2>2, <2>3, <2>5 DEF RateLimitRefuses, Answers, Accounted, Result, history
<1>6. CASE StoreNext
  <2>1. PICK k : k = Head(batch) OBVIOUS
  <2>2. k \in Range(batch) /\ k \in Node /\ ~Routing
    BY <1>6, <2>1, PopQueue DEF StoreNext, Good, TypeInv, TypeOK, Inv, QueuesInv
  <2>3. ~Settled(k) /\ runs[k] = 1 /\ wf.kind[k] = "sub"
    BY <2>2 DEF Good, Inv, UnsettledInv, WorkersInv, Released
  <2>4. runs' = runs BY <1>6 DEF StoreNext, history
  <2>5. ~Plain(k) /\ Accounted(k) BY <2>3, <2>4 DEF Plain, Accounted
  <2>6. StoreAndUnblock(k, "output") BY <1>6, <2>1 DEF StoreNext
  <2>7. Stored(k, "output") BY <2>2, <2>3, <2>5, <2>6 DEF Stored, StoreAndUnblock, Result
  <2>8. QED BY <1>6, <2>2, <2>5, <2>7 DEF StoreNext, Answers, Result, history
<1>7. CASE CompleteOk \/ CompleteErr
  <2>1. PICK n \in InFlight :
          /\ \/ \E holds : Success(Returned(n), holds)
             \/ Failure(Returned(n), "loop")
          /\ ~Routing /\ UNCHANGED <<wf, fired, judged, runs>>
    BY <1>7 DEF CompleteOk, CompleteErr, history, Quiet
  <2>2. n \in Node /\ n \in Released /\ runs[n] = 1 BY DEF InFlight, Released, Good, Inv, WorkersInv
  <2>3. PICK k : k = Returned(n) OBVIOUS
  <2>4. k \in Node /\ ~Settled(k) /\ (k \in Interior(wf) \/ k = n) /\ ~Routing
    BY <2>1, <2>2, <2>3, ReleasedNodes, ReturnedFacts DEF Good, TypeInv, Inv, UnsettledInv
  <2>5. Accounted(k) BY <2>1, <2>2, <2>4 DEF Accounted
  <2>6. CASE \E holds : Success(k, holds)
    <3>1. Stored(k, "output") BY <2>4, <2>6 DEF Success, Stored, Result
    <3>2. QED BY <2>1, <2>4, <2>5, <3>1 DEF Answers, Result
  <2>7. CASE Failure(k, "loop")
    <3>1. Answers BY <2>4, <2>5, <2>7, FailureAnswers
    <3>2. QED BY <2>1, <3>1
  <2>8. QED BY <2>1, <2>3, <2>6, <2>7
<1>8. QED BY <1>1, <1>2, <1>3, <1>4, <1>5, <1>6, <1>7 DEF Working

-----------------------------------------------------------------------------
(* Steps outside the completion loops *)

\* What is said of the workflow alone does not change.
LEMMA GraphFacts ==
  ASSUME wf' = wf
  PROVE  /\ Interior(wf)' = Interior(wf)
         /\ \A m : (Plain(m)' <=> Plain(m)) /\ (Unguarded(m)' <=> Unguarded(m))
         /\ \A m : In(wf, m)' = In(wf, m) /\ (Conditioned(m)' <=> Conditioned(m))
         /\ \A e : (Sole(e)' <=> Sole(e))
BY DEF Interior, Plain, Unguarded, In, Conditioned, Sole

\* The edges of the loops and of the history have settled sources.
LEMMA SettledSources ==
  ASSUME Routed
  PROVE  /\ \A e \in fired \cup todo \cup cascade : e \in wf.edges /\ e.src \in Node /\ Settled(e.src)
         /\ \A e \in wf.edges : Sole(e) /\ Settled(e.dst) => Settled(e.src)
         /\ \A e \in wf.edges : Sole(e) /\ (e.dst \in Released \/ runs[e.dst] > 0) => e \in fired
<1> USE DEF Routed
<1>1. \A e \in fired \cup todo \cup cascade : e \in wf.edges /\ e.src \in Node /\ Settled(e.src)
  BY EdgeFacts DEF Good, Inv, EdgesInv
<1>2. ASSUME NEW e \in wf.edges, Sole(e), Settled(e.dst) PROVE Settled(e.src)
  <2>1. e.dst \in Node \ Interior(wf) /\ In(wf, e.dst) = {e} BY <1>2, EdgeFacts DEF Sole, Good
  <2>2. In(wf, e.dst) \subseteq fired \/ \E f \in In(wf, e.dst) : Dead(f)
    BY <1>2, <2>1 DEF Good, Inv, ExplainedInv
  <2>3. QED BY <1>1, <2>1, <2>2 DEF Dead
<1>3. ASSUME NEW e \in wf.edges, Sole(e), e.dst \in Released \/ runs[e.dst] > 0 PROVE e \in fired
  <2>1. e.dst \in Node \ Interior(wf) /\ In(wf, e.dst) = {e} BY <1>3, EdgeFacts DEF Sole, Good
  <2>2. QED BY <1>3, <2>1 DEF Good, Inv, FiredInv
<1>4. QED BY <1>1, <1>2, <1>3

\* The routing invariant after a step that is not of a completion loop.
LEMMA WorkingRoutes ==
  ASSUME Routed, Working, \A n \in Node : Settled(n) => results'[n] = results[n]
  PROVE  LoopInv' /\ OutcomeInv' /\ SoleInv' /\ ReleasedInv'
<1> USE DEF Routed
<1>a. Answers /\ UNCHANGED <<wf, fired, judged>> BY WorkingAnswers
<1>m. Moves BY WorkingMoves
<1>t. results \in [Node -> Result] BY DEF Good, TypeInv, TypeOK
<1>e. \A e \in wf.edges : e.src \in Node /\ e.dst \in Node BY EdgeFacts DEF Good
<1>f. \A e \in fired : results'[e.src] = results[e.src] /\ Settled(e.src) BY SettledSources
<1>k. \/ Unstored
      \/ \E k \in Node :
           /\ Accounted(k) /\ ~Settled(k) /\ \A m \in Node : m # k => results'[m] = results[m]
           /\ Parked(k) \/ \E r \in Result : Stored(k, r)
  <2>1. ASSUME NEW k \in Node, NEW r, results' = [results EXCEPT ![k] = r]
        PROVE  \A m \in Node : m # k => results'[m] = results[m]
    BY <1>t, <2>1
  <2>2. QED BY <1>a, <2>1 DEF Answers, Parked, Stored
<1>1. LoopInv'
  <2>1. CASE Unstored
    BY <2>1, <1>a, GraphFacts DEF Unstored, RouteInv, LoopInv, Cascaded
  <2>2. ASSUME NEW k \in Node, Parked(k) PROVE LoopInv'
    <3>1. \A e \in todo \cup cascade : results'[e.src] = results[e.src] BY SettledSources
    <3>2. QED BY <3>1, <2>2, <1>a, GraphFacts DEF Parked, RouteInv, LoopInv, Cascaded
  <2>3. ASSUME NEW k \in Node, NEW r \in Result, Stored(k, r) PROVE LoopInv'
    <3>1. results'[k] = r BY <2>3, <1>t DEF Stored
    <3>2. QED BY <3>1, <2>3, <1>a, GraphFacts DEF Stored, LoopInv, Out
  <2>4. QED BY <1>k, <2>1, <2>2, <2>3
<1>2. OutcomeInv'
  <2>1. \A p \in Node : Plain(p) => results'[p] \notin {"seed", "waiting"}
    BY <1>k, <1>t DEF RouteInv, OutcomeInv, Unstored, Parked, Stored
  <2>2. \A e \in fired' : Plain(e.src) =>
           \/ results'[e.src] = "output" /\ ~ErrorConnected(wf, e.src, e.dst)
           \/ results'[e.src] = "error" /\ ErrorConnected(wf, e.src, e.dst)
           \/ results'[e.src] = "continued"
           \/ results'[e.src] = "skipped" /\ Conditioned(e.src)
    BY <1>a, <1>f DEF RouteInv, OutcomeInv, Cascaded
  <2>3. ASSUME NEW e \in wf.edges, Plain(e.src), results'[e.src] = "error", ErrorConnected(wf, e.src, e.dst)
        PROVE  e \in todo' \cup fired'
    <3>1. CASE results[e.src] = "error"
      <4>1. e \in todo \cup fired BY <2>3, <3>1 DEF RouteInv, OutcomeInv
      <4>2. todo' = todo \/ todo = {} BY <1>k DEF Unstored, Parked, Stored, Routing
      <4>3. QED BY <4>1, <4>2, <1>a
    <3>2. CASE results[e.src] # "error"
      <4>1. PICK k \in Node, r \in Result : Stored(k, r) /\ \A m \in Node : m # k => results'[m] = results[m]
        BY <1>k, <2>3, <3>2, <1>e, <1>t DEF Unstored, Parked
      <4>2. e.src = k BY <4>1, <3>2, <2>3, <1>e
      <4>3. QED BY <4>1, <4>2 DEF Stored, Out
    <3>3. QED BY <3>1, <3>2
  <2>4. QED BY <2>1, <2>2, <2>3, <1>a, GraphFacts DEF OutcomeInv, Cascaded, ErrorConnected, Connecting
<1>3. SoleInv'
  <2> SUFFICES ASSUME NEW e \in wf.edges, Sole(e)
               PROVE  /\ e.dst \in Released' \/ runs'[e.dst] > 0 => results'[e.src] # "skipped"
                      /\ e \in fired /\ e.cond /\ results'[e.src] = "output" => e \in judged
                      /\ /\ e.type = "error" /\ results'[e.src] = "error"
                         /\ Unguarded(e.dst) /\ Settled(e.dst)'
                         => runs'[e.dst] > 0
    BY <1>a, GraphFacts DEF SoleInv
  <2>1. e.dst \in Node \ Interior(wf) BY <1>e DEF Sole
  <2>2. ASSUME e.dst \in Released' \/ runs'[e.dst] > 0 PROVE results'[e.src] # "skipped"
    <3>1. e.dst \in Released \/ runs[e.dst] > 0 BY <2>1, <2>2, <1>m DEF Moves
    <3>2. e \in fired BY <3>1, SettledSources
    <3>3. QED BY <3>1, <3>2, <1>f DEF RouteInv, SoleInv
  <2>3. e \in fired /\ e.cond /\ results'[e.src] = "output" => e \in judged
    BY <1>f DEF RouteInv, SoleInv
  <2>4. ASSUME e.type = "error", results'[e.src] = "error", Unguarded(e.dst), Settled(e.dst)'
        PROVE  runs'[e.dst] > 0
    <3>1. CASE Settled(e.dst)
      <4>1. Settled(e.src) BY <3>1, SettledSources
      <4>2. runs[e.dst] > 0 BY <4>1, <3>1, <2>4, <1>e DEF RouteInv, SoleInv
      <4>3. QED BY <4>2, <2>1, <1>m DEF Moves
    <3>2. CASE ~Settled(e.dst)
      BY <3>2, <2>1, <2>4, <1>k DEF Unstored, Accounted, Settled
    <3>3. QED BY <3>1, <3>2
  <2>5. QED BY <2>2, <2>3, <2>4
<1>4. ReleasedInv'
  <2> SUFFICES ASSUME NEW n \in Node, n \notin wf.seed, n \notin Interior(wf), In(wf, n) \subseteq fired
               PROVE  \/ n \in Released' \/ runs'[n] > 0 \/ Settled(n)'
                      \/ \E e \in In(wf, n) : results'[e.src] = "skipped" /\ Conditioned(e.src)
    BY <1>a, GraphFacts DEF ReleasedInv, Cascaded
  <2>1. \/ n \in Released \/ runs[n] > 0 \/ Settled(n)
        \/ \E e \in In(wf, n) : results[e.src] = "skipped" /\ Conditioned(e.src)
    BY DEF RouteInv, ReleasedInv, Cascaded
  <2>2. Settled(n) => Settled(n)' BY DEF Settled
  <2>3. QED BY <2>1, <2>2, <1>m, <1>f DEF Moves
<1>5. QED BY <1>1, <1>2, <1>3, <1>4

-----------------------------------------------------------------------------
(* Steps of the completion loops *)

\* What the loop that visits an edge says of the result at its source.
LEMMA TodoResult ==
  ASSUME Routed, NEW e \in todo, Plain(e.src)
  PROVE  \/ results[e.src] = "output" /\ mode = "success"
         \/ results[e.src] = "error" /\ mode = "errored"
         \/ results[e.src] = "continued" /\ mode = "unblock"
BY DEF Routed, RouteInv, LoopInv

\* A loop visits an edge that counts.
LEMMA FireRoutes ==
  ASSUME Routed, NEW e \in todo, NEW cnt, cnt = pending[e.dst] - 1, Release(e.dst, cnt), Visit(e),
         fired' = fired \cup {e}, judged \subseteq judged',
         UNCHANGED <<wf, keep, batch, cur, executing, results, mode, cascade, runs>>,
         Plain(e.src) => \/ results[e.src] = "output" /\ ~ErrorConnected(wf, e.src, e.dst)
                         \/ results[e.src] = "error" /\ ErrorConnected(wf, e.src, e.dst)
                         \/ results[e.src] = "continued",
         Sole(e) /\ e.cond /\ results[e.src] = "output" => e \in judged'
  PROVE  LoopInv' /\ OutcomeInv' /\ SoleInv' /\ ReleasedInv'
<1> DEFINE n == e.dst
<1> USE DEF Routed
<1>e. /\ e \in wf.edges /\ e \notin fired /\ n \in Node /\ e \in In(wf, n)
      /\ pending[n] = Cardinality(In(wf, n) \ fired) /\ pending[n] \in Nat \ {0}
      /\ n \notin Released /\ runs[n] = 0
  BY TodoFacts, EdgeFacts DEF Good
<1>s. \A m : Settled(m)' <=> Settled(m) BY DEF Settled
<1>r. \/ cnt # 0 /\ Released' = Released
      \/ cnt = 0 /\ Released' = Released \cup {n}
  <2>1. ready \in Seq(Node) BY DEF Good, TypeInv, TypeOK
  <2>2. Range(Append(ready, n)) = Range(ready) \cup {n} BY <2>1, <1>e, PushQueue
  <2>3. QED BY <2>2, <1>e DEF Release, Released, InFlight
<1>1. LoopInv' BY GraphFacts DEF Visit, RouteInv, LoopInv, Cascaded
<1>2. OutcomeInv'
  BY GraphFacts DEF Visit, RouteInv, OutcomeInv, Cascaded, ErrorConnected, Connecting
<1>3. SoleInv'
  <2>1. \A g \in wf.edges : Sole(g) /\ g.dst = n => g = e BY <1>e DEF Sole
  <2>2. Plain(e.src) => results[e.src] # "skipped" BY TodoResult
  <2>3. \A g \in wf.edges : Sole(g) /\ (g.dst \in Released' \/ runs[g.dst] > 0) => results[g.src] # "skipped"
    BY <2>1, <2>2, <1>r DEF RouteInv, SoleInv, Sole
  <2>4. QED BY <2>3, <1>s, GraphFacts DEF RouteInv, SoleInv
<1>4. ReleasedInv'
  <2> SUFFICES ASSUME NEW m \in Node, m \notin wf.seed, m \notin Interior(wf), In(wf, m) \subseteq fired'
               PROVE  \/ m \in Released' \/ runs[m] > 0 \/ Settled(m)
                      \/ \E f \in In(wf, m) : Cascaded(f)
    BY <1>s, GraphFacts DEF ReleasedInv, Cascaded
  <2>1. CASE m = n
    <3>1. In(wf, n) \ (fired \cup {e}) = {} BY <2>1
    <3>2. Cardinality(In(wf, n) \ fired) - 1 = 0 BY <3>1, <1>e, FireOne, FS_EmptySet DEF Good
    <3>3. QED BY <3>2, <2>1, <1>e, <1>r
  <2>2. CASE m # n
    <3>1. In(wf, m) \subseteq fired BY <2>2 DEF In
    <3>2. QED BY <3>1, <1>r DEF RouteInv, ReleasedInv
  <2>3. QED BY <2>1, <2>2
<1>5. QED BY <1>1, <1>2, <1>3, <1>4

\* A loop marks a child as skipped: its branch was not taken, or the edge was
\* the last and a condition failed.
LEMMA MarkRoutes ==
  ASSUME Routed, NEW e \in todo, cascade = {}, Visit(e),
         results' = [results EXCEPT ![e.dst] = "skipped"],
         \/ /\ UNCHANGED <<fired, cascade>>
            /\ \/ mode = "success" /\ ErrorConnected(wf, e.src, e.dst)
               \/ mode = "errored" /\ ~ErrorConnected(wf, e.src, e.dst)
         \/ /\ fired' = fired \cup {e} /\ cascade' = Out(wf, e.dst)
            /\ mode = "success" /\ ~ErrorConnected(wf, e.src, e.dst) /\ Conditioned(e.dst),
         judged \subseteq judged', e \in fired' /\ Sole(e) /\ e.cond => e \in judged',
         UNCHANGED <<wf, ready, keep, batch, cur, executing, mode, runs>>,
         \A m \in Node : Settled(m) => results'[m] = results[m]
  PROVE  LoopInv' /\ OutcomeInv' /\ SoleInv' /\ ReleasedInv'
<1> DEFINE n == e.dst
<1> USE DEF Routed
<1>e. e \in wf.edges /\ n \in Node /\ e.src \in Node /\ e \in In(wf, n) /\ Settled(e.src)
  BY TodoFacts, EdgeFacts, SettledSources DEF Good
<1>s. /\ \A m : Settled(m)' <=> Settled(m) \/ m = n
      /\ \A m \in Node : m # n => results'[m] = results[m]
      /\ results'[n] = "skipped"
  BY <1>e DEF Settled, Good, TypeInv, TypeOK
<1>f. \A g \in fired \cup todo \cup cascade : results'[g.src] = results[g.src] BY SettledSources
<1>r. Released' = Released BY DEF Released, InFlight
<1>m. Plain(e.src) => \/ results[e.src] = "output" /\ mode = "success"
                      \/ results[e.src] = "error" /\ mode = "errored"
  BY TodoResult
<1>o. \A g \in wf.edges : results'[g.src] = "error" => results[g.src] = "error"
  BY <1>s, EdgeFacts DEF Good
<1>1. LoopInv'
  <2>1. \A g \in cascade' : results'[g.src] = "skipped" /\ Conditioned(g.src)
    BY <1>s DEF Out
  <2>2. QED BY <2>1, <1>f, GraphFacts DEF Visit, RouteInv, LoopInv, Cascaded
<1>2. OutcomeInv'
  <2>1. \A p \in Node : Plain(p) => results'[p] \notin {"seed", "waiting"}
    BY <1>s DEF RouteInv, OutcomeInv
  <2>2. \A g \in fired' : Plain(g.src) =>
           \/ results'[g.src] = "output" /\ ~ErrorConnected(wf, g.src, g.dst)
           \/ results'[g.src] = "error" /\ ErrorConnected(wf, g.src, g.dst)
           \/ results'[g.src] = "continued"
           \/ results'[g.src] = "skipped" /\ Conditioned(g.src)
    <3>1. \A g \in fired' : results'[g.src] = results[g.src] /\ (g \in fired \/ g = e) BY <1>f
    <3>2. e \in fired' /\ e \notin fired => mode = "success" /\ ~ErrorConnected(wf, e.src, e.dst)
      OBVIOUS
    <3>3. QED BY <3>1, <3>2, <1>m DEF RouteInv, OutcomeInv, Cascaded
  <2>3. ASSUME NEW g \in wf.edges, Plain(g.src), results'[g.src] = "error", ErrorConnected(wf, g.src, g.dst)
        PROVE  g \in todo' \cup fired'
    <3>1. g \in todo \cup fired BY <2>3, <1>o DEF RouteInv, OutcomeInv
    <3>2. g = e => e \in fired' BY <2>3, <1>o, <1>m
    <3>3. QED BY <3>1, <3>2 DEF Visit
  <2>4. QED BY <2>1, <2>2, <2>3, GraphFacts DEF OutcomeInv, Cascaded, ErrorConnected, Connecting
<1>3. SoleInv'
  <2> SUFFICES ASSUME NEW g \in wf.edges, Sole(g)
               PROVE  /\ g.dst \in Released \/ runs[g.dst] > 0 => results'[g.src] # "skipped"
                      /\ g \in fired' /\ g.cond /\ results'[g.src] = "output" => g \in judged'
                      /\ /\ g.type = "error" /\ results'[g.src] = "error"
                         /\ Unguarded(g.dst) /\ Settled(g.dst)'
                         => runs[g.dst] > 0
    BY <1>r, GraphFacts DEF SoleInv
  <2>1. g.dst \in Released \/ runs[g.dst] > 0 => results'[g.src] # "skipped"
    BY <1>f, SettledSources DEF RouteInv, SoleInv
  <2>2. g \in fired' /\ g.cond /\ results'[g.src] = "output" => g \in judged'
    BY <1>f DEF RouteInv, SoleInv
  <2>3. ASSUME g.type = "error", results'[g.src] = "error", Unguarded(g.dst), Settled(g.dst)'
        PROVE  runs[g.dst] > 0
    <3>1. CASE Settled(g.dst) BY <3>1, <2>3, <1>o DEF RouteInv, SoleInv
    <3>2. CASE ~Settled(g.dst)
      <4>1. g.dst = n BY <3>2, <2>3, <1>s
      <4>2. g = e BY <4>1, <1>e DEF Sole
      <4>3. mode = "errored" BY <4>2, <2>3, <1>o, <1>m DEF Sole
      <4>4. ErrorConnected(wf, e.src, e.dst)
        BY <4>2, <2>3 DEF ErrorConnected, Connecting
      <4>5. QED BY <4>3, <4>4
    <3>3. QED BY <3>1, <3>2
  <2>4. QED BY <2>1, <2>2, <2>3
<1>4. ReleasedInv'
  <2> SUFFICES ASSUME NEW m \in Node, m \notin wf.seed, m \notin Interior(wf), In(wf, m) \subseteq fired'
               PROVE  \/ m \in Released \/ runs[m] > 0 \/ Settled(m)'
                      \/ \E f \in In(wf, m) : results'[f.src] = "skipped" /\ Conditioned(f.src)
    BY <1>r, GraphFacts DEF ReleasedInv, Cascaded
  <2>1. CASE m = n BY <2>1, <1>s
  <2>2. CASE m # n
    <3>1. In(wf, m) \subseteq fired BY <2>2 DEF In
    <3>2. QED BY <3>1, <1>f, <1>s DEF RouteInv, ReleasedInv, Cascaded
  <2>3. QED BY <2>1, <2>2
<1>5. QED BY <1>1, <1>2, <1>3, <1>4

\* The cascade counts a grandchild down and releases nothing.
LEMMA CascadeRoutes ==
  ASSUME Routed, RouteCascade
  PROVE  LoopInv' /\ OutcomeInv' /\ SoleInv' /\ ReleasedInv'
<1> USE DEF Routed
<1>1. PICK e \in cascade : RouteCascade!(e) BY DEF RouteCascade
<1>2. Cascaded(e) BY DEF RouteInv, LoopInv
<1>s. \A m : Settled(m)' <=> Settled(m) BY <1>1 DEF Settled
<1>r. Released' = Released BY <1>1 DEF Released, InFlight
<1>3. LoopInv' BY <1>1, GraphFacts DEF RouteInv, LoopInv, Cascaded
<1>4. OutcomeInv'
  BY <1>1, <1>2, GraphFacts DEF RouteInv, OutcomeInv, Cascaded, ErrorConnected, Connecting
<1>5. SoleInv' BY <1>1, <1>2, <1>r, <1>s, GraphFacts DEF RouteInv, SoleInv, Cascaded
<1>6. ReleasedInv'
  <2> SUFFICES ASSUME NEW m \in Node, m \notin wf.seed, m \notin Interior(wf), In(wf, m) \subseteq fired'
               PROVE  \/ m \in Released \/ runs[m] > 0 \/ Settled(m)
                      \/ \E f \in In(wf, m) : Cascaded(f)
    BY <1>1, <1>r, <1>s, GraphFacts DEF ReleasedInv, Cascaded
  <2>1. In(wf, m) \subseteq fired \/ e \in In(wf, m) BY <1>1
  <2>2. QED BY <2>1, <1>2 DEF RouteInv, ReleasedInv
<1>7. QED BY <1>3, <1>4, <1>5, <1>6

-----------------------------------------------------------------------------
(* The invariant *)

\* The only edge into a node is the last one.
LEMMA SolePending ==
  ASSUME Good(Node), NEW e \in todo, Sole(e)
  PROVE  pending[e.dst] = 1
<1>1. /\ e \in In(wf, e.dst) /\ e.dst \in Node /\ e \notin fired
      /\ pending[e.dst] = Cardinality(In(wf, e.dst) \ fired) /\ pending[e.dst] \in Nat
  BY TodoFacts, EdgeFacts DEF Good
<1>2. In(wf, e.dst) \ (fired \cup {e}) = {} BY DEF Sole
<1>3. Cardinality(In(wf, e.dst) \ fired) - 1 = 0 BY <1>1, <1>2, FireOne, FS_EmptySet DEF Good
<1>4. QED BY <1>1, <1>3

\* Every step of a patient workflow keeps the routing half of the invariant.
LEMMA NextRoute == Routed /\ [Next]_vars => RouteInv'
<1> SUFFICES ASSUME Routed, [Next]_vars PROVE RouteInv' OBVIOUS
<1>h. HandsInv' BY HandsStep
<1>n. \A n \in Node : Settled(n) => results'[n] = results[n] BY NextFinal DEF Routed
<1>g. Good(Node) BY DEF Routed
<1>k. HeldInv' BY HeldStep
<1>1. CASE Working BY <1>1, <1>h, <1>k, <1>n, WorkingRoutes DEF RouteInv
<1>2. CASE RouteUnblock
  <2>1. PICK e \in todo : RouteUnblock!(e) BY <1>2 DEF RouteUnblock
  <2>2. pending[e.dst] \in Nat \ {0} BY <1>g, TodoFacts, EdgeFacts DEF Good
  <2>3. SatDec(pending[e.dst]) = pending[e.dst] - 1 BY <2>2 DEF SatDec
  <2>4. Plain(e.src) => results[e.src] = "continued" BY <2>1, TodoResult
  <2>5. Sole(e) /\ e.cond /\ results[e.src] = "output" => e \in judged'
    BY <2>1, <2>4 DEF Sole
  <2>6. QED BY <2>1, <2>3, <2>4, <2>5, <1>h, <1>k, FireRoutes DEF RouteInv
<1>3. CASE RouteErrored
  <2>1. PICK e \in todo : RouteErrored!(e) BY <1>3 DEF RouteErrored
  <2>2. e.dst \in Node /\ pending[e.dst] \in Nat \ {0} BY <1>g, TodoFacts, EdgeFacts DEF Good
  <2>3. EarlyReady(e.dst, SatDec(pending[e.dst])) = pending[e.dst] - 1
    BY <2>2, <1>g, NeverEarly DEF Good, SatDec
  <2>4. Plain(e.src) => results[e.src] = "error" /\ ErrorConnected(wf, e.src, e.dst)
    BY <2>1, TodoResult
  <2>5. Sole(e) /\ e.cond /\ results[e.src] = "output" => e \in judged'
    BY <2>1, <2>4 DEF Sole
  <2>6. QED BY <2>1, <2>3, <2>4, <2>5, <1>h, <1>k, FireRoutes DEF RouteInv
<1>4. CASE RouteDead
  <2>1. PICK e \in todo : RouteDead!(e) BY <1>4 DEF RouteDead
  <2>2. e \notin fired BY <1>g, TodoFacts, EdgeFacts DEF Good
  <2>3. QED BY <2>1, <2>2, <1>h, <1>k, <1>n, MarkRoutes DEF RouteInv, history
<1>5. CASE RouteSuccess
  <2>1. PICK e \in todo : RouteSuccess!(e) BY <1>5 DEF RouteSuccess
  <2> DEFINE cnt == EarlyReady(e.dst, WrapDec(pending[e.dst]))
  <2>2. /\ e.dst \in Node /\ e \in In(wf, e.dst) /\ pending[e.dst] \in Nat \ {0}
        /\ e \in wf.edges
    BY <1>g, TodoFacts, EdgeFacts DEF Good
  <2>3. cnt = pending[e.dst] - 1 BY <2>2, <1>g, NeverEarly DEF Good, WrapDec
  <2>4. Plain(e.src) => results[e.src] = "output" /\ ~ErrorConnected(wf, e.src, e.dst)
    BY <2>1, TodoResult
  <2>5. judged \subseteq judged' BY <2>1
  <2>6. Sole(e) /\ e.cond => e \in judged'
    <3>1. e \in Connecting(wf, e.src, e.dst) BY <2>2 DEF Connecting
    <3>2. Sole(e) => cnt = 0 BY <2>3, <1>g, SolePending
    <3>3. QED BY <2>1, <3>1, <3>2 DEF Conditional
  <2>7. CASE cnt # 0 \/ ConditionsHold(e)
    <3>1. Release(e.dst, cnt) /\ UNCHANGED <<results, cascade>> BY <2>1, <2>7
    <3>2. QED BY <2>1, <2>3, <2>4, <2>5, <2>6, <3>1, <1>h, <1>k, FireRoutes DEF RouteInv
  <2>8. CASE ~(cnt # 0 \/ ConditionsHold(e))
    <3>1. results' = [results EXCEPT ![e.dst] = "skipped"] /\ cascade' = Out(wf, e.dst) /\ ready' = ready
      BY <2>1, <2>8
    <3>2. Conditioned(e.dst)
      BY <2>8 DEF ConditionsHold, Conditional, Connecting, Conditioned, In
    <3>3. QED BY <2>1, <2>5, <2>6, <3>1, <3>2, <1>h, <1>k, <1>n, MarkRoutes DEF RouteInv
  <2>9. QED BY <2>7, <2>8
<1>6. CASE RoutePanics BY <1>6, <1>g, TodoFacts, EdgeFacts DEF RoutePanics, Good
<1>7. CASE RouteCascade BY <1>7, <1>h, <1>k, CascadeRoutes DEF RouteInv
<1>8. QED BY <1>1, <1>2, <1>3, <1>4, <1>5, <1>6, <1>7 DEF Next, Progress, Working

\* A run starts in it: every root is in the queue.
LEMMA InitRoute == Init /\ Patient(wf) => RouteInv
<1> SUFFICES ASSUME Init, Patient(wf) PROVE RouteInv OBVIOUS
<1>i. /\ keep = <<>> /\ batch = <<>> /\ cur = NoNode /\ pc = "loop"
      /\ runs = [n \in Node |-> 0] /\ pending = InitialPending(wf)
      /\ todo = {} /\ cascade = {} /\ wf \in Workflow
      /\ results = [n \in Node |-> IF n \in wf.seed THEN "seed" ELSE "none"]
      /\ fired = { e \in wf.edges : e.src \in wf.seed }
  BY DEF Init
<1>t. TypeInv BY InitType
<1>e. \A e \in wf.edges : e.src \in Node /\ e.dst \in Node BY <1>t, EdgeFacts
<1>1. HandsInv BY <1>i, ReactorAssumption DEF HandsInv
<1>2. LoopInv BY <1>i DEF LoopInv
<1>3. OutcomeInv
  <2>1. \A p \in Node : Plain(p) => results[p] = "none" BY <1>i DEF Plain
  <2>2. \A e \in fired : ~Plain(e.src) BY <1>i DEF Plain
  <2>3. QED BY <2>1, <2>2, <1>e DEF OutcomeInv
<1>4. SoleInv
  <2>1. ASSUME NEW e \in wf.edges, Sole(e) PROVE results[e.src] = "none"
    BY <2>1, <1>i, <1>e DEF Sole, Plain
  <2>2. QED BY <2>1 DEF SoleInv
<1>5. ReleasedInv
  <2>1. ASSUME NEW n \in Node, n \notin wf.seed, In(wf, n) \subseteq fired PROVE n \in Roots(wf)
    <3>1. { e \in In(wf, n) : e.src \notin wf.seed } = {} BY <2>1, <1>i DEF In
    <3>2. QED BY <3>1, <2>1, FS_EmptySet DEF Roots, InitialPending
  <2>2. Roots(wf) \subseteq Node BY DEF Roots
  <2>3. IsFiniteSet(Roots(wf)) /\ Cardinality(Roots(wf)) \in Nat
    BY <2>2, ReactorAssumption, FS_Subset, FS_CardinalityType
  <2> DEFINE k == Cardinality(Roots(wf))
  <2>4. Cardinality(1 .. k) = k BY <2>3, FS_Interval
  <2>5. ready \in Surjection(1 .. k, Roots(wf)) BY <2>3, <2>4, FS_Injection DEF Init
  <2>6. \A n \in Roots(wf) : n \in Range(ready) BY <2>5 DEF Surjection, Range
  <2>7. QED BY <2>1, <2>6 DEF ReleasedInv, Released
<1>6. HeldInv BY <1>i DEF HeldInv
<1>7. QED BY <1>1, <1>2, <1>3, <1>4, <1>5, <1>6 DEF RouteInv

\* The whole invariant holds in every state of every run of every workflow.
THEOREM Inductive == Spec => []SchedulerInv
<1>1. TypeInv /\ SchedulerInv /\ [Next]_vars => (Patient(wf) => RouteInv)'
  <2> SUFFICES ASSUME TypeInv, SchedulerInv, [Next]_vars, Patient(wf)' PROVE RouteInv' OBVIOUS
  <2>1. Patient(wf) BY WorkflowFixed DEF Patient
  <2>2. Routed BY <2>1, PatientInv DEF SchedulerInv, Routed
  <2>3. QED BY <2>2, NextRoute
<1>2. Init => (Patient(wf) => RouteInv) BY InitRoute
<1>3. TypeInv /\ SafeInv /\ QuorumInv /\ (Patient(wf) => RouteInv) <=> TypeInv /\ SchedulerInv
  BY DEF SchedulerInv
<1>4. Spec => []TypeInv BY InitType, NextType, PTL DEF Spec
<1>5. QED BY <1>1, <1>2, <1>3, <1>4, Safe, QuorumsMet, PTL DEF Spec

-----------------------------------------------------------------------------
(* What follows *)

\* An edge that leaves a chain member other than the tail is its only one.
LEMMA ChainBranches ==
  ASSUME wf \in Workflow, NEW e \in wf.edges, NEW f \in wf.edges, e.src = f.src,
         e.dst \in Interior(wf)
  PROVE  e = f
<1>1. PICK c \in wf.chains : e.src \in c.members \ {c.tail} BY ChainFacts
<1>2. ChainOK(wf, c) BY ReactorAssumption DEF WellFormed
<1>3. QED BY <1>1, <1>2 DEF ChainOK

\* A node on an error edge of a module and a node on another of its edges never
\* both run, unless the module was skipped or its failure continued.  Patient
\* workflows only.
THEOREM OneBranch == Spec => [](Patient(wf) => BranchExclusive)
<1>1. TypeInv /\ SchedulerInv => (Patient(wf) => BranchExclusive)
  <2> SUFFICES ASSUME Routed, NEW p \in Node, Plain(p),
                      results[p] \notin {"skipped", "continued"},
                      NEW e \in Out(wf, p), NEW f \in Out(wf, p), e.type = "error",
                      \A g \in Connecting(wf, p, f.dst) : g.type # "error",
                      runs[e.dst] > 0, runs[f.dst] > 0
               PROVE  FALSE
    BY PatientInv DEF SchedulerInv, Routed, BranchExclusive
  <2> USE DEF Routed
  <2>1. e \in wf.edges /\ f \in wf.edges /\ e.src = p /\ f.src = p BY DEF Out
  <2>2. ErrorConnected(wf, p, e.dst) /\ ~ErrorConnected(wf, p, f.dst)
    BY <2>1 DEF ErrorConnected, Connecting
  <2>3. e.dst \in Node \ Interior(wf) /\ f.dst \in Node \ Interior(wf)
    BY <2>1, <2>2, ChainBranches, EdgeFacts DEF TypeInv, Good
  <2>4. e \in fired /\ f \in fired BY <2>1, <2>3 DEF Good, Inv, FiredInv, In
  <2>5. results[p] = "error" /\ results[p] = "output"
    BY <2>1, <2>2, <2>4 DEF RouteInv, OutcomeInv, Cascaded
  <2>6. QED BY <2>5
<1>2. Spec => []TypeInv BY InitType, NextType, PTL DEF Spec
<1>3. QED BY <1>1, <1>2, Inductive, PTL

\* A node with one incoming edge, from a module, obeys that edge, in a patient
\* workflow and outside chains.
THEOREM EdgesDecide == Spec => [](Patient(wf) => EdgesObeyed)
<1>1. TypeInv /\ SchedulerInv => (Patient(wf) => EdgesObeyed)
  <2> SUFFICES ASSUME Routed, NEW e \in wf.edges,
                      In(wf, e.dst) = {e}, ~InChain(wf, e.dst), Plain(e.src)
               PROVE  /\ runs[e.dst] > 0 /\ e.cond =>
                           e \in judged \/ results[e.src] \in {"error", "continued"}
                      /\ runs[e.dst] > 0 /\ e.type = "error" => results[e.src] \in {"error", "continued"}
                      /\ pc = "done" /\ e.type = "error" /\ results[e.src] = "error" /\ Unguarded(e.dst)
                           => runs[e.dst] > 0
    BY PatientInv DEF SchedulerInv, Routed, EdgesObeyed
  <2> USE DEF Routed
  <2>1. Sole(e) BY DEF Sole, Interior, InChain
  <2>2. e.src \in Node /\ e.dst \in Node \ Interior(wf) BY <2>1, EdgeFacts DEF Sole, Good
  <2>3. e.type = "error" => ErrorConnected(wf, e.src, e.dst) BY DEF ErrorConnected, Connecting
  <2>4. ASSUME runs[e.dst] > 0
        PROVE  /\ e \in fired /\ results[e.src] \in {"output", "error", "continued"}
               /\ results[e.src] = "output" => ~ErrorConnected(wf, e.src, e.dst)
               /\ e.cond /\ results[e.src] = "output" => e \in judged
    <3>1. e \in fired /\ results[e.src] # "skipped"
      BY <2>1, <2>4, SettledSources DEF RouteInv, SoleInv
    <3>2. QED BY <2>1, <3>1 DEF RouteInv, OutcomeInv, SoleInv, Cascaded
  <2>5. ASSUME pc = "done", e.type = "error", results[e.src] = "error", Unguarded(e.dst)
        PROVE  runs[e.dst] > 0
    <3>1. e \in fired BY <2>3, <2>5 DEF RouteInv, OutcomeInv, HandsInv, Routing
    <3>2. e.dst \notin wf.seed
      <4>1. e.src \notin wf.seed BY DEF Plain
      <4>2. QED BY <4>1 DEF Patient
    <3>3. runs[e.dst] > 0 \/ Settled(e.dst)
      BY <2>2, <2>5, <3>1, <3>2 DEF RouteInv, ReleasedInv, HandsInv, Cascaded
    <3>4. QED BY <2>1, <2>5, <3>3 DEF RouteInv, SoleInv
  <2>6. QED BY <2>3, <2>4, <2>5
<1>2. Spec => []TypeInv BY InitType, NextType, PTL DEF Spec
<1>3. QED BY <1>1, <1>2, Inductive, PTL

\* When the run is done, a node all of whose edges have fired has run or has a
\* result that says why it did not, in a patient workflow where no skip of a node
\* behind a condition can be cascaded over it.
THEOREM NoneLost == Spec => [](Patient(wf) /\ Uncascaded(wf) => NoLostNode)
<1>1. TypeInv /\ SchedulerInv => (Patient(wf) /\ Uncascaded(wf) => NoLostNode)
  <2> SUFFICES ASSUME TypeInv, RouteInv, Uncascaded(wf), pc = "done",
                      NEW n \in Node, n \notin wf.seed, n \notin Interior(wf), In(wf, n) \subseteq fired
               PROVE  runs[n] > 0 \/ results[n] # "none"
    BY DEF SchedulerInv, NoLostNode
  <2>1. \A e \in In(wf, n) : ~Cascaded(e)
    BY DEF Uncascaded, Cascaded, Conditioned, In, Out
  <2>2. QED BY <2>1 DEF RouteInv, ReleasedInv, HandsInv, Settled
<1>2. Spec => []TypeInv BY InitType, NextType, PTL DEF Spec
<1>3. QED BY <1>1, <1>2, Inductive, PTL

-----------------------------------------------------------------------------
(* The scheduler implements RunPlan *)

\* The units of RunPlan are those that Returned can tell apart; a parent of a unit
\* is what some unit returns.
LEMMA UnitFacts ==
  ASSUME TypeInv
  PROVE  /\ \A u \in Units : u \in Node /\ Returned(u) \in Node
         /\ \A u, v \in Units : Returned(u) = Returned(v) => u = v
         /\ \A u \in Units : \A e \in In(wf, u) : \E v \in Units : e.src = Returned(v)
         /\ \A u \in Units : Returned(u) # u => InChain(wf, u)
<1>w. wf \in Workflow BY DEF TypeInv
<1>1. \A u \in Units : u \in Node /\ u \notin Interior(wf) BY DEF Units
<1>2. \A u, v \in Units : Returned(u) = Returned(v) => u = v BY <1>w, <1>1, ReturnedFacts
<1>3. ASSUME NEW u \in Units, NEW e \in In(wf, u) PROVE \E v \in Units : e.src = Returned(v)
  <2>1. e \in wf.edges /\ e.dst = u /\ e.src \in Node BY <1>3, EdgeFacts DEF In
  <2>2. CASE ~InChain(wf, e.src)
    <3>1. e.src \notin Interior(wf) BY <1>w, <2>2, ChainFacts
    <3>2. QED BY <1>w, <2>1, <2>2, <3>1, ReturnedSelf DEF Units
  <2>3. CASE InChain(wf, e.src)
    <3>1. PICK c \in wf.chains : e.src \in c.members BY <2>3 DEF InChain
    <3>2. e.src = c.tail
      <4>1. ChainOK(wf, c) BY <1>w, <3>1, ReactorAssumption DEF WellFormed
      <4>2. e.src # c.tail => e.dst \in c.members /\ e.dst # c.head BY <2>1, <3>1, <4>1 DEF ChainOK
      <4>3. QED BY <1>1, <2>1, <4>2 DEF Interior
    <3>3. c.head \in Units /\ InChain(wf, c.head)
      BY <1>w, <3>1, ChainFacts DEF Units, InChain
    <3>4. PICK d \in wf.chains : d.head = c.head /\ Returned(c.head) = d.tail
      BY <1>w, <3>3, ReturnedTail DEF Units
    <3>5. c = d BY <1>w, <3>1, <3>3, <3>4, ChainFacts DEF Units
    <3>6. QED BY <3>2, <3>3, <3>4, <3>5
  <2>4. QED BY <2>2, <2>3
<1>4. QED BY <1>w, <1>1, <1>2, <1>3, ReturnedFacts, ReturnedSelf

\* What the invariant says of a unit that has not begun, or is at work.
LEMMA UnitStates ==
  ASSUME Routed, NEW u \in Units
  PROVE  /\ runs[u] = 0 /\ ~Settled(u) => ~Settled(Returned(u))
         /\ u \in Released \/ runs[u] > 0 => results[u] # "skipped"
         /\ u \in Released => ~Settled(Returned(u))
         /\ u \in Released \/ runs[u] > 0 => \A e \in In(wf, u) : Settled(e.src)
<1> USE DEF Routed, Good
<1>w. wf \in Workflow /\ u \in Node /\ u \notin Interior(wf) BY DEF TypeInv, Units
<1>1. ASSUME runs[u] = 0, ~Settled(u) PROVE ~Settled(Returned(u))
  <2>1. CASE ~InChain(wf, u) BY <1>w, <1>1, <2>1, ReturnedSelf
  <2>2. CASE InChain(wf, u)
    <3>1. PICK c \in wf.chains : c.head = u /\ Returned(u) = c.tail /\ c.tail \in Interior(wf)
      BY <1>w, <2>2, ReturnedTail
    <3>2. c.tail \in c.members /\ c.tail \in Node BY <1>w, <3>1, ChainFacts
    <3>3. runs[c.tail] = 0 BY <1>1, <1>w, <3>1, <3>2 DEF Inv, ChainsInv
    <3>4. QED BY <3>1, <3>2, <3>3 DEF Inv, ExplainedInv
  <2>3. QED BY <2>1, <2>2
<1>2. u \in Released \/ runs[u] > 0 => results[u] # "skipped"
  BY <1>w DEF Inv, UnsettledInv, SkipInv, Settled
<1>3. u \in Released => ~Settled(Returned(u)) BY <1>w DEF Inv, UnsettledInv
<1>4. ASSUME u \in Released \/ runs[u] > 0, NEW e \in In(wf, u) PROVE Settled(e.src)
  <2>1. e \in fired BY <1>w, <1>4 DEF Inv, FiredInv
  <2>2. QED BY <2>1, SettledSources
<1>5. QED BY <1>1, <1>2, <1>3, <1>4

\* The units and what they wait for are those of the workflow.
LEMMA UnitsFixed ==
  ASSUME wf' = wf
  PROVE  Units' = Units /\ UnitWaits' = UnitWaits /\ \A u : Returned(u)' = Returned(u)
BY DEF Units, UnitWaits, Interior, Returned, In

\* A result other than a skip is one of its unit, and a skip is one of its node.
LEMMA UnitStored ==
  ASSUME TypeInv, wf' = wf, NEW u \in Units, NEW r,
         \/ /\ r # "skipped" /\ results[u] # "skipped"
            /\ results' = [results EXCEPT ![Returned(u)] = r]
         \/ r = "skipped" /\ results' = [results EXCEPT ![u] = r]
  PROVE  UnitOutcome' = [UnitOutcome EXCEPT ![u] = r]
<1>t. results \in [Node -> Result] /\ wf \in Workflow BY DEF TypeInv, TypeOK
<1>u. \A v \in Units : v \in Node /\ v \notin Interior(wf) /\ Returned(v) \in Node BY UnitFacts DEF Units
<1>f. Units' = Units /\ \A v : Returned(v)' = Returned(v) BY UnitsFixed
<1>1. \A v \in Units : v # u => Returned(v) # Returned(u) /\ Returned(v) # u /\ Returned(u) # v
  BY <1>t, <1>u, UnitFacts, ReturnedFacts
<1>2. ASSUME NEW v \in Units, v # u PROVE results'[v] = results[v] /\ results'[Returned(v)] = results[Returned(v)]
  BY <1>t, <1>u, <1>1, <1>2
<1>3. IF r = "skipped" THEN results'[u] = "skipped" ELSE results'[u] # "skipped" /\ results'[Returned(u)] = r
  BY <1>t, <1>u
<1>4. QED BY <1>f, <1>2, <1>3 DEF UnitOutcome

\* A step that starts no work and stores no result.
LEMMA PlanStill ==
  ASSUME wf' = wf, runs' = runs, results' = results, pc # "done", pc' # "done"
  PROVE  UNCHANGED Plan!planVars
<1>1. Units' = Units /\ UnitWaits' = UnitWaits /\ \A u : Returned(u)' = Returned(u) BY UnitsFixed
<1>2. UnitsBegun' = UnitsBegun BY <1>1 DEF UnitsBegun
<1>3. UnitOutcome' = UnitOutcome BY <1>1 DEF UnitOutcome
<1>4. QED BY <1>1, <1>2, <1>3 DEF Plan!planVars

\* Units in the hands of the scheduler whose work has not begun have their inputs.
LEMMA UnitAble ==
  ASSUME Routed, NEW u \in Units, runs[u] = 0, u \in Released
  PROVE  Plan!Able(u)
<1>1. u \notin UnitsBegun BY DEF UnitsBegun
<1>2. UnitOutcome[u] = "none" /\ u \in DOMAIN UnitWaits
  BY UnitStates DEF UnitOutcome, UnitWaits, Settled
<1>3. \A v \in UnitWaits[u] : v \in Units /\ UnitOutcome[v] # "none"
  BY UnitStates DEF UnitWaits, UnitOutcome, Settled
<1>4. QED BY <1>1, <1>2, <1>3 DEF Plan!Able, Plan!Open

\* What the answer to a unit's work may store.
Given(k) == results' = results \/ \E r \in {"output", "error", "continued", "waiting"} :
                                    results' = [results EXCEPT ![k] = r]
LEMMA SettleGives ==
  ASSUME NEW k, NEW o, Settle(k, o) \/ Failure(k, "loop")
  PROVE  Given(k) /\ pc' # "done"
BY DEF Settle, Failure, StoreAndUnblock, Given

\* The work of a unit is started, and may be answered at once.
LEMMA PlanStarts ==
  ASSUME Routed, wf' = wf, pc # "done", pc' # "done", NEW u \in Units, u \in Released,
         runs[u] = 0, runs'[u] > 0, \A v \in Units : v # u => runs'[v] = runs[v], Given(Returned(u))
  PROVE  Plan!PlanNext
<1>1. Units' = Units /\ UnitWaits' = UnitWaits /\ \A v : Returned(v)' = Returned(v) BY UnitsFixed
<1>2. UnitsBegun' = UnitsBegun \cup {u} BY <1>1 DEF UnitsBegun
<1>3. Plan!Able(u) /\ u \in Node BY UnitAble DEF Units
<1>4. CASE results' = results
  <2>1. UnitOutcome' = UnitOutcome BY <1>1, <1>4 DEF UnitOutcome
  <2>2. Plan!Begin(u) BY <1>2, <1>3, <2>1 DEF Plan!Begin
  <2>3. QED BY <1>1, <1>3, <2>2 DEF Plan!PlanNext
<1>5. CASE results' # results
  <2>1. PICK r \in {"output", "error", "continued", "waiting"} : results' = [results EXCEPT ![Returned(u)] = r]
    BY <1>5 DEF Given
  <2>2. UnitOutcome' = [UnitOutcome EXCEPT ![u] = r]
    BY <2>1, UnitStored, UnitStates DEF Routed, Good
  <2>3. Plan!Work(u) BY <1>2, <1>3, <2>2 DEF Plan!Work, Plan!Comes
  <2>4. QED BY <1>1, <1>3, <2>3 DEF Plan!PlanNext
<1>6. QED BY <1>4, <1>5

\* The work of a unit is answered.
LEMMA PlanAnswers ==
  ASSUME Routed, wf' = wf, runs' = runs, pc # "done", pc' # "done", NEW u \in Units, runs[u] > 0,
         ~Settled(Returned(u)), Given(Returned(u))
  PROVE  [Plan!PlanNext]_(Plan!planVars)
<1>1. Units' = Units /\ UnitWaits' = UnitWaits BY UnitsFixed
<1>2. UnitsBegun' = UnitsBegun /\ u \in UnitsBegun /\ u \in Node BY <1>1 DEF UnitsBegun, Units
<1>3. CASE results' = results BY <1>3, PlanStill
<1>4. CASE results' # results
  <2>1. PICK r \in {"output", "error", "continued", "waiting"} : results' = [results EXCEPT ![Returned(u)] = r]
    BY <1>4 DEF Given
  <2>2. results[u] # "skipped" BY UnitStates
  <2>3. UnitOutcome' = [UnitOutcome EXCEPT ![u] = r]
    BY <2>1, <2>2, UnitStored DEF Routed, Good
  <2>4. UnitOutcome[u] = "none" BY <2>2 DEF UnitOutcome, Settled
  <2>5. Plan!Answer(u) BY <1>2, <2>3, <2>4 DEF Plan!Answer, Plan!Comes
  <2>6. QED BY <1>1, <1>2, <2>5 DEF Plan!PlanNext
<1>5. QED BY <1>3, <1>4

\* A unit is given a result in place of its work.
LEMMA PlanDeclines ==
  ASSUME Routed, wf' = wf, runs' = runs, pc # "done", pc' # "done", NEW u \in Units,
         runs[u] = 0, ~Settled(u),
         \/ results' = [results EXCEPT ![u] = "skipped"]
         \/ results' = [results EXCEPT ![u] = "error"] /\ Returned(u) = u /\ u \in Released
  PROVE  Plan!PlanNext
<1>1. Units' = Units /\ UnitWaits' = UnitWaits BY UnitsFixed
<1>2. UnitsBegun' = UnitsBegun /\ u \notin UnitsBegun /\ u \in Node BY <1>1 DEF UnitsBegun, Units
<1>3. CASE results' = [results EXCEPT ![u] = "skipped"]
  <2>1. UnitOutcome' = [UnitOutcome EXCEPT ![u] = "skipped"] BY <1>3, UnitStored DEF Routed, Good
  <2>2. UnitOutcome[u] = "none" /\ u \in DOMAIN UnitWaits
    BY UnitStates DEF UnitOutcome, UnitWaits, Settled
  <2>3. Plan!Skip(u) BY <1>2, <2>1, <2>2 DEF Plan!Skip, Plan!Open, Plan!Comes
  <2>4. QED BY <1>1, <1>2, <2>3 DEF Plan!PlanNext
<1>4. CASE results' = [results EXCEPT ![u] = "error"] /\ Returned(u) = u /\ u \in Released
  <2>1. UnitOutcome' = [UnitOutcome EXCEPT ![u] = "error"]
    BY <1>4, UnitStored, UnitStates DEF Routed, Good
  <2>2. Plan!Refuse(u) BY <1>2, <1>4, <2>1, UnitAble DEF Plan!Refuse, Plan!Comes
  <2>3. QED BY <1>1, <1>2, <2>2 DEF Plan!PlanNext
<1>5. QED BY <1>3, <1>4

\* A run that is done takes no more steps.
LEMMA DoneStays ==
  ASSUME Routed, pc = "done", [Next]_vars
  PROVE  UNCHANGED vars
<1>1. todo = {} /\ cascade = {} BY DEF Routed, RouteInv, HandsInv, Routing
<1>2. ~(RouteUnblock \/ RouteDead \/ RouteSuccess \/ RoutePanics \/ RouteCascade \/ RouteErrored)
  BY <1>1 DEF RouteUnblock, RouteDead, RouteSuccess, RoutePanics, RouteCascade, RouteErrored
<1>3. ~(PopChain \/ PopSkip \/ PopSync \/ PopInline \/ PopModule \/ PopLimited \/ PopSub)
  BY DEF PopChain, PopSkip, PopSync, PopInline, PopModule, PopLimited, PopSub, Popped
<1>4. ~(\/ InlineReturns \/ RateLimitAllows \/ RateLimitRefuses \/ Drain \/ DrainDone \/ JoinReturns
        \/ StoreNext \/ CompleteOk \/ CompleteErr \/ Finish \/ Interrupt)
  BY DEF InlineReturns, RateLimitAllows, RateLimitRefuses, Drain, DrainDone, JoinReturns,
         StoreNext, CompleteOk, CompleteErr, Finish, Interrupt, Quiet
<1>5. QED BY <1>2, <1>3, <1>4 DEF Next, Progress, Ended

\* Steps that take a node from the ready queue.
LEMMA PopPlans ==
  ASSUME Routed, pc # "done", pc' # "done", wf' = wf,
         PopChain \/ PopSkip \/ PopSync \/ PopInline \/ PopModule \/ PopLimited \/ PopSub
  PROVE  [Plan!PlanNext]_(Plan!planVars)
<1> USE DEF Routed
<1>1. PICK n \in Node : Popped(n) /\ n = Head(ready)
  BY DEF PopChain, PopSkip, PopSync, PopInline, PopModule, PopLimited, PopSub, Popped
<1>2. /\ n \in Released /\ n \in Units /\ n \notin Interior(wf) /\ runs[n] = 0 /\ ~Settled(n)
      /\ ~Settled(Returned(n))
  BY <1>1, PopFacts DEF Popped, Units
<1>3. wf \in Workflow /\ TypeInv BY DEF Good, TypeInv
<1>4. \A v \in Units : v \in Node BY DEF Units
<1>5. ASSUME Started({n}), Given(Returned(n)) PROVE Plan!PlanNext
  BY <1>2, <1>3, <1>4, <1>5, StartOne, PlanStarts
<1>6. CASE PopChain
  <2>1. PopChain!(n) BY <1>6, <1>1 DEF PopChain, Popped
  <2>2. Started(ChainMembers(n)) /\ results' = results BY <1>2, <2>1
  <2>3. PICK c \in wf.chains : c.head = n /\ ChainMembers(n) = c.members
    BY <1>2, <1>3, <2>1, ReturnedTail
  <2>4. n \in c.members /\ \A v \in Units : v # n => v \notin c.members
    BY <1>3, <2>3, ChainFacts DEF Units
  <2>5. runs \in [Node -> Nat] BY <1>3 DEF TypeInv, TypeOK
  <2>6. runs'[n] > 0 /\ \A v \in Units : v # n => runs'[v] = runs[v]
    BY <1>2, <1>4, <2>2, <2>3, <2>4, <2>5 DEF Started
  <2>7. QED BY <1>2, <2>2, <2>6, PlanStarts DEF Given
<1>7. CASE PopSkip
  <2>1. PopSkip!(n) BY <1>7, <1>1 DEF PopSkip, Popped
  <2>2. runs' = runs /\ results' = [results EXCEPT ![n] = "skipped"]
    BY <2>1 DEF StoreAndUnblock, history
  <2>3. QED BY <1>2, <2>2, PlanDeclines
<1>8. CASE PopSync
  <2>1. PopSync!(n) BY <1>8, <1>1 DEF PopSync, Popped
  <2>2. Returned(n) = n BY <1>3, <2>1, KindFacts, ReturnedSelf
  <2>3. Started({n}) /\ Given(Returned(n)) BY <2>1, <2>2, SettleGives
  <2>4. QED BY <2>3, <1>5
<1>9. CASE PopInline \/ PopModule \/ PopSub
  <2>1. Started({n}) /\ results' = results
    BY <1>9, <1>1 DEF PopInline, PopModule, PopSub, Popped
  <2>2. QED BY <2>1, <1>5 DEF Given
<1>10. CASE PopLimited
  <2>1. runs' = runs /\ results' = results BY <1>10 DEF PopLimited
  <2>2. QED BY <2>1, PlanStill
<1>11. QED BY <1>6, <1>7, <1>8, <1>9, <1>10

\* Steps that go on with a node, and those that start or answer nothing.
LEMMA WorkPlans ==
  ASSUME Routed, pc # "done", pc' # "done", wf' = wf,
         \/ InlineReturns \/ RateLimitAllows \/ RateLimitRefuses \/ Drain \/ DrainDone \/ JoinReturns
         \/ StoreNext \/ CompleteOk \/ CompleteErr \/ Interrupt \/ Ended \/ UNCHANGED vars
  PROVE  [Plan!PlanNext]_(Plan!planVars)
<1> USE DEF Routed
<1>1. wf \in Workflow /\ TypeInv BY DEF Good, TypeInv
<1>2. \A v \in Units : v \in Node BY DEF Units
<1>3. \A m \in Node : m \in Released => m \in Units /\ ~Settled(m) /\ ~Settled(Returned(m))
  BY ReleasedNodes DEF Units, Good, Inv, UnsettledInv
<1>4. pc = "inline" => /\ cur \in Node /\ cur \in Released /\ Returned(cur) = cur
                       /\ IF wf.kind[cur] \in {"module", "handler"} THEN runs[cur] = 0 ELSE runs[cur] = 1
  BY <1>1, ReturnedSelf DEF Good, Inv, WorkersInv, Released, RouteInv, HandsInv
<1>5. CASE InlineReturns
  <2>1. PICK o : Settle(cur, o) BY <1>5 DEF InlineReturns
  <2>2. wf.kind[cur] \notin {"module", "handler"} /\ pc = "inline" /\ runs' = runs
    BY <1>5 DEF InlineReturns, Outcomes, history
  <2>3. Given(cur) BY <2>1, SettleGives
  <2>4. cur \in Units /\ runs[cur] > 0 /\ ~Settled(Returned(cur)) BY <1>3, <1>4, <2>2
  <2>5. QED BY <1>4, <2>2, <2>3, <2>4, PlanAnswers
<1>6. CASE RateLimitAllows
  <2>1. /\ pc = "inline" /\ wf.kind[cur] \in {"module", "handler"} /\ Started({cur}) /\ results' = results
    BY <1>6 DEF RateLimitAllows
  <2>2. runs'[cur] > 0 /\ \A v \in Units : v # cur => runs'[v] = runs[v]
    BY <1>1, <1>2, <1>4, <2>1, StartOne
  <2>3. QED BY <1>3, <1>4, <2>1, <2>2, PlanStarts DEF Given
<1>7. CASE RateLimitRefuses
  <2>1. /\ pc = "inline" /\ wf.kind[cur] \in {"module", "handler"} /\ runs' = runs
        /\ results' = [results EXCEPT ![cur] = "error"]
    BY <1>7 DEF RateLimitRefuses, StoreAndUnblock, history
  <2>2. QED BY <1>3, <1>4, <2>1, PlanDeclines
<1>8. CASE Drain
  <2>1. /\ ready # <<>> /\ results' = results
        /\ runs' = runs \/ Started({Head(ready)})
    BY <1>8 DEF Drain
  <2>2. PICK n \in Node : n = Head(ready) BY <1>1, <2>1, TailType
  <2>3. n \in Released /\ n \in Units /\ runs[n] = 0 BY <2>1, <2>2, PopFacts DEF Units
  <2>4. CASE runs' = runs BY <2>1, <2>4, PlanStill
  <2>5. CASE Started({n})
    <3>1. runs'[n] > 0 /\ \A v \in Units : v # n => runs'[v] = runs[v]
      BY <1>1, <1>2, <2>3, <2>5, StartOne
    <3>2. QED BY <2>1, <2>3, <3>1, PlanStarts DEF Given
  <2>6. QED BY <2>1, <2>2, <2>4, <2>5
<1>9. CASE StoreNext
  <2>1. batch # <<>> /\ runs' = runs /\ results' = [results EXCEPT ![Head(batch)] = "output"]
    BY <1>9 DEF StoreNext, StoreAndUnblock, history
  <2>2. PICK n \in Node : n = Head(batch) /\ n \in Range(batch)
    BY <2>1, PopQueue DEF Good, TypeInv, TypeOK, Inv, QueuesInv
  <2>3. n \in Released /\ runs[n] = 1 /\ wf.kind[n] = "sub"
    BY <2>2 DEF Released, Good, Inv, WorkersInv
  <2>4. Returned(n) = n BY <1>1, <2>3, KindFacts, ReturnedSelf
  <2>5. Given(Returned(n)) BY <2>1, <2>2, <2>4 DEF Given
  <2>6. n \in Units /\ runs[n] > 0 /\ ~Settled(Returned(n)) BY <1>3, <2>2, <2>3
  <2>7. QED BY <2>1, <2>2, <2>5, <2>6, PlanAnswers
<1>10. CASE CompleteOk \/ CompleteErr
  <2>1. PICK n \in InFlight : runs' = runs /\ Given(Returned(n))
    BY <1>10, SettleGives DEF CompleteOk, CompleteErr, Success, history, Given
  <2>2. n \in Node /\ n \in Released /\ runs[n] = 1
    BY <2>1 DEF InFlight, Released, Good, Inv, WorkersInv
  <2>3. QED BY <1>3, <2>1, <2>2, PlanAnswers
<1>11. CASE DrainDone \/ JoinReturns \/ Interrupt \/ Ended \/ UNCHANGED vars
  <2>1. runs' = runs /\ results' = results
    BY <1>11 DEF DrainDone, JoinReturns, Interrupt, Ended, vars, history
  <2>2. QED BY <2>1, PlanStill
<1>12. QED BY <1>5, <1>6, <1>7, <1>8, <1>9, <1>10, <1>11

\* Steps of the completion loops: what they store is a skip.
LEMMA RoutePlans ==
  ASSUME Routed, pc # "done", pc' # "done", wf' = wf,
         RouteUnblock \/ RouteDead \/ RouteSuccess \/ RoutePanics \/ RouteCascade \/ RouteErrored
  PROVE  [Plan!PlanNext]_(Plan!planVars)
<1> USE DEF Routed
<1>t. results \in [Node -> Result] BY DEF Good, TypeInv, TypeOK
<1>1. ASSUME NEW e \in todo
      PROVE  /\ e.dst \in Units /\ e.dst \in Node /\ runs[e.dst] = 0
             /\ Settled(e.dst) => results[e.dst] = "skipped"
  BY <1>1, TodoFacts, EdgeFacts DEF Good, Units
<1>2. runs' = runs
  BY DEF RouteUnblock, RouteDead, RouteSuccess, RoutePanics, RouteCascade, RouteErrored, history
<1>3. ASSUME NEW e \in todo, results' = [results EXCEPT ![e.dst] = "skipped"]
      PROVE  [Plan!PlanNext]_(Plan!planVars)
  <2>1. CASE Settled(e.dst)
    <3>1. results' = results BY <1>t, <1>1, <1>3, <2>1
    <3>2. QED BY <1>2, <3>1, PlanStill
  <2>2. CASE ~Settled(e.dst) BY <1>1, <1>2, <1>3, <2>2, PlanDeclines
  <2>3. QED BY <2>1, <2>2
<1>4. \/ results' = results
      \/ \E e \in todo : results' = [results EXCEPT ![e.dst] = "skipped"]
  BY DEF RouteUnblock, RouteDead, RouteSuccess, RoutePanics, RouteCascade, RouteErrored
<1>5. QED BY <1>2, <1>3, <1>4, PlanStill

\* Every step of a patient workflow is a step of RunPlan, or leaves it as it is.
LEMMA StepPlans ==
  ASSUME Routed, [Next]_vars
  PROVE  [Plan!PlanNext]_(Plan!planVars)
<1> USE DEF Routed
<1>f. wf' = wf BY WorkflowFixed
<1>1. CASE pc = "done"
  <2>1. wf' = wf /\ runs' = runs /\ results' = results /\ pc' = pc BY <1>1, DoneStays DEF vars
  <2>2. Units' = Units /\ UnitWaits' = UnitWaits /\ \A u : Returned(u)' = Returned(u) BY <2>1, UnitsFixed
  <2>3. QED BY <2>1, <2>2 DEF Plan!planVars, UnitsBegun, UnitOutcome
<1>2. CASE pc # "done" /\ pc' = "done"
  <2>1. Finish BY <1>2, Endings
  <2>2. /\ pc = "loop" /\ runs' = runs /\ results' = results /\ ready = <<>> /\ InFlight = {}
    BY <2>1 DEF Finish, Quiet, history
  <2>3. Units' = Units /\ UnitWaits' = UnitWaits /\ \A u : Returned(u)' = Returned(u) BY <1>f, UnitsFixed
  <2>4. UnitsBegun' = UnitsBegun /\ UnitOutcome' = UnitOutcome
    BY <2>2, <2>3 DEF UnitsBegun, UnitOutcome
  <2>5. Released = {}
    BY <2>2, ReactorAssumption DEF Released, RouteInv, HandsInv, Range
  <2>6. \A u \in UnitsBegun : UnitOutcome[u] # "none"
    BY <2>2, <2>5 DEF RouteInv, HeldInv, Terminal, UnitsBegun, UnitOutcome, Units, Settled
  <2>7. Plan!End BY <1>2, <2>4, <2>6 DEF Plan!End
  <2>8. QED BY <1>2, <2>3, <2>7 DEF Plan!PlanNext
<1>3. CASE pc # "done" /\ pc' # "done"
  <2>1. ~Finish BY <1>3 DEF Finish
  <2>2. QED BY <1>3, <1>f, <2>1, PopPlans, WorkPlans, RoutePlans DEF Next, Progress
<1>4. QED BY <1>1, <1>2, <1>3

\* The scheduler implements RunPlan for workflows whose joins wait for all parents:
\* a unit starts once, with its inputs there, is answered once, and none is at work
\* when run_scheduler_loop reports that the run is completed.
THEOREM ImplementsPlan ==
  ASSUME \A w \in Workflow : Patient(w)
  PROVE  Spec => FollowsPlan
<1>1. Init => Plan!PlanInit
  <2> SUFFICES ASSUME Init PROVE Plan!PlanInit OBVIOUS
  <2>1. TypeInv BY InitType
  <2>2. pc = "loop" /\ \A n \in Node : runs[n] = 0 /\ results[n] \in {"none", "seed"} BY DEF Init
  <2>3. Units \subseteq Node /\ \A u \in Units : u \in Node /\ Returned(u) \in Node
    BY <2>1, UnitFacts DEF Units
  <2>4. UnitsBegun = {} BY <2>2, <2>3 DEF UnitsBegun
  <2>5. UnitOutcome \in [Units -> {"none", "seed"}] BY <2>2, <2>3 DEF UnitOutcome
  <2>6. UnitWaits \in [Units -> SUBSET Units] BY DEF UnitWaits
  <2>7. QED BY <2>2, <2>3, <2>4, <2>5, <2>6 DEF Plan!PlanInit
<1>2. TypeInv /\ SchedulerInv /\ [Next]_vars => [Plan!PlanNext]_(Plan!planVars)
  <2> SUFFICES ASSUME TypeInv, SchedulerInv, [Next]_vars PROVE [Plan!PlanNext]_(Plan!planVars) OBVIOUS
  <2>1. Patient(wf) BY DEF TypeInv
  <2>2. Routed BY <2>1, PatientInv DEF SchedulerInv, Routed
  <2>3. QED BY <2>2, StepPlans
<1>3. Spec => []TypeInv BY InitType, NextType, PTL DEF Spec
<1>4. QED BY <1>1, <1>2, <1>3, Inductive, PTL DEF Spec, FollowsPlan, Plan!PlanSpec

-----------------------------------------------------------------------------
(* The chains that ReactorAssumption asks for *)

\* What is known of a chain of the detector: it is a path, and a node on it has at
\* most one edge from the chain and one to it.
LEMMA PipelineFacts ==
  ASSUME NEW E \in SUBSET Edge, IsFiniteSet(E), NEW c \in DetectLinearChains(Node, E)
  PROVE  /\ c \in Seq(Node) /\ Len(c) \in Nat /\ Len(c) >= 2
         /\ \A i, j \in 1 .. Len(c) : c[i] = c[j] => i = j
         /\ \A i \in 1 .. Len(c) - 1 : Joined(E, c[i], c[i + 1])
<1>1. \A e \in E : e.src \in Node /\ e.dst \in Node /\ e.key \in Nat BY DEF Edge
<1>2. IsFiniteSet(Node) BY ReactorAssumption
<1>3. c \in Seq(Node) /\ Len(c) >= 2 /\ IsStart(E, c[1]) /\ Linear(E, c, c[1])
  BY <1>1, <1>2, Detection
<1>4. \A i, j \in 1 .. Len(c) : c[i] = c[j] => i = j
  BY <1>1, <1>3, LinearDistinct
<1>5. QED BY <1>3, <1>4 DEF Linear

\* What the reactor assumes of the chains of a workflow is what the detector and the
\* module-only filter give it, for every finite graph, cyclic ones included.
THEOREM PipelinesAreChains ==
  ASSUME NEW E \in SUBSET Edge, IsFiniteSet(E), NEW kind, NEW join, NEW sets
  PROVE  LET w == With(E, kind, join, sets)
         IN  /\ w.chains \subseteq Chain
             /\ w.seed # {} => w.chains = {}
             /\ \A c \in w.chains : ChainOK(w, c)
<1> DEFINE w == With(E, kind, join, sets)
           Record(d) == [head |-> d[1], tail |-> d[Len(d)], members |-> Range(d)]
<1>w. w.edges = E /\ w.kind = kind /\ w.seed = sets.seed /\ w.chains = PipelineChains(E, kind, sets.seed)
  BY DEF With
<1> HIDE DEF w
<1>1. w.seed # {} => w.chains = {} BY <1>w DEF PipelineChains
<1>2. ASSUME NEW c \in w.chains
      PROVE  \E d \in DetectLinearChains(Node, E) : c = Record(d) /\ \A n \in Range(d) : kind[n] = "module"
  BY <1>w DEF PipelineChains
<1>3. ASSUME NEW c \in w.chains PROVE c \in Chain /\ ChainOK(w, c)
  <2>1. PICK d \in DetectLinearChains(Node, E) : c = Record(d) /\ \A n \in Range(d) : kind[n] = "module"
    BY <1>2
  <2>2. /\ d \in Seq(Node) /\ Len(d) \in Nat /\ Len(d) >= 2
        /\ \A i, j \in 1 .. Len(d) : d[i] = d[j] => i = j
        /\ \A i \in 1 .. Len(d) - 1 : Joined(E, d[i], d[i + 1])
    BY PipelineFacts
  <2>3. /\ c.head = d[1] /\ c.tail = d[Len(d)] /\ c.members = Range(d)
        /\ DOMAIN d = 1 .. Len(d) /\ Range(d) \subseteq Node
    BY <2>1, <2>2 DEF Range
  <2>4. /\ 1 \in 1 .. Len(d) /\ Len(d) \in 1 .. Len(d) /\ 1 # Len(d)
        /\ \A n \in c.members : \E i \in 1 .. Len(d) : n = d[i]
        /\ \A i \in 1 .. Len(d) : d[i] \in c.members
    BY <2>2, <2>3 DEF Range
  <2>5. c \in Chain BY <2>1, <2>3, <2>4 DEF Chain
  <2>6. /\ c.head \in c.members /\ c.tail \in c.members /\ c.head # c.tail
        /\ \A n \in c.members : w.kind[n] = "module"
    BY <1>w, <2>1, <2>2, <2>3, <2>4
  <2>7. ASSUME NEW n \in c.members, n # c.head
        PROVE  \E i \in 1 .. Len(d) - 1 : n = d[i + 1]
    <3>1. PICK k \in 1 .. Len(d) : n = d[k] BY <2>4
    <3>2. k # 1 BY <2>3, <2>7, <3>1
    <3>3. k - 1 \in 1 .. Len(d) - 1 /\ (k - 1) + 1 = k BY <2>2, <3>2
    <3>4. QED BY <3>1, <3>3
  <2>8. ASSUME NEW n \in c.members, n # c.tail
        PROVE  \E i \in 1 .. Len(d) - 1 : n = d[i]
    <3>1. PICK k \in 1 .. Len(d) : n = d[k] BY <2>4
    <3>2. d[Len(d)] # d[k] BY <2>3, <2>8, <3>1
    <3>3. k # Len(d) BY <3>2
    <3>4. k \in 1 .. Len(d) - 1 BY <2>2, <3>3
    <3>5. QED BY <3>1, <3>4
  <2>9. ASSUME NEW i \in 1 .. Len(d) - 1
        PROVE  /\ d[i] \in c.members /\ d[i] # c.tail /\ d[i + 1] \in c.members /\ d[i + 1] # c.head
               /\ \E e \in E : e.src = d[i] /\ e.dst = d[i + 1]
               /\ \A e \in E : e.dst = d[i + 1] <=> e.src = d[i]
               /\ OutDegree(E, d[i]) = 1
    <3>1. /\ i \in 1 .. Len(d) /\ i + 1 \in 1 .. Len(d) /\ i # Len(d) /\ i + 1 # 1 BY <2>2
    <3>2. Joined(E, d[i], d[i + 1]) BY <2>2
    <3>3. QED BY <2>2, <2>3, <2>4, <3>1, <3>2 DEF Joined
  <2>10. ASSUME NEW n \in c.members, n # c.head PROVE In(w, n) # {}
    <3>1. PICK i \in 1 .. Len(d) - 1 : n = d[i + 1] BY <2>7, <2>10
    <3>2. \E e \in E : e.dst = n BY <2>9, <3>1
    <3>3. QED BY <1>w, <3>2 DEF In
  <2>11. ASSUME NEW e \in E, e.dst \in c.members, e.dst # c.head
         PROVE  e.src \in c.members \ {c.tail}
    <3>1. PICK i \in 1 .. Len(d) - 1 : e.dst = d[i + 1] BY <2>7, <2>11
    <3>2. e.src = d[i] BY <2>9, <3>1
    <3>3. QED BY <2>9, <3>2
  <2>12. ASSUME NEW e \in E, e.src \in c.members, e.src # c.tail
         PROVE  e.dst \in c.members \ {c.head} /\ \A f \in E : f.src = e.src => f = e
    <3>1. PICK i \in 1 .. Len(d) - 1 : e.src = d[i] BY <2>8, <2>12
    <3>2. e.dst \in c.members \ {c.head} BY <2>9, <3>1
    <3>3. IsFiniteSet({f \in E : f.src = e.src}) /\ Cardinality({f \in E : f.src = e.src}) = 1
      BY <2>9, <3>1, FS_Subset DEF OutDegree
    <3>4. PICK x \in {f \in E : f.src = e.src} : \A y \in {f \in E : f.src = e.src} : y = x
      BY <3>3, OnlyOne
    <3>5. QED BY <3>2, <3>4
  <2>13. ASSUME NEW b \in w.chains, b # c PROVE b.members \cap c.members = {}
    <3>1. PICK g \in DetectLinearChains(Node, E) : b = Record(g) BY <1>2
    <3>2. g # d BY <2>1, <2>13, <3>1
    <3>3. SUFFICES ASSUME NEW n \in b.members, n \in c.members PROVE FALSE
      OBVIOUS
    <3>4. g \in Seq(Node) /\ DOMAIN g = 1 .. Len(g) BY PipelineFacts
    <3>5. PICK i \in 1 .. Len(g) : n = g[i] BY <3>1, <3>3, <3>4 DEF Range
    <3>6. PICK j \in 1 .. Len(d) : n = d[j] BY <2>4, <3>3
    <3>7. IsFiniteSet(Node) /\ \A e \in E : e.src \in Node /\ e.dst \in Node /\ e.key \in Nat
      BY ReactorAssumption DEF Edge
    <3>8. QED BY <3>2, <3>5, <3>6, <3>7, Detection
  <2>14. ChainOK(w, c)
    BY <1>w, <2>6, <2>10, <2>11, <2>12, <2>13 DEF ChainOK
  <2>15. QED BY <2>5, <2>14
<1>4. QED BY <1>1, <1>3 DEF w

=============================================================================
