------------------------------ MODULE Composites ------------------------------
(***************************************************************************)
(* The system nodes that run other workflows, loop or gate, and the        *)
(* engines they nest: every call of a sub-workflow builds an engine one    *)
(* level below its caller, runs it to its end and reads one value off it.  *)
(*                                                                         *)
(* A workflow is one node here (the reactor that runs many is the module   *)
(* Reactor).  The stack holds the nodes that are being worked on, the root *)
(* first; a frame has the answers of its child workflow (outs) and those   *)
(* of its judge, reflection or target (auxs).                              *)
(*                                                                         *)
(* A value is what the handlers look for in an object: "low" and "high"    *)
(* carry a passed verdict with that score, a confidence, and the class of  *)
(* the first route or of none; "fin" says finished; "none" has nothing.    *)
(***************************************************************************)
EXTENDS Naturals, FiniteSets, SequencesExt

CONSTANTS
  Workflow,     \* ids of stored workflows
  NoWorkflow,   \* no id, or an id the graph store does not know
  Program,      \* the sets of workflows to run: the node of each, and the root
  MaxDepth,     \* max_subflow_depth
  MaxHistory    \* agent_loop_max_history

VARIABLES
  prog,     \* the workflows of this execution
  stack,    \* the nodes under work, one engine each
  answer,   \* how the last child run ended, or Nothing
  final,    \* how the root run ended, or Nothing
  broke,    \* history: a module, or a call of a workflow, has failed
  paused    \* history: a node has paused its run

vars == <<prog, stack, answer, final, broke, paused>>

Value == {"none", "low", "high", "fin"}
Score(v) == IF v = "high" THEN 2 ELSE IF v = "low" THEN 1 ELSE 0
Passed(v) == v \in {"low", "high"}

\* How a run, or the handler of a node, ends: ok is false for an Err; err marks
\* an __error envelope; wait a context that says it is waiting.
Result(ok, err, v, wait) == [ok |-> ok, err |-> err, v |-> v, wait |-> wait]
Ran(v) == Result(TRUE, FALSE, v, FALSE)
Soft == Result(TRUE, TRUE, "none", FALSE)
Failed == Result(FALSE, TRUE, "none", FALSE)
Waiting == Result(TRUE, FALSE, "none", TRUE)
Results == {Ran(v) : v \in Value} \cup {Soft, Failed, Waiting}
Nothing == Result(FALSE, FALSE, "none", FALSE)

Local == {"fan_in", "collect", "synthesize", "while_loop", "repeat_loop"}
Calling == {"sub_workflow", "ensemble", "reflective_retry", "llm_dispatch", "judge",
            "dispatch", "capability_dispatch", "agent_loop"}
Kind == Local \cup Calling \cup {"module", "wait", "verify", "inline_judge", "confidence_gate", "loop"}
Mode == {"error", "passthrough", "pause", "first_pass", "majority_vote", "best_of_n"}

\* The configuration of a node, as far as its kind has it: the workflows it
\* calls, its count or threshold, its mode and continue_on_error.
Ref == Workflow \cup {NoWorkflow}
NodeType ==
  [kind : Kind, child : Ref, aux : Ref, alt : Ref, n : Nat, mode : Mode, coe : BOOLEAN]

ASSUME CompositeAssumption ==
  /\ NoWorkflow \notin Workflow
  /\ MaxDepth \in Nat /\ MaxHistory \in Nat
  /\ Program \subseteq [node : [Workflow -> NodeType], root : Workflow, inp : Value]

Frame(w, inp) ==
  [w |-> w, inp |-> inp, phase |-> "next", outs |-> <<>>, auxs |-> <<>>, hist |-> <<>>,
   i |-> 0, reason |-> "none", cond |-> TRUE, out |-> Nothing]

Top == stack[Len(stack)]
NodeOf(f) == prog.node[f.w]

Reason == {"none", "no_body", "body_error", "module_fetch_error", "max_iterations", "condition_false"}
FrameType ==
  [w : Workflow, inp : Value, phase : {"next", "child", "aux", "done"},
   outs : Seq(Results), auxs : Seq(Results), hist : Seq(Results),
   i : Nat, reason : Reason, cond : BOOLEAN, out : Results \cup {Nothing}]

TypeOK ==
  /\ prog \in Program
  /\ stack \in Seq(FrameType) /\ Len(stack) <= MaxDepth + 1
  /\ answer \in Results \cup {Nothing}
  /\ final \in Results \cup {Nothing}
  /\ final # Nothing <=> stack = <<>>
  /\ broke \in BOOLEAN /\ paused \in BOOLEAN

Init ==
  /\ prog \in Program
  /\ stack = <<Frame(prog.root, prog.inp)>>
  /\ answer = Nothing /\ final = Nothing
  /\ broke = FALSE /\ paused = FALSE

-----------------------------------------------------------------------------
(* What a handler does next: call a workflow as its child or in its second *)
(* role, run the body of a loop, or end.                                   *)

Call(w, inp, role) == [do |-> role, w |-> w, inp |-> inp, out |-> Nothing, reason |-> "none"]
EndOf(out) == [do |-> "done", w |-> NoWorkflow, inp |-> "none", out |-> out, reason |-> "none"]
Because(reason, out) == [EndOf(out) EXCEPT !.reason = reason]
Body(out) == [EndOf(out) EXCEPT !.do = "body"]

\* Faulty variant of Envelope: the failure of a child run becomes a value.
EnvelopeLost(r) == Ran(r.v)

\* into_error_envelope, or the collapsed output, which of a run that waits is
\* the __waiting__ object.
Envelope(r) == IF r.ok THEN Result(TRUE, r.err, r.v, FALSE) ELSE Soft

\* Judge and inline judge: the threshold is n.
Verdict(node, inp, v) ==
  IF (Passed(v) /\ Score(v) >= node.n) \/ node.mode = "passthrough" THEN Ran(inp) ELSE Soft

SubWorkflowStep(f, node) ==
  IF f.outs = <<>> THEN {Call(node.child, f.inp, "child")} ELSE {EndOf(Envelope(f.outs[1]))}

\* The candidates a consensus looks at; Nth(f, k) is the k-th of them.
Good(f) == {i \in DOMAIN f.outs : ~f.outs[i].err}
Rank(f, i) == Cardinality({j \in Good(f) : j <= i})
Nth(f, k) == CHOOSE i \in Good(f) : Rank(f, i) = k
FirstOut(f) == IF f.outs = <<>> THEN Soft ELSE Envelope(f.outs[1])

\* Judges answer for the good candidates, in their order; one that fails does not score.
Scored(f) == {i \in DOMAIN f.auxs : f.auxs[i].ok}
ScoreAt(f, i) == Score(f.auxs[i].v)
Best(f) == CHOOSE i \in Scored(f) :
             \A j \in Scored(f) : ScoreAt(f, j) < ScoreAt(f, i) \/ (ScoreAt(f, j) = ScoreAt(f, i) /\ i <= j)

\* Faulty variant of BestOfN: the scores are read as those of all candidates.
BestOfAll(f) == IF Scored(f) = {} THEN FirstOut(f) ELSE Envelope(f.outs[Best(f)])
BestOfN(f) == IF Scored(f) = {} THEN FirstOut(f) ELSE Envelope(f.outs[Nth(f, Best(f))])

Votes(f, v) == Cardinality({i \in Good(f) : f.outs[i].v = v})
MajorityVote(f) ==
  IF Good(f) = {} THEN {FirstOut(f)}
  ELSE {Envelope(f.outs[i]) :
          i \in {j \in Good(f) : \A v \in Value : Votes(f, v) <= Votes(f, f.outs[j].v)}}

Judged(node) == node.mode = "best_of_n" /\ node.aux # NoWorkflow
Consensus(f, node) ==
  CASE node.mode = "first_pass" -> {IF Good(f) = {} THEN FirstOut(f) ELSE Envelope(f.outs[Nth(f, 1)])}
    [] Judged(node)             -> {BestOfN(f)}
    [] OTHER                    -> MajorityVote(f)

EnsembleStep(f, node) ==
  IF Len(f.outs) < node.n THEN {Call(node.child, f.inp, "child")}
  ELSE IF Judged(node) /\ Len(f.auxs) < Cardinality(Good(f)) THEN {Call(node.aux, "none", "aux")}
  ELSE {EndOf(r) : r \in Consensus(f, node)}

\* Faulty variant of RetryStep: the last failure is reflected upon as well.
RetryStepReflectsLast(f, node) ==
  LET attempts == Len(f.outs)
  IN  IF attempts > 0 /\ ~f.outs[attempts].err THEN {EndOf(Envelope(f.outs[attempts]))}
      ELSE IF Len(f.auxs) < attempts THEN {Call(node.aux, "none", "aux")}
      ELSE IF attempts < node.n THEN {Call(node.child, f.inp, "child")}
      ELSE {EndOf(Soft)}

\* n attempts in all; a reflection between one and the next.
RetryStep(f, node) ==
  LET attempts == Len(f.outs)
  IN  IF attempts > 0 /\ ~f.outs[attempts].err THEN {EndOf(Envelope(f.outs[attempts]))}
      ELSE IF attempts = node.n THEN {EndOf(Soft)}
      ELSE IF Len(f.auxs) < attempts THEN {Call(node.aux, "none", "aux")}
      ELSE {Call(node.child, f.inp, "child")}

\* The classifier is the child; "low" is the class of the route to aux.
LlmDispatchStep(f, node) ==
  IF f.outs = <<>> THEN {Call(node.child, f.inp, "child")}
  ELSE IF f.auxs # <<>> THEN {EndOf(Envelope(f.auxs[1]))}
  ELSE IF ~f.outs[1].ok \/ ~Passed(f.outs[1].v) THEN {EndOf(Soft)}
  ELSE IF f.outs[1].v = "low" THEN {Call(node.aux, f.inp, "aux")}
  ELSE IF node.alt # NoWorkflow THEN {Call(node.alt, f.inp, "aux")}
  ELSE {EndOf(Soft)}

\* The content under judgement is a field of what the judge is given.
JudgeStep(f, node) ==
  IF f.outs = <<>> THEN {Call(node.child, "none", "child")}
  ELSE IF f.outs[1].ok THEN {EndOf(Verdict(node, f.inp, f.outs[1].v))}
  ELSE {EndOf(Soft)}

InlineJudgeStep(f, node) == {EndOf(Soft)} \cup {EndOf(Verdict(node, f.inp, v)) : v \in Value}

\* run_dispatched_subworkflow keys the outputs of the child by label: what the
\* child's node says, an error too, is out of sight.
Dispatched(r) == IF r.ok THEN Ran("none") ELSE Soft

\* The expression fails, or names nothing; or it names the child.
DynamicDispatchStep(f, node) ==
  IF f.outs = <<>> THEN {EndOf(Soft), Call(node.child, f.inp, "child")}
  ELSE {EndOf(Dispatched(f.outs[1]))}

\* A workflow matches; or the fallback is taken, or there is none.
CapabilityDispatchStep(f, node) ==
  IF f.outs = <<>>
  THEN {Call(node.child, f.inp, "child"),
        IF node.alt # NoWorkflow THEN Call(node.alt, f.inp, "child") ELSE EndOf(Soft)}
  ELSE {EndOf(Dispatched(f.outs[1]))}

\* What an iteration leaves: of an Ok run the reserved keys are stripped.
Stripped(r) == IF r.ok THEN Ran(r.v) ELSE Soft

\* Faulty variant of Windowed: the window is checked after the push.
WindowedLate(hist, r) == Append(IF Len(hist) > MaxHistory THEN Tail(hist) ELSE hist, r)
Windowed(hist, r) ==
  IF MaxHistory = 0 THEN hist ELSE Append(IF Len(hist) >= MaxHistory THEN Tail(hist) ELSE hist, r)

FinishedAt(f) == f.outs # <<>> /\ f.outs[Len(f.outs)].ok /\ f.outs[Len(f.outs)].v = "fin"
AgentLoopStep(f, node) ==
  IF node.child = NoWorkflow THEN {EndOf(Soft)}
  ELSE IF FinishedAt(f) THEN {EndOf(Ran("fin"))}
  ELSE IF Len(f.outs) < node.n THEN {Call(node.child, f.inp, "child")}
  ELSE {EndOf(Ran("none"))}

\* Faulty variant of LoopEnd: the initial reason is kept at the cap.
LoopEndKept(f, node) == Because("condition_false", Ran("none"))

\* The cap gives the reason, whether or not the condition was looked at.
LoopEnd(f, node) ==
  Because(IF f.i >= node.n THEN "max_iterations" ELSE "condition_false", Ran("none"))

\* A loop runs a module of its own graph; the condition is read from the second
\* iteration on.  A body that fails (Soft: an envelope, or the dispatch), or that
\* cannot be fetched (Failed), ends it.
LoopStep(f, node) ==
  LET last == f.outs[Len(f.outs)]
  IN  IF node.child = NoWorkflow THEN {Because("no_body", Soft)}
      ELSE IF f.outs # <<>> /\ last.err THEN {Because(IF last.ok THEN "body_error" ELSE "module_fetch_error", Soft)}
      ELSE IF ~f.cond \/ f.i >= node.n THEN {LoopEnd(f, node)}
      ELSE {Body(r) : r \in {Ran("low"), Soft, Failed}}

VerifyStep(f, node) ==
  {EndOf(Ran(f.inp)), IF node.mode = "passthrough" THEN EndOf(Ran(f.inp)) ELSE EndOf(Soft)}

\* Without an approval gate, and when it denies or fails, the pause is an error.
GateStep(f, node) ==
  IF Score(f.inp) >= node.n \/ node.mode = "passthrough" THEN {EndOf(Ran(f.inp))}
  ELSE IF node.mode = "error" THEN {EndOf(Soft)}
  ELSE {EndOf(Ran(f.inp)), EndOf(Waiting), EndOf(Soft)}

\* fan_in may hand its first parent on; synthesize evaluates an expression.
LocalStep(f, node) ==
  {EndOf(Ran(v)) : v \in CASE node.kind = "synthesize" -> Value
                          [] node.kind = "fan_in"     -> {f.inp, "none"}
                          [] OTHER                    -> {"none"}}

ModuleStep(f, node) == {EndOf(r) : r \in {Ran(v) : v \in Value} \cup {Soft, Failed}}

-----------------------------------------------------------------------------
(* The engine around the handlers.                                         *)

Put(f) == [stack EXCEPT ![Len(stack)] = f]

\* Faulty variant of TooDeep: the guard never fires.
NeverTooDeep == Len(stack) > MaxDepth + 3
\* into_engine_with_graph: the sub-engine would be at depth Len(stack).
TooDeep == Len(stack) > MaxDepth

\* execute_subworkflow_graph: no graph, or too deep, and the call has failed.
Enter(d) ==
  IF d.w = NoWorkflow \/ TooDeep
  THEN stack' = Put([Top EXCEPT !.phase = d.do]) /\ answer' = Failed /\ broke' = TRUE
  ELSE /\ stack' = Append(Put([Top EXCEPT !.phase = d.do]), Frame(d.w, d.inp))
       /\ answer' = Nothing
       /\ UNCHANGED broke

Perform(d) ==
  CASE d.do \in {"child", "aux"} -> Enter(d) /\ UNCHANGED paused
    [] d.do = "body" ->
         /\ \E holds \in BOOLEAN :
              stack' = Put([Top EXCEPT !.outs = Append(@, d.out), !.i = @ + 1, !.cond = holds])
         /\ broke' = (broke \/ ~d.out.ok)
         /\ UNCHANGED <<answer, paused>>
    [] d.do = "done" ->
         /\ stack' = Put([Top EXCEPT !.phase = "done", !.out = d.out, !.reason = d.reason])
         /\ broke' = (broke \/ ~d.out.ok)
         /\ paused' = (paused \/ d.out.wait)
         /\ UNCHANGED answer

Working(kinds) == stack # <<>> /\ Top.phase = "next" /\ NodeOf(Top).kind \in kinds
Handle(kinds, Step(_, _)) ==
  /\ Working(kinds)
  /\ \E d \in Step(Top, NodeOf(Top)) : Perform(d)
  /\ UNCHANGED <<prog, final>>

SubWorkflow == Handle({"sub_workflow"}, SubWorkflowStep)
Ensemble == Handle({"ensemble"}, EnsembleStep)
ReflectiveRetry == Handle({"reflective_retry"}, RetryStep)
LlmDispatch == Handle({"llm_dispatch"}, LlmDispatchStep)
Judge == Handle({"judge"}, JudgeStep)
InlineJudge == Handle({"inline_judge"}, InlineJudgeStep)
DynamicDispatch == Handle({"dispatch"}, DynamicDispatchStep)
CapabilityDispatch == Handle({"capability_dispatch"}, CapabilityDispatchStep)
AgentLoop == Handle({"agent_loop"}, AgentLoopStep)
Loop == Handle({"loop"}, LoopStep)
Verify == Handle({"verify"}, VerifyStep)
ConfidenceGate == Handle({"confidence_gate"}, GateStep)
Wait == Handle({"wait"}, LAMBDA f, node : {EndOf(Waiting)})
LocalNode == Handle(Local, LocalStep)
Module == Handle({"module"}, ModuleStep)

\* Faulty variant of TakeChild: a failed attempt is not counted.
TakeChildIfOk(f) ==
  IF answer.ok THEN [f EXCEPT !.phase = "next", !.i = @ + 1, !.outs = Append(@, answer)]
  ELSE [f EXCEPT !.phase = "next"]

\* A child run has ended: its answer is kept; an agent loop keeps its window.
TakeChild(f) ==
  [f EXCEPT !.phase = "next", !.i = @ + 1, !.outs = Append(@, answer),
            !.hist = IF NodeOf(f).kind = "agent_loop" THEN Windowed(@, Stripped(answer)) ELSE @]

\* A retry merges what the reflection returned into the next input.
TakeAux(f) ==
  [f EXCEPT !.phase = "next", !.auxs = Append(@, answer),
            !.inp = IF NodeOf(f).kind = "reflective_retry" /\ answer.ok /\ answer.v # "none"
                    THEN answer.v ELSE @]

Receive ==
  /\ stack # <<>> /\ Top.phase \in {"child", "aux"} /\ answer # Nothing
  /\ stack' = Put(IF Top.phase = "aux" THEN TakeAux(Top) ELSE TakeChild(Top))
  /\ answer' = Nothing
  /\ UNCHANGED <<prog, final, broke, paused>>

\* Kinds whose __error output the scheduler stores like any other.
StoredAsIs == {"sub_workflow", "agent_loop", "wait"} \cup Local

\* The node's outcome ends the run: an Err, and for the other kinds an __error
\* output, fails it, or is continued as an envelope (continue_on_error).
RunEnd(node, out) ==
  IF ~out.ok \/ (out.err /\ node.kind \notin StoredAsIs \cup {"module"})
  THEN IF node.coe THEN Soft ELSE Failed
  ELSE out

Return ==
  /\ stack # <<>> /\ Top.phase = "done"
  /\ LET end == RunEnd(NodeOf(Top), Top.out)
     IN  IF Len(stack) = 1
         THEN stack' = <<>> /\ final' = end /\ UNCHANGED answer
         ELSE stack' = Front(stack) /\ answer' = end /\ UNCHANGED final
  /\ UNCHANGED <<prog, broke, paused>>

\* The timeout of an agent loop drops whatever runs below it.
AgentTimeout ==
  /\ \E k \in DOMAIN stack :
       /\ NodeOf(stack[k]).kind = "agent_loop" /\ stack[k].phase \in {"child", "next"}
       /\ stack' = Append(SubSeq(stack, 1, k - 1), [stack[k] EXCEPT !.phase = "done", !.out = Soft])
  /\ answer' = Nothing
  /\ UNCHANGED <<prog, final, broke, paused>>

Step ==
  \/ SubWorkflow \/ Ensemble \/ ReflectiveRetry \/ LlmDispatch \/ Judge \/ InlineJudge
  \/ DynamicDispatch \/ CapabilityDispatch \/ AgentLoop \/ Loop \/ Verify \/ ConfidenceGate
  \/ Wait \/ LocalNode \/ Module \/ Receive \/ Return

Ended == final # Nothing /\ UNCHANGED vars

Next == Step \/ AgentTimeout \/ Ended
Spec == Init /\ [][Next]_vars

\* The future of the root run is polled, and every dispatch of a module ends.
FairSpec == Spec /\ WF_vars(Step)

-----------------------------------------------------------------------------
(* What the nesting promises.                                              *)

Done(kind) == {stack[k] : k \in {j \in DOMAIN stack : stack[j].phase = "done" /\ NodeOf(stack[j]).kind = kind}}

\* What the accounts of an ensemble say of the outcome it ends with.
HonestEnd(f, node, out) ==
  /\ out.err => Good(f) = {} \/ (Judged(node) /\ Scored(f) = {} /\ f.outs[1].err)
  /\ Judged(node) /\ Scored(f) # {} =>
       \E i \in Scored(f) : /\ out.v = f.outs[Nth(f, i)].v
                           /\ \A j \in Scored(f) : ScoreAt(f, j) <= ScoreAt(f, i)
  /\ node.mode = "majority_vote" /\ Good(f) # {} =>
       \A v \in Value : Votes(f, v) <= Votes(f, out.v)

\* An ensemble answers after all its candidates have; it answers with an error
\* only when no candidate succeeded or, with a judge, when no judge scored and
\* the first candidate failed; and its winner has the best score, or the most
\* votes, among the candidates that succeeded (dispatch_ensemble filters the
\* failures first and indexes the scores by the filtered list).
WinnerHonest ==
  \A f \in Done("ensemble") : Len(f.outs) = NodeOf(f).n /\ HonestEnd(f, NodeOf(f), f.out)

\* A reflective retry succeeds with its last attempt after failures only, gives
\* up after exactly its attempts, and reflects once between two attempts, never
\* after the last (dispatch_reflective_retry).
RetryHonest ==
  \A f \in Done("reflective_retry") :
    /\ \A i \in 1..Len(f.outs) - 1 : f.outs[i].err
    /\ IF f.out.err THEN Len(f.outs) = NodeOf(f).n /\ \A r \in Range(f.outs) : r.err
                    ELSE f.outs # <<>> /\ f.out.v = Last(f.outs).v
    /\ f.outs # <<>> => Len(f.auxs) = Len(f.outs) - 1

\* A loop counts every body it ran, never exceeds its cap, and the exit_reason
\* it reports is the true one (run_loop_iterations).
LoopHonest ==
  \A f \in Done("loop") :
    /\ f.i = Len(f.outs) /\ f.i <= NodeOf(f).n
    /\ f.reason = "condition_false" => ~f.cond /\ f.i < NodeOf(f).n
    /\ f.reason = "max_iterations" => f.i = NodeOf(f).n
    /\ f.out.err <=> f.reason = "no_body" \/ \E r \in Range(f.outs) : r.err

\* The history an agent loop shows to its next iteration is exactly the most
\* recent answers, whatever failed in between, and within agent_loop_max_history.
HistoryIsRecent ==
  \A k \in DOMAIN stack :
    LET f == stack[k]
        n == Len(f.outs)
        kept == IF n < MaxHistory THEN n ELSE MaxHistory
    IN  NodeOf(f).kind = "agent_loop" => f.hist = [j \in 1..kept |-> Stripped(f.outs[n - kept + j])]

\* Where every node is strict (sub-workflows, judges in error mode and LLM
\* dispatch, none with continue_on_error), a module that failed, a missing
\* workflow or a recursion that is cut off at any depth is an error of the root:
\* no level of nesting turns it into a value.
Strict(node) ==
  /\ ~node.coe
  /\ node.kind \in {"module", "sub_workflow", "llm_dispatch"} \/ (node.kind = "judge" /\ node.mode = "error")
ErrorsSurface ==
  (\A w \in Workflow : Strict(prog.node[w])) => (broke => final = Nothing \/ final.err)

\* Every execution ends: nesting is bounded by MaxDepth, attempts, candidates
\* and iterations by the node's own count, also where a workflow calls itself.
Returns == <>(final # Nothing)

\* The documented meaning of a pause: a node that waits stops the whole run,
\* which then reports __waiting__ (docs/checkpoint-lifecycle.md).  A child's
\* context that waits is read like one that has finished.
PauseStops == paused => final = Nothing \/ final.wait

-----------------------------------------------------------------------------
(* The invariant behind these promises.                                    *)

\* Every engine but the deepest waits for a call; the deepest waits exactly when
\* the answer of its call is there.
ControlInv ==
  /\ \A k \in DOMAIN stack : k < Len(stack) => stack[k].phase \in {"child", "aux"}
  /\ stack # <<>> => (Top.phase \in {"child", "aux"} <=> answer # Nothing)
  /\ stack = <<>> => answer = Nothing
  /\ \A k \in DOMAIN stack : stack[k].phase = "done" => stack[k].out # Nothing

EnsembleInv(f, node) ==
  node.kind = "ensemble" =>
    /\ Len(f.outs) <= node.n
    /\ f.auxs # <<>> => Len(f.outs) = node.n /\ Len(f.auxs) <= Cardinality(Good(f))
    /\ f.phase = "child" => Len(f.outs) < node.n
    /\ f.phase = "aux" => Len(f.outs) = node.n /\ Len(f.auxs) < Cardinality(Good(f))
    /\ f.phase = "done" => Len(f.outs) = node.n /\ HonestEnd(f, node, f.out)

\* Where the count of the reflections stands between two attempts.
RetryInv(f, node) ==
  node.kind = "reflective_retry" =>
    LET a == Len(f.outs)
        x == Len(f.auxs)
        again == a < node.n /\ (a > 0 => f.outs[a].err)
    IN  /\ a <= node.n
        /\ \A i \in 1..a - 1 : f.outs[i].err
        /\ f.phase = "next" => (x = a /\ (a > 0 => again)) \/ (a > 0 /\ x = a - 1)
        /\ f.phase = "child" => x = a /\ again
        /\ f.phase = "aux" => a > 0 /\ x = a - 1 /\ again
        /\ f.phase = "done" =>
             /\ a > 0 => x = a - 1
             /\ IF f.out.err THEN a = node.n /\ (a > 0 => f.outs[a].err)
                             ELSE a > 0 /\ f.out.v = f.outs[a].v

LoopInv(f, node) ==
  node.kind = "loop" =>
    /\ f.phase \in {"next", "done"}
    /\ f.i = Len(f.outs) /\ f.i <= node.n
    /\ \A i \in 1..Len(f.outs) - 1 : ~f.outs[i].err
    /\ f.phase = "done" =>
         /\ f.reason = "condition_false" => ~f.cond /\ f.i < node.n
         /\ f.reason = "max_iterations" => f.i = node.n
         /\ f.out.err <=> f.reason = "no_body" \/ \E r \in Range(f.outs) : r.err

HistoryInv(f, node) ==
  node.kind = "agent_loop" =>
    LET n == Len(f.outs)
        kept == IF n < MaxHistory THEN n ELSE MaxHistory
    IN  f.hist = [j \in 1..kept |-> Stripped(f.outs[n - kept + j])]

\* What the strict kinds have received so far.
StrictInv(f, node) ==
  /\ node.kind = "module" => f.phase \in {"next", "done"} /\ f.outs = <<>> /\ f.auxs = <<>>
  /\ node.kind \in {"sub_workflow", "judge"} =>
       /\ f.phase # "aux" /\ f.auxs = <<>> /\ Len(f.outs) <= 1
       /\ f.phase = "child" => f.outs = <<>>
  /\ node.kind = "llm_dispatch" =>
       /\ Len(f.outs) <= 1 /\ Len(f.auxs) <= 1
       /\ f.phase = "child" => f.outs = <<>>
       /\ f.phase = "aux" => f.auxs = <<>>
       /\ f.phase = "aux" \/ f.auxs # <<>> => Len(f.outs) = 1 /\ ~f.outs[1].err

FrameInv(f) ==
  LET node == NodeOf(f)
  IN  EnsembleInv(f, node) /\ RetryInv(f, node) /\ LoopInv(f, node) /\ HistoryInv(f, node) /\ StrictInv(f, node)

\* Among strict nodes an error, once there, is where the next step looks.
SurfaceInv ==
  (\A w \in Workflow : Strict(prog.node[w])) /\ broke =>
    IF stack = <<>> THEN final.err
    ELSE CASE Top.phase \in {"child", "aux"} -> answer.err
           [] Top.phase = "done"             -> Top.out.err
           [] OTHER                          -> \E r \in Range(Top.outs) \cup Range(Top.auxs) : r.err

NestInv == TypeOK /\ ControlInv /\ (\A k \in DOMAIN stack : FrameInv(stack[k])) /\ SurfaceInv

=============================================================================
