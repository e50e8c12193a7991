-------------------------- MODULE CompositesProofs --------------------------
(***************************************************************************)
(* The nesting of engines, for any stored workflows, any depth limit and   *)
(* any counts: what a node that calls, loops or retries reports is what    *)
(* its children did, and an error below strict nodes reaches the root.     *)
(***************************************************************************)
EXTENDS Composites, SequenceTheorems, FiniteSetTheorems, FunctionTheorems, WellFoundedInduction, TLAPS

-----------------------------------------------------------------------------
(* Values and decisions *)

\* How runs end, and what the collapses of a run's end leave of it.
LEMMA ResultFacts ==
  /\ \A v \in Value : Ran(v) \in Results /\ ~Ran(v).err /\ Ran(v).ok /\ Ran(v).v = v
  /\ Soft \in Results /\ Soft.err /\ Soft.ok
  /\ Failed \in Results /\ Failed.err
  /\ Waiting \in Results /\ ~Waiting.err
  /\ Nothing \notin Results /\ ~Nothing.err
  /\ \A r \in Results : /\ r.ok \in BOOLEAN /\ r.err \in BOOLEAN /\ r.wait \in BOOLEAN /\ r.v \in Value
                        /\ r.err => r.v = "none"
                        /\ ~r.ok => r.err
                        /\ Envelope(r) \in Results /\ (Envelope(r).err <=> r.err) /\ Envelope(r).v = r.v
                        /\ Dispatched(r) \in Results /\ Stripped(r) \in Results
<1>1. /\ \A v \in Value : Ran(v) \in Results /\ ~Ran(v).err /\ Ran(v).ok /\ Ran(v).v = v
      /\ Soft \in Results /\ Soft.err /\ Soft.ok
      /\ Failed \in Results /\ Failed.err
      /\ Waiting \in Results /\ ~Waiting.err
  BY DEF Results, Result, Ran, Soft, Failed, Waiting
<1>2. Nothing \notin Results /\ ~Nothing.err
  BY DEF Results, Result, Ran, Soft, Failed, Waiting, Nothing
<1>3. ASSUME NEW r \in Results
      PROVE  /\ r.ok \in BOOLEAN /\ r.err \in BOOLEAN /\ r.wait \in BOOLEAN /\ r.v \in Value
             /\ r.err => r.v = "none"
             /\ ~r.ok => r.err
             /\ Envelope(r) \in Results /\ (Envelope(r).err <=> r.err) /\ Envelope(r).v = r.v
             /\ Dispatched(r) \in Results /\ Stripped(r) \in Results
  <2>1. CASE \E v \in Value : r = Ran(v)
    BY <1>1, <2>1 DEF Result, Ran, Envelope, Dispatched, Stripped, Value
  <2>2. CASE r = Soft
    BY <1>1, <2>2 DEF Result, Soft, Ran, Envelope, Dispatched, Stripped, Value
  <2>3. CASE r = Failed
    BY <1>1, <2>3 DEF Result, Soft, Failed, Envelope, Dispatched, Stripped, Value
  <2>4. CASE r = Waiting
    BY <1>1, <2>4 DEF Result, Waiting, Ran, Envelope, Dispatched, Stripped, Value
  <2>5. QED BY <2>1, <2>2, <2>3, <2>4 DEF Results
<1>4. QED BY <1>1, <1>2, <1>3

\* Every workflow of a program has a node, of the type of nodes.
LEMMA NodeTypes ==
  ASSUME prog \in Program
  PROVE  /\ prog.root \in Workflow /\ prog.inp \in Value
         /\ \A f \in FrameType : NodeOf(f) \in NodeType
BY CompositeAssumption DEF NodeOf, FrameType

\* A frame keeps its type and its node when a step changes the rest of it.
LEMMA FrameUpdates ==
  ASSUME NEW f \in FrameType
  PROVE  /\ \A p \in {"next", "child", "aux", "done"} : [f EXCEPT !.phase = p] \in FrameType
         /\ \A o \in Results : [f EXCEPT !.phase = "done", !.out = o] \in FrameType
BY DEF FrameType

\* A new engine has received nothing.
LEMMA FreshFrame ==
  ASSUME NEW w \in Workflow, NEW inp \in Value, prog \in Program
  PROVE  Frame(w, inp) \in FrameType /\ FrameInv(Frame(w, inp))
<1> DEFINE f == Frame(w, inp)
<1>1. f \in FrameType BY DEF Frame, FrameType, Reason
<1>2. NodeOf(f) \in NodeType BY <1>1, NodeTypes
<1>3. Len(f.outs) = 0 /\ Len(f.auxs) = 0 /\ f.outs = <<>> /\ f.auxs = <<>> /\ f.hist = <<>>
      /\ f.phase = "next" /\ f.i = 0
  BY DEF Frame
<1>4. NodeOf(f).n \in Nat BY <1>2 DEF NodeType
<1>5. EnsembleInv(f, NodeOf(f)) BY <1>3, <1>4 DEF EnsembleInv
<1>6. RetryInv(f, NodeOf(f)) BY <1>3, <1>4 DEF RetryInv
<1>7. LoopInv(f, NodeOf(f)) BY <1>3, <1>4 DEF LoopInv
<1>8. HistoryInv(f, NodeOf(f))
  <2>1. (IF 0 < MaxHistory THEN 0 ELSE MaxHistory) = 0 BY CompositeAssumption
  <2>2. \A s : s = [j \in 1 .. 0 |-> Stripped(f.outs[0 - 0 + j])] => s = <<>> OBVIOUS
  <2>3. QED BY <1>3, <2>1, <2>2 DEF HistoryInv
<1>9. StrictInv(f, NodeOf(f)) BY <1>3 DEF StrictInv
<1>10. QED BY <1>1, <1>5, <1>6, <1>7, <1>8, <1>9 DEF FrameInv

\* A decision names a workflow and its input, or an outcome and its reason.
DecisionOK(d) ==
  \/ d.do \in {"child", "aux"} /\ d.w \in Ref /\ d.inp \in Value
  \/ d.do \in {"body", "done"} /\ d.out \in Results /\ d.reason \in Reason

\* The frame when its node has decided; holds is what a loop's condition says.
After(f, d, holds) ==
  CASE d.do \in {"child", "aux"} -> [f EXCEPT !.phase = d.do]
    [] d.do = "body"             -> [f EXCEPT !.outs = Append(@, d.out), !.i = @ + 1, !.cond = holds]
    [] d.do = "done"             -> [f EXCEPT !.phase = "done", !.out = d.out, !.reason = d.reason]

HasError(f) == \E r \in Range(f.outs) \cup Range(f.auxs) : r.err

\* What every decision is shown to be: it keeps the invariant of its frame, and
\* a strict node that has received an error ends with one.
Sound(f, d) ==
  /\ DecisionOK(d)
  /\ \A holds \in BOOLEAN : FrameInv(After(f, d, holds))
  /\ Strict(NodeOf(f)) => d.do # "body" /\ (HasError(f) => d.do = "done" /\ d.out.err)

At(f, kinds) == f \in FrameType /\ NodeOf(f).kind \in kinds /\ f.phase = "next" /\ FrameInv(f)

\* The fields of a decision.
LEMMA DecisionFields ==
  /\ \A w, inp, role : /\ Call(w, inp, role).do = role /\ Call(w, inp, role).w = w
                       /\ Call(w, inp, role).inp = inp
  /\ \A out : EndOf(out).do = "done" /\ EndOf(out).out = out /\ EndOf(out).reason = "none"
  /\ \A reason, out : /\ Because(reason, out).do = "done" /\ Because(reason, out).out = out
                      /\ Because(reason, out).reason = reason
  /\ \A out : Body(out).do = "body" /\ Body(out).out = out /\ Body(out).reason = "none"
BY DEF Call, EndOf, Because, Body

\* The fields of a frame after a decision, and what it leaves alone.
LEMMA AfterFields ==
  ASSUME NEW f \in FrameType, NEW d, NEW holds
  PROVE  /\ d.do \in {"child", "aux"} =>
              LET g == After(f, d, holds)
              IN  /\ g.phase = d.do /\ g.w = f.w /\ g.inp = f.inp /\ g.outs = f.outs /\ g.auxs = f.auxs
                  /\ g.hist = f.hist /\ g.i = f.i /\ g.cond = f.cond /\ g.out = f.out /\ g.reason = f.reason
         /\ d.do = "body" =>
              LET g == After(f, d, holds)
              IN  /\ g.phase = f.phase /\ g.w = f.w /\ g.inp = f.inp /\ g.outs = Append(f.outs, d.out)
                  /\ g.auxs = f.auxs /\ g.hist = f.hist /\ g.i = f.i + 1 /\ g.cond = holds
                  /\ g.out = f.out /\ g.reason = f.reason
         /\ d.do = "done" =>
              LET g == After(f, d, holds)
              IN  /\ g.phase = "done" /\ g.w = f.w /\ g.inp = f.inp /\ g.outs = f.outs /\ g.auxs = f.auxs
                  /\ g.hist = f.hist /\ g.i = f.i /\ g.cond = f.cond /\ g.out = d.out /\ g.reason = d.reason
BY DEF After, FrameType

\* A frame keeps its type through a decision.
LEMMA AfterTyped ==
  ASSUME NEW f \in FrameType, NEW d, DecisionOK(d), NEW holds \in BOOLEAN
  PROVE  After(f, d, holds) \in FrameType
<1>1. CASE d.do \in {"child", "aux"}
  <2>1. After(f, d, holds) = [f EXCEPT !.phase = d.do] BY <1>1 DEF After
  <2>2. QED BY <1>1, <2>1, FrameUpdates
<1>2. CASE d.do = "body" /\ d.out \in Results
  <2>1. After(f, d, holds) = [f EXCEPT !.outs = Append(@, d.out), !.i = @ + 1, !.cond = holds]
    BY <1>2 DEF After
  <2>2. Append(f.outs, d.out) \in Seq(Results) /\ f.i + 1 \in Nat BY <1>2 DEF FrameType
  <2>3. QED BY <2>1, <2>2 DEF FrameType
<1>3. CASE d.do = "done" /\ d.out \in Results /\ d.reason \in Reason
  <2>1. After(f, d, holds) = [f EXCEPT !.phase = "done", !.out = d.out, !.reason = d.reason]
    BY <1>3 DEF After
  <2>2. QED BY <1>3, <2>1 DEF FrameType
<1>4. QED BY <1>1, <1>2, <1>3 DEF DecisionOK

\* The kinds whose handler keeps no account of its calls.
Plain == {"inline_judge", "dispatch", "capability_dispatch", "verify", "confidence_gate", "wait"} \cup Local

\* The decisions of those handlers touch nothing the invariant speaks of.
LEMMA PlainDecides ==
  ASSUME NEW f, NEW d, prog \in Program, At(f, Plain), DecisionOK(d), d.do # "body"
  PROVE  Sound(f, d)
<1>1. f \in FrameType /\ NodeOf(f).kind \in Plain BY DEF At
<1>2. ASSUME NEW holds \in BOOLEAN PROVE FrameInv(After(f, d, holds))
  <2>1. NodeOf(After(f, d, holds)) = NodeOf(f) BY <1>1, AfterFields DEF NodeOf, DecisionOK
  <2>2. QED BY <1>1, <2>1 DEF FrameInv, EnsembleInv, RetryInv, LoopInv, HistoryInv, StrictInv, Plain, Local
<1>3. ~Strict(NodeOf(f)) BY <1>1 DEF Strict, Plain, Local
<1>4. QED BY <1>2, <1>3 DEF Sound

\* A module, a sub-workflow and a judge end when they have their one answer.
LEMMA SimpleDecides ==
  ASSUME NEW f, NEW d, prog \in Program, At(f, {"module", "sub_workflow", "judge"}), DecisionOK(d),
         d.do \in {"child", "done"},
         NodeOf(f).kind = "module" => d.do = "done",
         d.do = "child" <=> NodeOf(f).kind # "module" /\ f.outs = <<>>,
         Strict(NodeOf(f)) /\ NodeOf(f).kind # "module" /\ f.outs # <<>> /\ f.outs[1].err => d.out.err
  PROVE  Sound(f, d)
<1>1. f \in FrameType /\ NodeOf(f).kind \in {"module", "sub_workflow", "judge"} /\ f.phase = "next"
      /\ StrictInv(f, NodeOf(f)) /\ f.outs \in Seq(Results) /\ f.auxs \in Seq(Results)
  BY DEF At, FrameInv, FrameType
<1>2. ASSUME NEW holds \in BOOLEAN PROVE FrameInv(After(f, d, holds))
  <2>1. LET g == After(f, d, holds)
        IN  g.phase = d.do /\ g.w = f.w /\ g.outs = f.outs /\ g.auxs = f.auxs
    BY <1>1, AfterFields
  <2>2. NodeOf(After(f, d, holds)) = NodeOf(f) BY <2>1 DEF NodeOf
  <2>3. StrictInv(After(f, d, holds), NodeOf(f)) BY <1>1, <2>1 DEF StrictInv
  <2>4. QED BY <1>1, <2>2, <2>3 DEF FrameInv, EnsembleInv, RetryInv, LoopInv, HistoryInv
<1>3. ASSUME HasError(f), Strict(NodeOf(f)) PROVE d.do = "done" /\ d.out.err
  <2>1. f.auxs = <<>> /\ Len(f.outs) <= 1 /\ (NodeOf(f).kind = "module" => f.outs = <<>>)
    BY <1>1 DEF StrictInv
  <2>2. PICK r \in Range(f.outs) \cup Range(f.auxs) : r.err BY <1>3 DEF HasError
  <2>3. r \in Range(f.outs) BY <2>1, <2>2 DEF Range
  <2>4. f.outs # <<>> /\ r = f.outs[1] BY <1>1, <2>1, <2>3 DEF Range
  <2>5. QED BY <1>3, <2>1, <2>2, <2>4
<1>4. QED BY <1>2, <1>3 DEF Sound

\* What a node is given to call, and what it may end with.
LEMMA CallsAreOK ==
  ASSUME NEW f \in FrameType, prog \in Program
  PROVE  LET node == NodeOf(f)
         IN  /\ node.n \in Nat /\ node.kind \in Kind /\ node.mode \in Mode /\ node.coe \in BOOLEAN
             /\ \A inp \in Value, role \in {"child", "aux"} :
                  /\ DecisionOK(Call(node.child, inp, role))
                  /\ DecisionOK(Call(node.aux, inp, role))
                  /\ DecisionOK(Call(node.alt, inp, role))
             /\ \A out \in Results : DecisionOK(EndOf(out)) /\ DecisionOK(Body(out))
             /\ \A out \in Results, reason \in Reason : DecisionOK(Because(reason, out))
             /\ f.inp \in Value /\ "none" \in Value
<1>1. NodeOf(f) \in NodeType BY NodeTypes
<1>2. "none" \in Reason BY DEF Reason
<1>3. QED BY <1>1, <1>2, DecisionFields DEF DecisionOK, NodeType, FrameType, Value

\* A sub-workflow node hands the answer of its child on.
LEMMA SubWorkflowDecides ==
  ASSUME NEW f, prog \in Program, At(f, {"sub_workflow"}), NEW d \in SubWorkflowStep(f, NodeOf(f))
  PROVE  Sound(f, d)
<1>1. f \in FrameType /\ NodeOf(f).kind = "sub_workflow" /\ f.outs \in Seq(Results) BY DEF At, FrameType
<1>2. At(f, {"module", "sub_workflow", "judge"}) BY DEF At
<1>3. CASE f.outs = <<>>
  <2>1. d = Call(NodeOf(f).child, f.inp, "child") BY <1>3 DEF SubWorkflowStep
  <2>2. DecisionOK(d) /\ d.do = "child" BY <1>1, <2>1, CallsAreOK, DecisionFields
  <2>3. QED BY <1>1, <1>2, <1>3, <2>2, SimpleDecides
<1>4. CASE f.outs # <<>>
  <2>1. d = EndOf(Envelope(f.outs[1])) BY <1>4 DEF SubWorkflowStep
  <2>2. f.outs[1] \in Results BY <1>1, <1>4
  <2>3. DecisionOK(d) /\ d.do = "done" /\ (d.out.err <=> f.outs[1].err)
    BY <1>1, <2>1, <2>2, CallsAreOK, DecisionFields, ResultFacts
  <2>4. QED BY <1>1, <1>2, <1>4, <2>3, SimpleDecides
<1>5. QED BY <1>3, <1>4

\* The verdict of a judge is a result, and in error mode no verdict is an error.
LEMMA VerdictFacts ==
  ASSUME NEW node, NEW inp \in Value, NEW v \in Value
  PROVE  /\ Verdict(node, inp, v) \in Results
         /\ node.mode = "error" /\ v = "none" => Verdict(node, inp, v).err
<1>1. ~Passed("none") BY DEF Passed
<1>2. QED BY <1>1, ResultFacts DEF Verdict

\* A judge in error mode does not pass what its child failed to judge.
LEMMA JudgeDecides ==
  ASSUME NEW f, prog \in Program, At(f, {"judge"}), NEW d \in JudgeStep(f, NodeOf(f))
  PROVE  Sound(f, d)
<1>1. f \in FrameType /\ NodeOf(f).kind = "judge" /\ f.outs \in Seq(Results) /\ f.inp \in Value
  BY DEF At, FrameType
<1>2. At(f, {"module", "sub_workflow", "judge"}) BY DEF At
<1>3. CASE f.outs = <<>>
  <2>1. d = Call(NodeOf(f).child, "none", "child") BY <1>3 DEF JudgeStep
  <2>2. DecisionOK(d) /\ d.do = "child" BY <1>1, <2>1, CallsAreOK, DecisionFields
  <2>3. QED BY <1>1, <1>2, <1>3, <2>2, SimpleDecides
<1>4. CASE f.outs # <<>>
  <2> DEFINE out == IF f.outs[1].ok THEN Verdict(NodeOf(f), f.inp, f.outs[1].v) ELSE Soft
  <2>1. d = EndOf(out) BY <1>4 DEF JudgeStep
  <2>2. f.outs[1] \in Results BY <1>1, <1>4
  <2>3. f.outs[1].v \in Value /\ (f.outs[1].err => f.outs[1].v = "none") BY <2>2, ResultFacts
  <2>4. out \in Results BY <1>1, <2>3, VerdictFacts, ResultFacts
  <2>5. DecisionOK(d) /\ d.do = "done" /\ d.out = out BY <1>1, <2>1, <2>4, CallsAreOK, DecisionFields
  <2>6. ASSUME Strict(NodeOf(f)), f.outs[1].err PROVE d.out.err
    <3>1. NodeOf(f).mode = "error" BY <1>1, <2>6 DEF Strict
    <3>2. out.err BY <1>1, <2>3, <2>6, <3>1, VerdictFacts, ResultFacts
    <3>3. QED BY <2>5, <3>2
  <2>7. QED BY <1>1, <1>2, <1>4, <2>5, <2>6, SimpleDecides
<1>5. QED BY <1>3, <1>4

\* A module calls nothing.
LEMMA ModuleDecides ==
  ASSUME NEW f, prog \in Program, At(f, {"module"}), NEW d \in ModuleStep(f, NodeOf(f))
  PROVE  Sound(f, d)
<1>1. f \in FrameType /\ NodeOf(f).kind = "module" BY DEF At
<1>2. PICK out \in Results : d = EndOf(out) BY ResultFacts DEF ModuleStep
<1>3. DecisionOK(d) /\ d.do = "done" BY <1>1, <1>2, CallsAreOK, DecisionFields
<1>4. At(f, {"module", "sub_workflow", "judge"}) BY DEF At
<1>5. QED BY <1>1, <1>3, <1>4, SimpleDecides

\* The other handlers without an account end, or call once.
LEMMA PlainStepsDecide ==
  ASSUME NEW f, prog \in Program, NEW d
  PROVE  /\ At(f, {"inline_judge"}) /\ d \in InlineJudgeStep(f, NodeOf(f)) => Sound(f, d)
         /\ At(f, {"dispatch"}) /\ d \in DynamicDispatchStep(f, NodeOf(f)) => Sound(f, d)
         /\ At(f, {"capability_dispatch"}) /\ d \in CapabilityDispatchStep(f, NodeOf(f)) => Sound(f, d)
         /\ At(f, {"verify"}) /\ d \in VerifyStep(f, NodeOf(f)) => Sound(f, d)
         /\ At(f, {"confidence_gate"}) /\ d \in GateStep(f, NodeOf(f)) => Sound(f, d)
         /\ At(f, {"wait"}) /\ d = EndOf(Waiting) => Sound(f, d)
         /\ At(f, Local) /\ d \in LocalStep(f, NodeOf(f)) => Sound(f, d)
<1> DEFINE Ends == \E out \in Results : d = EndOf(out)
           Calls == \E w \in {NodeOf(f).child, NodeOf(f).alt} : d = Call(w, f.inp, "child")
<1>1. ASSUME At(f, Plain), Ends \/ Calls PROVE Sound(f, d)
  <2>1. f \in FrameType BY <1>1 DEF At
  <2>2. DecisionOK(d) /\ d.do # "body" BY <1>1, <2>1, CallsAreOK, DecisionFields
  <2>3. QED BY <1>1, <2>2, PlainDecides
<1>2. \A K \in SUBSET Plain : At(f, K) => At(f, Plain) /\ f.inp \in Value /\ f.outs \in Seq(Results)
  BY DEF At, FrameType
<1>3. ASSUME At(f, {"inline_judge"}), d \in InlineJudgeStep(f, NodeOf(f)) PROVE Sound(f, d)
  <2>1. At(f, Plain) /\ f.inp \in Value BY <1>2, <1>3 DEF Plain
  <2>2. d = EndOf(Soft) \/ \E v \in Value : d = EndOf(Verdict(NodeOf(f), f.inp, v))
    BY <1>3 DEF InlineJudgeStep
  <2>3. \A v \in Value : Verdict(NodeOf(f), f.inp, v) \in Results BY <2>1, VerdictFacts
  <2>4. Ends BY <2>2, <2>3, ResultFacts
  <2>5. QED BY <1>1, <2>1, <2>4
<1>4. ASSUME At(f, {"dispatch"}), d \in DynamicDispatchStep(f, NodeOf(f)) PROVE Sound(f, d)
  <2>1. At(f, Plain) /\ f.outs \in Seq(Results) BY <1>2, <1>4 DEF Plain
  <2>2. f.outs # <<>> => f.outs[1] \in Results BY <2>1
  <2>3. Ends \/ Calls BY <1>4, <2>2, ResultFacts DEF DynamicDispatchStep
  <2>4. QED BY <1>1, <2>1, <2>3
<1>5. ASSUME At(f, {"capability_dispatch"}), d \in CapabilityDispatchStep(f, NodeOf(f)) PROVE Sound(f, d)
  <2>1. At(f, Plain) /\ f.outs \in Seq(Results) BY <1>2, <1>5 DEF Plain
  <2>2. f.outs # <<>> => f.outs[1] \in Results BY <2>1
  <2>3. Ends \/ Calls BY <1>5, <2>2, ResultFacts DEF CapabilityDispatchStep
  <2>4. QED BY <1>1, <2>1, <2>3
<1>6. ASSUME At(f, {"verify"}), d \in VerifyStep(f, NodeOf(f)) PROVE Sound(f, d)
  <2>1. At(f, Plain) /\ f.inp \in Value BY <1>2, <1>6 DEF Plain
  <2>2. Ends BY <1>6, <2>1, ResultFacts DEF VerifyStep
  <2>3. QED BY <1>1, <2>1, <2>2
<1>7. ASSUME At(f, {"confidence_gate"}), d \in GateStep(f, NodeOf(f)) PROVE Sound(f, d)
  <2>1. At(f, Plain) /\ f.inp \in Value BY <1>2, <1>7 DEF Plain
  <2>2. Ends BY <1>7, <2>1, ResultFacts DEF GateStep
  <2>3. QED BY <1>1, <2>1, <2>2
<1>8. ASSUME At(f, {"wait"}), d = EndOf(Waiting) PROVE Sound(f, d)
  <2>1. At(f, Plain) BY <1>2, <1>8 DEF Plain
  <2>2. Ends BY <1>8, ResultFacts
  <2>3. QED BY <1>1, <2>1, <2>2
<1>9. ASSUME At(f, Local), d \in LocalStep(f, NodeOf(f)) PROVE Sound(f, d)
  <2>1. At(f, Plain) /\ f.inp \in Value BY <1>2, <1>9 DEF Plain
  <2>2. PICK v : d = EndOf(Ran(v)) /\ v \in Value \cup {f.inp, "none"} BY <1>9 DEF LocalStep
  <2>3. v \in Value BY <2>1, <2>2 DEF Value
  <2>4. Ends BY <2>2, <2>3, ResultFacts
  <2>5. QED BY <1>1, <2>1, <2>4
<1>10. QED BY <1>3, <1>4, <1>5, <1>6, <1>7, <1>8, <1>9

\* One of two routes is called, after a class, and its answer is the node's.
LEMMA LlmDecides ==
  ASSUME NEW f, prog \in Program, At(f, {"llm_dispatch"}), NEW d \in LlmDispatchStep(f, NodeOf(f))
  PROVE  Sound(f, d)
<1> DEFINE node == NodeOf(f)
<1>1. f \in FrameType /\ node.kind = "llm_dispatch" /\ f.phase = "next" /\ StrictInv(f, node)
      /\ f.outs \in Seq(Results) /\ f.auxs \in Seq(Results) /\ f.inp \in Value
  BY DEF At, FrameType, FrameInv
<1>2. /\ f.outs # <<>> => f.outs[1] \in Results
      /\ f.auxs # <<>> => f.auxs[1] \in Results
  BY <1>1
<1>3. \/ f.outs = <<>> /\ d = Call(node.child, f.inp, "child")
      \/ f.outs # <<>> /\ f.auxs # <<>> /\ d = EndOf(Envelope(f.auxs[1]))
      \/ f.outs # <<>> /\ f.auxs = <<>> /\ d = EndOf(Soft)
      \/ /\ f.outs # <<>> /\ f.auxs = <<>> /\ Passed(f.outs[1].v)
         /\ d = Call(node.aux, f.inp, "aux") \/ d = Call(node.alt, f.inp, "aux")
  BY DEF LlmDispatchStep
<1>4. DecisionOK(d) BY <1>1, <1>2, <1>3, CallsAreOK, ResultFacts
<1>5. /\ d.do = "child" => f.outs = <<>>
      /\ d.do = "aux" => f.outs # <<>> /\ f.auxs = <<>> /\ ~f.outs[1].err
      /\ d.do \in {"child", "aux", "done"}
  BY <1>2, <1>3, DecisionFields, ResultFacts DEF Passed
<1>6. ASSUME NEW holds \in BOOLEAN PROVE FrameInv(After(f, d, holds))
  <2>1. LET g == After(f, d, holds)
        IN  g.phase = d.do /\ g.w = f.w /\ g.outs = f.outs /\ g.auxs = f.auxs
    BY <1>1, <1>5, AfterFields
  <2>2. NodeOf(After(f, d, holds)) = node BY <2>1 DEF NodeOf
  <2>3. /\ Len(f.outs) <= 1 /\ Len(f.auxs) <= 1 /\ (f.outs # <<>> => Len(f.outs) = 1)
        /\ f.auxs # <<>> => Len(f.outs) = 1 /\ ~f.outs[1].err
    <3>1. /\ Len(f.outs) <= 1 /\ Len(f.auxs) <= 1
          /\ f.auxs # <<>> => Len(f.outs) = 1 /\ ~f.outs[1].err
      BY <1>1 DEF StrictInv
    <3>2. ASSUME NEW s \in Seq(Results), s # <<>>, Len(s) <= 1 PROVE Len(s) = 1
      <4>1. Len(s) \in Nat /\ Len(s) >= 1 BY <3>2
      <4>2. \A n \in Nat : n >= 1 /\ n <= 1 => n = 1 OBVIOUS
      <4>3. QED BY <3>2, <4>1, <4>2
    <3>3. QED BY <1>1, <3>1, <3>2
  <2> DEFINE g == After(f, d, holds)
  <2> HIDE DEF g
  <2>4. g.phase = d.do /\ g.w = f.w /\ g.outs = f.outs /\ g.auxs = f.auxs BY <2>1 DEF g
  <2>5. StrictInv(g, node) BY <1>1, <1>5, <2>3, <2>4 DEF StrictInv
  <2>6. QED BY <1>1, <2>2, <2>5 DEF FrameInv, EnsembleInv, RetryInv, LoopInv, HistoryInv, g
<1>7. ASSUME HasError(f) PROVE d.do = "done" /\ d.out.err
  <2>1. Len(f.outs) <= 1 /\ Len(f.auxs) <= 1 /\ (f.auxs # <<>> => Len(f.outs) = 1 /\ ~f.outs[1].err)
    BY <1>1 DEF StrictInv
  <2>2. PICK r \in Range(f.outs) \cup Range(f.auxs) : r.err BY <1>7 DEF HasError
  <2>3. \/ f.outs # <<>> /\ r = f.outs[1]
        \/ f.auxs # <<>> /\ r = f.auxs[1]
    BY <1>1, <2>1, <2>2 DEF Range
  <2>4. CASE f.auxs # <<>>
    <3>1. f.outs # <<>> /\ f.auxs[1].err BY <1>1, <2>1, <2>2, <2>3, <2>4
    <3>2. d = EndOf(Envelope(f.auxs[1])) BY <1>3, <2>4, <3>1
    <3>3. QED BY <1>2, <2>4, <3>1, <3>2, DecisionFields, ResultFacts
  <2>5. CASE f.auxs = <<>>
    <3>1. f.outs # <<>> /\ f.outs[1].err BY <2>2, <2>3, <2>5
    <3>2. ~Passed(f.outs[1].v) BY <1>2, <3>1, ResultFacts DEF Passed
    <3>3. d = EndOf(Soft) BY <1>3, <2>5, <3>1, <3>2
    <3>4. QED BY <3>3, DecisionFields, ResultFacts
  <2>6. QED BY <2>4, <2>5
<1>8. QED BY <1>4, <1>5, <1>6, <1>7 DEF Sound

\* An attempt, a reflection upon a failure, or the end.
LEMMA RetryDecides ==
  ASSUME NEW f, prog \in Program, At(f, {"reflective_retry"}), NEW d \in RetryStep(f, NodeOf(f))
  PROVE  Sound(f, d)
<1> DEFINE node == NodeOf(f)
           a == Len(f.outs)
           x == Len(f.auxs)
<1>1. f \in FrameType /\ node.kind = "reflective_retry" /\ f.phase = "next" /\ RetryInv(f, node)
      /\ f.outs \in Seq(Results) /\ f.auxs \in Seq(Results) /\ f.inp \in Value
  BY DEF At, FrameType, FrameInv
<1>2. node.n \in Nat /\ a \in Nat /\ x \in Nat BY <1>1, CallsAreOK
<1>3. a > 0 => f.outs[a] \in Results BY <1>1
<1>4. /\ a <= node.n
      /\ \A i \in 1..a - 1 : f.outs[i].err
      /\ (x = a /\ (a > 0 => a < node.n /\ f.outs[a].err)) \/ (a > 0 /\ x = a - 1)
  BY <1>1, <1>2 DEF RetryInv
<1>5. \/ a > 0 /\ ~f.outs[a].err /\ d = EndOf(Envelope(f.outs[a]))
      \/ (a > 0 => f.outs[a].err) /\ a = node.n /\ d = EndOf(Soft)
      \/ (a > 0 => f.outs[a].err) /\ a # node.n /\ x < a /\ d = Call(node.aux, "none", "aux")
      \/ (a > 0 => f.outs[a].err) /\ a # node.n /\ ~(x < a) /\ d = Call(node.child, f.inp, "child")
  BY DEF RetryStep
<1>6. DecisionOK(d) BY <1>1, <1>3, <1>5, CallsAreOK, ResultFacts
<1>7. /\ d.do \in {"child", "aux", "done"}
      /\ d.do = "child" => x = a /\ a < node.n /\ (a > 0 => f.outs[a].err)
      /\ d.do = "aux" => a > 0 /\ x = a - 1 /\ a < node.n /\ f.outs[a].err
      /\ d.do = "done" /\ d.out.err => a = node.n /\ (a > 0 => f.outs[a].err)
      /\ d.do = "done" /\ ~d.out.err => a > 0 /\ d.out.v = f.outs[a].v
      /\ d.do = "done" /\ a > 0 => x = a - 1
  <2>1. CASE a > 0 /\ ~f.outs[a].err /\ d = EndOf(Envelope(f.outs[a]))
    BY <1>2, <1>3, <1>4, <2>1, DecisionFields, ResultFacts
  <2>2. CASE (a > 0 => f.outs[a].err) /\ a = node.n /\ d = EndOf(Soft)
    BY <1>2, <1>4, <2>2, DecisionFields, ResultFacts
  <2>3. CASE (a > 0 => f.outs[a].err) /\ a # node.n /\ x < a /\ d = Call(node.aux, "none", "aux")
    BY <1>2, <1>4, <2>3, DecisionFields
  <2>4. CASE (a > 0 => f.outs[a].err) /\ a # node.n /\ ~(x < a) /\ d = Call(node.child, f.inp, "child")
    BY <1>2, <1>4, <2>4, DecisionFields
  <2>5. QED BY <1>5, <2>1, <2>2, <2>3, <2>4
<1>8. ASSUME NEW holds \in BOOLEAN PROVE FrameInv(After(f, d, holds))
  <2> DEFINE g == After(f, d, holds)
  <2>1. /\ g.phase = d.do /\ g.w = f.w /\ g.outs = f.outs /\ g.auxs = f.auxs
        /\ d.do = "done" => g.out = d.out
    BY <1>1, <1>7, AfterFields
  <2>2. NodeOf(g) = node BY <2>1 DEF NodeOf
  <2> HIDE DEF g
  <2>3. RetryInv(g, node) BY <1>1, <1>2, <1>4, <1>7, <2>1 DEF RetryInv
  <2>4. FrameInv(g) BY <1>1, <2>2, <2>3 DEF FrameInv, EnsembleInv, LoopInv, HistoryInv, StrictInv
  <2>5. QED BY <2>4 DEF g
<1>9. ~Strict(node) BY <1>1 DEF Strict
<1>10. QED BY <1>6, <1>8, <1>9 DEF Sound

\* A loop runs a body, or ends for the reason it gives.
LEMMA LoopDecides ==
  ASSUME NEW f, prog \in Program, At(f, {"loop"}), NEW d \in LoopStep(f, NodeOf(f))
  PROVE  Sound(f, d)
<1> DEFINE node == NodeOf(f)
           a == Len(f.outs)
<1>1. f \in FrameType /\ node.kind = "loop" /\ f.phase = "next" /\ LoopInv(f, node)
      /\ f.outs \in Seq(Results) /\ f.cond \in BOOLEAN
  BY DEF At, FrameType, FrameInv
<1>2. node.n \in Nat /\ a \in Nat BY <1>1, CallsAreOK
<1>3. f.i = a /\ a <= node.n /\ (\A i \in 1..a - 1 : ~f.outs[i].err) BY <1>1 DEF LoopInv
<1>4. \A i \in 1..a : f.outs[i] \in Results /\ f.outs[i].err \in BOOLEAN BY <1>1, ResultFacts
<1>5. \/ node.child = NoWorkflow /\ d = Because("no_body", Soft)
      \/ /\ node.child # NoWorkflow /\ f.outs # <<>> /\ f.outs[a].err
         /\ d = Because("body_error", Soft) \/ d = Because("module_fetch_error", Soft)
      \/ /\ node.child # NoWorkflow /\ ~(f.outs # <<>> /\ f.outs[a].err) /\ (~f.cond \/ f.i >= node.n)
         /\ d = LoopEnd(f, node)
      \/ /\ node.child # NoWorkflow /\ ~(f.outs # <<>> /\ f.outs[a].err) /\ f.cond /\ ~(f.i >= node.n)
         /\ d \in {Body(r) : r \in {Ran("low"), Soft, Failed}}
  BY DEF LoopStep
<1>6. Ran("none") \in Results /\ ~Ran("none").err /\ Ran("low") \in Results /\ Soft \in Results /\ Soft.err
      /\ Failed \in Results
  BY ResultFacts DEF Value
<1>7. (\E r \in Range(f.outs) : r.err) <=> f.outs # <<>> /\ f.outs[a].err
  <2>1. ASSUME NEW i \in 1..a, f.outs[i].err PROVE f.outs # <<>> /\ f.outs[a].err
    <3>1. i = a BY <1>2, <1>3, <2>1
    <3>2. QED BY <1>1, <2>1, <3>1
  <2>2. f.outs # <<>> => a \in 1..a BY <1>1
  <2>3. DOMAIN f.outs = 1..a BY <1>1
  <2>4. QED BY <2>1, <2>2, <2>3 DEF Range
<1>8. /\ DecisionOK(d)
      /\ d.do = "body" => a < node.n /\ ~(f.outs # <<>> /\ f.outs[a].err)
      /\ d.do = "done" =>
           /\ d.reason = "condition_false" => ~f.cond /\ f.i < node.n
           /\ d.reason = "max_iterations" => f.i = node.n
           /\ d.out.err <=> d.reason = "no_body" \/ (f.outs # <<>> /\ f.outs[a].err)
  <2>1. CASE node.child = NoWorkflow /\ d = Because("no_body", Soft)
    BY <1>1, <1>6, <2>1, CallsAreOK, DecisionFields DEF Reason
  <2>2. CASE f.outs # <<>> /\ f.outs[a].err
             /\ (d = Because("body_error", Soft) \/ d = Because("module_fetch_error", Soft))
    BY <1>1, <1>6, <2>2, CallsAreOK, DecisionFields DEF Reason
  <2>3. CASE ~(f.outs # <<>> /\ f.outs[a].err) /\ (~f.cond \/ f.i >= node.n) /\ d = LoopEnd(f, node)
    <3> DEFINE why == IF f.i >= node.n THEN "max_iterations" ELSE "condition_false"
    <3>1. d = Because(why, Ran("none")) BY <2>3 DEF LoopEnd
    <3>2. why \in Reason BY DEF Reason
    <3>3. DecisionOK(d) /\ d.do = "done" /\ d.reason = why /\ d.out = Ran("none")
      BY <1>1, <1>6, <3>1, <3>2, CallsAreOK, DecisionFields
    <3>4. f.i >= node.n => f.i = node.n BY <1>2, <1>3
    <3>5. ~(f.i >= node.n) => f.i < node.n /\ ~f.cond BY <1>2, <1>3, <2>3
    <3>6. QED BY <1>6, <2>3, <3>3, <3>4, <3>5
  <2>4. CASE ~(f.outs # <<>> /\ f.outs[a].err) /\ ~(f.i >= node.n)
             /\ d \in {Body(r) : r \in {Ran("low"), Soft, Failed}}
    <3>1. PICK r \in Results : d = Body(r) BY <1>6, <2>4
    <3>2. a < node.n BY <1>2, <1>3, <2>4
    <3>3. QED BY <1>1, <2>4, <3>1, <3>2, CallsAreOK, DecisionFields
  <2>5. QED BY <1>5, <2>1, <2>2, <2>3, <2>4
<1>9. d.do \in {"body", "done"} /\ d.out \in Results
  <2>1. \A r \in {Ran("low"), Soft, Failed} : Body(r).do = "body" BY DecisionFields
  <2>2. LoopEnd(f, node).do = "done" BY DecisionFields DEF LoopEnd
  <2>3. d.do \in {"body", "done"} BY <1>5, <2>1, <2>2, DecisionFields
  <2>4. QED BY <1>8, <2>3 DEF DecisionOK
<1>10. ASSUME NEW holds \in BOOLEAN PROVE FrameInv(After(f, d, holds))
  <2> DEFINE g == After(f, d, holds)
  <2>1. g.w = f.w BY <1>1, <1>9, AfterFields
  <2>2. NodeOf(g) = node BY <2>1 DEF NodeOf
  <2>3. d.do = "done" => /\ g.phase = "done" /\ g.outs = f.outs /\ g.i = f.i /\ g.cond = f.cond
                         /\ g.out = d.out /\ g.reason = d.reason
    BY <1>1, AfterFields
  <2>4. d.do = "body" => g.phase = "next" /\ g.outs = Append(f.outs, d.out) /\ g.i = f.i + 1
    BY <1>1, AfterFields
  <2> HIDE DEF g
  <2>5. ASSUME d.do = "done" PROVE LoopInv(g, node)
    BY <1>1, <1>2, <1>3, <1>7, <1>8, <2>3, <2>5 DEF LoopInv
  <2>6. ASSUME d.do = "body" PROVE LoopInv(g, node)
    <3>1. Len(g.outs) = a + 1 /\ (\A i \in 1..a : g.outs[i] = f.outs[i]) BY <1>1, <1>9, <2>4, <2>6
    <3>2. \A i \in 1..a : ~f.outs[i].err
      <4>1. f.outs = <<>> => a = 0 BY <1>1
      <4>2. QED BY <1>2, <1>3, <1>8, <2>6, <4>1
    <3>3. \A i \in 1..Len(g.outs) - 1 : ~g.outs[i].err BY <1>2, <3>1, <3>2
    <3>4. g.i = Len(g.outs) /\ g.i <= node.n BY <1>2, <1>3, <1>8, <2>4, <2>6, <3>1
    <3>5. g.phase = "next" BY <2>4, <2>6
    <3>6. QED BY <3>3, <3>4, <3>5 DEF LoopInv
  <2>7. LoopInv(g, node) BY <1>9, <2>5, <2>6
  <2>8. FrameInv(g) BY <1>1, <2>2, <2>7 DEF FrameInv, EnsembleInv, RetryInv, HistoryInv, StrictInv
  <2>9. QED BY <2>8 DEF g
<1>11. ~Strict(node) BY <1>1 DEF Strict
<1>12. QED BY <1>8, <1>10, <1>11 DEF Sound

\* Neither a call nor an end touches what an agent loop remembers.
LEMMA AgentDecides ==
  ASSUME NEW f, prog \in Program, At(f, {"agent_loop"}), NEW d \in AgentLoopStep(f, NodeOf(f))
  PROVE  Sound(f, d)
<1> DEFINE node == NodeOf(f)
<1>1. f \in FrameType /\ node.kind = "agent_loop" /\ HistoryInv(f, node) /\ f.inp \in Value
  BY DEF At, FrameType, FrameInv
<1>2. \/ \E out \in Results : d = EndOf(out)
      \/ d = Call(node.child, f.inp, "child")
  <2>1. Soft \in Results /\ Ran("fin") \in Results /\ Ran("none") \in Results BY ResultFacts DEF Value
  <2>2. QED BY <2>1 DEF AgentLoopStep
<1>3. DecisionOK(d) /\ d.do \in {"child", "done"} BY <1>1, <1>2, CallsAreOK, DecisionFields
<1>4. ASSUME NEW holds \in BOOLEAN PROVE FrameInv(After(f, d, holds))
  <2> DEFINE g == After(f, d, holds)
  <2>1. g.w = f.w /\ g.outs = f.outs /\ g.hist = f.hist BY <1>1, <1>3, AfterFields
  <2>2. NodeOf(g) = node BY <2>1 DEF NodeOf
  <2> HIDE DEF g
  <2>3. HistoryInv(g, node) BY <1>1, <2>1 DEF HistoryInv
  <2>4. FrameInv(g) BY <1>1, <2>2, <2>3 DEF FrameInv, EnsembleInv, RetryInv, LoopInv, StrictInv
  <2>5. QED BY <2>4 DEF g
<1>5. ~Strict(node) BY <1>1 DEF Strict
<1>6. QED BY <1>3, <1>4, <1>5 DEF Sound

-----------------------------------------------------------------------------
(* The consensus of an ensemble *)

\* A set of numbers that is not empty has a least element.
LEMMA Least ==
  ASSUME NEW T \in SUBSET Nat, T # {}
  PROVE  \E x \in T : \A y \in T : x <= y
<1>1. PICK x \in T : \A y \in T : ~ (<<y, x>> \in OpToRel(<, Nat))
  BY NatLessThanWellFounded, WFMin
<1>2. \A y \in T : ~(y < x)
  BY <1>1 DEF OpToRel
<1>3. QED BY <1>2

\* The good candidates, and the scored ones, are finitely many positions.
LEMMA CandidateSets ==
  ASSUME NEW f \in FrameType
  PROVE  /\ Good(f) \subseteq 1..Len(f.outs) /\ IsFiniteSet(Good(f)) /\ Cardinality(Good(f)) \in Nat
         /\ Scored(f) \subseteq 1..Len(f.auxs)
         /\ \A i \in Scored(f) : ScoreAt(f, i) \in 0..2
<1>1. f.outs \in Seq(Results) /\ f.auxs \in Seq(Results) BY DEF FrameType
<1>2. Good(f) \subseteq 1..Len(f.outs) /\ Scored(f) \subseteq 1..Len(f.auxs) BY <1>1 DEF Good, Scored
<1>3. IsFiniteSet(1..Len(f.outs)) BY <1>1, FS_Interval
<1>4. IsFiniteSet(Good(f)) BY <1>2, <1>3, FS_Subset
<1>5. \A i \in Scored(f) : ScoreAt(f, i) \in 0..2 BY DEF ScoreAt, Score
<1>6. QED BY <1>2, <1>4, <1>5, FS_CardinalityType

\* The ranks of the good candidates number them from one on, so that each of
\* these numbers is the rank of one.
LEMMA NthIsGood ==
  ASSUME NEW f \in FrameType, NEW k \in 1..Cardinality(Good(f))
  PROVE  Nth(f, k) \in Good(f)
<1> DEFINE G == Good(f)
           c == Cardinality(G)
           upTo(i) == {j \in G : j <= i}
           rank == [i \in G |-> Rank(f, i)]
<1>1. IsFiniteSet(G) /\ c \in Nat /\ G \subseteq Nat BY CandidateSets
<1>2. ASSUME NEW i \in G PROVE IsFiniteSet(upTo(i)) /\ Rank(f, i) = Cardinality(upTo(i)) /\ Rank(f, i) \in 1..c
  <2>1. upTo(i) \subseteq G /\ i \in upTo(i) BY <1>1, <1>2
  <2>2. IsFiniteSet(upTo(i)) /\ Cardinality(upTo(i)) <= c BY <1>1, <2>1, FS_Subset
  <2>3. Cardinality(upTo(i)) \in Nat BY <2>2, FS_CardinalityType
  <2>4. Cardinality(upTo(i)) # 0 BY <2>1, <2>2, FS_EmptySet
  <2>5. Rank(f, i) = Cardinality(upTo(i)) BY DEF Rank
  <2>6. QED BY <1>1, <2>2, <2>3, <2>4, <2>5
<1>3. ASSUME NEW i \in G, NEW j \in G, i < j PROVE Rank(f, i) # Rank(f, j)
  <2>1. upTo(i) \subseteq upTo(j) /\ j \in upTo(j) /\ j \notin upTo(i) BY <1>1, <1>3
  <2>2. IsFiniteSet(upTo(i)) /\ IsFiniteSet(upTo(j)) BY <1>2
  <2>3. Cardinality(upTo(i)) < Cardinality(upTo(j))
    <3> HIDE DEF upTo
    <3>1. upTo(i) # upTo(j) BY <2>1
    <3>2. QED BY <2>1, <2>2, <3>1, FS_Subset, FS_CardinalityType
  <2>4. QED BY <1>2, <2>2, <2>3, FS_CardinalityType
<1>4. rank \in Injection(G, 1..c)
  <2>1. rank \in [G -> 1..c] BY <1>2
  <2>2. ASSUME NEW i \in G, NEW j \in G, rank[i] = rank[j] PROVE i = j
    <3>1. Rank(f, i) = Rank(f, j) BY <2>2
    <3>2. ~(i < j) /\ ~(j < i) BY <1>3, <3>1
    <3>3. QED BY <1>1, <3>2
  <2> HIDE DEF rank
  <2>3. QED BY <2>1, <2>2 DEF Injection, IsInjective
<1>5. IsFiniteSet(1..c) /\ Cardinality(1..c) = c BY <1>1, FS_Interval
<1>6. rank \in Surjection(G, 1..c) BY <1>4, <1>5, FS_Injection
<1>7. PICK i \in G : rank[i] = k BY <1>6 DEF Surjection
<1>8. Rank(f, i) = k BY <1>7
<1>9. QED BY <1>7, <1>8 DEF Nth

\* Where one scored there is a best, the first of those with the highest score.
LEMMA BestIsBest ==
  ASSUME NEW f \in FrameType, Scored(f) # {}
  PROVE  Best(f) \in Scored(f) /\ \A j \in Scored(f) : ScoreAt(f, j) <= ScoreAt(f, Best(f))
<1> DEFINE S == Scored(f)
           ok(i, j) == ScoreAt(f, j) < ScoreAt(f, i) \/ (ScoreAt(f, j) = ScoreAt(f, i) /\ i <= j)
<1>1. S \subseteq Nat /\ \A i \in S : ScoreAt(f, i) \in 0..2 BY CandidateSets
<1>2. \E s \in 0..2 : (\E i \in S : ScoreAt(f, i) = s) /\ \A j \in S : ScoreAt(f, j) <= s
  <2>1. CASE \E i \in S : ScoreAt(f, i) = 2 BY <1>1, <2>1
  <2>2. CASE (\A i \in S : ScoreAt(f, i) # 2) /\ \E i \in S : ScoreAt(f, i) = 1 BY <1>1, <2>2
  <2>3. CASE \A i \in S : ScoreAt(f, i) # 2 /\ ScoreAt(f, i) # 1 BY <1>1, <2>3
  <2>4. QED BY <2>1, <2>2, <2>3
<1>3. PICK s \in 0..2 : (\E i \in S : ScoreAt(f, i) = s) /\ \A j \in S : ScoreAt(f, j) <= s BY <1>2
<1>4. PICK i \in {j \in S : ScoreAt(f, j) = s} : \A j \in {m \in S : ScoreAt(f, m) = s} : i <= j
  BY <1>1, <1>3, Least
<1>5. i \in S /\ \A j \in S : ok(i, j) BY <1>1, <1>3, <1>4
<1>6. Best(f) \in S /\ \A j \in S : ok(Best(f), j) BY <1>5 DEF Best
<1>7. QED BY <1>1, <1>6

\* The consensus over the candidates that answered is an honest one.
LEMMA ConsensusHonest ==
  ASSUME NEW f \in FrameType, NEW node, NEW r \in Consensus(f, node),
         Len(f.auxs) <= Cardinality(Good(f))
  PROVE  r \in Results /\ HonestEnd(f, node, r)
<1>1. f.outs \in Seq(Results) /\ f.auxs \in Seq(Results) BY DEF FrameType
<1>2. \A i \in Good(f) : /\ f.outs[i] \in Results /\ Envelope(f.outs[i]) \in Results
                         /\ ~Envelope(f.outs[i]).err /\ Envelope(f.outs[i]).v = f.outs[i].v
  BY <1>1, ResultFacts, CandidateSets DEF Good
<1>3. FirstOut(f) \in Results /\ (FirstOut(f).err => Good(f) = {} \/ f.outs[1].err)
  <2>1. CASE f.outs = <<>>
    <3>1. Good(f) = {} BY <2>1 DEF Good
    <3>2. QED BY <2>1, <3>1, ResultFacts DEF FirstOut
  <2>2. CASE f.outs # <<>>
    <3>1. f.outs[1] \in Results BY <1>1, <2>2
    <3>2. QED BY <2>2, <3>1, ResultFacts DEF FirstOut
  <2>3. QED BY <2>1, <2>2
<1>4. CASE node.mode = "first_pass"
  <2>1. ~Judged(node) BY <1>4 DEF Judged
  <2>2. r = IF Good(f) = {} THEN FirstOut(f) ELSE Envelope(f.outs[Nth(f, 1)]) BY <1>4, <2>1 DEF Consensus
  <2>3. CASE Good(f) = {} BY <1>3, <1>4, <2>1, <2>2, <2>3 DEF HonestEnd
  <2>4. CASE Good(f) # {}
    <3>1. 1 \in 1..Cardinality(Good(f)) BY <2>4, CandidateSets, FS_EmptySet
    <3>2. Nth(f, 1) \in Good(f) BY <3>1, NthIsGood
    <3>3. QED BY <1>2, <1>4, <2>1, <2>2, <2>4, <3>2 DEF HonestEnd
  <2>5. QED BY <2>3, <2>4
<1>5. CASE Judged(node)
  <2>1. node.mode = "best_of_n" BY <1>5 DEF Judged
  <2>2. r = BestOfN(f) BY <1>5, <2>1 DEF Consensus
  <2>3. CASE Scored(f) = {}
    <3>1. r = FirstOut(f) BY <2>2, <2>3 DEF BestOfN
    <3>2. QED BY <1>3, <1>5, <2>1, <2>3, <3>1 DEF HonestEnd
  <2>4. CASE Scored(f) # {}
    <3>1. r = Envelope(f.outs[Nth(f, Best(f))]) BY <2>2, <2>4 DEF BestOfN
    <3>2. Best(f) \in Scored(f) /\ \A j \in Scored(f) : ScoreAt(f, j) <= ScoreAt(f, Best(f))
      BY <2>4, BestIsBest
    <3>3. Best(f) \in 1..Cardinality(Good(f)) BY <1>1, <3>2, CandidateSets
    <3>4. Nth(f, Best(f)) \in Good(f) BY <3>3, NthIsGood
    <3>5. r \in Results /\ ~r.err /\ r.v = f.outs[Nth(f, Best(f))].v BY <1>2, <3>1, <3>4
    <3>6. QED BY <2>1, <3>2, <3>5 DEF HonestEnd
  <2>5. QED BY <2>3, <2>4
<1>6. CASE node.mode # "first_pass" /\ ~Judged(node)
  <2>1. r \in MajorityVote(f) BY <1>6 DEF Consensus
  <2>2. CASE Good(f) = {}
    <3>1. r = FirstOut(f) BY <2>1, <2>2 DEF MajorityVote
    <3>2. QED BY <1>3, <1>6, <2>2, <3>1 DEF HonestEnd
  <2>3. CASE Good(f) # {}
    <3>1. PICK i \in Good(f) : /\ r = Envelope(f.outs[i])
                               /\ \A v \in Value : Votes(f, v) <= Votes(f, f.outs[i].v)
      BY <2>1, <2>3 DEF MajorityVote
    <3>2. r \in Results /\ ~r.err /\ r.v = f.outs[i].v BY <1>2, <3>1
    <3>3. QED BY <1>6, <3>1, <3>2 DEF HonestEnd
  <2>4. QED BY <2>2, <2>3
<1>7. QED BY <1>4, <1>5, <1>6

\* Candidates first, then judges for the good ones, then the consensus.
LEMMA EnsembleDecides ==
  ASSUME NEW f, prog \in Program, At(f, {"ensemble"}), NEW d \in EnsembleStep(f, NodeOf(f))
  PROVE  Sound(f, d)
<1> DEFINE node == NodeOf(f)
<1>1. f \in FrameType /\ node.kind = "ensemble" /\ f.phase = "next" /\ EnsembleInv(f, node)
      /\ f.outs \in Seq(Results) /\ f.auxs \in Seq(Results) /\ f.inp \in Value
  BY DEF At, FrameType, FrameInv
<1>2. node.n \in Nat /\ Len(f.outs) \in Nat /\ Len(f.auxs) \in Nat /\ Cardinality(Good(f)) \in Nat
  BY <1>1, CallsAreOK, CandidateSets
<1>3. Len(f.outs) <= node.n
      /\ (f.auxs # <<>> => Len(f.outs) = node.n /\ Len(f.auxs) <= Cardinality(Good(f)))
  BY <1>1 DEF EnsembleInv
<1>4. Len(f.auxs) <= Cardinality(Good(f))
  <2>1. f.auxs = <<>> => Len(f.auxs) = 0 BY <1>1
  <2>2. QED BY <1>2, <1>3, <2>1
<1>5. \/ Len(f.outs) < node.n /\ d = Call(node.child, f.inp, "child")
      \/ /\ ~(Len(f.outs) < node.n) /\ Len(f.auxs) < Cardinality(Good(f))
         /\ d = Call(node.aux, "none", "aux")
      \/ ~(Len(f.outs) < node.n) /\ \E r \in Consensus(f, node) : d = EndOf(r)
  BY DEF EnsembleStep
<1>6. \A r \in Consensus(f, node) : r \in Results /\ HonestEnd(f, node, r)
  BY <1>1, <1>4, ConsensusHonest
<1>7. DecisionOK(d) BY <1>1, <1>5, <1>6, CallsAreOK
<1>8. /\ d.do \in {"child", "aux", "done"}
      /\ d.do = "child" => Len(f.outs) < node.n
      /\ d.do = "aux" => Len(f.outs) = node.n /\ Len(f.auxs) < Cardinality(Good(f))
      /\ d.do = "done" => Len(f.outs) = node.n /\ HonestEnd(f, node, d.out)
  BY <1>2, <1>3, <1>5, <1>6, DecisionFields
<1>9. ASSUME NEW holds \in BOOLEAN PROVE FrameInv(After(f, d, holds))
  <2> DEFINE g == After(f, d, holds)
  <2>1. /\ g.phase = d.do /\ g.w = f.w /\ g.outs = f.outs /\ g.auxs = f.auxs
        /\ d.do = "done" => g.out = d.out
    BY <1>1, <1>8, AfterFields
  <2>2. NodeOf(g) = node BY <2>1 DEF NodeOf
  <2> HIDE DEF g
  <2>3. Good(g) = Good(f) /\ Scored(g) = Scored(f) BY <2>1 DEF Good, Scored
  <2>4. \A k : Nth(g, k) = Nth(f, k) BY <2>3 DEF Nth, Rank
  <2>5. \A i : ScoreAt(g, i) = ScoreAt(f, i) BY <2>1 DEF ScoreAt
  <2>6. \A v : Votes(g, v) = Votes(f, v) BY <2>1, <2>3 DEF Votes
  <2>7. d.do = "done" => HonestEnd(g, node, g.out)
    BY <1>8, <2>1, <2>3, <2>4, <2>5, <2>6 DEF HonestEnd
  <2>8. EnsembleInv(g, node) BY <1>3, <1>8, <2>1, <2>3, <2>7 DEF EnsembleInv
  <2>9. FrameInv(g) BY <1>1, <2>2, <2>8 DEF FrameInv, RetryInv, LoopInv, HistoryInv, StrictInv
  <2>10. QED BY <2>9 DEF g
<1>10. ~Strict(node) BY <1>1 DEF Strict
<1>11. QED BY <1>7, <1>9, <1>10 DEF Sound

-----------------------------------------------------------------------------
(* Answers *)

\* The fields of a frame that has taken an answer.
LEMMA TakeFields ==
  ASSUME NEW f \in FrameType, answer \in Results, prog \in Program
  PROVE  /\ LET g == TakeChild(f)
            IN  /\ g \in FrameType /\ g.phase = "next" /\ g.w = f.w /\ g.outs = Append(f.outs, answer)
                /\ g.auxs = f.auxs /\ g.i = f.i + 1
                /\ NodeOf(f).kind = "agent_loop" => g.hist = Windowed(f.hist, Stripped(answer))
         /\ LET g == TakeAux(f)
            IN  /\ g \in FrameType /\ g.phase = "next" /\ g.w = f.w /\ g.outs = f.outs
                /\ g.auxs = Append(f.auxs, answer) /\ g.hist = f.hist /\ g.i = f.i
<1>1. /\ f.outs \in Seq(Results) /\ f.auxs \in Seq(Results) /\ f.hist \in Seq(Results) /\ f.i \in Nat
  BY DEF FrameType
<1>2. Append(f.outs, answer) \in Seq(Results) /\ Append(f.auxs, answer) \in Seq(Results) BY <1>1
<1>3. Windowed(f.hist, Stripped(answer)) \in Seq(Results)
  <2>1. Stripped(answer) \in Results BY ResultFacts
  <2>2. Len(f.hist) >= MaxHistory /\ MaxHistory # 0 => Tail(f.hist) \in Seq(Results)
    <3>1. ASSUME Len(f.hist) >= MaxHistory, MaxHistory # 0 PROVE Tail(f.hist) \in Seq(Results)
      <4>1. f.hist # <<>> BY <3>1, CompositeAssumption
      <4>2. QED BY <1>1, <4>1
    <3>2. QED BY <3>1
  <2>3. QED BY <1>1, <2>1, <2>2 DEF Windowed
<1>4. answer.v \in Value BY ResultFacts
<1>5. f.i + 1 \in Nat BY <1>1
<1>6. QED BY <1>1, <1>2, <1>3, <1>4, <1>5 DEF TakeChild, TakeAux, FrameType

\* The window of a history, one answer later.
LEMMA WindowSlides ==
  ASSUME NEW f \in FrameType, answer \in Results, prog \in Program,
         NodeOf(f).kind = "agent_loop", HistoryInv(f, NodeOf(f))
  PROVE  HistoryInv(TakeChild(f), NodeOf(f))
<1> DEFINE g == TakeChild(f)
           n == Len(f.outs)
           kept == IF n < MaxHistory THEN n ELSE MaxHistory
           kept2 == IF n + 1 < MaxHistory THEN n + 1 ELSE MaxHistory
           r == Stripped(answer)
<1>1. f.outs \in Seq(Results) /\ n \in Nat /\ MaxHistory \in Nat BY CompositeAssumption DEF FrameType
<1>2. g.outs = Append(f.outs, answer) /\ g.hist = Windowed(f.hist, r) BY TakeFields
<1>3. f.hist = [j \in 1..kept |-> Stripped(f.outs[n - kept + j])] BY DEF HistoryInv
<1>4. Len(g.outs) = n + 1 /\ g.outs[n + 1] = answer /\ \A i \in 1..n : g.outs[i] = f.outs[i]
  BY <1>1, <1>2
<1> HIDE DEF g, r
<1>5. kept \in Nat /\ kept2 \in Nat /\ kept <= n BY <1>1
<1>6. f.hist \in Seq(Results) /\ Len(f.hist) = kept
  <2>1. \A j \in 1..kept : Stripped(f.outs[n - kept + j]) \in Results
    <3>1. \A a, b \in Nat : b <= a => \A j \in 1..b : a - b + j \in 1..a OBVIOUS
    <3> HIDE DEF n, kept
    <3>2. \A j \in 1..kept : n - kept + j \in 1..n BY <1>1, <1>5, <3>1
    <3>3. \A i \in 1..n : f.outs[i] \in Results BY <1>1 DEF n
    <3>4. \A i \in 1..n : Stripped(f.outs[i]) \in Results BY <3>3, ResultFacts
    <3>5. QED BY <3>2, <3>4
  <2>2. f.hist \in Seq(Results) BY DEF FrameType
  <2>3. DOMAIN f.hist = 1..kept BY <1>3
  <2>4. QED BY <1>5, <2>2, <2>3
<1>7. g.hist = [j \in 1..kept2 |-> Stripped(g.outs[n + 1 - kept2 + j])]
  <2>1. CASE MaxHistory = 0
    <3>1. kept = 0 /\ kept2 = 0 BY <1>1, <2>1
    <3>2. g.hist = f.hist BY <1>2, <2>1 DEF Windowed
    <3>3. QED BY <1>3, <3>1, <3>2
  <2>2. CASE MaxHistory # 0 /\ n < MaxHistory
    <3>1. kept = n /\ kept2 = n + 1 BY <1>1, <2>2
    <3>2. g.hist = Append(f.hist, r) BY <1>1, <1>2, <1>6, <2>2, <3>1 DEF Windowed
    <3>3. Len(g.hist) = n + 1 /\ g.hist \in Seq(Results \cup {r}) /\ g.hist[n + 1] = r
          /\ \A j \in 1..n : g.hist[j] = f.hist[j]
      BY <1>6, <3>1, <3>2
    <3>4. \A j \in 1..n + 1 : g.hist[j] = Stripped(g.outs[n + 1 - (n + 1) + j])
      <4>1. TAKE j \in 1..n + 1
      <4>2. n + 1 - (n + 1) + j = j /\ n - n + j = j BY <1>1
      <4>3. CASE j = n + 1 BY <1>4, <3>3, <4>2, <4>3 DEF r
      <4>4. CASE j \in 1..n
        <5>1. f.hist[j] = Stripped(f.outs[n - n + j]) BY <1>3, <3>1, <4>4
        <5>2. QED BY <1>4, <3>3, <4>2, <4>4, <5>1
      <4>5. QED BY <1>1, <4>3, <4>4
    <3>5. DOMAIN g.hist = 1..n + 1 BY <3>3
    <3>6. g.hist = [j \in 1..n + 1 |-> g.hist[j]] BY <3>3, <3>5
    <3>7. QED BY <3>1, <3>4, <3>6
  <2>3. CASE MaxHistory # 0 /\ ~(n < MaxHistory)
    <3>1. kept = MaxHistory /\ kept2 = MaxHistory BY <1>1, <2>3
    <3> DEFINE M == MaxHistory
               t == Tail(f.hist)
    <3>2. g.hist = Append(t, r) BY <1>1, <1>2, <1>6, <2>3, <3>1 DEF Windowed
    <3>3. f.hist # <<>> BY <1>1, <1>6, <2>3, <3>1
    <3>4. t \in Seq(Results) /\ Len(t) = M - 1 /\ \A j \in 1..M - 1 : t[j] = f.hist[j + 1]
      BY <1>1, <1>6, <3>1, <3>3, HeadTailProperties
    <3> HIDE DEF t
    <3>5. Len(g.hist) = M /\ g.hist \in Seq(Results \cup {r}) /\ g.hist[M] = r
          /\ \A j \in 1..M - 1 : g.hist[j] = t[j]
      BY <1>1, <3>2, <3>4
    <3>6. \A j \in 1..M : f.hist[j] = Stripped(f.outs[n - M + j]) BY <1>3, <3>1
    <3>7. \A j \in 1..M : g.hist[j] = Stripped(g.outs[n + 1 - M + j])
      <4>1. TAKE j \in 1..M
      <4>2. CASE j = M
        <5>1. n + 1 - M + j = n + 1 BY <1>1, <4>2
        <5>2. QED BY <1>4, <3>5, <4>2, <5>1 DEF r
      <4>3. CASE j \in 1..M - 1
        <5> HIDE DEF M, n
        <5>1. j + 1 \in 1..M /\ n - M + (j + 1) = n + 1 - M + j /\ n + 1 - M + j \in 1..n
          BY <1>1, <2>3, <4>3 DEF M
        <5>2. g.hist[j] = f.hist[j + 1] BY <3>4, <3>5, <4>3
        <5>3. f.hist[j + 1] = Stripped(f.outs[n - M + (j + 1)]) BY <3>6, <5>1
        <5>4. QED BY <1>4, <5>1, <5>2, <5>3
      <4>4. QED BY <1>1, <4>2, <4>3
    <3>8. DOMAIN g.hist = 1..M BY <3>5
    <3>9. g.hist = [j \in 1..M |-> g.hist[j]] BY <3>5, <3>8
    <3>10. QED BY <3>1, <3>7, <3>9
  <2>4. QED BY <2>1, <2>2, <2>3
<1> DEFINE m == Len(g.outs)
           K == IF m < MaxHistory THEN m ELSE MaxHistory
<1>8. m = n + 1 /\ K = kept2 BY <1>4
<1>9. \A j \in 1..kept2 : g.hist[j] = Stripped(g.outs[n + 1 - kept2 + j]) BY <1>7
<1>10. DOMAIN g.hist = 1..kept2 /\ g.hist = [j \in DOMAIN g.hist |-> g.hist[j]] BY <1>7
<1> HIDE DEF m, K, n, kept2
<1>11. g.hist = [j \in 1..K |-> Stripped(g.outs[m - K + j])]
  <2>1. \A j \in 1..K : g.hist[j] = Stripped(g.outs[m - K + j])
    <3>1. TAKE j \in 1..K
    <3>2. j \in 1..kept2 /\ m - K + j = n + 1 - kept2 + j BY <1>1, <1>5, <1>8
    <3>3. QED BY <1>9, <3>2
  <2>2. DOMAIN g.hist = 1..K BY <1>8, <1>10
  <2>3. g.hist = [j \in 1..K |-> g.hist[j]] BY <1>10, <2>2
  <2>4. QED BY <2>1, <2>3
<1>12. QED BY <1>11 DEF HistoryInv, g, m, K

\* A candidate, an attempt or the one call has answered.
LEMMA ChildTaken ==
  ASSUME NEW f \in FrameType, answer \in Results, prog \in Program, f.phase = "child", FrameInv(f)
  PROVE  FrameInv(TakeChild(f))
<1> DEFINE g == TakeChild(f)
           node == NodeOf(f)
           a == Len(f.outs)
<1>1. /\ g \in FrameType /\ g.phase = "next" /\ g.w = f.w /\ g.outs = Append(f.outs, answer)
      /\ g.auxs = f.auxs
  BY TakeFields
<1>2. NodeOf(g) = node BY <1>1 DEF NodeOf
<1>3. f.outs \in Seq(Results) /\ f.auxs \in Seq(Results) /\ node.n \in Nat /\ a \in Nat
  BY CallsAreOK DEF FrameType
<1>4. /\ Len(g.outs) = a + 1 /\ g.outs[a + 1] = answer /\ \A i \in 1..a : g.outs[i] = f.outs[i]
      /\ g.outs # <<>>
  BY <1>1, <1>3
<1>5. HistoryInv(g, node)
  <2>1. CASE node.kind = "agent_loop" BY <2>1, WindowSlides DEF FrameInv
  <2>2. CASE node.kind # "agent_loop" BY <2>2 DEF HistoryInv
  <2>3. QED BY <2>1, <2>2
<1> HIDE DEF g
<1>6. EnsembleInv(g, node)
  <2>1. SUFFICES ASSUME node.kind = "ensemble" PROVE EnsembleInv(g, node) BY DEF EnsembleInv
  <2>2. a < node.n /\ (f.auxs # <<>> => a = node.n) BY <2>1 DEF FrameInv, EnsembleInv
  <2>3. f.auxs = <<>> BY <1>3, <2>2
  <2>4. Len(g.outs) <= node.n BY <1>3, <1>4, <2>2
  <2>5. QED BY <1>1, <2>3, <2>4 DEF EnsembleInv
<1>7. RetryInv(g, node)
  <2>1. SUFFICES ASSUME node.kind = "reflective_retry" PROVE RetryInv(g, node) BY DEF RetryInv
  <2>2. Len(f.auxs) = a /\ a < node.n /\ (a > 0 => f.outs[a].err) /\ \A i \in 1..a - 1 : f.outs[i].err
    BY <2>1 DEF FrameInv, RetryInv
  <2>3. \A i \in 1..a : f.outs[i].err
    <3>1. \A i \in 1..a : i = a \/ i \in 1..a - 1 BY <1>3
    <3>2. QED BY <1>3, <2>2, <3>1
  <2>4. \A i \in 1..Len(g.outs) - 1 : g.outs[i].err BY <1>3, <1>4, <2>3
  <2>5. Len(g.outs) <= node.n /\ Len(g.outs) > 0 /\ Len(g.auxs) = Len(g.outs) - 1
    BY <1>1, <1>3, <1>4, <2>2
  <2>6. QED BY <1>1, <2>4, <2>5 DEF RetryInv
<1>8. LoopInv(g, node) BY DEF FrameInv, LoopInv
<1>9. StrictInv(g, node)
  <2>1. StrictInv(f, node) BY DEF FrameInv
  <2>2. node.kind # "module" BY <2>1 DEF StrictInv
  <2>3. f.outs = <<>> => a = 0 /\ ~(a = 1) BY <1>3
  <2>4. CASE node.kind \in {"sub_workflow", "judge"}
    <3>1. f.auxs = <<>> /\ a = 0 BY <2>1, <2>3, <2>4 DEF StrictInv
    <3>2. Len(g.outs) <= 1 BY <1>4, <3>1
    <3>3. QED BY <1>1, <2>4, <3>1, <3>2 DEF StrictInv
  <2>5. CASE node.kind = "llm_dispatch"
    <3>1. a = 0 /\ ~(a = 1) BY <2>1, <2>3, <2>5 DEF StrictInv
    <3>2. f.auxs = <<>> BY <2>1, <2>5, <3>1 DEF StrictInv
    <3>3. Len(g.outs) <= 1 /\ Len(f.auxs) <= 1 BY <1>4, <3>1, <3>2
    <3>4. QED BY <1>1, <2>5, <3>2, <3>3 DEF StrictInv
  <2>6. QED BY <2>2, <2>4, <2>5 DEF StrictInv
<1>10. FrameInv(g) BY <1>2, <1>5, <1>6, <1>7, <1>8, <1>9 DEF FrameInv
<1>11. QED BY <1>10 DEF g

\* A judge, a reflection or a target has answered.
LEMMA AuxTaken ==
  ASSUME NEW f \in FrameType, answer \in Results, prog \in Program, f.phase = "aux", FrameInv(f)
  PROVE  FrameInv(TakeAux(f))
<1> DEFINE g == TakeAux(f)
           node == NodeOf(f)
           x == Len(f.auxs)
<1>1. /\ g \in FrameType /\ g.phase = "next" /\ g.w = f.w /\ g.outs = f.outs
      /\ g.auxs = Append(f.auxs, answer) /\ g.hist = f.hist
  BY TakeFields
<1>2. NodeOf(g) = node BY <1>1 DEF NodeOf
<1>3. f.outs \in Seq(Results) /\ f.auxs \in Seq(Results) /\ node.n \in Nat /\ Len(f.outs) \in Nat /\ x \in Nat
      /\ Cardinality(Good(f)) \in Nat
  BY CallsAreOK, CandidateSets DEF FrameType
<1>4. Len(g.auxs) = x + 1 /\ g.auxs # <<>> BY <1>1, <1>3
<1> HIDE DEF g
<1>5. HistoryInv(g, node) BY <1>1 DEF FrameInv, HistoryInv
<1>6. EnsembleInv(g, node)
  <2>1. SUFFICES ASSUME node.kind = "ensemble" PROVE EnsembleInv(g, node) BY DEF EnsembleInv
  <2>2. Len(f.outs) = node.n /\ x < Cardinality(Good(f)) BY <2>1 DEF FrameInv, EnsembleInv
  <2>3. Good(g) = Good(f) BY <1>1 DEF Good
  <2>4. Len(g.outs) = node.n /\ Len(g.auxs) <= Cardinality(Good(g)) BY <1>1, <1>3, <1>4, <2>2, <2>3
  <2>5. node.n <= node.n BY <1>3
  <2>6. QED BY <1>1, <2>4, <2>5 DEF EnsembleInv
<1>7. RetryInv(g, node)
  <2>1. SUFFICES ASSUME node.kind = "reflective_retry" PROVE RetryInv(g, node) BY DEF RetryInv
  <2> DEFINE a == Len(f.outs)
  <2>2. /\ a > 0 /\ x = a - 1 /\ a < node.n /\ (a > 0 => f.outs[a].err) /\ a <= node.n
        /\ \A i \in 1..a - 1 : f.outs[i].err
    BY <2>1 DEF FrameInv, RetryInv
  <2>3. Len(g.auxs) = a BY <1>3, <1>4, <2>2
  <2>4. QED BY <1>1, <2>2, <2>3 DEF RetryInv
<1>8. LoopInv(g, node) BY DEF FrameInv, LoopInv
<1>9. StrictInv(g, node)
  <2>1. StrictInv(f, node) BY DEF FrameInv
  <2>2. node.kind \notin {"module", "sub_workflow", "judge"} BY <2>1 DEF StrictInv
  <2>3. CASE node.kind = "llm_dispatch"
    <3>1. f.auxs = <<>> /\ Len(f.outs) = 1 /\ ~f.outs[1].err /\ Len(f.outs) <= 1
      BY <2>1, <2>3 DEF StrictInv
    <3>2. x = 0 BY <3>1
    <3>3. Len(g.auxs) <= 1 BY <1>4, <3>2
    <3>4. QED BY <1>1, <2>3, <3>1, <3>3 DEF StrictInv
  <2>4. QED BY <2>2, <2>3 DEF StrictInv
<1>10. FrameInv(g) BY <1>2, <1>5, <1>6, <1>7, <1>8, <1>9 DEF FrameInv
<1>11. QED BY <1>10 DEF g

\* An agent loop whose time is up remembers what it remembered.
LEMMA TimedOut ==
  ASSUME NEW f \in FrameType, prog \in Program, NodeOf(f).kind = "agent_loop", FrameInv(f)
  PROVE  LET g == [f EXCEPT !.phase = "done", !.out = Soft]
         IN  g \in FrameType /\ g.phase = "done" /\ g.out = Soft /\ FrameInv(g)
<1> DEFINE g == [f EXCEPT !.phase = "done", !.out = Soft]
<1>1. g \in FrameType BY ResultFacts, FrameUpdates
<1>2. g.phase = "done" /\ g.out = Soft /\ g.w = f.w /\ g.outs = f.outs /\ g.hist = f.hist BY DEF FrameType
<1>3. NodeOf(g) = NodeOf(f) BY <1>2 DEF NodeOf
<1> HIDE DEF g
<1>4. HistoryInv(g, NodeOf(f)) BY <1>2 DEF FrameInv, HistoryInv
<1>5. FrameInv(g) BY <1>3, <1>4 DEF FrameInv, EnsembleInv, RetryInv, LoopInv, StrictInv
<1>6. QED BY <1>1, <1>2, <1>5 DEF g

-----------------------------------------------------------------------------
(* The stack of engines *)

\* The state function of the invariant follows prog alone once the frame is given.
LEMMA SameProgram ==
  ASSUME prog' = prog
  PROVE  \A f : (FrameInv(f)' <=> FrameInv(f)) /\ NodeOf(f)' = NodeOf(f)
<1>1. \A f : NodeOf(f)' = NodeOf(f) BY DEF NodeOf
<1>2. QED BY <1>1 DEF FrameInv, EnsembleInv, HonestEnd, RetryInv, LoopInv, HistoryInv, StrictInv

\* What the invariant says of the engine at work.
LEMMA AtTheTop ==
  ASSUME NestInv, stack # <<>>
  PROVE  /\ Len(stack) \in Nat /\ Len(stack) \in DOMAIN stack /\ Len(stack) >= 1 /\ DOMAIN stack = 1..Len(stack)
         /\ Top \in FrameType /\ FrameInv(Top) /\ prog \in Program
         /\ \A k \in 1..Len(stack) : stack[k] \in FrameType
         /\ Top.phase \in {"next", "done"} => answer = Nothing
         /\ Top.phase \in {"child", "aux"} => answer \in Results
         /\ Top.phase = "done" => Top.out \in Results
<1>1. stack \in Seq(FrameType) /\ answer \in Results \cup {Nothing} /\ prog \in Program
  BY DEF NestInv, TypeOK
<1>2. Len(stack) \in Nat /\ Len(stack) \in DOMAIN stack /\ Len(stack) >= 1 /\ DOMAIN stack = 1..Len(stack)
      /\ \A k \in 1..Len(stack) : stack[k] \in FrameType
  BY <1>1
<1>3. Top \in FrameType BY <1>2 DEF Top
<1>4. Top.out \in Results \cup {Nothing} BY <1>3 DEF FrameType
<1>5. FrameInv(Top) BY <1>2 DEF NestInv, Top
<1>6. /\ Top.phase \in {"next", "done"} => answer = Nothing
      /\ Top.phase \in {"child", "aux"} => answer # Nothing
      /\ Top.phase = "done" => Top.out # Nothing
  BY <1>2 DEF NestInv, ControlInv, Top
<1>7. QED BY <1>1, <1>2, <1>3, <1>4, <1>5, <1>6

\* The top engine replaced by one with the invariant, the others left alone.
LEMMA Replaced ==
  ASSUME NestInv, stack # <<>>, NEW g \in FrameType, FrameInv(g)
  PROVE  LET s == Put(g)
         IN  /\ s \in Seq(FrameType) /\ Len(s) = Len(stack) /\ s # <<>> /\ s[Len(s)] = g
             /\ DOMAIN s = 1..Len(stack)
             /\ \A k \in 1..Len(stack) : k < Len(stack) => s[k] = stack[k] /\ s[k].phase \in {"child", "aux"}
             /\ \A k \in 1..Len(stack) : FrameInv(s[k])
<1> DEFINE s == Put(g)
           n == Len(stack)
<1>1. stack \in Seq(FrameType) /\ n \in Nat /\ n >= 1 /\ DOMAIN stack = 1..n
  BY AtTheTop DEF NestInv, TypeOK
<1>2. s \in Seq(FrameType) /\ Len(s) = n /\ s[n] = g /\ DOMAIN s = 1..n
      /\ \A k \in 1..n : k # n => s[k] = stack[k]
  <2>1. n \in 1..n BY <1>1
  <2>2. s = [stack EXCEPT ![n] = g] BY DEF Put
  <2>3. s \in Seq(FrameType) /\ Len(s) = n /\ \A k \in 1..n : s[k] = IF k = n THEN g ELSE stack[k]
    BY <1>1, <2>1, <2>2, ExceptSeq
  <2> HIDE DEF s
  <2>4. QED BY <2>1, <2>3
<1>3. \A k \in 1..n : k < n => stack[k].phase \in {"child", "aux"}
  BY <1>1 DEF NestInv, ControlInv
<1>4. \A k \in 1..n : FrameInv(stack[k]) BY <1>1 DEF NestInv
<1> HIDE DEF s
<1>5. s # <<>> BY <1>1, <1>2, EmptySeq
<1>6. \A k \in 1..n : FrameInv(s[k]) BY <1>2, <1>4
<1>7. \A k \in 1..n : k < n => s[k] = stack[k] /\ s[k].phase \in {"child", "aux"}
  <2>1. \A m \in Nat : \A k \in 1..m : k < m => k # m OBVIOUS
  <2>2. QED BY <1>1, <1>2, <1>3, <2>1
<1>8. s[Len(s)] = g BY <1>2
<1>9. QED BY <1>2, <1>5, <1>6, <1>7, <1>8 DEF s

AllStrict == \A w \in Workflow : Strict(prog.node[w])

\* Among strict nodes, every node is.
LEMMA StrictNodes ==
  ASSUME prog \in Program, AllStrict, NEW f \in FrameType
  PROVE  Strict(NodeOf(f))
BY DEF AllStrict, NodeOf, FrameType

\* A step that leaves the engine at work the deepest one.
LEMMA TopStep ==
  ASSUME NestInv, stack # <<>>, prog' = prog, final' = final, broke' \in BOOLEAN, paused' \in BOOLEAN,
         NEW g \in FrameType, FrameInv(g), stack' = Put(g), answer' \in Results \cup {Nothing},
         g.phase \in {"child", "aux"} <=> answer' # Nothing,
         g.phase = "done" => g.out # Nothing,
         AllStrict /\ broke' =>
           CASE g.phase \in {"child", "aux"} -> answer'.err
             [] g.phase = "done"             -> g.out.err
             [] OTHER                        -> HasError(g)
  PROVE  NestInv'
<1> DEFINE n == Len(stack)
<1>1. /\ stack' \in Seq(FrameType) /\ Len(stack') = n /\ stack' # <<>> /\ stack'[Len(stack')] = g
      /\ DOMAIN stack' = 1..n
      /\ \A k \in 1..n : k < n => stack'[k].phase \in {"child", "aux"}
      /\ \A k \in 1..n : FrameInv(stack'[k])
  BY Replaced
<1>2. n \in Nat /\ TypeOK BY AtTheTop DEF NestInv
<1>3. TypeOK' BY <1>1, <1>2 DEF TypeOK
<1>4. Top' = g BY <1>1 DEF Top
<1>5. ControlInv'
  <2>1. \A k \in 1..n : k < n \/ k = n BY <1>2
  <2>2. \A k \in DOMAIN stack' : stack'[k].phase = "done" => stack'[k].out # Nothing
    BY <1>1, <2>1
  <2>3. QED BY <1>1, <1>4, <2>2 DEF ControlInv
<1>6. (\A k \in DOMAIN stack : FrameInv(stack[k]))' BY <1>1, SameProgram
<1>7. SurfaceInv' BY <1>1, <1>4 DEF SurfaceInv, AllStrict, HasError
<1>8. QED BY <1>3, <1>5, <1>6, <1>7 DEF NestInv

\* A call builds an engine, one level deeper, or fails where it is made.
LEMMA EnterKeeps ==
  ASSUME NestInv, stack # <<>>, Top.phase = "next", NEW d, Sound(Top, d), d.do \in {"child", "aux"},
         Enter(d), UNCHANGED <<prog, final, paused>>
  PROVE  NestInv'
<1> DEFINE g == [Top EXCEPT !.phase = d.do]
           n == Len(stack)
<1>1. /\ n \in Nat /\ n >= 1 /\ Top \in FrameType /\ answer = Nothing /\ prog \in Program /\ TypeOK
  BY AtTheTop DEF NestInv
<1>2. d.w \in Ref /\ d.inp \in Value BY DEF Sound, DecisionOK
<1>3. g = After(Top, d, TRUE) /\ g \in FrameType /\ g.phase = d.do
  BY <1>1, FrameUpdates, AfterFields DEF After
<1>4. FrameInv(g) BY <1>3 DEF Sound
<1>5. AllStrict => ~broke
  <2>1. SUFFICES ASSUME AllStrict, broke PROVE FALSE OBVIOUS
  <2>2. HasError(Top) BY <2>1 DEF NestInv, SurfaceInv, AllStrict, HasError
  <2>3. QED BY <1>1, <2>1, <2>2, StrictNodes DEF Sound
<1> HIDE DEF g
<1>6. CASE d.w = NoWorkflow \/ TooDeep
  <2>1. stack' = Put(g) /\ answer' = Failed /\ broke' = TRUE BY <1>6 DEF Enter, g
  <2>2. answer' \in Results /\ answer' # Nothing /\ answer'.err BY <2>1, ResultFacts
  <2>3. broke' \in BOOLEAN /\ paused' \in BOOLEAN BY <1>1, <2>1 DEF TypeOK
  <2>4. QED BY <1>3, <1>4, <2>1, <2>2, <2>3, TopStep
<1>7. CASE d.w # NoWorkflow /\ ~TooDeep
  <2> DEFINE s == Put(g)
             h == Frame(d.w, d.inp)
  <2>1. stack' = Append(s, h) /\ answer' = Nothing /\ broke' = broke BY <1>7 DEF Enter, g
  <2>2. d.w \in Workflow BY <1>2, <1>7 DEF Ref
  <2>3. h \in FrameType /\ FrameInv(h) BY <1>1, <1>2, <2>2, FreshFrame
  <2>4. h.phase = "next" BY DEF Frame
  <2>5. /\ s \in Seq(FrameType) /\ Len(s) = n /\ s[n] = g /\ DOMAIN s = 1..n
        /\ \A k \in 1..n : k < n => s[k].phase \in {"child", "aux"}
        /\ \A k \in 1..n : FrameInv(s[k])
    BY <1>3, <1>4, Replaced
  <2> HIDE DEF s, h
  <2>6. /\ stack' \in Seq(FrameType) /\ Len(stack') = n + 1 /\ stack'[n + 1] = h /\ DOMAIN stack' = 1..n + 1
        /\ \A k \in 1..n : stack'[k] = s[k]
        /\ stack' # <<>>
    <3>1. /\ stack' \in Seq(FrameType) /\ Len(stack') = n + 1 /\ stack'[n + 1] = h
          /\ \A k \in 1..n : stack'[k] = s[k]
      BY <1>1, <2>1, <2>3, <2>5
    <3>2. Len(stack') # 0 BY <1>1, <3>1
    <3>3. QED BY <3>1, <3>2, EmptySeq
  <2>7. \A k \in 1..n : stack'[k].phase \in {"child", "aux"}
    <3>1. \A m \in Nat : \A k \in 1..m : k < m \/ k = m OBVIOUS
    <3>2. \A k \in 1..n : s[k].phase \in {"child", "aux"} BY <1>1, <1>3, <2>5, <3>1
    <3>3. QED BY <2>6, <3>2
  <2>8. \A k \in 1..n + 1 : k \in 1..n \/ k = n + 1 BY <1>1
  <2>9. n + 1 <= MaxDepth + 1 BY <1>1, <1>7, CompositeAssumption DEF TooDeep
  <2>10. TypeOK' BY <1>1, <2>1, <2>6, <2>9 DEF TypeOK
  <2>11. Top' = h BY <2>6 DEF Top
  <2>12. ControlInv'
    <3>1. \A m \in Nat : \A k \in 1..m + 1 : k < m + 1 => k \in 1..m OBVIOUS
    <3>2. \A k \in DOMAIN stack' : k < Len(stack') => stack'[k].phase \in {"child", "aux"}
      BY <1>1, <2>6, <2>7, <3>1
    <3>3. \A k \in DOMAIN stack' : stack'[k].phase # "done" BY <2>4, <2>6, <2>7, <2>8
    <3>4. QED BY <2>1, <2>4, <2>6, <2>11, <3>2, <3>3 DEF ControlInv
  <2>13. (\A k \in DOMAIN stack : FrameInv(stack[k]))'
    <3>1. \A k \in 1..n + 1 : FrameInv(stack'[k]) BY <2>3, <2>5, <2>6, <2>8
    <3>2. QED BY <2>6, <3>1, SameProgram
  <2>14. SurfaceInv' BY <1>5, <2>1 DEF SurfaceInv, AllStrict
  <2>15. QED BY <2>10, <2>12, <2>13, <2>14 DEF NestInv
<1>8. QED BY <1>6, <1>7

\* What a handler has decided is carried out.
LEMMA PerformKeeps ==
  ASSUME NestInv, stack # <<>>, Top.phase = "next", NEW d, Sound(Top, d), Perform(d),
         UNCHANGED <<prog, final>>
  PROVE  NestInv'
<1>1. /\ Top \in FrameType /\ answer = Nothing /\ prog \in Program /\ TypeOK BY AtTheTop DEF NestInv
<1>2. broke \in BOOLEAN /\ paused \in BOOLEAN BY <1>1 DEF TypeOK
<1>3. AllStrict /\ broke => HasError(Top) BY DEF NestInv, SurfaceInv, AllStrict, HasError
<1>4. AllStrict => Strict(NodeOf(Top)) BY <1>1, StrictNodes
<1>5. CASE d.do \in {"child", "aux"}
  <2>1. Enter(d) /\ paused' = paused BY <1>5 DEF Perform
  <2>2. QED BY <1>5, <2>1, EnterKeeps
<1>6. CASE d.do = "body"
  <2>1. PICK holds \in BOOLEAN :
          stack' = Put([Top EXCEPT !.outs = Append(@, d.out), !.i = @ + 1, !.cond = holds])
    BY <1>6 DEF Perform
  <2>2. broke' = (broke \/ ~d.out.ok) /\ answer' = answer /\ paused' = paused BY <1>6 DEF Perform
  <2> DEFINE g == After(Top, d, holds)
  <2>3. d.out \in Results BY <1>6 DEF Sound, DecisionOK
  <2>4. g = [Top EXCEPT !.outs = Append(@, d.out), !.i = @ + 1, !.cond = holds] BY <1>6 DEF After
  <2>5. g \in FrameType BY <1>1, AfterTyped DEF Sound
  <2>6. g.phase = "next" BY <1>1, <1>6, AfterFields
  <2>7. FrameInv(g) BY DEF Sound
  <2>8. ~AllStrict BY <1>4, <1>6 DEF Sound
  <2>9. stack' = Put(g) BY <2>1, <2>4
  <2> HIDE DEF g
  <2>10. broke' \in BOOLEAN BY <1>2, <2>2
  <2>11. QED BY <1>1, <1>2, <2>2, <2>5, <2>6, <2>7, <2>8, <2>9, <2>10, TopStep
<1>7. CASE d.do = "done"
  <2> PICK holds \in BOOLEAN : TRUE OBVIOUS
  <2> DEFINE g == After(Top, d, holds)
  <2>1. /\ stack' = Put([Top EXCEPT !.phase = "done", !.out = d.out, !.reason = d.reason])
        /\ broke' = (broke \/ ~d.out.ok) /\ paused' = (paused \/ d.out.wait) /\ answer' = answer
    BY <1>7 DEF Perform
  <2>2. d.out \in Results /\ d.reason \in Reason BY <1>7 DEF Sound, DecisionOK
  <2>3. g = [Top EXCEPT !.phase = "done", !.out = d.out, !.reason = d.reason] BY <1>7 DEF After
  <2>4. g \in FrameType BY <1>1, AfterTyped DEF Sound
  <2>5. g.phase = "done" /\ g.out = d.out BY <1>1, <1>7, AfterFields
  <2>6. FrameInv(g) BY DEF Sound
  <2>7. broke' \in BOOLEAN /\ paused' \in BOOLEAN BY <1>2, <2>1, <2>2, ResultFacts
  <2>8. AllStrict /\ broke' => d.out.err
    <3>1. AllStrict /\ broke => d.out.err BY <1>3, <1>4 DEF Sound
    <3>2. ~d.out.ok => d.out.err BY <2>2, ResultFacts
    <3>3. QED BY <2>1, <3>1, <3>2
  <2>9. stack' = Put(g) BY <2>1, <2>3
  <2>10. d.out # Nothing BY <2>2, ResultFacts
  <2> HIDE DEF g
  <2>11. QED BY <1>1, <2>1, <2>4, <2>5, <2>6, <2>7, <2>8, <2>9, <2>10, TopStep
<1>8. d.do \in {"child", "aux", "body", "done"} BY DEF Sound, DecisionOK
<1>9. QED BY <1>5, <1>6, <1>7, <1>8

\* Every handler: the decision of its kind is sound.
HandlerStep ==
  \/ SubWorkflow \/ Ensemble \/ ReflectiveRetry \/ LlmDispatch \/ Judge \/ InlineJudge
  \/ DynamicDispatch \/ CapabilityDispatch \/ AgentLoop \/ Loop \/ Verify \/ ConfidenceGate
  \/ Wait \/ LocalNode \/ Module

\* No handler leaves the invariant.
LEMMA HandlersKeep ==
  ASSUME NestInv, HandlerStep
  PROVE  NestInv'
<1> DEFINE f == Top
           node == NodeOf(Top)
           By(kinds, D) == Working(kinds) /\ (\E d \in D : Perform(d)) /\ UNCHANGED <<prog, final>>
<1>1. ASSUME NEW kinds, NEW d, Working(kinds), Perform(d), UNCHANGED <<prog, final>>,
             At(f, kinds) => Sound(f, d)
      PROVE  NestInv'
  <2>1. stack # <<>> /\ f.phase = "next" /\ NodeOf(f).kind \in kinds BY <1>1 DEF Working
  <2>2. At(f, kinds) BY <2>1, AtTheTop DEF At
  <2>3. QED BY <1>1, <2>1, <2>2, PerformKeeps
<1>2. prog \in Program BY DEF NestInv, TypeOK
<1>3. CASE SubWorkflow
  <2>1. By({"sub_workflow"}, SubWorkflowStep(f, node)) BY <1>3 DEF SubWorkflow, Handle
  <2>2. QED BY <1>1, <1>2, <2>1, SubWorkflowDecides
<1>4. CASE Ensemble
  <2>1. By({"ensemble"}, EnsembleStep(f, node)) BY <1>4 DEF Ensemble, Handle
  <2>2. QED BY <1>1, <1>2, <2>1, EnsembleDecides
<1>5. CASE ReflectiveRetry
  <2>1. By({"reflective_retry"}, RetryStep(f, node)) BY <1>5 DEF ReflectiveRetry, Handle
  <2>2. QED BY <1>1, <1>2, <2>1, RetryDecides
<1>6. CASE LlmDispatch
  <2>1. By({"llm_dispatch"}, LlmDispatchStep(f, node)) BY <1>6 DEF LlmDispatch, Handle
  <2>2. QED BY <1>1, <1>2, <2>1, LlmDecides
<1>7. CASE Judge
  <2>1. By({"judge"}, JudgeStep(f, node)) BY <1>7 DEF Judge, Handle
  <2>2. QED BY <1>1, <1>2, <2>1, JudgeDecides
<1>8. CASE InlineJudge
  <2>1. By({"inline_judge"}, InlineJudgeStep(f, node)) BY <1>8 DEF InlineJudge, Handle
  <2>2. QED BY <1>1, <1>2, <2>1, PlainStepsDecide
<1>9. CASE DynamicDispatch
  <2>1. By({"dispatch"}, DynamicDispatchStep(f, node)) BY <1>9 DEF DynamicDispatch, Handle
  <2>2. QED BY <1>1, <1>2, <2>1, PlainStepsDecide
<1>10. CASE CapabilityDispatch
  <2>1. By({"capability_dispatch"}, CapabilityDispatchStep(f, node))
    BY <1>10 DEF CapabilityDispatch, Handle
  <2>2. QED BY <1>1, <1>2, <2>1, PlainStepsDecide
<1>11. CASE AgentLoop
  <2>1. By({"agent_loop"}, AgentLoopStep(f, node)) BY <1>11 DEF AgentLoop, Handle
  <2>2. QED BY <1>1, <1>2, <2>1, AgentDecides
<1>12. CASE Loop
  <2>1. By({"loop"}, LoopStep(f, node)) BY <1>12 DEF Loop, Handle
  <2>2. QED BY <1>1, <1>2, <2>1, LoopDecides
<1>13. CASE Verify
  <2>1. By({"verify"}, VerifyStep(f, node)) BY <1>13 DEF Verify, Handle
  <2>2. QED BY <1>1, <1>2, <2>1, PlainStepsDecide
<1>14. CASE ConfidenceGate
  <2>1. By({"confidence_gate"}, GateStep(f, node)) BY <1>14 DEF ConfidenceGate, Handle
  <2>2. QED BY <1>1, <1>2, <2>1, PlainStepsDecide
<1>15. CASE Wait
  <2>1. By({"wait"}, {EndOf(Waiting)}) BY <1>15 DEF Wait, Handle
  <2>2. QED BY <1>1, <1>2, <2>1, PlainStepsDecide
<1>16. CASE LocalNode
  <2>1. By(Local, LocalStep(f, node)) BY <1>16 DEF LocalNode, Handle
  <2>2. QED BY <1>1, <1>2, <2>1, PlainStepsDecide
<1>17. CASE Module
  <2>1. By({"module"}, ModuleStep(f, node)) BY <1>17 DEF Module, Handle
  <2>2. QED BY <1>1, <1>2, <2>1, ModuleDecides
<1>18. QED
  BY <1>3, <1>4, <1>5, <1>6, <1>7, <1>8, <1>9, <1>10, <1>11, <1>12, <1>13, <1>14, <1>15, <1>16, <1>17
     DEF HandlerStep

\* An answer is taken up where it was waited for.
LEMMA ReceiveKeeps ==
  ASSUME NestInv, Receive
  PROVE  NestInv'
<1> DEFINE g == IF Top.phase = "aux" THEN TakeAux(Top) ELSE TakeChild(Top)
<1>1. /\ stack # <<>> /\ Top.phase \in {"child", "aux"} /\ stack' = Put(g) /\ answer' = Nothing
      /\ prog' = prog /\ final' = final /\ broke' = broke /\ paused' = paused
  BY DEF Receive
<1>2. Top \in FrameType /\ FrameInv(Top) /\ prog \in Program /\ answer \in Results BY <1>1, AtTheTop
<1>3. broke' \in BOOLEAN /\ paused' \in BOOLEAN BY <1>1 DEF NestInv, TypeOK
<1>4. g \in FrameType /\ FrameInv(g) /\ g.phase = "next"
  BY <1>1, <1>2, TakeFields, ChildTaken, AuxTaken
<1>5. answer \in Range(g.outs) \cup Range(g.auxs)
  <2>1. Top.outs \in Seq(Results) /\ Top.auxs \in Seq(Results) BY <1>2 DEF FrameType
  <2>2. \A s \in Seq(Results) : answer \in Range(Append(s, answer))
    <3>1. TAKE s \in Seq(Results)
    <3>2. /\ Append(s, answer)[Len(s) + 1] = answer
          /\ Len(s) + 1 \in DOMAIN Append(s, answer)
      BY <1>2
    <3>3. QED BY <3>2 DEF Range
  <2>3. g.outs = Append(Top.outs, answer) \/ g.auxs = Append(Top.auxs, answer)
    BY <1>2, TakeFields
  <2>4. QED BY <2>1, <2>2, <2>3
<1>6. AllStrict /\ broke' => HasError(g)
  BY <1>1, <1>5 DEF NestInv, SurfaceInv, AllStrict, HasError
<1> HIDE DEF g
<1>7. QED BY <1>1, <1>3, <1>4, <1>6, TopStep

\* The engines above a depth gone, those below are as they were.
LEMMA Unwound ==
  ASSUME NestInv, NEW m \in Nat, m < Len(stack)
  PROVE  LET s == SubSeq(stack, 1, m)
         IN  /\ s \in Seq(FrameType) /\ Len(s) = m
             /\ \A k \in 1..m : s[k] = stack[k] /\ s[k].phase \in {"child", "aux"} /\ FrameInv(s[k])
<1> DEFINE s == SubSeq(stack, 1, m)
<1>1. stack \in Seq(FrameType) /\ Len(stack) \in Nat /\ DOMAIN stack = 1..Len(stack)
  BY DEF NestInv, TypeOK
<1>2. \A n \in Nat : m < n => \A k \in 1..m : k \in 1..n /\ k < n OBVIOUS
<1>3. \A k \in 1..m : k \in DOMAIN stack /\ k < Len(stack) BY <1>1, <1>2
<1>4. \A k \in 1..m : stack[k] \in FrameType BY <1>1, <1>3
<1>5. s \in Seq(FrameType) /\ Len(s) = m /\ \A k \in 1..m : s[k] = stack[k]
  <2>1. /\ s \in Seq(FrameType)
        /\ Len(s) = IF 1 <= m THEN m - 1 + 1 ELSE 0
        /\ \A i \in 1..m - 1 + 1 : s[i] = stack[1 + i - 1]
    BY <1>4, SubSeqProperties
  <2>2. m - 1 + 1 = m /\ \A i \in 1..m : 1 + i - 1 = i OBVIOUS
  <2> HIDE DEF s
  <2>3. Len(s) = m BY <2>1, <2>2
  <2>4. QED BY <2>1, <2>2, <2>3
<1>6. \A k \in 1..m : stack[k].phase \in {"child", "aux"} /\ FrameInv(stack[k])
  BY <1>3 DEF NestInv, ControlInv
<1> HIDE DEF s
<1>7. QED BY <1>5, <1>6 DEF s

\* What a run ends with is a result; a strict node does not swallow an error.
LEMMA RunEndFacts ==
  ASSUME NEW node, NEW out \in Results
  PROVE  /\ RunEnd(node, out) \in Results
         /\ Strict(node) /\ out.err => RunEnd(node, out).err
BY ResultFacts DEF RunEnd, Strict

\* An engine has ended: its caller, or the root's, is given what it ended with.
LEMMA ReturnKeeps ==
  ASSUME NestInv, Return
  PROVE  NestInv'
<1> DEFINE n == Len(stack)
           end == RunEnd(NodeOf(Top), Top.out)
<1>1. /\ stack # <<>> /\ Top.phase = "done" /\ prog' = prog /\ broke' = broke /\ paused' = paused
      /\ n = 1 => stack' = <<>> /\ final' = end /\ answer' = answer
      /\ n # 1 => stack' = Front(stack) /\ answer' = end /\ final' = final
  BY DEF Return
<1>2. n \in Nat /\ n >= 1 /\ Top \in FrameType /\ prog \in Program /\ answer = Nothing /\ Top.out \in Results
  BY <1>1, AtTheTop
<1>3. end \in Results /\ end # Nothing BY <1>2, RunEndFacts, ResultFacts
<1>4. AllStrict /\ broke' => end.err
  <2>1. SUFFICES ASSUME AllStrict, broke PROVE end.err BY <1>1
  <2>2. Top.out.err BY <1>1, <2>1 DEF NestInv, SurfaceInv, AllStrict
  <2>3. QED BY <1>2, <2>1, <2>2, StrictNodes, RunEndFacts
<1>5. TypeOK BY DEF NestInv
<1> HIDE DEF end
<1>6. CASE n = 1
  <2>1. stack' = <<>> /\ final' = end /\ answer' = Nothing BY <1>1, <1>2, <1>6
  <2>2. stack' \in Seq(FrameType) /\ Len(stack') = 0 /\ DOMAIN stack' = {} BY <2>1
  <2>3. 0 <= MaxDepth + 1 BY CompositeAssumption
  <2>4. TypeOK' BY <1>1, <1>3, <1>5, <2>1, <2>2, <2>3 DEF TypeOK
  <2>5. ControlInv' BY <2>1, <2>2 DEF ControlInv
  <2>6. SurfaceInv' BY <1>1, <1>4, <2>1 DEF SurfaceInv, AllStrict
  <2>7. QED BY <2>2, <2>4, <2>5, <2>6 DEF NestInv
<1>7. CASE n # 1
  <2> DEFINE m == n - 1
  <2>1. m \in Nat /\ m >= 1 /\ m < n /\ m <= n
    <3>1. \A x \in Nat : x >= 1 /\ x # 1 => x - 1 \in Nat /\ x - 1 >= 1 /\ x - 1 < x /\ x - 1 <= x
      OBVIOUS
    <3>2. QED BY <1>2, <1>7, <3>1
  <2>2. stack' = SubSeq(stack, 1, m) /\ answer' = end /\ final' = final BY <1>1, <1>7 DEF Front
  <2> HIDE DEF m
  <2>3. /\ stack' \in Seq(FrameType) /\ Len(stack') = m
        /\ \A k \in 1..m : stack'[k].phase \in {"child", "aux"} /\ FrameInv(stack'[k])
    BY <2>1, <2>2, Unwound
  <2>4. DOMAIN stack' = 1..m /\ m \in 1..m BY <2>1, <2>3
  <2>5. stack' # <<>> BY <2>1, <2>3, EmptySeq
  <2>6. m <= MaxDepth + 1 BY <1>2, <1>5, <2>1, CompositeAssumption DEF TypeOK
  <2>7. TypeOK' BY <1>1, <1>3, <1>5, <2>2, <2>3, <2>5, <2>6 DEF TypeOK
  <2>8. Top'.phase \in {"child", "aux"} BY <2>3, <2>4 DEF Top
  <2>9. ControlInv'
    <3>1. \A k \in DOMAIN stack' : stack'[k].phase \in {"child", "aux"} BY <2>3, <2>4
    <3>2. QED BY <1>3, <2>2, <2>5, <2>8, <3>1 DEF ControlInv
  <2>10. (\A k \in DOMAIN stack : FrameInv(stack[k]))' BY <1>1, <2>3, <2>4, SameProgram
  <2>11. SurfaceInv' BY <1>1, <1>4, <2>2, <2>5, <2>8 DEF SurfaceInv, AllStrict
  <2>12. QED BY <2>7, <2>9, <2>10, <2>11 DEF NestInv
<1>8. QED BY <1>6, <1>7

\* The engines below an agent loop are dropped with their answer.
LEMMA AgentTimeoutKeeps ==
  ASSUME NestInv, AgentTimeout
  PROVE  NestInv'
<1>1. PICK k \in DOMAIN stack :
        /\ NodeOf(stack[k]).kind = "agent_loop" /\ stack[k].phase \in {"child", "next"}
        /\ stack' = Append(SubSeq(stack, 1, k - 1), [stack[k] EXCEPT !.phase = "done", !.out = Soft])
  BY DEF AgentTimeout
<1>2. answer' = Nothing /\ prog' = prog /\ final' = final /\ broke' = broke /\ paused' = paused
  BY DEF AgentTimeout
<1> DEFINE g == [stack[k] EXCEPT !.phase = "done", !.out = Soft]
           s == SubSeq(stack, 1, k - 1)
           m == k - 1
<1>3. TypeOK /\ stack \in Seq(FrameType) /\ Len(stack) \in Nat /\ DOMAIN stack = 1..Len(stack) /\ prog \in Program
  BY DEF NestInv, TypeOK
<1>4. stack[k] \in FrameType /\ FrameInv(stack[k]) BY <1>1, <1>3 DEF NestInv
<1>5. g \in FrameType /\ g.phase = "done" /\ g.out = Soft /\ FrameInv(g) BY <1>1, <1>3, <1>4, TimedOut
<1>6. m \in Nat /\ m < Len(stack) /\ k = m + 1 BY <1>1, <1>3
<1> HIDE DEF m
<1>7. s = SubSeq(stack, 1, m) BY DEF m
<1>8. /\ s \in Seq(FrameType) /\ Len(s) = m
      /\ \A j \in 1..m : s[j].phase \in {"child", "aux"} /\ FrameInv(s[j])
  BY <1>6, <1>7, Unwound
<1>9. stack' = Append(s, g) BY <1>1
<1> HIDE DEF g, s
<1>10. /\ stack' \in Seq(FrameType) /\ Len(stack') = m + 1 /\ stack'[m + 1] = g /\ DOMAIN stack' = 1..m + 1
       /\ \A j \in 1..m : stack'[j] = s[j]
  BY <1>5, <1>6, <1>8, <1>9
<1>11. stack' # <<>> BY <1>6, <1>10, EmptySeq
<1>12. \A n \in Nat : \A j \in 1..n + 1 : j \in 1..n \/ j = n + 1 OBVIOUS
<1>13. \A n \in Nat : \A j \in 1..n + 1 : j < n + 1 => j \in 1..n OBVIOUS
<1>14. stack # <<>> BY <1>3, <1>6, EmptySeq
<1>15. m + 1 <= MaxDepth + 1 BY <1>3, <1>6, CompositeAssumption DEF TypeOK
<1>16. TypeOK' BY <1>2, <1>3, <1>10, <1>11, <1>14, <1>15 DEF TypeOK
<1>17. Top' = g BY <1>10 DEF Top
<1>18. ControlInv'
  <2>1. \A j \in DOMAIN stack' : j < Len(stack') => stack'[j].phase \in {"child", "aux"}
    BY <1>6, <1>8, <1>10, <1>13
  <2>2. \A j \in DOMAIN stack' : stack'[j].phase = "done" => stack'[j].out # Nothing
    BY <1>5, <1>6, <1>8, <1>10, <1>12, ResultFacts
  <2>3. QED BY <1>2, <1>5, <1>11, <1>17, <2>1, <2>2 DEF ControlInv
<1>19. (\A j \in DOMAIN stack : FrameInv(stack[j]))'
  <2>1. \A j \in 1..m + 1 : FrameInv(stack'[j]) BY <1>5, <1>6, <1>8, <1>10, <1>12
  <2>2. QED BY <1>2, <1>10, <2>1, SameProgram
<1>20. ~AllStrict
  <2>1. ~Strict(NodeOf(stack[k])) BY <1>1 DEF Strict
  <2>2. QED BY <1>3, <1>4, <2>1, StrictNodes
<1>21. SurfaceInv' BY <1>2, <1>20 DEF SurfaceInv, AllStrict
<1>22. QED BY <1>16, <1>18, <1>19, <1>21 DEF NestInv

\* The invariant holds of the root engine, before it has begun.
LEMMA InitNests == Init => NestInv
<1> SUFFICES ASSUME Init PROVE NestInv OBVIOUS
<1> DEFINE h == Frame(prog.root, prog.inp)
<1>1. /\ prog \in Program /\ stack = <<h>> /\ answer = Nothing /\ final = Nothing
      /\ broke = FALSE /\ paused = FALSE
  BY DEF Init
<1>2. h \in FrameType /\ FrameInv(h) BY <1>1, NodeTypes, FreshFrame
<1>3. h.phase = "next" BY DEF Frame
<1> HIDE DEF h
<1>4. stack \in Seq(FrameType) /\ Len(stack) = 1 /\ stack[1] = h /\ DOMAIN stack = 1..1 /\ stack # <<>>
  BY <1>1, <1>2
<1>5. 1 <= MaxDepth + 1 BY CompositeAssumption
<1>6. TypeOK BY <1>1, <1>4, <1>5 DEF TypeOK
<1>7. Top = h BY <1>4 DEF Top
<1>8. ControlInv BY <1>1, <1>3, <1>4, <1>7 DEF ControlInv
<1>9. SurfaceInv BY <1>1 DEF SurfaceInv
<1>10. QED BY <1>2, <1>4, <1>6, <1>8, <1>9 DEF NestInv

\* Every step keeps it.
LEMMA NextNests == NestInv /\ [Next]_vars => NestInv'
<1> SUFFICES ASSUME NestInv, [Next]_vars PROVE NestInv' OBVIOUS
<1>1. CASE Step
  <2>1. HandlerStep \/ Receive \/ Return BY <1>1 DEF Step, HandlerStep
  <2>2. QED BY <2>1, HandlersKeep, ReceiveKeeps, ReturnKeeps
<1>2. CASE AgentTimeout BY <1>2, AgentTimeoutKeeps
<1>3. CASE UNCHANGED vars
  <2>1. prog' = prog /\ stack' = stack /\ answer' = answer /\ final' = final /\ broke' = broke /\ paused' = paused
    BY <1>3 DEF vars
  <2>2. (\A k \in DOMAIN stack : FrameInv(stack[k]))' BY <2>1, SameProgram DEF NestInv
  <2>3. TypeOK' /\ ControlInv' /\ SurfaceInv'
    BY <2>1 DEF NestInv, TypeOK, ControlInv, SurfaceInv, Top
  <2>4. QED BY <2>2, <2>3 DEF NestInv
<1>4. QED BY <1>1, <1>2, <1>3 DEF Next, Ended

-----------------------------------------------------------------------------
(* Theorems *)

\* The stack, the frames and the answers have their types, the stack is never
\* deeper than max_subflow_depth allows, and every account that a handler keeps
\* of its calls is in order (into_engine_with_graph and the handlers).
THEOREM NestingInductive == Spec => []NestInv
BY InitNests, NextNests, PTL DEF Spec

\* The type invariant, with the bound that max_subflow_depth puts on the stack.
THEOREM DepthBounded == Spec => []TypeOK
<1>1. NestInv => TypeOK BY DEF NestInv
<1>2. QED BY <1>1, NestingInductive, PTL

\* A frame whose node has ended is in the stack, with the invariant.
LEMMA DoneFrames ==
  ASSUME NestInv, NEW kind, NEW f \in Done(kind)
  PROVE  /\ f \in FrameType /\ FrameInv(f) /\ f.phase = "done" /\ NodeOf(f).kind = kind
         /\ f.outs \in Seq(Results)
<1>1. PICK k \in DOMAIN stack : f = stack[k] /\ stack[k].phase = "done" /\ NodeOf(stack[k]).kind = kind
  BY DEF Done
<1>2. f \in FrameType BY <1>1 DEF NestInv, TypeOK
<1>3. QED BY <1>1, <1>2 DEF NestInv, FrameType

\* The consensus of an ensemble is the best, or the most voted, of all its
\* candidates that succeeded (dispatch_ensemble).
THEOREM ConsensusIsHonest == Spec => []WinnerHonest
<1>1. NestInv => WinnerHonest
  <2>1. SUFFICES ASSUME NestInv, NEW f \in Done("ensemble")
                 PROVE  Len(f.outs) = NodeOf(f).n /\ HonestEnd(f, NodeOf(f), f.out)
    BY DEF WinnerHonest
  <2>2. FrameInv(f) /\ f.phase = "done" /\ NodeOf(f).kind = "ensemble" BY <2>1, DoneFrames
  <2>3. QED BY <2>2 DEF FrameInv, EnsembleInv
<1>2. QED BY <1>1, NestingInductive, PTL

\* A retry never gives up early, succeeds with its last attempt, and reflects
\* between attempts alone (dispatch_reflective_retry).
THEOREM RetriesAreHonest == Spec => []RetryHonest
<1>1. NestInv => RetryHonest
  <2>1. SUFFICES ASSUME NestInv, NEW f \in Done("reflective_retry")
                 PROVE  /\ \A i \in 1..Len(f.outs) - 1 : f.outs[i].err
                        /\ IF f.out.err THEN Len(f.outs) = NodeOf(f).n /\ \A r \in Range(f.outs) : r.err
                                        ELSE f.outs # <<>> /\ f.out.v = Last(f.outs).v
                        /\ f.outs # <<>> => Len(f.auxs) = Len(f.outs) - 1
    BY DEF RetryHonest
  <2> DEFINE a == Len(f.outs)
  <2>2. FrameInv(f) /\ f.phase = "done" /\ NodeOf(f).kind = "reflective_retry" /\ f.outs \in Seq(Results)
    BY <2>1, DoneFrames
  <2>3. /\ \A i \in 1..a - 1 : f.outs[i].err
        /\ a > 0 => Len(f.auxs) = a - 1
        /\ IF f.out.err THEN a = NodeOf(f).n /\ (a > 0 => f.outs[a].err)
                        ELSE a > 0 /\ f.out.v = f.outs[a].v
    BY <2>2 DEF FrameInv, RetryInv
  <2>4. a \in Nat /\ DOMAIN f.outs = 1..a /\ (f.outs # <<>> <=> a > 0) BY <2>2, EmptySeq
  <2>5. f.out.err => \A r \in Range(f.outs) : r.err
    <3>1. \A i \in 1..a : i \in 1..a - 1 \/ (i = a /\ a > 0) BY <2>4
    <3>2. f.out.err => \A i \in 1..a : f.outs[i].err BY <2>3, <3>1
    <3>3. QED BY <2>4, <3>2 DEF Range
  <2>6. QED BY <2>3, <2>4, <2>5 DEF Last
<1>2. QED BY <1>1, NestingInductive, PTL

\* A loop reports the reason it ended for, and counts the bodies it ran
\* (run_loop_iterations).
THEOREM LoopsAreHonest == Spec => []LoopHonest
<1>1. NestInv => LoopHonest
  <2>1. SUFFICES ASSUME NestInv, NEW f \in Done("loop")
                 PROVE  /\ f.i = Len(f.outs) /\ f.i <= NodeOf(f).n
                        /\ f.reason = "condition_false" => ~f.cond /\ f.i < NodeOf(f).n
                        /\ f.reason = "max_iterations" => f.i = NodeOf(f).n
                        /\ f.out.err <=> f.reason = "no_body" \/ \E r \in Range(f.outs) : r.err
    BY DEF LoopHonest
  <2>2. FrameInv(f) /\ f.phase = "done" /\ NodeOf(f).kind = "loop" BY <2>1, DoneFrames
  <2>3. QED BY <2>2 DEF FrameInv, LoopInv
<1>2. QED BY <1>1, NestingInductive, PTL

\* An agent loop shows its next iteration the most recent answers, and at most
\* agent_loop_max_history of them (dispatch_agent_loop).
THEOREM HistoriesAreRecent == Spec => []HistoryIsRecent
<1>1. NestInv => HistoryIsRecent
  <2>1. SUFFICES ASSUME NestInv, NEW k \in DOMAIN stack
                 PROVE  HistoryInv(stack[k], NodeOf(stack[k]))
    BY DEF HistoryIsRecent, HistoryInv
  <2>2. QED BY <2>1 DEF NestInv, FrameInv
<1>2. QED BY <1>1, NestingInductive, PTL

\* Among strict nodes no level of nesting, however deep, turns a failed module, a
\* missing workflow or a recursion that is cut off into a value of the root.
THEOREM ErrorsReachTheRoot == Spec => []ErrorsSurface
<1>1. NestInv => ErrorsSurface
  <2>1. SUFFICES ASSUME NestInv, AllStrict, broke, final # Nothing PROVE final.err
    BY DEF ErrorsSurface, AllStrict
  <2>2. stack = <<>> BY <2>1 DEF NestInv, TypeOK
  <2>3. QED BY <2>1, <2>2 DEF NestInv, SurfaceInv, AllStrict
<1>2. QED BY <1>1, NestingInductive, PTL

=============================================================================
