--------------------------- MODULE ModuleRowsProofs ---------------------------
(***************************************************************************)
(* The dispatch of modules, for any units, any guarded nodes and any       *)
(* number of runs: no unit reaches the dispatcher unapproved, and no row   *)
(* of a single dispatch is left running in an execution that has failed.   *)
(***************************************************************************)
EXTENDS ModuleRows, SequenceTheorems, TLAPS

\* The nodes of a unit, and, in one run, the unit of a node.
LEMMA Steps ==
  /\ \A u \in AllUnits : Len(u) \in Nat /\ Len(u) > 0 /\ DOMAIN u = 1 .. Len(u)
  /\ \A u \in AllUnits : \A i \in DOMAIN u : u[i] \in StepsOf(u)
  /\ \A u \in AllUnits : \A n \in StepsOf(u) : n \in Nodes
  /\ \A u \in AllUnits : Last(u) \in StepsOf(u) /\ Last(u) \in Nodes
  /\ \A u, v \in Live : \A n : n \in StepsOf(u) /\ n \in StepsOf(v) => u = v
  /\ Live \subseteq AllUnits
  /\ \A n \in Nodes : \E u \in Live : n \in StepsOf(u)
<1>1. \A u \in Units : u \in Seq(StepsOf(u)) /\ Len(u) > 0
  BY UnitsAssumption
<1>2. \A u \in Units : Len(u) \in Nat /\ Len(u) > 0 /\ DOMAIN u = 1 .. Len(u)
  BY <1>1, LenProperties
<1>3. \A n : Len(<<n>>) = 1 /\ DOMAIN <<n>> = 1 .. 1 /\ <<n>>[1] = n
  OBVIOUS
<1>4. \A n : StepsOf(<<n>>) = {n}
  BY <1>3 DEF StepsOf
<1>5. \A u \in AllUnits : Len(u) \in Nat /\ Len(u) > 0 /\ DOMAIN u = 1 .. Len(u)
  BY <1>2, <1>3 DEF AllUnits, Solo
<1>6. \A u \in AllUnits : \A i \in DOMAIN u : u[i] \in StepsOf(u)
  BY DEF StepsOf
<1>7. \A u \in AllUnits : \A n \in StepsOf(u) : n \in Nodes
  BY <1>4 DEF AllUnits, Solo, Nodes
<1>8. \A u \in AllUnits : Last(u) \in StepsOf(u) /\ Last(u) \in Nodes
  BY <1>5, <1>6, <1>7 DEF Last
<1>9. \A u, v \in Live : \A n : n \in StepsOf(u) /\ n \in StepsOf(v) => u = v
  <2>1. \A u, v \in Units : StepsOf(u) \cap StepsOf(v) # {} => u = v
    BY UnitsAssumption
  <2>2. \A u, v \in Solo : \A n : n \in StepsOf(u) /\ n \in StepsOf(v) => u = v
    BY <1>4 DEF Solo
  <2>3. QED BY <2>1, <2>2 DEF Live
<1>10. Live \subseteq AllUnits
  BY DEF Live, AllUnits
<1>11. \A n \in Nodes : \E u \in Live : n \in StepsOf(u)
  BY <1>4 DEF Live, Solo, Nodes
<1>12. QED BY <1>5, <1>6, <1>7, <1>8, <1>9, <1>10, <1>11

LEMMA Present ==
  ASSUME TypeOK, NEW u \in Live
  PROVE  /\ u \in AllUnits /\ at[u] \in DOMAIN u /\ at[u] \in Nat /\ u[at[u]] \in StepsOf(u) /\ u[at[u]] \in Nodes
         /\ 1 \in DOMAIN u /\ (at[u] < Len(u) => at[u] + 1 \in DOMAIN u)
         /\ Single(u) => at[u] = 1
<1>1. u \in AllUnits /\ at[u] \in DOMAIN u /\ at[u] \in Nat
  BY Steps DEF TypeOK
<1>2. DOMAIN u = 1 .. Len(u) /\ Len(u) \in Nat /\ Len(u) > 0
  BY Steps
<1>3. u[at[u]] \in StepsOf(u) /\ u[at[u]] \in Nodes
  BY <1>1, Steps
<1>4. QED BY <1>1, <1>2, <1>3 DEF Single

\* What a write makes of a row.
LEMMA StoredRow ==
  ASSUME NEW write \in Writes, NEW cur \in RowStatus
  PROVE  /\ Stored(write, cur) \in RowStatus
         /\ (wf = "failed" /\ cur # "running" /\ write # "start") => Stored(write, cur) # "running"
BY DEF Stored, StartRow, Writes, RowStatus

LEMMA WriteTypes ==
  ASSUME TypeOK, NEW u \in Live
  PROVE  /\ StartWrite(u) \in Writes /\ (Single(u) => StartWrite(u) # "start")
         /\ \A i \in DOMAIN u : StepWrite(u, i) \in Writes /\ StepWrite(u, i) # "start"
BY Steps DEF StartWrite, StepWrite, RowOf, Writes

\* The types.

LEMMA TypeStep == TypeOK /\ [Next]_vars => TypeOK'
<1> SUFFICES ASSUME TypeOK, [Next]_vars PROVE TypeOK'
  OBVIOUS
<1>1. ASSUME NEW u \in Live, UnitStep(u) PROVE TypeOK'
  <2>p. /\ u \in AllUnits /\ at[u] \in DOMAIN u /\ at[u] \in Nat /\ u[at[u]] \in StepsOf(u) /\ u[at[u]] \in Nodes
        /\ 1 \in DOMAIN u /\ (at[u] < Len(u) => at[u] + 1 \in DOMAIN u)
    BY Present
  <2>1. CASE Launch(u)
    BY <2>1, <2>p DEF Launch, TypeOK, Working, results, storeVars
  <2>2. CASE Fetch(u)
    BY <2>2, <2>p DEF Fetch, TypeOK, Working, results, storeVars
  <2>3. CASE GateApproves(u)
    <3>1. at' \in [AllUnits -> Nat] /\ \A v \in AllUnits : at'[v] \in DOMAIN v
      <4>1. CASE at' = [at EXCEPT ![u] = @ + 1] /\ at[u] < Len(u)
        BY <4>1, <2>p DEF TypeOK
      <4>2. CASE at' = [at EXCEPT ![u] = 1]
        BY <4>2, <2>p DEF TypeOK
      <4>3. QED BY <2>3, <4>1, <4>2 DEF GateApproves
    <3>2. stage' \in [AllUnits -> Working \cup {"idle", "ok", "err", "dropped"}]
      BY <2>3 DEF GateApproves, TypeOK, Working
    <3>3. sent' \subseteq AllUnits
      BY <2>3, <2>p DEF GateApproves, TypeOK, Send
    <3>4. QED BY <2>3, <3>1, <3>2, <3>3 DEF GateApproves, TypeOK, results, storeVars
  <2>4. CASE GateRefuses(u)
    BY <2>4, <2>p DEF GateRefuses, TypeOK, Working, results, storeVars
  <2>5. CASE RecordStarted(u)
    <3>1. row' \in [Nodes -> RowStatus]
      <4>1. CASE Write(u[at[u]], StartWrite(u))
        BY <4>1, <2>p, StoredRow, WriteTypes DEF Write, TypeOK
      <4>2. CASE UNCHANGED row
        BY <4>2 DEF TypeOK
      <4>3. QED BY <2>5, <4>1, <4>2 DEF RecordStarted, Call
    <3>2. at' \in [AllUnits -> Nat] /\ \A v \in AllUnits : at'[v] \in DOMAIN v
      <4>1. CASE at' = [at EXCEPT ![u] = @ + 1] /\ at[u] < Len(u)
        BY <4>1, <2>p DEF TypeOK
      <4>2. CASE at' = [at EXCEPT ![u] = 1]
        BY <4>2, <2>p DEF TypeOK
      <4>3. QED BY <2>5, <4>1, <4>2 DEF RecordStarted
    <3>3. stage' \in [AllUnits -> Working \cup {"idle", "ok", "err", "dropped"}]
      BY <2>5 DEF RecordStarted, TypeOK, Working
    <3>4. sent' \subseteq AllUnits
      BY <2>5, <2>p DEF RecordStarted, TypeOK, Send
    <3>5. QED BY <2>5, <3>1, <3>2, <3>3, <3>4 DEF RecordStarted, TypeOK, results
  <2>6. CASE DispatchReturns(u)
    BY <2>6, <2>p DEF DispatchReturns, TypeOK, Working, results, storeVars
  <2>7. CASE ChainReturns(u)
    <3>1. PICK s \in Answers(u) : answer' = [answer EXCEPT ![u] = s]
      BY <2>7 DEF ChainReturns
    <3>2. PICK k \in 0 .. Len(u) : s \in [1 .. k -> StepStatus]
      BY <3>1 DEF Answers
    <3>3. s \in Seq(StepStatus) /\ Len(s) <= Len(u)
      BY <3>2, Steps
    <3>4. answer' \in [AllUnits -> Seq(StepStatus)] /\ \A v \in AllUnits : Len(answer'[v]) <= Len(v)
      BY <3>1, <3>3 DEF TypeOK
    <3>5. stage' \in [AllUnits -> Working \cup {"idle", "ok", "err", "dropped"}]
      BY <2>7 DEF ChainReturns, TypeOK, Working, Overall
    <3>6. QED BY <2>7, <3>4, <3>5 DEF ChainReturns, TypeOK, results, storeVars
  <2>8. CASE DispatchFails(u)
    BY <2>8, <2>p DEF DispatchFails, TypeOK, Working, results, storeVars
  <2>9. CASE RecordCompleted(u)
    <3>1. row' \in [Nodes -> RowStatus]
      <4>1. CASE Write(u[at[u]], StepWrite(u, at[u]))
        BY <4>1, <2>p, StoredRow, WriteTypes DEF Write, TypeOK
      <4>2. CASE UNCHANGED row
        BY <4>2 DEF TypeOK
      <4>3. QED BY <2>9, <4>1, <4>2 DEF RecordCompleted, Call
    <3>2. hooked' \subseteq Nodes
      BY <2>9, <2>p DEF RecordCompleted, TypeOK
    <3>3. at' \in [AllUnits -> Nat] /\ \A v \in AllUnits : at'[v] \in DOMAIN v
      BY <2>9, <2>p DEF RecordCompleted, TypeOK, Overall
    <3>4. stage' \in [AllUnits -> Working \cup {"idle", "ok", "err", "dropped"}]
      BY <2>9 DEF RecordCompleted, TypeOK, Working, Overall
    <3>5. QED BY <2>9, <3>1, <3>2, <3>3, <3>4 DEF RecordCompleted, TypeOK, results
  <2>10. QED BY <1>1, <2>1, <2>2, <2>3, <2>4, <2>5, <2>6, <2>7, <2>8, <2>9 DEF UnitStep
<1>2. ASSUME NEW u \in Live, Settle(u) PROVE TypeOK'
  BY <1>2, Steps DEF Settle, TypeOK, storeVars
<1>3. ASSUME DropFutures PROVE /\ stage' \in [AllUnits -> Working \cup {"idle", "ok", "err", "dropped"}]
                              /\ late' \subseteq [node : Nodes, write : Writes]
  <2>1. \A u \in Live : InFlight(u) \subseteq [node : Nodes, write : Writes]
    BY Present, WriteTypes DEF InFlight
  <2>2. QED BY <1>3, <2>1 DEF DropFutures, TypeOK, Working
<1>4. ASSUME NEW u \in Live, TerminalFailure(u) PROVE TypeOK'
  <2>1. wired.hook \in BOOLEAN
    BY DEF TypeOK, Wiring
  <2>2. QED BY <1>3, <1>4, <2>1 DEF TerminalFailure, TypeOK, results
<1>5. CASE Stop
  BY <1>3, <1>5 DEF Stop, TypeOK, results
<1>6. ASSUME NEW n \in Nodes, Decide(n) PROVE TypeOK'
  BY <1>6 DEF Decide, TypeOK, results, storeVars
<1>7. CASE Finish
  BY <1>7 DEF Finish, TypeOK, results, storeVars
<1>8. CASE FailureUpdate
  BY <1>8 DEF FailureUpdate, TypeOK, RowStatus, results
<1>9. CASE LateWrite
  <2>1. PICK w \in late : late' = late \ {w} /\ (Write(w.node, w.write) \/ UNCHANGED row)
    BY <1>9 DEF LateWrite
  <2>2. w.node \in Nodes /\ w.write \in Writes
    BY <2>1 DEF TypeOK
  <2>3. row' \in [Nodes -> RowStatus]
    <3>1. CASE Write(w.node, w.write)
      <4>1. row[w.node] \in RowStatus
        BY <2>2 DEF TypeOK
      <4>2. Stored(w.write, row[w.node]) \in RowStatus
        BY <2>2, <4>1, StoredRow
      <4>3. QED BY <3>1, <4>2 DEF Write, TypeOK
    <3>2. CASE UNCHANGED row
      BY <3>2 DEF TypeOK
    <3>3. QED BY <2>1, <3>1, <3>2
  <2>4. QED BY <1>9, <2>1, <2>3 DEF LateWrite, TypeOK, results
<1>10. CASE Resume
  <2>1. PICK seed \in Seeds : StartFrom(seed)
    BY <1>10 DEF Resume
  <2>2. seed \subseteq Nodes
    BY <2>1 DEF Seeds, TypeOK
  <2>3. /\ at' \in [AllUnits -> Nat] /\ \A u \in AllUnits : at'[u] \in DOMAIN u
        /\ answer' \in [AllUnits -> Seq(StepStatus)] /\ \A u \in AllUnits : Len(answer'[u]) <= Len(u)
    BY <1>10, Steps DEF Resume
  <2>4. runs' \in 1 .. MaxRuns
    BY <1>10, UnitsAssumption DEF Resume, TypeOK
  <2>5. stage' \in [AllUnits -> Working \cup {"idle", "ok", "err", "dropped"}] /\ done' \subseteq Nodes /\ fresh' \in BOOLEAN /\ kept' \subseteq AllUnits
    <3>1. stage' \in [AllUnits -> Working \cup {"idle", "ok", "err", "dropped"}]
      BY <1>10 DEF Resume
    <3>2. QED BY <2>1, <2>2, <3>1 DEF StartFrom, TypeOK
  <2>6. row' \in [Nodes -> RowStatus] /\ hooked' \subseteq Nodes
    BY <1>10 DEF Resume, RowStatus
  <2>7. QED BY <1>10, <2>3, <2>4, <2>5, <2>6 DEF Resume, TypeOK
<1>11. CASE UNCHANGED vars
  BY <1>11 DEF vars, TypeOK
<1>12. QED
  BY <1>1, <1>2, <1>4, <1>5, <1>6, <1>7, <1>8, <1>9, <1>10, <1>11 DEF Next

\* Only a resumed run changes what its futures dispatch.
LEMMA LiveKept == [Next]_vars /\ ~Resume => Live' = Live /\ wired' = wired
BY DEF Next, UnitStep, Launch, Fetch, GateApproves, GateRefuses, RecordStarted, DispatchReturns,
       ChainReturns, DispatchFails, RecordCompleted, Settle, TerminalFailure, Decide, Finish, Stop,
       FailureUpdate, LateWrite, vars, Live

\* Approval is final.
Firm == \A n \in Nodes : approval[n] = "approved" => approval'[n] = "approved"

LEMMA FirmUnit ==
  ASSUME Firm, NEW u \in AllUnits, Approved(u)
  PROVE  Approved(u)'
BY Steps DEF Firm, Approved

\* The parts of GateInv for one unit.
GateOf(u) ==
  /\ stage[u] \in {"insert", "wait", "complete"} => Approved(u)
  /\ stage[u] \in {"fetch", "gate"} =>
       \A i \in DOMAIN u : i < at[u] /\ u[i] \in Guarded => approval[u[i]] = "approved"
  /\ \A n \in StepsOf(u) : row[n] # "none" => Approved(u)
  /\ \A w \in late : w.node \in StepsOf(u) => Approved(u)

LEMMA GateParts == GateInv <=> (wired.gate => \A u \in Live : GateOf(u))
BY DEF GateInv, GateOf

\* A unit that a step leaves alone.
LEMMA GateFrame ==
  ASSUME NEW u \in Live, GateOf(u), Firm,
         stage'[u] = stage[u] \/ stage'[u] \in {"idle", "ok", "err", "dropped"},
         at'[u] = at[u] \/ at'[u] = 1,
         \A n \in StepsOf(u) : row'[n] # "none" => row[n] # "none" \/ Approved(u),
         \A w \in late' : w.node \in StepsOf(u) => w \in late \/ Approved(u)
  PROVE  GateOf(u)'
<1>1. u \in AllUnits /\ (Approved(u) => Approved(u)')
  BY FirmUnit, Steps
<1>2. ASSUME stage'[u] \in {"fetch", "gate"}, NEW i \in DOMAIN u, i < at'[u], u[i] \in Guarded
      PROVE  approval'[u[i]] = "approved"
  <2>1. stage[u] \in {"fetch", "gate"} BY <1>2
  <2>2. u[i] \in Nodes /\ DOMAIN u = 1 .. Len(u) BY <1>1, <1>2, Steps
  <2>3. at'[u] = at[u] BY <1>2, <2>2
  <2>4. approval[u[i]] = "approved" BY <1>2, <2>1, <2>3 DEF GateOf
  <2>5. QED BY <2>2, <2>4 DEF Firm
<1>3. QED BY <1>1, <1>2 DEF GateOf

\* A write to the row of a unit that is approved.
LEMMA WriteApproved ==
  ASSUME TypeOK, NEW u \in Live, NEW n \in StepsOf(u), NEW write, Write(n, write) \/ UNCHANGED row, Approved(u)
  PROVE  \A v \in Live : \A m \in StepsOf(v) : row'[m] # "none" => row[m] # "none" \/ Approved(v)
<1> SUFFICES ASSUME NEW v \in Live, NEW m \in StepsOf(v), row'[m] # "none" PROVE row[m] # "none" \/ Approved(v)
  OBVIOUS
<1>1. CASE m = n
  BY <1>1, Steps
<1>2. CASE m # n
  BY <1>2, Steps DEF Write, TypeOK
<1>3. QED BY <1>1, <1>2

LEMMA GateStepKept ==
  ASSUME TypeOK, GateInv, wired.gate, [Next]_vars, ~Resume, NEW v \in Live
  PROVE  GateOf(v)'
<1>a. v \in AllUnits
  BY Steps
<1>g. \A u \in Live : GateOf(u)
  BY GateParts
<1>1. ASSUME NEW u \in Live, UnitStep(u) PROVE GateOf(v)'
  <2>p. /\ u \in AllUnits /\ at[u] \in DOMAIN u /\ at[u] \in Nat /\ u[at[u]] \in StepsOf(u) /\ u[at[u]] \in Nodes
        /\ 1 \in DOMAIN u /\ (at[u] < Len(u) => at[u] + 1 \in DOMAIN u)
    BY Present
  <2>1. CASE Launch(u)
    <3>1. /\ v # u => stage'[v] = stage[v] /\ at'[v] = at[v]
          /\ Firm /\ approval' = approval /\ sent' = sent /\ row' = row /\ late' = late
          /\ stage'[u] = "fetch" /\ at'[u] = 1
      BY <2>1, <2>p, <1>a DEF Launch, TypeOK, Firm, storeVars
    <3>2. CASE v # u BY <3>1, <3>2, <1>g, GateFrame
    <3>3. CASE v = u
      <4>1. \A i \in DOMAIN u : ~(i < 1) BY Steps
      <4>2. QED BY <3>1, <3>3, <4>1, <1>g DEF GateOf, Approved
    <3>4. QED BY <3>2, <3>3
  <2>2. CASE Fetch(u)
    <3>1. /\ v # u => stage'[v] = stage[v]
          /\ Firm /\ approval' = approval /\ sent' = sent /\ row' = row /\ late' = late /\ at' = at
          /\ stage[u] = "fetch" /\ stage'[u] \in {"gate", "err"}
      BY <2>2, <2>p, <1>a DEF Fetch, TypeOK, Firm, storeVars
    <3>2. CASE v # u BY <3>1, <3>2, <1>g, GateFrame
    <3>3. CASE v = u BY <3>1, <3>3, <1>g DEF GateOf, Approved
    <3>4. QED BY <3>2, <3>3
  <2>3. CASE GateApproves(u)
    <3>1. /\ v # u => stage'[v] = stage[v] /\ at'[v] = at[v] /\ (v \in sent' => v \in sent)
          /\ Firm /\ approval' = approval /\ row' = row /\ late' = late
          /\ stage[u] = "gate" /\ (u[at[u]] \in Guarded => approval[u[at[u]]] = "approved")
      BY <2>3, <2>p, <1>a DEF GateApproves, GateOpen, Asked, Send, TypeOK, Firm, storeVars
    <3>2. CASE v # u BY <3>1, <3>2, <1>g, GateFrame
    <3>3. CASE v = u
      <4>1. ASSUME NEW i \in DOMAIN u, i <= at[u], u[i] \in Guarded PROVE approval[u[i]] = "approved"
        <5>1. CASE i = at[u] BY <5>1, <4>1, <3>1
        <5>2. CASE i < at[u] BY <5>2, <4>1, <3>1, <1>g DEF GateOf
        <5>3. DOMAIN u = 1 .. Len(u) BY Steps
        <5>4. QED BY <5>1, <5>2, <5>3, <4>1, <2>p
      <4>2. CASE at[u] < Len(u)
        <5>1. stage'[u] = "fetch" /\ at'[u] = at[u] + 1 /\ sent' = sent
          BY <2>3, <2>p, <4>2 DEF GateApproves, TypeOK
        <5>2. \A i \in DOMAIN u : i < at'[u] /\ u[i] \in Guarded => approval'[u[i]] = "approved"
          BY <5>1, <4>1, <3>1, <2>p, Steps
        <5>3. QED BY <5>1, <5>2, <3>1, <3>3, <1>g DEF GateOf, Approved
      <4>3. CASE ~(at[u] < Len(u))
        <5>1. \A i \in DOMAIN u : i <= at[u]
          BY <4>3, <2>p, Steps
        <5>2. Approved(u)
          BY <5>1, <4>1 DEF Approved, StepsOf
        <5>3. Approved(u)'
          BY <5>2, <3>1 DEF Approved
        <5>4. stage'[u] \in {"insert", "wait"}
          BY <2>3, <2>p, <4>3 DEF GateApproves, TypeOK
        <5>5. QED BY <5>3, <5>4, <3>3 DEF GateOf
      <4>4. QED BY <4>2, <4>3
    <3>4. QED BY <3>2, <3>3
  <2>4. CASE GateRefuses(u)
    <3>1. /\ Firm /\ sent' = sent /\ row' = row /\ late' = late /\ at' = at
          /\ stage'[v] = stage[v] \/ stage'[v] = "err"
      BY <2>4, <2>p, <1>a DEF GateRefuses, TypeOK, Firm, storeVars
    <3>2. QED BY <3>1, <1>g, GateFrame
  <2>5. CASE RecordStarted(u)
    <3>1. /\ v # u => stage'[v] = stage[v] /\ at'[v] = at[v] /\ (v \in sent' => v \in sent)
          /\ Firm /\ approval' = approval /\ late' = late
          /\ stage[u] = "insert" /\ stage'[u] \in {"insert", "wait"}
      BY <2>5, <2>p, <1>a DEF RecordStarted, Send, TypeOK, Firm
    <3>2. Approved(u) BY <3>1, <1>g DEF GateOf
    <3>3. Write(u[at[u]], StartWrite(u)) \/ UNCHANGED row
      BY <2>5 DEF RecordStarted, Call
    <3>4. \A n \in StepsOf(v) : row'[n] # "none" => row[n] # "none" \/ Approved(v)
      BY <3>2, <3>3, <2>p, WriteApproved
    <3>5. CASE v # u BY <3>1, <3>4, <3>5, <1>g, GateFrame
    <3>6. CASE v = u
      <4>1. Approved(u)' BY <3>1, <3>2 DEF Approved
      <4>2. QED BY <4>1, <3>1, <3>6 DEF GateOf
    <3>7. QED BY <3>5, <3>6
  <2>6. CASE DispatchReturns(u) \/ ChainReturns(u) \/ DispatchFails(u)
    <3>1. /\ Firm /\ approval' = approval /\ sent' = sent /\ row' = row /\ late' = late /\ at' = at
          /\ v # u => stage'[v] = stage[v]
          /\ stage[u] = "wait" /\ stage'[u] \in {"ok", "err", "complete"}
      BY <2>6, <2>p, <1>a DEF DispatchReturns, ChainReturns, DispatchFails, TypeOK, Firm, storeVars, Overall
    <3>2. CASE v # u BY <3>1, <3>2, <1>g, GateFrame
    <3>3. CASE v = u
      <4>1. Approved(u)' BY <3>1, <1>g DEF GateOf, Approved
      <4>2. QED BY <4>1, <3>1, <3>3 DEF GateOf
    <3>4. QED BY <3>2, <3>3
  <2>7. CASE RecordCompleted(u)
    <3>1. /\ v # u => at'[v] = at[v]
          /\ Firm /\ approval' = approval /\ sent' = sent /\ late' = late
          /\ v # u => stage'[v] = stage[v]
          /\ stage[u] = "complete" /\ stage'[u] \in {"complete", "ok", "err"}
      BY <2>7, <2>p, <1>a DEF RecordCompleted, TypeOK, Firm, Overall
    <3>2. Approved(u) BY <3>1, <1>g DEF GateOf
    <3>3. Write(u[at[u]], StepWrite(u, at[u])) \/ UNCHANGED row
      BY <2>7 DEF RecordCompleted, Call
    <3>4. \A n \in StepsOf(v) : row'[n] # "none" => row[n] # "none" \/ Approved(v)
      BY <3>2, <3>3, <2>p, WriteApproved
    <3>5. CASE v # u BY <3>1, <3>4, <3>5, <1>g, GateFrame
    <3>6. CASE v = u
      <4>1. Approved(u)' BY <3>1, <3>2 DEF Approved
      <4>2. QED BY <4>1, <3>1, <3>6 DEF GateOf
    <3>7. QED BY <3>5, <3>6
  <2>8. QED BY <1>1, <2>1, <2>2, <2>3, <2>4, <2>5, <2>6, <2>7 DEF UnitStep
<1>2. CASE (\E u \in Live : Settle(u)) \/ Finish \/ UNCHANGED vars
  <2>1. /\ Firm /\ approval' = approval /\ sent' = sent /\ row' = row /\ late' = late /\ at' = at /\ stage' = stage
    BY <1>2 DEF Settle, Finish, vars, Firm, storeVars
  <2>2. QED BY <2>1, <1>g, GateFrame
<1>3. CASE (\E u \in Live : TerminalFailure(u)) \/ Stop
  <2>1. Firm /\ approval' = approval /\ sent' = sent /\ row' = row /\ at' = at /\ DropFutures
    BY <1>3 DEF TerminalFailure, Stop, Firm
  <2>2. stage'[v] = stage[v] \/ stage'[v] \in {"idle", "dropped"}
    BY <2>1, <1>a DEF DropFutures
  <2>3. ASSUME NEW w \in late', w.node \in StepsOf(v) PROVE w \in late \/ Approved(v)
    <3>1. CASE w \notin late
      <4>1. PICK u \in Live : w \in InFlight(u)
        BY <2>1, <2>3, <3>1 DEF DropFutures
      <4>2. w.node = u[at[u]] /\ stage[u] \in {"insert", "complete"}
        BY <4>1 DEF InFlight
      <4>3. u[at[u]] \in StepsOf(u)
        BY Present
      <4>4. u = v
        BY <4>2, <4>3, <2>3, Steps
      <4>5. QED BY <4>2, <4>4, <1>g DEF GateOf
    <3>2. QED BY <3>1
  <2>4. QED BY <2>1, <2>2, <2>3, <1>g, GateFrame
<1>4. ASSUME NEW n \in Nodes, Decide(n) PROVE GateOf(v)'
  <2>1. /\ Firm /\ sent' = sent /\ row' = row /\ late' = late /\ at' = at /\ stage' = stage
    BY <1>4 DEF Decide, TypeOK, Firm, storeVars
  <2>2. QED BY <2>1, <1>g, GateFrame
<1>5. CASE FailureUpdate
  <2>1. /\ Firm /\ sent' = sent /\ late' = late /\ at' = at /\ stage' = stage
        /\ \A n \in Nodes : row'[n] # "none" => row[n] # "none"
    BY <1>5 DEF FailureUpdate, Firm
  <2>2. QED BY <2>1, <1>g, GateFrame, Steps
<1>6. CASE LateWrite
  <2>1. PICK w \in late : late' = late \ {w} /\ (Write(w.node, w.write) \/ UNCHANGED row)
    BY <1>6 DEF LateWrite
  <2>2. w.node \in Nodes BY <2>1 DEF TypeOK
  <2>3. PICK u \in Live : w.node \in StepsOf(u) BY <2>2, Steps
  <2>4. Approved(u) BY <2>1, <2>3, <1>g DEF GateOf
  <2>5. \A n \in StepsOf(v) : row'[n] # "none" => row[n] # "none" \/ Approved(v)
    BY <2>1, <2>3, <2>4, WriteApproved
  <2>6. Firm /\ sent' = sent /\ at' = at /\ stage' = stage
    BY <1>6 DEF LateWrite, Firm
  <2>7. QED BY <2>1, <2>5, <2>6, <1>g, GateFrame
<1>8. QED BY <1>1, <1>2, <1>3, <1>4, <1>5, <1>6 DEF Next

\* A resumed run starts with nothing in flight and no rows.
LEMMA GateResumed ==
  ASSUME Resume PROVE \A v \in Live' : GateOf(v)'
<1>1. /\ late' = {} /\ \A n \in Nodes : row'[n] = "none"
      /\ \A u \in AllUnits : stage'[u] = "idle"
  BY DEF Resume
<1>2. Live' \subseteq AllUnits
  BY DEF Live, AllUnits
<1>3. QED BY <1>1, <1>2, Steps DEF GateOf

\* What reaches the dispatcher is approved.
LEMMA SentStep ==
  ASSUME TypeOK, GateInv, SentInv, [Next]_vars
  PROVE  SentInv'
<1>1. wired' = wired
  BY LiveKept DEF Resume
<1>2. SUFFICES ASSUME wired.gate, NEW u \in sent' PROVE Approved(u)'
  BY <1>1 DEF SentInv
<1>3. Firm
  BY DEF Firm, TypeOK, Next, UnitStep, Launch, Fetch, GateApproves, GateRefuses, RecordStarted,
         DispatchReturns, ChainReturns, DispatchFails, RecordCompleted, Settle, TerminalFailure,
         Decide, Finish, Stop, FailureUpdate, LateWrite, Resume, vars
<1>4. CASE u \in sent
  BY <1>2, <1>3, <1>4, FirmUnit DEF SentInv, TypeOK
<1>5. CASE u \notin sent
  <2>1. u \in Live /\ ((GateApproves(u) /\ ~(at[u] < Len(u))) \/ RecordStarted(u))
    BY <1>5, <1>2 DEF Next, UnitStep, Launch, Fetch, GateApproves, GateRefuses, RecordStarted, Send,
         DispatchReturns, ChainReturns, DispatchFails, RecordCompleted, Settle, TerminalFailure,
         Decide, Finish, Stop, FailureUpdate, LateWrite, Resume, vars
  <2>p. u \in AllUnits /\ at[u] \in DOMAIN u /\ at[u] \in Nat /\ DOMAIN u = 1 .. Len(u) /\ Len(u) \in Nat
    BY <2>1, Present, Steps
  <2>g. GateOf(u)
    BY <1>2, <2>1, GateParts
  <2>2. CASE RecordStarted(u)
    BY <2>2, <2>g, <2>p, <1>3, FirmUnit DEF RecordStarted, GateOf
  <2>3. CASE GateApproves(u) /\ ~(at[u] < Len(u))
    <3>1. stage[u] = "gate" /\ (u[at[u]] \in Guarded => approval[u[at[u]]] = "approved")
      BY <1>2, <2>3 DEF GateApproves, GateOpen, Asked
    <3>2. ASSUME NEW i \in DOMAIN u, u[i] \in Guarded PROVE approval[u[i]] = "approved"
      <4>1. i < at[u] \/ i = at[u] BY <2>3, <2>p
      <4>2. QED BY <3>1, <3>2, <4>1, <2>g DEF GateOf
    <3>3. Approved(u) BY <3>2 DEF Approved, StepsOf
    <3>4. QED BY <3>3, <2>p, <1>3, FirmUnit
  <2>4. QED BY <2>1, <2>2, <2>3
<1>6. QED BY <1>4, <1>5

\* A write that is no plain start leaves no row of a failed execution running.
LEMMA WriteSafe ==
  ASSUME TypeOK, NEW u \in Live, Single(u), NEW n \in Nodes, NEW write \in Writes,
         Write(n, write) \/ UNCHANGED row, n = u[1] => write # "start",
         wf = "failed", row[u[1]] # "running"
  PROVE  row'[u[1]] # "running"
<1>1. u[1] \in Nodes /\ row[u[1]] \in RowStatus
  BY Steps DEF TypeOK
<1>2. CASE n = u[1]
  BY <1>1, <1>2, StoredRow DEF Write, TypeOK
<1>3. CASE n # u[1]
  BY <1>1, <1>3 DEF Write, TypeOK
<1>4. QED BY <1>2, <1>3

\* The requests that are on their way, and the rows of a failed execution.
LEMMA RaceKept ==
  ASSUME TypeOK, LateInv, RaceSafeRows, [Next]_vars, ~Resume
  PROVE  LateInv' /\ RaceSafeRows'
<1>l. Live' = Live
  BY LiveKept
<1>s. \A u \in Live : Single(u) => StepsOf(u) = {u[1]} /\ u[1] \in Nodes
  BY Steps DEF Single, StepsOf
<1>1. ASSUME row' = row, wf' = wf, late' = late PROVE LateInv' /\ RaceSafeRows'
  BY <1>1, <1>l DEF LateInv, RaceSafeRows
<1>2. ASSUME NEW n \in Nodes, NEW write \in Writes, Write(n, write) \/ UNCHANGED row,
             wf' = wf, late' \subseteq late,
             \A u \in Live : Single(u) /\ n = u[1] => write # "start"
      PROVE  LateInv' /\ RaceSafeRows'
  <2>1. LateInv' BY <1>2, <1>l DEF LateInv
  <2>2. RaceSafeRows'
    BY <1>2, <1>l, WriteSafe DEF RaceSafeRows
  <2>3. QED BY <2>1, <2>2
<1>3. ASSUME NEW u \in Live, UnitStep(u) PROVE LateInv' /\ RaceSafeRows'
  <2>p. u[at[u]] \in StepsOf(u) /\ u[at[u]] \in Nodes /\ at[u] \in DOMAIN u
    BY Present
  <2>u. \A v \in Live : Single(v) /\ u[at[u]] = v[1] => v = u
    BY <2>p, <1>s, Steps
  <2>1. CASE RecordStarted(u)
    <3>1. /\ Write(u[at[u]], StartWrite(u)) \/ UNCHANGED row
          /\ wf' = wf /\ late' = late
      BY <2>1 DEF RecordStarted, Call
    <3>2. StartWrite(u) \in Writes /\ \A v \in Live : Single(v) /\ u[at[u]] = v[1] => StartWrite(u) # "start"
      BY <2>u, WriteTypes
    <3>3. QED BY <3>1, <3>2, <2>p, <1>2
  <2>2. CASE RecordCompleted(u)
    <3>1. /\ Write(u[at[u]], StepWrite(u, at[u])) \/ UNCHANGED row
          /\ wf' = wf /\ late' = late
      BY <2>2 DEF RecordCompleted, Call
    <3>2. StepWrite(u, at[u]) \in Writes /\ StepWrite(u, at[u]) # "start"
      BY <2>p, WriteTypes
    <3>3. QED BY <3>1, <3>2, <2>p, <1>2
  <2>3. CASE ~RecordStarted(u) /\ ~RecordCompleted(u)
    <3>1. row' = row /\ wf' = wf /\ late' = late
      BY <1>3, <2>3 DEF UnitStep, Launch, Fetch, GateApproves, GateRefuses, DispatchReturns,
                        ChainReturns, DispatchFails, storeVars
    <3>2. QED BY <3>1, <1>1
  <2>4. QED BY <2>1, <2>2, <2>3
<1>4. CASE (\E u \in Live : Settle(u)) \/ Finish \/ (\E n \in Nodes : Decide(n)) \/ UNCHANGED vars
  <2>1. row' = row /\ wf' = wf /\ late' = late
    BY <1>4 DEF Settle, Finish, Decide, vars, storeVars
  <2>2. QED BY <2>1, <1>1
<1>5. CASE (\E u \in Live : TerminalFailure(u)) \/ Stop
  <2>1. row' = row /\ wf' = wf /\ DropFutures
    BY <1>5 DEF TerminalFailure, Stop
  <2>2. ASSUME NEW u \in Live, Single(u), NEW w \in late', w.node = u[1] PROVE w.write # "start"
    <3>1. CASE w \in late BY <2>2, <3>1 DEF LateInv
    <3>2. CASE w \notin late
      <4>1. PICK v \in Live : w \in InFlight(v)
        BY <2>1, <2>2, <3>2 DEF DropFutures
      <4>2. w.node = v[at[v]] /\ (w.write = StartWrite(v) \/ w.write = StepWrite(v, at[v]))
        BY <4>1 DEF InFlight
      <4>3. v[at[v]] \in StepsOf(v) /\ at[v] \in DOMAIN v
        BY Present
      <4>4. v = u
        BY <4>2, <4>3, <2>2, <1>s, Steps
      <4>5. QED BY <4>2, <4>3, <4>4, <2>2, WriteTypes
    <3>3. QED BY <3>1, <3>2
  <2>3. QED BY <2>1, <2>2, <1>l DEF LateInv, RaceSafeRows
<1>6. CASE FailureUpdate
  <2>1. late' = late /\ \A n \in Nodes : row'[n] # "running"
    BY <1>6 DEF FailureUpdate
  <2>2. QED BY <2>1, <1>s, <1>l DEF LateInv, RaceSafeRows
<1>7. CASE LateWrite
  <2>1. PICK w \in late : late' = late \ {w} /\ (Write(w.node, w.write) \/ UNCHANGED row)
    BY <1>7 DEF LateWrite
  <2>2. w.node \in Nodes /\ w.write \in Writes /\ wf' = wf
    BY <1>7, <2>1 DEF TypeOK, LateWrite
  <2>3. \A u \in Live : Single(u) /\ w.node = u[1] => w.write # "start"
    BY <2>1 DEF LateInv
  <2>4. QED BY <2>1, <2>2, <2>3, <1>2
<1>8. QED BY <1>3, <1>4, <1>5, <1>6, <1>7 DEF Next

LEMMA RaceStep ==
  ASSUME TypeOK, LateInv, RaceSafeRows, [Next]_vars
  PROVE  LateInv' /\ RaceSafeRows'
<1>1. CASE Resume
  <2>1. late' = {} /\ wf' = "running"
    BY <1>1 DEF Resume
  <2>2. QED BY <2>1 DEF LateInv, RaceSafeRows
<1>2. CASE ~Resume
  BY <1>2, RaceKept
<1>3. QED BY <1>1, <1>2

LEMMA RowsInit == Init => RowsInv
<1> SUFFICES ASSUME Init PROVE RowsInv
  OBVIOUS
<1>1. TypeOK
  <2>1. /\ at \in [AllUnits -> Nat] /\ \A u \in AllUnits : at[u] \in DOMAIN u
        /\ answer \in [AllUnits -> Seq(StepStatus)] /\ \A u \in AllUnits : Len(answer[u]) <= Len(u)
    BY Steps DEF Init
  <2>2. runs \in 1 .. MaxRuns
    BY UnitsAssumption DEF Init
  <2>3. QED BY <2>1, <2>2 DEF Init, TypeOK, RowStatus, Working
<1>2. SentInv /\ LateInv /\ RaceSafeRows
  BY DEF Init, SentInv, LateInv, RaceSafeRows
<1>g. GateInv
  BY Steps DEF Init, GateInv
<1>3. QED BY <1>1, <1>2, <1>g DEF RowsInv

LEMMA RowsStep == RowsInv /\ [Next]_vars => RowsInv'
<1> SUFFICES ASSUME RowsInv, [Next]_vars PROVE RowsInv'
  OBVIOUS
<1>1. TypeOK'
  BY TypeStep DEF RowsInv
<1>2. LateInv' /\ RaceSafeRows'
  BY RaceStep DEF RowsInv
<1>3. SentInv'
  BY SentStep DEF RowsInv
<1>4. wired' = wired
  BY LiveKept DEF Resume
<1>5. GateInv'
  <2>1. CASE ~wired.gate
    BY <2>1, <1>4 DEF GateInv
  <2>2. CASE wired.gate
    <3>1. \A u \in Live' : GateOf(u)'
      <4>1. CASE Resume BY <4>1, GateResumed
      <4>2. CASE ~Resume BY <4>2, <2>2, GateStepKept, LiveKept DEF RowsInv
      <4>3. QED BY <4>1, <4>2
    <3>2. QED BY <3>1 DEF GateInv, GateOf
  <2>3. QED BY <2>1, <2>2
<1>6. QED BY <1>1, <1>2, <1>3, <1>5 DEF RowsInv

\* The types of the dispatch futures and their rows.
THEOREM RowsTyped == Spec => []TypeOK
<1>1. RowsInv => TypeOK
  BY DEF RowsInv
<1>2. QED BY <1>1, RowsInit, RowsStep, PTL DEF Spec

\* No unit reaches the dispatcher, and none has a row, unless the gate approved
\* every guarded step of it, in whichever run and after whichever refusals
\* (run_pipeline_chain_dispatch, run_single_node_dispatch).
THEOREM GateComesFirst == Spec => []ApprovedFirst
<1>1. RowsInv => ApprovedFirst
  BY Steps DEF RowsInv, GateInv, SentInv, ApprovedFirst, Approved
<1>2. QED BY <1>1, RowsInit, RowsStep, PTL DEF Spec

\* Once the failure of the execution is written, no row of a single dispatch says
\* running, whatever was on its way when the run was dropped (race_safe_status).
THEOREM RowsAreRaceSafe == Spec => []RaceSafeRows
<1>1. RowsInv => RaceSafeRows
  BY DEF RowsInv
<1>2. QED BY <1>1, RowsInit, RowsStep, PTL DEF Spec

\* What a run has settled stays settled, and a resumed run starts with it.
LEMMA SettledStep ==
  ASSUME TypeOK, SettledInv, [Next]_vars
  PROVE  SettledInv'
<1>1. CASE Resume
  <2>1. PICK seed \in Seeds : StartFrom(seed)
    BY <1>1 DEF Resume
  <2>2. \A v \in kept' : Last(v) \in done'
    BY <2>1 DEF Seeds, StartFrom, SettledInv
  <2>3. \A u \in AllUnits : stage'[u] \notin Working
    BY <1>1 DEF Resume, Working
  <2>4. (Live \subseteq AllUnits)'
    BY DEF Live, AllUnits
  <2>5. QED BY <2>2, <2>3, <2>4 DEF SettledInv
<1>2. ASSUME NEW u \in Live, UnitStep(u) PROVE SettledInv'
  <2>1. /\ done' = done /\ kept' = kept /\ fresh' = fresh
        /\ \A v \in AllUnits : v # u => stage'[v] = stage[v]
        /\ stage'[u] \in Working => stage[u] \in Working \/ ~Settled(u)
    BY <1>2, Steps DEF UnitStep, Launch, Fetch, GateApproves, GateRefuses, RecordStarted, DispatchReturns,
         ChainReturns, DispatchFails, RecordCompleted, results, Working, TypeOK
  <2>2. Live' = Live /\ \A v \in Live : Settled(v)' <=> Settled(v)
    BY <2>1 DEF Live, Settled
  <2>3. QED BY <2>1, <2>2, Steps DEF SettledInv
<1>3. ASSUME NEW u \in Live, Settle(u) PROVE SettledInv'
  <2>1. Live' = Live /\ stage' = stage /\ stage[u] \notin Working
    BY <1>3 DEF Settle, Live, Working
  <2>2. \A v \in Live : Last(v) = Last(u) => v = u
    BY Steps
  <2>3. QED BY <1>3, <2>1, <2>2 DEF Settle, SettledInv, Settled
<1>4. ASSUME DropFutures, UNCHANGED <<done, kept, fresh>> PROVE SettledInv'
  <2>1. Live' = Live /\ \A v \in Live : Settled(v)' <=> Settled(v)
    BY <1>4 DEF Live, Settled
  <2>2. \A v \in Live : Settled(v) => stage'[v] = stage[v]
    BY <1>4, Steps DEF DropFutures
  <2>3. QED BY <1>4, <2>1, <2>2 DEF SettledInv
<1>5. ASSUME UNCHANGED <<done, kept, fresh, stage>> PROVE SettledInv'
  BY <1>5 DEF SettledInv, Live, Settled
<1>6. ASSUME NEW u \in Live, TerminalFailure(u) PROVE SettledInv'
  BY <1>4, <1>6 DEF TerminalFailure, results
<1>7. CASE Stop
  BY <1>4, <1>7 DEF Stop, results
<1>8. CASE Finish \/ FailureUpdate \/ LateWrite \/ (\E n \in Nodes : Decide(n)) \/ UNCHANGED vars
  BY <1>5, <1>8 DEF Finish, FailureUpdate, LateWrite, Decide, results, vars
<1>9. QED BY <1>1, <1>2, <1>3, <1>6, <1>7, <1>8 DEF Next

\* What one run settled and handed over is not worked on by a run that resumes
\* the execution, after a pause, a cancellation or a failure
\* (run_with_seed_with_transport: seeded nodes are not pushed onto `ready').
THEOREM ResultsAreKept == Spec => []SettledOnce
<1>1. Init => SettledInv
  BY DEF Init, SettledInv, Settled
<1>2. SettledInv => SettledOnce
  BY DEF SettledInv, SettledOnce, Settled
<1>3. RowsInv => TypeOK
  BY DEF RowsInv
<1>4. RowsInv /\ SettledInv /\ [Next]_vars => SettledInv'
  BY <1>3, SettledStep
<1>5. QED BY <1>1, <1>2, <1>4, RowsInit, RowsStep, PTL DEF Spec

-----------------------------------------------------------------------------
(* The rows of a chain and the answer of the worker *)

\* A chain has its steps at different nodes, and no step is past the answer when
\* there is none.
LEMMA ChainSteps ==
  ASSUME NEW u \in Live, ~Single(u)
  PROVE  /\ u \in AllUnits /\ DOMAIN u = 1 .. Len(u) /\ Len(u) \in Nat
         /\ \A i, j \in DOMAIN u : u[i] = u[j] => i = j
         /\ \A i \in DOMAIN u : u[i] \in Nodes /\ u[i] \in StepsOf(u)
         /\ answer[u] = <<>> => \A i \in DOMAIN u : ~StepSucceeded(u, i)
<1>1. u \in Units BY DEF Live, Solo, Single
<1>2. \A i, j \in DOMAIN u : u[i] = u[j] => i = j BY <1>1, UnitsAssumption
<1>3. u \in AllUnits /\ DOMAIN u = 1 .. Len(u) /\ Len(u) \in Nat BY Steps
<1>4. answer[u] = <<>> => \A i \in DOMAIN u : ~StepSucceeded(u, i)
  BY <1>3 DEF StepSucceeded
<1>5. QED BY <1>2, <1>3, <1>4, Steps

\* What the outcome of a step writes to its row.
LEMMA StepWriteRow ==
  ASSUME NEW u, NEW i, NEW cur \in RowStatus
  PROVE  /\ StepWrite(u, i) \in {"completed", "failed", "timeout"}
         /\ StepWrite(u, i) = "completed" => StepSucceeded(u, i)
         /\ cur # "none" => Stored(StepWrite(u, i), cur) = StepWrite(u, i)
         /\ Stored(StepWrite(u, i), cur) = "completed" => cur = "completed" \/ StepSucceeded(u, i)
BY DEF StepWrite, RowOf, StepSucceeded, Stored

\* A start leaves a row, and closes none.
LEMMA StartRowSome ==
  ASSUME NEW write \in {"start", "start_race_safe"}, NEW cur \in RowStatus
  PROVE  Stored(write, cur) # "none" /\ (Stored(write, cur) = "completed" => cur = "completed")
BY DEF Stored, StartRow

\* A chain that a step leaves alone, or whose future is dropped.
LEMMA AnswerFrame ==
  ASSUME TypeOK, NEW u \in Live, ~Single(u), AnswerOf(u), wired' = wired,
         stage'[u] \in {stage[u], "dropped"}, at'[u] = at[u], answer'[u] = answer[u],
         \A i \in DOMAIN u : /\ row'[u[i]] = row[u[i]] \/ (row[u[i]] = "running" /\ row'[u[i]] = "cancelled")
                             /\ u[i] \in hooked' => u[i] \in hooked,
         \A w \in late' : \A i \in DOMAIN u : w.node = u[i] =>
           w \in late \/ (stage'[u] = "dropped" /\ (w.write = "completed" => StepSucceeded(u, i)))
  PROVE  AnswerOf(u)'
<1>1. \A i \in DOMAIN u : /\ StepWrite(u, i)' = StepWrite(u, i) /\ StepWrite(u, i) # "running"
                          /\ StepSucceeded(u, i)' <=> StepSucceeded(u, i)
  BY DEF StepWrite, RowOf, StepSucceeded
<1>2. Recorded' <=> Recorded BY DEF Recorded
<1>3. QED BY <1>1, <1>2 DEF AnswerOf

\* A chain is idle, or on its way to its dispatch, with nothing late.
LEMMA AnswerMoves ==
  ASSUME TypeOK, NEW u \in Live, ~Single(u), AnswerOf(u), UNCHANGED <<wired, row, late, hooked, answer>>,
         \/ stage[u] \in {"idle", "fetch", "gate"} /\ stage'[u] \in {"fetch", "gate", "err"}
         \/ stage[u] = "gate" /\ stage'[u] = "insert" /\ at'[u] = 1
         \/ stage[u] = "gate" /\ stage'[u] = "wait" /\ at'[u] = 1 /\ ~wired.store
         \/ stage[u] = "wait" /\ stage'[u] = "err"
  PROVE  AnswerOf(u)'
<1>1. stage[u] # "dropped" /\ answer[u] = <<>> BY DEF AnswerOf
<1>2. \A i \in DOMAIN u : ~(i < 1) BY ChainSteps
<1>3. \A i \in DOMAIN u : StepSucceeded(u, i)' <=> StepSucceeded(u, i) BY DEF StepSucceeded
<1>4. QED BY <1>1, <1>2, <1>3 DEF AnswerOf, Recorded

\* The rows of a chain are inserted one after the other.
LEMMA AnswerStarts ==
  ASSUME TypeOK, NEW u \in Live, ~Single(u), AnswerOf(u), RecordStarted(u)
  PROVE  AnswerOf(u)'
<1>u. /\ DOMAIN u = 1 .. Len(u) /\ Len(u) \in Nat /\ \A i \in DOMAIN u : u[i] \in Nodes
      /\ at[u] \in DOMAIN u /\ u \in AllUnits /\ \A i, j \in DOMAIN u : u[i] = u[j] => i = j
  BY ChainSteps, Present
<1>1. /\ stage[u] = "insert" /\ answer[u] = <<>> /\ UNCHANGED <<wired, late, hooked, answer>>
      /\ \/ stage'[u] = "insert" /\ at'[u] = at[u] + 1
         \/ stage'[u] = "wait" /\ at'[u] = 1 /\ ~(at[u] < Len(u))
  BY <1>u DEF RecordStarted, AnswerOf, TypeOK
<1>2. Write(u[at[u]], StartWrite(u)) \/ (wired.storeFails /\ UNCHANGED row)
  BY DEF RecordStarted, Call
<1>3. \A i \in DOMAIN u : row[u[i]] \in RowStatus BY <1>u DEF TypeOK
<1>4. StartWrite(u) \in {"start", "start_race_safe"} BY DEF StartWrite
<1>5. \A i \in DOMAIN u : i # at[u] => row'[u[i]] = row[u[i]]
  BY <1>u, <1>2 DEF Write, TypeOK
<1>6. \/ row'[u[at[u]]] = Stored(StartWrite(u), row[u[at[u]]])
      \/ wired.storeFails /\ row' = row
  BY <1>u, <1>2 DEF Write, TypeOK
<1>7. \A i \in DOMAIN u : /\ row'[u[i]] = "completed" => row[u[i]] = "completed"
                          /\ row[u[i]] # "none" => row'[u[i]] # "none"
  BY <1>3, <1>4, <1>5, <1>6, StartRowSome
<1>8. Recorded => row'[u[at[u]]] # "none"
  BY <1>u, <1>3, <1>4, <1>6, StartRowSome DEF Recorded
<1>9. \A i \in DOMAIN u : i < at[u] + 1 => i < at[u] \/ i = at[u] BY <1>u
<1>10. ~(at[u] < Len(u)) => \A i \in DOMAIN u : i < at[u] \/ i = at[u] BY <1>u
<1>11. Recorded => \A i \in DOMAIN u : /\ stage'[u] = "insert" /\ i < at'[u] => row'[u[i]] # "none"
                                       /\ stage'[u] = "wait" => row'[u[i]] # "none"
  BY <1>1, <1>7, <1>8, <1>9, <1>10 DEF AnswerOf
<1>12. \A i \in DOMAIN u : StepSucceeded(u, i)' <=> StepSucceeded(u, i) BY <1>1 DEF StepSucceeded
<1>13. \A i \in DOMAIN u : row'[u[i]] = "completed" \/ u[i] \in hooked' => StepSucceeded(u, i)'
  BY <1>1, <1>7, <1>12 DEF AnswerOf
<1>14. \A w \in late' : \A i \in DOMAIN u : w.node # u[i] BY <1>1 DEF AnswerOf
<1>15. QED BY <1>1, <1>11, <1>13, <1>14 DEF AnswerOf, Recorded

\* The worker answers a chain: no row of it is closed yet.
LEMMA AnswerReturns ==
  ASSUME TypeOK, NEW u \in Live, ~Single(u), AnswerOf(u), ChainReturns(u)
  PROVE  AnswerOf(u)'
<1>u. /\ u \in AllUnits /\ at[u] = at'[u] BY ChainSteps DEF ChainReturns
<1>1. /\ stage[u] = "wait" /\ answer[u] = <<>> /\ UNCHANGED <<wired, at, row, late, hooked>>
      /\ stage'[u] = "complete" \/ (stage'[u] \in {"ok", "err"} /\ ~wired.store)
  BY <1>u DEF ChainReturns, AnswerOf, TypeOK, storeVars, Overall
<1>2. \A i \in DOMAIN u : row[u[i]] # "completed" /\ u[i] \notin hooked
  BY <1>1, ChainSteps DEF AnswerOf
<1>3. \A w \in late : \A i \in DOMAIN u : w.node # u[i] BY <1>1 DEF AnswerOf
<1>4. Recorded' => stage'[u] = "complete" /\ \A i \in DOMAIN u : row[u[i]] # "none"
  BY <1>1 DEF Recorded, AnswerOf
<1>5. at'[u] = 1 /\ \A i \in DOMAIN u : ~(i < 1) BY <1>u, <1>1, ChainSteps DEF AnswerOf
<1>6. QED BY <1>1, <1>2, <1>3, <1>4, <1>5 DEF AnswerOf

\* The rows of a chain are closed one after the other, each with its own outcome.
LEMMA AnswerCloses ==
  ASSUME TypeOK, NEW u \in Live, ~Single(u), AnswerOf(u), RecordCompleted(u)
  PROVE  AnswerOf(u)'
<1>u. /\ DOMAIN u = 1 .. Len(u) /\ Len(u) \in Nat /\ \A i \in DOMAIN u : u[i] \in Nodes
      /\ at[u] \in DOMAIN u /\ u \in AllUnits /\ \A i, j \in DOMAIN u : u[i] = u[j] => i = j
  BY ChainSteps, Present
<1>1. /\ stage[u] = "complete" /\ UNCHANGED <<wired, late, answer>>
      /\ \/ stage'[u] = "complete" /\ at'[u] = at[u] + 1
         \/ stage'[u] \in {"ok", "err"} /\ ~(at[u] < Len(u))
      /\ hooked' = hooked \cup {u[i] : i \in {j \in {at[u]} : wired.hook /\ StepSucceeded(u, j)}}
  BY <1>u DEF RecordCompleted, TypeOK, Overall
<1>2. Write(u[at[u]], StepWrite(u, at[u])) \/ (wired.storeFails /\ UNCHANGED row)
  BY DEF RecordCompleted, Call
<1>3. \A i \in DOMAIN u : row[u[i]] \in RowStatus BY <1>u DEF TypeOK
<1>4. \A i \in DOMAIN u : i # at[u] => row'[u[i]] = row[u[i]]
  BY <1>u, <1>2 DEF Write, TypeOK
<1>5. \/ row'[u[at[u]]] = Stored(StepWrite(u, at[u]), row[u[at[u]]])
      \/ wired.storeFails /\ row' = row
  BY <1>u, <1>2 DEF Write, TypeOK
<1>6. Recorded => \A i \in DOMAIN u : row[u[i]] # "none" BY <1>1 DEF AnswerOf
<1>7. Recorded => row'[u[at[u]]] = StepWrite(u, at[u])
  BY <1>u, <1>3, <1>5, <1>6, StepWriteRow DEF Recorded
<1>8. \A i \in DOMAIN u : i < at[u] + 1 \/ ~(at[u] < Len(u)) => i < at[u] \/ i = at[u] BY <1>u
<1>9. \A i \in DOMAIN u : (StepWrite(u, i)' = StepWrite(u, i)) /\ (StepSucceeded(u, i)' <=> StepSucceeded(u, i))
  BY <1>1 DEF StepWrite, StepSucceeded
<1>10. Recorded => \A i \in DOMAIN u : i < at[u] \/ i = at[u] => row'[u[i]] = StepWrite(u, i)
  BY <1>1, <1>4, <1>7 DEF AnswerOf
<1>11. Recorded => \A i \in DOMAIN u : StepWrite(u, i) # "none" /\ row'[u[i]] # "none"
  BY <1>3, <1>4, <1>6, <1>7, StepWriteRow
<1>12. \A i \in DOMAIN u : row'[u[i]] = "completed" => StepSucceeded(u, i)
  <2>1. \A i \in DOMAIN u : row[u[i]] = "completed" => StepSucceeded(u, i) BY DEF AnswerOf
  <2>2. row'[u[at[u]]] = "completed" => StepSucceeded(u, at[u])
    BY <1>u, <1>3, <1>5, <2>1, StepWriteRow
  <2>3. QED BY <1>4, <2>1, <2>2
<1>13. \A i \in DOMAIN u : u[i] \in hooked' => StepSucceeded(u, i)
  BY <1>u, <1>1 DEF AnswerOf
<1>14. \A w \in late : \A i \in DOMAIN u : w.node # u[i] BY <1>1 DEF AnswerOf
<1>15. Recorded' <=> Recorded BY <1>1 DEF Recorded
<1>16. QED
  BY <1>1, <1>8, <1>9, <1>10, <1>11, <1>12, <1>13, <1>14, <1>15 DEF AnswerOf

\* A step of one future is no step of another's chain.
LEMMA AnswerUnit ==
  ASSUME TypeOK, AnswerInv, NEW u \in Live, UnitStep(u), NEW v \in Live, ~Single(v)
  PROVE  AnswerOf(v)'
<1>u. /\ u \in AllUnits /\ u[at[u]] \in StepsOf(u) /\ u[at[u]] \in Nodes
      /\ v \in AllUnits /\ \A i \in DOMAIN v : v[i] \in Nodes /\ v[i] \in StepsOf(v)
  BY Present, ChainSteps
<1>v. AnswerOf(v) BY DEF AnswerInv
<1>w. wired' = wired /\ late' = late
  BY DEF UnitStep, Launch, Fetch, GateApproves, GateRefuses, RecordStarted, DispatchReturns,
         ChainReturns, DispatchFails, RecordCompleted, storeVars
<1>1. CASE v # u
  <2>1. \A i \in DOMAIN v : v[i] # u[at[u]] BY <1>u, <1>1, Steps
  <2>2. stage'[v] = stage[v] /\ at'[v] = at[v] /\ answer'[v] = answer[v]
    BY <1>u, <1>1 DEF UnitStep, Launch, Fetch, GateApproves, GateRefuses, RecordStarted, DispatchReturns,
         ChainReturns, DispatchFails, RecordCompleted, TypeOK
  <2>3. \A i \in DOMAIN v : row'[v[i]] = row[v[i]]
    BY <1>u, <2>1 DEF UnitStep, Launch, Fetch, GateApproves, GateRefuses, RecordStarted, DispatchReturns,
         ChainReturns, DispatchFails, RecordCompleted, Call, Write, TypeOK, storeVars
  <2>4. hooked' = hooked \/ hooked' \subseteq hooked \cup {u[at[u]]}
    BY DEF UnitStep, Launch, Fetch, GateApproves, GateRefuses, RecordStarted, DispatchReturns,
         ChainReturns, DispatchFails, RecordCompleted, storeVars
  <2>5. QED BY <1>v, <1>w, <2>1, <2>2, <2>3, <2>4, AnswerFrame
<1>2. CASE v = u
  <2>1. CASE Launch(u) \/ Fetch(u) \/ GateRefuses(u) \/ DispatchFails(u)
    <3>1. UNCHANGED <<wired, row, late, hooked, answer>>
      BY <2>1 DEF Launch, Fetch, GateRefuses, DispatchFails, storeVars
    <3>2. \/ stage[u] \in {"idle", "fetch", "gate"} /\ stage'[u] \in {"fetch", "gate", "err"}
          \/ stage[u] = "wait" /\ stage'[u] = "err"
      BY <2>1, <1>u DEF Launch, Fetch, GateRefuses, DispatchFails, TypeOK
    <3>3. QED BY <3>1, <3>2, <1>v, <1>2, AnswerMoves
  <2>2. CASE GateApproves(u)
    <3>1. UNCHANGED <<wired, row, late, hooked, answer>>
      BY <2>2 DEF GateApproves, storeVars
    <3>2. \/ stage[u] = "gate" /\ stage'[u] = "fetch"
          \/ stage[u] = "gate" /\ stage'[u] = "insert" /\ at'[u] = 1
          \/ stage[u] = "gate" /\ stage'[u] = "wait" /\ at'[u] = 1 /\ ~wired.store
      BY <2>2, <1>u DEF GateApproves, TypeOK
    <3>3. QED BY <3>1, <3>2, <1>v, <1>2, AnswerMoves
  <2>3. CASE RecordStarted(u) BY <2>3, <1>v, <1>2, AnswerStarts
  <2>4. CASE DispatchReturns(u) BY <2>4, <1>2 DEF DispatchReturns
  <2>5. CASE ChainReturns(u) BY <2>5, <1>v, <1>2, AnswerReturns
  <2>6. CASE RecordCompleted(u) BY <2>6, <1>v, <1>2, AnswerCloses
  <2>7. QED BY <2>1, <2>2, <2>3, <2>4, <2>5, <2>6 DEF UnitStep
<1>3. QED BY <1>1, <1>2

\* A write of a dropped future arrives: its chain is dropped, and it calls a step
\* completed only if the worker did.
LEMMA AnswerLate ==
  ASSUME TypeOK, AnswerInv, LateWrite, NEW v \in Live, ~Single(v)
  PROVE  AnswerOf(v)'
<1>v. AnswerOf(v) /\ \A i \in DOMAIN v : v[i] \in Nodes /\ row[v[i]] \in RowStatus
  BY ChainSteps DEF AnswerInv, TypeOK
<1>1. PICK w \in late : late' = late \ {w} /\ (Write(w.node, w.write) \/ UNCHANGED row)
  BY DEF LateWrite
<1>2. UNCHANGED <<wired, stage, at, answer, hooked>> BY DEF LateWrite
<1>3. w.node \in Nodes /\ w.write \in Writes BY <1>1 DEF TypeOK
<1>4. CASE \A i \in DOMAIN v : v[i] # w.node
  <2>1. \A i \in DOMAIN v : row'[v[i]] = row[v[i]]
    BY <1>v, <1>1, <1>3, <1>4 DEF Write, TypeOK
  <2>2. QED BY <1>v, <1>1, <1>2, <2>1, AnswerFrame
<1>5. CASE \E i \in DOMAIN v : v[i] = w.node
  <2>1. stage[v] = "dropped" BY <1>v, <1>1, <1>5 DEF AnswerOf
  <2>2. \A i \in DOMAIN v : row'[v[i]] = "completed" => StepSucceeded(v, i)
    <3>1. \A i \in DOMAIN v : row'[v[i]] = "completed"
             => row[v[i]] = "completed" \/ (v[i] = w.node /\ w.write = "completed")
      BY <1>v, <1>1, <1>3 DEF Write, TypeOK, Stored, StartRow, Writes
    <3>2. QED BY <3>1, <1>v, <1>1 DEF AnswerOf
  <2>3. \A i \in DOMAIN v : StepSucceeded(v, i)' <=> StepSucceeded(v, i) BY <1>2 DEF StepSucceeded
  <2>4. QED BY <1>v, <1>1, <1>2, <2>1, <2>2, <2>3 DEF AnswerOf
<1>6. QED BY <1>4, <1>5

\* The futures in flight are dropped, and what they asked for is late.
LEMMA AnswerDrops ==
  ASSUME TypeOK, AnswerInv, DropFutures, UNCHANGED <<wired, at, row, answer, hooked>>,
         NEW v \in Live, ~Single(v)
  PROVE  AnswerOf(v)'
<1>v. AnswerOf(v) /\ v \in AllUnits /\ \A i \in DOMAIN v : v[i] \in StepsOf(v)
  BY ChainSteps DEF AnswerInv
<1>1. stage'[v] \in {stage[v], "dropped"} BY <1>v DEF DropFutures
<1>2. ASSUME NEW w \in late', NEW i \in DOMAIN v, w.node = v[i], w \notin late
      PROVE  stage'[v] = "dropped" /\ (w.write = "completed" => StepSucceeded(v, i))
  <2>1. PICK u \in Live : w \in InFlight(u) /\ ~Settled(u) BY <1>2 DEF DropFutures
  <2>2. /\ w.node = u[at[u]]
        /\ \/ stage[u] = "insert" /\ w.write = StartWrite(u)
           \/ stage[u] = "complete" /\ w.write = StepWrite(u, at[u])
    BY <2>1 DEF InFlight
  <2>3. u[at[u]] \in StepsOf(u) /\ u \in AllUnits /\ at[u] \in DOMAIN u BY Present
  <2>4. u = v BY <2>2, <2>3, <1>2, <1>v, Steps
  <2>5. at[u] = i BY <2>2, <2>3, <2>4, <1>2, ChainSteps
  <2>6. stage'[v] = "dropped" BY <2>1, <2>2, <2>3, <2>4 DEF DropFutures
  <2>7. w.write = "completed" => StepSucceeded(v, i)
    BY <2>2, <2>4, <2>5 DEF StartWrite, StepWrite, RowOf, StepSucceeded
  <2>8. QED BY <2>6, <2>7
<1>3. QED BY <1>v, <1>1, <1>2, AnswerFrame

LEMMA AnswerStep ==
  ASSUME TypeOK, AnswerInv, [Next]_vars
  PROVE  AnswerInv'
<1>1. CASE Resume
  <2>1. /\ late' = {} /\ hooked' = {} /\ \A n \in Nodes : row'[n] = "none"
        /\ \A u \in AllUnits : stage'[u] = "idle" /\ answer'[u] = <<>>
    BY <1>1 DEF Resume
  <2>2. Live' \subseteq AllUnits BY DEF Live, AllUnits
  <2>3. \A u \in AllUnits : \A i \in DOMAIN u : u[i] \in Nodes BY Steps
  <2>4. QED BY <2>1, <2>2, <2>3 DEF AnswerInv, AnswerOf
<1>2. CASE ~Resume
  <2>l. Live' = Live /\ wired' = wired BY <1>2, LiveKept
  <2> SUFFICES ASSUME NEW v \in Live, ~Single(v) PROVE AnswerOf(v)'
    BY <2>l DEF AnswerInv
  <2>v. AnswerOf(v) /\ \A i \in DOMAIN v : v[i] \in Nodes BY ChainSteps DEF AnswerInv
  <2>1. CASE \E u \in Live : UnitStep(u) BY <2>1, AnswerUnit
  <2>2. CASE (\E u \in Live : Settle(u)) \/ Finish \/ (\E n \in Nodes : Decide(n)) \/ UNCHANGED vars
    <3>1. UNCHANGED <<stage, at, row, late, answer, hooked>>
      BY <2>2 DEF Settle, Finish, Decide, vars, storeVars
    <3>2. QED BY <3>1, <2>l, <2>v, AnswerFrame
  <2>3. CASE (\E u \in Live : TerminalFailure(u)) \/ Stop
    <3>1. DropFutures /\ UNCHANGED <<at, row, answer, hooked>> BY <2>3 DEF TerminalFailure, Stop
    <3>2. QED BY <3>1, <2>l, AnswerDrops
  <2>4. CASE FailureUpdate
    <3>1. /\ UNCHANGED <<stage, at, late, answer, hooked>>
          /\ \A n \in Nodes : row'[n] = row[n] \/ (row[n] = "running" /\ row'[n] = "cancelled")
      BY <2>4 DEF FailureUpdate
    <3>2. QED BY <3>1, <2>l, <2>v, AnswerFrame
  <2>5. CASE LateWrite BY <2>5, AnswerLate
  <2>6. QED BY <1>2, <2>1, <2>2, <2>3, <2>4, <2>5 DEF Next
<1>3. QED BY <1>1, <1>2

\* A chain that was answered leaves each of its rows closed with its step's own
\* outcome, and a row or a hook calls a step completed only if the worker did,
\* however the run, its failure and its late writes interleave
\* (run_pipeline_chain_dispatch, the loop after dispatch_chain).
THEOREM RowsAreTruthful == Spec => []RowsTellTheAnswer
<1>1. Init => AnswerInv
  BY Steps DEF Init, AnswerInv, AnswerOf
<1>2. AnswerInv => RowsTellTheAnswer
  BY DEF AnswerInv, AnswerOf, RowsTellTheAnswer, Recorded
<1>3. RowsInv => TypeOK
  BY DEF RowsInv
<1>4. RowsInv /\ AnswerInv /\ [Next]_vars => AnswerInv'
  BY <1>3, AnswerStep
<1>5. QED BY <1>1, <1>2, <1>4, RowsInit, RowsStep, PTL DEF Spec

=============================================================================
