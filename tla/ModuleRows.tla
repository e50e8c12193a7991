------------------------------ MODULE ModuleRows ------------------------------
(***************************************************************************)
(* The dispatch of modules inside one workflow execution: the futures of   *)
(* run_single_node_dispatch and run_pipeline_chain_dispatch, the approval  *)
(* gate they ask, the module_executions rows they write, the failure of    *)
(* the run that drops them, and the runs that resume the execution.        *)
(*                                                                         *)
(* A unit is what one future dispatches: a sequence of one node (a single  *)
(* dispatch) or of several (a pipeline chain).  Chains are built on fresh  *)
(* runs only; a run that starts from a seed dispatches every node singly.  *)
(* A run drops its futures when a node fails terminally, when it is        *)
(* cancelled or times out and when a Wait node pauses it; a store request  *)
(* that was on its way then may still be carried out (late).               *)
(***************************************************************************)
EXTENDS Naturals, Sequences, FiniteSets

CONSTANTS Units,     \* what a fresh run dispatches: its chains and its single nodes
          Guarded,   \* nodes whose module declares requires_approval_for
          MaxRuns    \* bound on the runs of the execution (first and resumed)

StepsOf(u) == {u[i] : i \in DOMAIN u}
Nodes == UNION {StepsOf(u) : u \in Units}
Solo == {<<n>> : n \in Nodes}
AllUnits == Units \cup Solo
Last(u) == u[Len(u)]

ASSUME UnitsAssumption ==
    /\ \A u \in Units : u \in Seq(StepsOf(u)) /\ Len(u) > 0
    /\ \A u \in Units : \A i, j \in DOMAIN u : u[i] = u[j] => i = j
    /\ \A u, v \in Units : StepsOf(u) \cap StepsOf(v) # {} => u = v
    /\ MaxRuns \in Nat \ {0}

VARIABLES
    wired,      \* which optional services the engine was given
    run,        \* "active", or how the present run ended
    runs,       \* number of the present run
    fresh,      \* the present run started without a seed
    stage,      \* where the future of each unit stands
    at,         \* the step it works on
    approval,   \* the approval gate's record of each node
    row,        \* status of the row the present run inserted for each node
    wf,         \* the execution's status in the consumer's table
    notified,   \* on_node_failed was called and its writes are pending
    late,       \* store requests of dropped futures
    answer,     \* what the worker answered for a chain
    sent,       \* units handed to the dispatcher in some run
    done,       \* nodes with an entry in the results map
    kept,       \* history: units settled, and not lost with a run
    hooked      \* steps reported to on_pipeline_step_completed in this run

vars == <<wired, run, runs, fresh, stage, at, approval, row, wf, notified, late,
          answer, sent, done, kept, hooked>>
storeVars == <<row, late, hooked>>
results == <<done, kept>>

Live == IF fresh THEN Units ELSE Solo
Single(u) == Len(u) = 1
Settled(u) == Last(u) \in done
Wiring ==
    {w \in [store : BOOLEAN, storeFails : BOOLEAN, gate : BOOLEAN, hook : BOOLEAN, fetcher : BOOLEAN] :
       w.storeFails => w.store}
Working == {"fetch", "gate", "insert", "wait", "complete"}
RowStatus == {"none", "running", "cancelled", "completed", "failed", "timeout"}
Writes == {"start", "start_race_safe", "completed", "failed", "timeout"}
StepStatus == {"Success", "Failed", "TimedOut"}

TypeOK ==
    /\ wired \in Wiring
    /\ run \in {"active", "done", "failed", "paused", "cancelled"}
    /\ runs \in 1..MaxRuns
    /\ fresh \in BOOLEAN
    /\ stage \in [AllUnits -> Working \cup {"idle", "ok", "err", "dropped"}]
    /\ at \in [AllUnits -> Nat] /\ \A u \in AllUnits : at[u] \in DOMAIN u
    /\ approval \in [Nodes -> {"none", "pending", "approved", "denied"}]
    /\ row \in [Nodes -> RowStatus]
    /\ wf \in {"running", "failed"}
    /\ notified \in BOOLEAN
    /\ late \subseteq [node : Nodes, write : Writes]
    /\ answer \in [AllUnits -> Seq(StepStatus)] /\ \A u \in AllUnits : Len(answer[u]) <= Len(u)
    /\ sent \subseteq AllUnits
    /\ done \subseteq Nodes
    /\ kept \subseteq AllUnits
    /\ hooked \subseteq Nodes

Init ==
    /\ wired \in Wiring
    /\ run = "active"
    /\ runs = 1
    /\ fresh \in BOOLEAN      \* a trigger input is a seed too
    /\ stage = [u \in AllUnits |-> "idle"]
    /\ at = [u \in AllUnits |-> 1]
    /\ approval = [n \in Nodes |-> "none"]
    /\ row = [n \in Nodes |-> "none"]
    /\ wf = "running"
    /\ notified = FALSE
    /\ late = {}
    /\ answer = [u \in AllUnits |-> <<>>]
    /\ sent = {}
    /\ done = {}
    /\ kept = {}
    /\ hooked = {}

-----------------------------------------------------------------------------
(* The execution store, as its contract describes it: a start that knows   *)
(* of the race enters as cancelled when the execution has failed already,  *)
(* inserting is idempotent and updating needs a row.                       *)

\* Faulty variant of StartRow: the race is not looked at.
StartRowUnsafe(write, cur) == IF cur # "none" THEN cur ELSE "running"

StartRow(write, cur) ==
    IF cur # "none" THEN cur
    ELSE IF write = "start_race_safe" /\ wf = "failed" THEN "cancelled" ELSE "running"

Stored(write, cur) ==
    IF write \in {"start", "start_race_safe"} THEN StartRow(write, cur)
    ELSE IF cur = "none" THEN "none" ELSE write

Write(n, write) == row' = [row EXCEPT ![n] = Stored(write, @)]

\* Faulty variant of Call: a store call that is tried again until it succeeds.
CallInsists(u, write) == ~wired.storeFails /\ Write(u[at[u]], write)

(* Every store call is awaited and its error is only logged.               *)
Call(u, write) ==
    \/ Write(u[at[u]], write)
    \/ wired.storeFails /\ UNCHANGED row

-----------------------------------------------------------------------------
(* The future of a unit.                                                   *)

(* A chain waits for nothing here; without it, each of its steps waits for *)
(* the result of the step before.                                          *)
Before(u) ==
    {n \in Nodes : \E v \in Units : \E i \in DOMAIN v : i + 1 \in DOMAIN v /\ v[i] = n /\ u = <<v[i + 1]>>}

Launch(u) ==
    /\ run = "active" /\ stage[u] = "idle" /\ ~Settled(u)
    /\ Before(u) \subseteq done
    /\ stage' = [stage EXCEPT ![u] = "fetch"]
    /\ at' = [at EXCEPT ![u] = 1]
    /\ UNCHANGED <<wired, run, runs, fresh, approval, wf, notified, answer, sent, results, storeVars>>

(* Without a fetcher, or without the user it needs, every fetch fails.     *)
Fetch(u) ==
    /\ stage[u] = "fetch"
    /\ \/ wired.fetcher /\ stage' = [stage EXCEPT ![u] = "gate"]
       \/ stage' = [stage EXCEPT ![u] = "err"]
    /\ UNCHANGED <<wired, run, runs, fresh, at, approval, wf, notified, answer, sent, results, storeVars>>

Asked(n) == n \in Guarded /\ wired.gate
\* Faulty variant of GateOpen: only a denial stops a step.
GateOpenUnlessDenied(n) == Asked(n) => approval[n] # "denied"
GateOpen(n) == Asked(n) => approval[n] = "approved"

Send(u) == sent' = sent \cup {u}

(* An approved step leads to the next fetch; after the last one the rows   *)
(* are inserted, where there is a store, and the job is dispatched.        *)
GateApproves(u) ==
    /\ stage[u] = "gate" /\ GateOpen(u[at[u]])
    /\ IF at[u] < Len(u)
       THEN /\ stage' = [stage EXCEPT ![u] = "fetch"]
            /\ at' = [at EXCEPT ![u] = @ + 1]
            /\ UNCHANGED sent
       ELSE /\ stage' = [stage EXCEPT ![u] = IF wired.store THEN "insert" ELSE "wait"]
            /\ at' = [at EXCEPT ![u] = 1]
            /\ IF wired.store THEN UNCHANGED sent ELSE Send(u)
    /\ UNCHANGED <<wired, run, runs, fresh, approval, wf, notified, answer, results, storeVars>>

(* Pending, denied, a status the engine does not know and an error of the  *)
(* gate itself all refuse; the first request creates the pending record.   *)
GateRefuses(u) ==
    /\ stage[u] = "gate" /\ Asked(u[at[u]])
    /\ stage' = [stage EXCEPT ![u] = "err"]
    /\ approval' = [approval EXCEPT ![u[at[u]]] = IF @ = "none" THEN "pending" ELSE @]
    /\ UNCHANGED <<wired, run, runs, fresh, at, wf, notified, answer, sent, results, storeVars>>

StartWrite(u) == IF Single(u) THEN "start_race_safe" ELSE "start"

RecordStarted(u) ==
    /\ stage[u] = "insert"
    /\ Call(u, StartWrite(u))
    /\ IF at[u] < Len(u)
       THEN /\ at' = [at EXCEPT ![u] = @ + 1]
            /\ UNCHANGED <<stage, sent>>
       ELSE /\ stage' = [stage EXCEPT ![u] = "wait"]
            /\ at' = [at EXCEPT ![u] = 1]
            /\ Send(u)
    /\ UNCHANGED <<wired, run, runs, fresh, approval, wf, notified, late, answer, results, hooked>>

(* A chain's answer names the steps that ran: all but the last succeeded.  *)
Answers(u) ==
    UNION {{s \in [1..k -> StepStatus] : \A i \in 1..k : i < k => s[i] = "Success"}
             : k \in 0..Len(u)}
(* Its overall status is the dispatcher's word; the engine does not compare *)
(* it with the steps.                                                      *)
Overall == {"ok", "err"}

(* A single dispatch returns its output; its row is not touched again.     *)
DispatchReturns(u) ==
    /\ stage[u] = "wait" /\ Single(u)
    /\ stage' = [stage EXCEPT ![u] = "ok"]
    /\ UNCHANGED <<wired, run, runs, fresh, at, approval, wf, notified, answer, sent, results, storeVars>>

ChainReturns(u) ==
    /\ stage[u] = "wait" /\ ~Single(u)
    /\ \E s \in Answers(u) : answer' = [answer EXCEPT ![u] = s]
    /\ \E end \in Overall : stage' = [stage EXCEPT ![u] = IF wired.store THEN "complete" ELSE end]
    /\ UNCHANGED <<wired, run, runs, fresh, at, approval, wf, notified, sent, results, storeVars>>

(* dispatch and dispatch_chain return an error: the future returns at once.*)
DispatchFails(u) ==
    /\ stage[u] = "wait"
    /\ stage' = [stage EXCEPT ![u] = "err"]
    /\ UNCHANGED <<wired, run, runs, fresh, at, approval, wf, notified, answer, sent, results, storeVars>>

\* Faulty variant of RowOf: the wire status stored as it is.
RowOfRaw(status) == status

RowOf(status) ==
    CASE status = "Success" -> "completed"
      [] status = "TimedOut" -> "timeout"
      [] OTHER -> "failed"

\* Faulty variant of StepWrite: every row gets the outcome of the last step.
StepWriteLast(u, i) ==
    IF answer[u] = <<>> THEN "failed" ELSE RowOf(answer[u][Len(answer[u])])

(* Steps past the end of the answer are recorded as aborted.               *)
StepWrite(u, i) == IF i <= Len(answer[u]) THEN RowOf(answer[u][i]) ELSE "failed"

StepSucceeded(u, i) == i <= Len(answer[u]) /\ answer[u][i] = "Success"

RecordCompleted(u) ==
    /\ stage[u] = "complete"
    /\ Call(u, StepWrite(u, at[u]))
    /\ hooked' = hooked \cup
         {u[i] : i \in {j \in {at[u]} : wired.hook /\ StepSucceeded(u, j)}}
    /\ IF at[u] < Len(u)
       THEN at' = [at EXCEPT ![u] = @ + 1] /\ UNCHANGED stage
       ELSE /\ \E end \in Overall : stage' = [stage EXCEPT ![u] = end]
            /\ UNCHANGED at
    /\ UNCHANGED <<wired, run, runs, fresh, approval, wf, notified, late, answer, sent, results>>

-----------------------------------------------------------------------------
(* The run: outcomes enter the results map, or end it.                     *)

(* A success, or a failure that error edges or continue_on_error absorb.   *)
(* The outcome of a chain is stored for its last node only.                *)
Settle(u) ==
    /\ run = "active" /\ stage[u] \in {"ok", "err"} /\ ~Settled(u)
    /\ done' = done \cup {Last(u)}
    /\ kept' = kept \cup {u}
    /\ UNCHANGED <<wired, run, runs, fresh, stage, at, approval, wf, notified, answer, sent, storeVars>>

Finish ==
    /\ run = "active" /\ \A u \in Live : Settled(u)
    /\ run' = "done"
    /\ UNCHANGED <<wired, runs, fresh, stage, at, approval, wf, notified, answer, sent, results, storeVars>>

(* The futures still in flight are dropped with the scheduler; the store   *)
(* request one of them was waiting for may or may not have left.           *)
InFlight(u) ==
    CASE stage[u] = "insert"   -> {[node |-> u[at[u]], write |-> StartWrite(u)]}
      [] stage[u] = "complete" -> {[node |-> u[at[u]], write |-> StepWrite(u, at[u])]}
      [] OTHER -> {}

DropFutures ==
    /\ stage' = [u \in AllUnits |->
                   IF u \in Live /\ ~Settled(u) /\ stage[u] # "idle" THEN "dropped" ELSE stage[u]]
    /\ late' = late \cup UNION {InFlight(u) : u \in {v \in Live : ~Settled(v)}}

TerminalFailure(u) ==
    /\ run = "active" /\ stage[u] = "err" /\ ~Settled(u)
    /\ run' = "failed"
    /\ notified' = wired.hook
    /\ DropFutures
    /\ UNCHANGED <<wired, runs, fresh, at, approval, row, wf, answer, sent, results, hooked>>

(* A Wait node or a confidence gate pauses the run, a token cancels it or  *)
(* the wall-clock cap ends it; none of them calls the lifecycle hook.      *)
Stop ==
    /\ run = "active"
    /\ run' \in {"paused", "cancelled"}
    /\ DropFutures
    /\ UNCHANGED <<wired, runs, fresh, at, approval, row, wf, notified, answer, sent, results, hooked>>

-----------------------------------------------------------------------------
(* Outside the engine.                                                     *)

(* The writes the failure hook spawned: the execution fails and its        *)
(* running rows are cancelled.                                             *)
FailureUpdate ==
    /\ notified
    /\ notified' = FALSE
    /\ wf' = "failed"
    /\ row' = [n \in Nodes |-> IF row[n] = "running" THEN "cancelled" ELSE row[n]]
    /\ UNCHANGED <<wired, run, runs, fresh, stage, at, approval, late, answer, sent, results, hooked>>

LateWrite ==
    /\ \E w \in late :
         /\ late' = late \ {w}
         /\ Write(w.node, w.write) \/ UNCHANGED row
    /\ UNCHANGED <<wired, run, runs, fresh, stage, at, approval, wf, notified, answer, sent, results, hooked>>

Decide(n) ==
    /\ approval[n] = "pending"
    /\ \E d \in {"approved", "denied"} : approval' = [approval EXCEPT ![n] = d]
    /\ UNCHANGED <<wired, run, runs, fresh, stage, at, wf, notified, answer, sent, results, storeVars>>

\* Faulty variant of Seeds: a resumed run starts from nothing.
SeedsForgotten == {{}}

(* A paused run hands its results back; of a cancelled or failed one the   *)
(* caller has what it checkpointed.  run_with_seed starts every node that  *)
(* is not in the seed, under new row ids; an empty seed is a fresh run,    *)
(* but results of nodes outside the model (the Wait node's) may be in it.  *)
(* The caller resumes after the writes of the run before have been carried *)
(* out or lost.                                                            *)
Seeds == IF run = "paused" THEN {done} ELSE SUBSET done

StartFrom(seed) ==
    /\ done' = seed
    /\ fresh' \in {FALSE, seed = {}}
    /\ kept' = (IF run = "paused" THEN kept ELSE {u \in kept : Last(u) \in seed})

Resume ==
    /\ run \in {"paused", "cancelled", "failed"} /\ runs < MaxRuns
    /\ ~notified /\ late = {}
    /\ \E seed \in Seeds : StartFrom(seed)
    /\ stage' = [u \in AllUnits |-> "idle"]
    /\ at' = [u \in AllUnits |-> 1]
    /\ answer' = [u \in AllUnits |-> <<>>]
    /\ run' = "active"
    /\ runs' = runs + 1
    /\ wf' = "running"
    /\ row' = [n \in Nodes |-> "none"]
    /\ hooked' = {}
    /\ UNCHANGED <<wired, approval, notified, late, sent>>

UnitStep(u) ==
    /\ u \in Live
    /\ \/ Launch(u) \/ Fetch(u) \/ GateApproves(u) \/ GateRefuses(u)
       \/ RecordStarted(u) \/ DispatchReturns(u) \/ ChainReturns(u)
       \/ DispatchFails(u) \/ RecordCompleted(u)

Next ==
    \/ \E u \in Live : UnitStep(u) \/ Settle(u) \/ TerminalFailure(u)
    \/ \E n \in Nodes : Decide(n)
    \/ Finish \/ Stop \/ FailureUpdate \/ LateWrite \/ Resume

Spec == Init /\ [][Next]_vars

(* The scheduler polls its futures and settles what they return; the       *)
(* dispatcher and the store answer (NatsDispatch!CallEnds for the first).  *)
Fairness ==
    /\ \A u \in AllUnits : WF_vars(UnitStep(u))
    /\ \A u \in AllUnits : WF_vars(u \in Live /\ Settle(u))

FairSpec == Spec /\ Fairness

-----------------------------------------------------------------------------
(* Properties.                                                             *)

(* A unit reaches the dispatcher, and leaves a row in the audit log, only  *)
(* when the gate has approved every guarded step of it: a chain whose last *)
(* step is refused runs none of its steps (engine_dispatch_pipeline.rs,    *)
(* the gate of each step comes before the first insert).                   *)
ApprovedFirst ==
    wired.gate =>
      \A u \in AllUnits :
        (u \in sent \/ (u \in Live /\ \E n \in StepsOf(u) : row[n] # "none"))
          => \A n \in StepsOf(u) \cap Guarded : approval[n] = "approved"

(* Once the failure of the run has been written, no single dispatch has a  *)
(* row that says running, whatever was on its way to the store when its    *)
(* future was dropped (race_safe_status of record_started).                *)
RaceSafeRows ==
    wf = "failed" => \A u \in Live : Single(u) => row[u[1]] # "running"

(* A chain that was answered and has returned leaves the row of each step  *)
(* closed with that step's outcome, the steps that never ran included,     *)
(* unless a store call failed; and a step is called completed, or reported *)
(* to the lifecycle hook, only if the worker said so.  A chain that        *)
(* dispatch_chain refuses leaves its rows as they are.                     *)
RowsTellTheAnswer ==
    \A u \in Live : ~Single(u) =>
      /\ (stage[u] \in {"ok", "err"} /\ answer[u] # <<>> /\ wired.store /\ ~wired.storeFails)
           => \A i \in DOMAIN u : row[u[i]] = StepWrite(u, i)
      /\ \A i \in DOMAIN u :
           (row[u[i]] = "completed" \/ u[i] \in hooked) => StepSucceeded(u, i)

(* What a run settled and handed over is not worked on again: a result in  *)
(* the seed keeps its node from being dispatched, singly or in a chain     *)
(* (run_with_seed, "treated as already completed").                        *)
SettledOnce ==
    \A u \in Live : (\E v \in kept : Last(v) = Last(u)) => stage[u] \notin Working

(* The same of every node of a unit that was dispatched and settled: "The  *)
(* seeded path treats every node in prior_results as already completed and *)
(* only schedules its successors" (docs/checkpoint-lifecycle.md:176).      *)
CompletedOnce ==
    \A u \in Live : (\E v \in kept \cap sent : StepsOf(u) \cap StepsOf(v) # {}) => stage[u] \notin Working

(* A future that is polled ends: every unit that is launched gets an       *)
(* outcome or is dropped with its run.                                     *)
UnitsEnd == \A u \in AllUnits : stage[u] = "fetch" ~> stage[u] \notin Working

(* The inductive form of ApprovedFirst and RaceSafeRows: what a future has *)
(* passed on its way to the dispatcher, and what its requests that are     *)
(* still on their way can do.                                              *)
Approved(u) == \A n \in StepsOf(u) \cap Guarded : approval[n] = "approved"
GateInv ==
    wired.gate =>
      \A u \in Live :
        /\ stage[u] \in {"insert", "wait", "complete"} => Approved(u)
        /\ stage[u] \in {"fetch", "gate"} =>
             \A i \in DOMAIN u : i < at[u] /\ u[i] \in Guarded => approval[u[i]] = "approved"
        /\ \A n \in StepsOf(u) : row[n] # "none" => Approved(u)
        /\ \A w \in late : w.node \in StepsOf(u) => Approved(u)
SentInv == wired.gate => \A u \in sent : Approved(u)
LateInv == \A u \in Live : Single(u) => \A w \in late : w.node = u[1] => w.write # "start"

(* The inductive form of SettledOnce: what was handed over has its result, *)
(* and no future of the present run works on a node that has one.          *)
SettledInv ==
    /\ \A v \in kept : Last(v) \in done
    /\ \A u \in Live : Settled(u) => stage[u] \notin Working

(* The inductive form of RowsTellTheAnswer: which rows of a chain exist and *)
(* which are closed at each stage, and what a late write may still say.    *)
Recorded == wired.store /\ ~wired.storeFails
AnswerOf(u) ==
    /\ stage[u] \in {"idle", "fetch", "gate", "insert", "wait"} => answer[u] = <<>>
    /\ stage[u] = "wait" => at[u] = 1
    /\ Recorded => \A i \in DOMAIN u :
         /\ stage[u] = "insert" /\ i < at[u] => row[u[i]] # "none"
         /\ stage[u] \in {"wait", "complete"} => row[u[i]] # "none"
         /\ stage[u] = "complete" /\ i < at[u] => row[u[i]] = StepWrite(u, i)
         /\ stage[u] \in {"ok", "err"} /\ answer[u] # <<>> => row[u[i]] = StepWrite(u, i)
    /\ \A i \in DOMAIN u : row[u[i]] = "completed" \/ u[i] \in hooked => StepSucceeded(u, i)
    /\ \A w \in late : \A i \in DOMAIN u : w.node = u[i] =>
         stage[u] = "dropped" /\ (w.write = "completed" => StepSucceeded(u, i))
AnswerInv == \A u \in Live : ~Single(u) => AnswerOf(u)

RowsInv == TypeOK /\ GateInv /\ SentInv /\ LateInv /\ RaceSafeRows

=============================================================================
