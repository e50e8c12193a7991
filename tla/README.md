# A TLA+ model of the Talos workflow engine

The engine runs a workflow: an acyclic graph of WASM modules and system nodes. A
scheduler task (the *reactor*) releases a node when its parents are done,
dispatches it to a worker through a `NodeDispatcher`, and routes the answer to the
node's children. This project models the parts where an interleaving, a lost
message, a resumed run, a nested run or a count at its limit decides whether that
is right. It checks them with TLC on small instances and proves the main safety
results with TLAPS for every instance.

## The system

Paths are relative to `src/`; `engine/` abbreviates `talos-workflow-engine/src/`.

| part | state | operations | hard behaviour |
|---|---|---|---|
| scheduler reactor (`engine/engine.rs`, `engine_completion.rs`, `scheduler_handlers.rs`) | `pending` counts, `ready` queue, `executing` futures, `results`, chain tables | pop a node and run its handler; await a future; `handle_node_success`, `handle_node_failure`, `unblock_successors`, `apply_fan_in_early_ready`; drain and join a batch of sub-workflows; pause, fail, cancel | completion order, shared children, early joins, unguarded decrements, resume from seeds |
| chain detection (`engine/chain_detect.rs`) | none (pure) | `detect_linear_chains` | degrees against edge types, joins, parallel edges |
| module dispatch (`engine/engine_dispatch_single.rs`, `engine_dispatch_pipeline.rs`) | `module_executions` rows, approvals, results of the run | fetch, ask the approval gate, record started, dispatch, record completed | a future dropped at any await, a sibling's failure, partial failure of a chain, resume |
| shared stores (`engine/engine_dispatch_pipeline.rs`, `engine.rs`) | rate counters, prefetch cache | `check_rate_limit`, the eviction task, `maybe_speculative_prefetch`, `fetch_module` | several runs, detached tasks, eviction inside a window |
| system nodes and nested engines (`engine/engine.rs`, `scheduler_handlers.rs`) | a stack of engines, attempts, candidates, history | every `try_dispatch_*`, `dispatch_*`, `execute_subworkflow_graph`, `collapse_subworkflow_output` | cyclic calls, failures below a node, pauses below a node, counters at their caps |
| graph loading and building (`engine/graph_parser.rs`, `graph_json.rs`, `graph_builder.rs`, `engine.rs`) | the builder's document, the engine's graph | builder methods, `build`, `validate`, `parse_graph_document`, `populate_sub_workflow_cache`, `add_node`, `add_edge`, the trigger node | three lists of kinds, settings in several places, the node cap, a second trigger |
| NATS dispatcher (`talos-workflow-engine-nats/src/dispatcher.rs`) | attempts, signed payload | request, answer, retry, re-sign, time out | lost and late answers, retry of what was done, timeouts |
| job protocol (`talos-workflow-job-protocol/src/lib.rs`) | global nonce cache | `sign`, `verify`, `check_and_record` | two clock reads, eviction at two sizes, several threads |
| secrets, vault, sandbox, validation, adapters, errors, test utilities | none over time | encryption, string rewriting, file checks, setters | none for a model checker |

The reactor owns all state of a run in one task. It talks to the rest by futures (a
dispatch, awaited in `executing`), by in-line awaits (judges, loops,
sub-workflows) and by shared maps (rate counters, prefetch cache). The dispatcher
talks to workers over a broker, and both ends use the job protocol. What a run
leaves behind is its results map, which a later run may start from, and the rows
it wrote to the consumer's store.

What makes each part correct:

- reactor: a node runs at most once, after its parents, and is not lost; a failure
  and a success take different branches; a marked node does not run; a run ends;
- chains: what is batched into a job is a linear path, and no node is in two;
- module dispatch: nothing guarded runs, or is recorded, without approval; the rows
  tell what the worker answered; no row is left running after the run has failed;
  what a run settled is not done again by the run that resumes it;
- shared stores: a limit holds over all runs; a run is not given a module from
  before it began;
- system nodes: a handler reports what its children did, errors reach the root,
  everything ends;
- loading: the engine runs the graph that was built; every root gets the trigger;
- dispatcher: attempts are bounded and executed at most once each, a retry is not
  mistaken for a replay, a call ends whatever the network does;
- replay cache: what is forgotten can no longer be accepted.

## Modules

| module | models | state and actions |
|---|---|---|
| `Reactor` | the loop of `run_scheduler_loop` and its completion handlers | the variables are the code's (`ready`, `pending`, `results`, `executing`); `pc` is where the task awaits; `Pop*` are the arms of the inner loop, `Drain`/`JoinReturns`/`StoreNext` the sub-workflow batch, `Route*` one iteration of a completion loop, `Complete*` an answered future, `Interrupt` the `select!` of `run_with_workflow_timeout` |
| `ReactorInv` | the inductive invariant of `Reactor`: where a node is between its release and its result (`Inv`, for a set of nodes), when an early join may be released (`QuorumInv`), and which edges a result lets through (`RouteInv`); and the refinement mapping to `RunPlan` | |
| `RunPlan` | what the scheduler promises of a unit of work, a single node or a chain (abstract) | `waits` is the graph, `begun` what was started, `outcome` what was stored, `ended` the return of `run_scheduler_loop`; `Begin` and `Answer` are a future, `Work` a handler that answers at once, `Skip` a mark of a completion loop, `Refuse` the rate limiter |
| `MCWorkflows`, `MCReactor`, `MCReactorCases` | the workflows TLC uses; chains in them come from `ChainDetect` | |
| `ChainDetect` | `detect_linear_chains` as operators | |
| `ModuleRows`, `MCModuleRows` | the two dispatch futures within one execution and the runs that resume it | `stage` and `at` are where the future of a unit (a node, or a chain) awaits; `row`, `late` and `wf` are the consumer's tables and the requests on their way to them; `Stop` and `TerminalFailure` drop the futures; `Resume` starts the next run from `done` |
| `RateLimiter` | `check_rate_limit` with its counters | `CheckRateLimit`, the eviction task, `ResetGlobalRateLimits`, a store that replaces the map and may fail (`FailOpen`), `Restart` |
| `Prefetch` | the prefetch cache of an engine | a detached task is `TaskTests`, `TaskFetches`, `TaskInserts`; `End` clears the cache, `Drop` does not |
| `NonceCache` | the freshness test of `verify` and `JobNonceCache` | `Accept` is `verify` up to the cache; `Replay` and `Record` are the two answers of `check_and_record` |
| `MCServices` | the last three side by side; they do not interact, so each behaviour has one of them at work | |
| `Composites`, `MCComposites` | the handlers of system nodes and the engines they nest | one stack frame per engine; a `*Step` operator says what a handler does with the answers it has so far, and its action takes that step; `Receive` is the return of a child run |
| `KindCodec` | `SystemNodeKind` in the builder, the parser, the validator and the reference scan | operators over one table of fields |
| `GraphLoad`, `MCGraphLoad` | builder, document, parser, trigger, direct construction | an action per builder method; `LoadGraph` is `load_graph_from_json`; `EnsureTriggerNode`, `AddNodeCall`, `AddEdgeCall` change the engine's graph |
| `JobCall` | what a dispatcher promises of one call (abstract) | |
| `NatsDispatch` | `dispatch` and `dispatch_chain` with their retry loops, against lossy, slow workers | the loop's locals; `network` and `replies` are what is in flight; workers are external and taken from the dispatcher's comments |
| `ReactorSafety`, `ReactorRouting` | proofs about the reactor | |
| `ModuleRowsProofs`, `CompositesProofs`, `NatsDispatchProofs` | proofs about the module of that name | |
| `ServicesProofs` | proofs about the three stores and their composition | |
| `ChainProofs`, `GraphLoadProofs` | proofs about the detector, and about loading and building | |

Abstractions worth knowing:

- In `Reactor` what a node computes is an outcome (ok, reject, pause, abort);
  several `SystemNodeKind`s share a shape (`Kind`). `Composites` has what the
  handlers compute, for a workflow of one node. A condition is true or false of an
  output by choice.
- The edges of a finished node are visited in any order. petgraph's order is the
  order the author added them in, which nothing constrains.
- An iteration of a completion loop is a step, although the loop does not await:
  this only adds intermediate states, and no other action is enabled in them.
- `OverflowChecks` tells a debug build (`*cnt -= 1` panics at 0) from a release
  build (it wraps modulo `UsizeMod`).
- Chain rules of `Reactor` (`ChainOK`) are assumptions on the constant `Workflow`.
  TLC evaluates them on every family, and `PipelinesAreChains` proves them of the
  chains that the detector finds in any graph.
- Edge conditions inside a chain and skip conditions of its members are not looked
  at, as in the code.
- `ModuleRows` has no edges between units: which unit may start when is
  `Reactor`'s business. Chains exist on fresh runs only; a run with a trigger input
  or with seeds dispatches every node singly. The single path records no
  completion, as in the code (the consumer's hook does). The store may fail as a
  whole (`storeFails`). A store request that was under way when its future was
  dropped may still be carried out (`late`); a resume waits for those.
- Payloads in `Composites` are four values, told apart by what handlers look for
  (a verdict, a score, `finished`).
- A document in `GraphLoad` is a list of records that say in which of its places a
  setting stands. JSON syntax, labels and handles are left out.
- A load in `GraphLoad` fetches sub-workflows (`PopulateSubWorkflowCache`) or does
  not: the sync loader never does, the async one needs a store and a user, and a
  `get_graphs` that fails leaves the cache as it is. An answer has the graphs that the user
  has in the store, any set of them (`held`). A reference is a node and a field.
- The overall status of a chain is the dispatcher's own word (`Overall` in
  `ModuleRows`), whatever its steps say.
- In `NatsDispatch` a lost message is one no worker takes; an answer to an earlier
  attempt is never taken for the current one, because each NATS request has its
  own inbox. Backoff lengths and events are left out.
- Histories, read by properties and by no guard: `fired`, `runs`, `judged`
  (Reactor); `kept` (ModuleRows); `windows` (RateLimiter); `aged`, `tidy`
  (Prefetch); `admitted`, `again`, `capped` (NonceCache); `broke`, `paused`
  (Composites); `wanted`, the engine's `held` (GraphLoad); `executed`, `succeeded`, `refused`,
  `unsigned` (NatsDispatch).

## Runs

Passing:

| run | question | bounds |
|---|---|---|
| `reactor` | `AtMostOnce`, `DependencyOrder`, `BranchExclusive`, `SkippedNeverRuns`, `NeverUnderflows`, `EdgesObeyed`: does any completion order, mix of kinds and edges, or resume start a node twice, early, or on the wrong branch? `FollowsPlan` (refinement of `RunPlan`): does every unit get one outcome, with nothing at work when the run is over? `SchedulerInv`: does the invariant of the proofs hold? | all graphs of three nodes with plain and error edges and four kinds, beside a free node; all graphs of four modules with up to four edges of three sorts, chains included; parallel edges, and edges that are conditional and on error; a diamond with every pair of kinds; resumed runs with every ancestor-closed seed |
| `liveness` | `TypeOK`, `JoinQuorum`, `NoLostNode`, `Termination`: does every run end, with nothing left behind, and do joins wait for their quorum? | the first and last family above, a diamond with every pair of kinds, a fan-in of three in every mode, joins of every mode with successors and a second join behind or beside them |
| `graph_load` | `LoadsWhatWasBuilt`, `KindsSurvive`, `ReferencesPrefetched`: does the engine run what was built? `TriggerFeedsRoots`: does every root get the trigger, also when it is installed again? `ChainsAreLinear`, `ChainsAreDisjoint`: what is a chain? `TypeOK` | documents of two nodes (three ids) and two extras, every kind with its bounds below and above the parser's limits, every set of graphs the store may have, six shapes only raw JSON has; graphs built directly of up to four nodes (the cap) and four edges, also after the trigger was installed |
| `nats_dispatch` | `FreshRetries`, `KeepsPromise` (refinement of `JobCall`), `CallEnds` | up to three retries (the cap of `graph_parser.rs` for runs without an actor), both paths, with and without a key |
| `rows` | `ApprovedFirst`, `RaceSafeRows`, `RowsTellTheAnswer`, `SettledOnce`, `UnitsEnd`, `TypeOK`: what do dropped futures, refused approvals, failing steps and a resume leave in the store and at the dispatcher? | a chain of two beside a single node, one guarded step in each, every wiring of store, gate, hook and fetcher, a first run (fresh or triggered) and a resume |
| `services` | `WindowBound`, `FreshModule`, `FreshRemembered`, `AdmittedOnce`, `TypeOK`: do limits, cached modules and nonces stay right when several users share them? | two runs with limits of their own, two modules, six seconds with a window of two; two runs, four nodes, two versions; three nonces, two verifiers, sweep above one entry, cap at two, so both sweeps happen |
| `composites` | `WinnerHonest`, `RetryHonest`, `LoopHonest`, `HistoryIsRecent`, `ErrorsSurface`, `Returns`, `TypeOK`: do handlers report what their children did, at every depth, and do they end? | every kind over modules, every pair of calling kinds, workflows that call themselves or each other, depth two, counts up to three, history of two |

Three or four nodes are enough for what the reactor can get wrong: a shared child
needs two parents, a cascade a grandchild, a batch two sub-workflows and a third
node in the queue. In `rows` a chain needs a step before and one after a failure,
and one unit beside it to fail the run. In `services` the eviction interval, the
window and the cap are small enough for each to strike while the others hold
something. What holds for larger instances is the business of the proofs. Each run
ends within three minutes on two cores.

Runs in which a statement of the repository does not hold of the code:

| run | statement | what happens |
|---|---|---|
| `cascade_lost` | grandchildren of a skipped node "get picked up when their pending reaches 0" | the count reaches 0 where nothing pushes the node, and it never runs |
| `any_join_twice` | hooks fire at most once per lifecycle event | in a release build a join with mode Any is released by each of its parents |
| `error_edge_in_chain` | error-edge children fire only on failure | two modules joined by an error edge become a chain |
| `chain_resume` | a seeded run treats every node in the prior results as completed and only schedules successors | a chain leaves one result, for its tail; a resume finds the other members without a result and runs them again |
| `nested_pause` | a paused run returns a context that says so, the signal to stop dispatching | a pause inside a sub-workflow is collapsed like a result, and the parent goes on |

Seen while modelling, in the model but without a run of their own:

- Routing: only the parent that finishes last has the conditions of its edge
  evaluated (`engine_completion.rs:309`); a handler shared by two modules is marked
  skipped by the one that succeeds; a sub-workflow drained into a batch is not
  tested for its skip condition; a gate's success and the seeds of a resume release
  children whatever the type of the edge; a join with mode Any is not released
  early by `continue_on_error` or by a system node. A join that runs twice
  (`any_join_twice`) feeds its children twice, so that a join behind it may run with a
  parent missing; `JoinQuorum` is stated for joins that are not behind such a one (`Sheltered`). `EdgesObeyed` is stated for the
  nodes this leaves, `BranchExclusive` for modules that were neither skipped nor
  allowed to continue on error.
- Chains: conditions and skip conditions inside one are not looked at; its rows are
  inserted without the race-safe start ("no concurrent sibling to race against",
  `module_execution_store.rs:64`) although other units run beside it, so one may
  stay running in a failed execution; `on_node_completed` names the tail where `node_hook.rs:95` says the
  head; a chain does not start at a join of single-child parents, although
  `chain_detect.rs` says maximal.
- Resume: the seeds of `Reactor`'s proofs are closed under ancestors; the results
  map of a run with chains is not, which is `chain_resume` seen from the other
  side.
- Rates and modules: the counters are empty after a restart unless a store is
  configured; a prefetch task may insert after the cache was cleared, a pause or a
  cancellation does not clear it, and concurrent runs of one engine share it, so a
  later run may be given an older module. `FreshModule` says so with `tidy`. Two
  tasks for one node may both fetch, although the comment on the test says only one
  proceeds (`engine_dispatch_pipeline.rs:575`).
- Nested runs: dispatch nodes file the child's output under its label, which hides
  an `__error` in it; `best_of_n` falls back to the first candidate even when that
  failed; `max_retries` of a reflective retry counts attempts; an agent loop strips
  the errors of its body.
- Loading: the batch query does not ask for the fallback of a `capability_dispatch`,
  although its id is as static as the others; nodes past the cap are dropped silently; when the trigger itself is, the
  next lookup panics; a node with a kind and no type is dropped; a system node with
  a `moduleId` that is not a UUID is dropped; a retry policy on a system node is
  lost; `config.continue_on_error` is ignored where `data` is present; an empty
  capability list or verdict expression loses the kind.
- Dispatcher: a transport error is retried without a `node_retrying` event, and the
  chain path does not retry a failed job, although the comment on
  `dispatch_with_retry` says so.

### Fairness

`FairSpec` of `Reactor` has weak fairness of the reactor's steps taken together: the
task is polled by tokio, and each thing it awaits has a timeout of its own (the
dispatcher's `tokio::time::timeout`, the budgets of the in-line handlers).
`Interrupt` is not fair: nothing promises a cancellation. `FairDispatch` has weak
fairness of `Request` (the backoff timer) and of `TimesOut` only; brokers and
workers owe nothing. In `ModuleRows` the future of each unit is polled and what it
returns is settled; people who decide approvals, stops and late writes owe nothing.
`Composites` has weak fairness of the handlers' steps, and none of the agent loop's
timeout: loops end without it.

## Proofs

All proofs are checked by TLAPS and hold for every value of the constants.

**Reactor.** Assumptions (`ReactorAssumption`): finitely many nodes, fewer edges
than a usize counts, and workflows that pass `precheck_runnable` with chains as the
detector makes them (`PipelinesAreChains`, below). `TypeCorrect` is type correctness. A join that is
released early may be started again by its other parents, and what is behind it with
it (`any_join_twice`). So the invariant `Inv(N)` is about a *calm* set of nodes: one
that holds the parents and chain members of its nodes and no early join. `NextInv`
proves it inductive for every calm set. Half of its cases are the steps that happen
at a node of the set, half are steps elsewhere (the `Away` lemmas), which may start
nodes twice and bring counters below zero, and cannot touch the set. `Steady` is the
union of the calm sets, and calm itself; `SafeInv` is `Inv(Steady(wf))`, and holds
in every workflow (`Safe`). Where the workflow is `Patient` (fan-ins wait for all
parents and seeds are closed under ancestors, as the results of a run without chains
are) every node is steady.

`AtMostOnce` is not inductive: nothing in it says why a released node is not
released again. `CountsInv` makes a pending
count the number of edges that have not fired, so it reaches 0 once, when the last
edge fires; `EdgesInv` says an edge fires once and after its source is settled;
`FiredInv` and `ExplainedInv` carry that to released and settled nodes;
`UnsettledInv`, `QueuesInv` and `WorkersInv` say a node is in one place between its
release and its result; `ChainsInv` starts the members of a chain together. The
proof has a lemma per form of step (a node leaves the queue, an edge fires, a
result is stored), used by one case per action. From it:

- `SteadyNodes`, `SteadyResults`: in any workflow, a steady node starts at most once,
  after its parents, not when it was skipped, and its result is not rewritten;
- for patient workflows the properties of the runs: `RunsOnce`, `SkippedStays`,
  `CountsSuffice` (no count underflows) and `InOrder`.

`Quorums` proves `JoinQuorum`: a join whose parents are steady does not run before
its quorum of parents has released it, in any workflow and any mode. The join itself
is not steady, so `CountsInv` does not hold of it. `QuorumInv` says what does: until
the quorum is met its count is still the number of edges that have not fired, and it
is neither released nor started. What happens to its count after the quorum is of no
concern, and that its edges fire once each comes from its parents. `EarlyExact` is
the arithmetic of `apply_fan_in_early_ready`: below the quorum it leaves the count alone.
A parent that is an early join makes the statement false: it runs twice and counts for two.

`ReactorRouting` adds `RouteInv`, which says what a result means for the edges of
its node. `HandsInv` says which queues are empty where; `LoopInv` ties the mode of a
completion loop to the result it works for; `OutcomeInv` says which edges a
module's result may have fired, and that the error edges of a failure have fired or
are about to; `SoleInv` follows a node with one parent; `ReleasedInv` says a node all
of whose edges have fired is released, has run or is settled, unless a cascade
fired the last; `HeldInv` says that work which was started is in a queue or a future
until its result is stored. It needs every node to be steady, so it is stated for patient
workflows. `Inductive` is the whole (`SchedulerInv`). From it:

- `OneBranch`: a node on an error edge and one on another edge of the same outcome
  do not both run (`BranchExclusive`);
- `EdgesDecide`: a node with one parent runs only over an edge that holds, and the
  handler of a failure does run (`EdgesObeyed`);
- `NoneLost`: when the loop ends no node is left behind with all its edges fired
  (`NoLostNode`), where also no node behind a condition has a successor
  (`Uncascaded`). Without that `cascade_lost` is a counterexample;
- `ImplementsPlan`: the scheduler implements `RunPlan` in patient workflows
  (`FollowsPlan`). The units are the nodes that are not inside a chain; a chain
  stands for itself by its head, and its outcome is the result of its tail, or the mark that a
  completion loop left on the head. A unit waits for the units that hold the other
  ends of its edges. Every step of `Reactor` is one of `RunPlan` at one unit
  (`PlanStarts`, `PlanAnswers`, `PlanDeclines`) or leaves the plan as it is
  (`PlanStill`). `UnitAble` says that the inputs of a released unit are there,
  `UnsettledInv` that an answer is the first, and `HeldInv` that a run which ends as
  completed, with queues and futures empty, has an answer for all it started. A
  run that pauses, fails or is cut short drops its futures; it does not `End`.

**ModuleRows.** `RowsTyped`, `GateComesFirst`, `RowsAreRaceSafe`, `ResultsAreKept`
(`SettledOnce`) and `RowsAreTruthful`, for any set of disjoint chains and nodes and
any number of resumed runs. The invariant `RowsInv` follows a unit on its way:
`GateInv` says which guarded steps have been approved at each stage, and that
neither a row nor a request still on its way exists without that; `SentInv` carries
it across runs; `LateInv` says that a request left behind by a single dispatch is a
race-safe one, which is why a row cannot come back to running after the failure was
written. `SettledInv` ties what was handed over to the results map, and the map to
the futures of the present run. `AnswerInv` says which rows of a chain exist and
which are closed at each stage, and what a late write may still say: a chain cannot
be told wrong by a write of its own that arrives late, because only a dropped chain
has one, and it was taken from the same answer. Approvals are never withdrawn in the model, as the
gate has no such call.

**Composites.** For every program (workflows that call themselves or each other
included), depth limit and count. `NestInv` has four parts. `ControlInv` says that
every engine but the deepest waits for a call. An invariant of a frame relates the
answers, attempts and history it has to what its handler has asked for
(`EnsembleInv`, `RetryInv`, `LoopInv`, `HistoryInv`, `StrictInv`). `SurfaceInv` says
where an error is that has not reached the root. The type invariant bounds the depth.
A step is reduced to the decision of its handler: a lemma per kind of node says the
decision is sound for the frame, and three lemmas carry sound decisions, calls and
returns to the stack. `ConsensusIsHonest` needs two facts about finite data: among
the verdicts, or the votes, there is a best one (a least element), and the k-th
candidate that succeeded has exactly k - 1 such candidates before it (counting).
`DepthBounded`, `RetriesAreHonest`, `LoopsAreHonest`, `HistoriesAreRecent` and
`ErrorsReachTheRoot` read their property off the invariant.

**Shared stores.** Each store is proved on its own, for any values of its
constants, and `Implements` shows that a behaviour of the three side by side is one
of each, so that `ServicesTyped` and `ServicesSafe` hold of the composition.

- `LimitHolds`: the limit per window, for any runs, modules and limits.
  Assumption: an entry must be older than the window before it can be evicted
  (`Window < Stale`; 60 and 300 seconds in the code). `LimiterInv` adds
  `EntryInv`: the counter counts the last window, and where it was evicted the last
  window is over.
- `NoStaleModule`: while the runs of an engine follow each other, end through one
  of the two clears and leave no task behind, no node gets a module older than its
  run. `PrefetchInv` adds `Orderly`: the tasks and the cache belong to the active
  run and hold nothing older than it.
- `WindowRemembered`, `SingleUse`: for any nonces, verifiers and sizes.
  Assumption: a `verify` takes less than `max_age_secs` from its first clock read
  to its insert, all verifiers use one `max_age_secs`, and the clock does not go
  back. The invariant adds that below the cap everything accepted less than twice
  the window ago is still there: the window of the test plus the delay of a
  `verify`. At the hard cap an entry aged exactly `max_age_secs` is dropped while
  the freshness test still admits that age, so single use is stated below the cap.

**Chain detection.** `Detection`, for any finite graph, cycles included: what
`detect_linear_chains` returns are walks of at least two nodes from a start, along
edges that nothing else leaves or joins, and two of them with a node in common are
the same. The walk is a recursive function of the step number. What it computes is
shown for each step by a least counterexample. Two walks that meet agree on
everything before the node they share, because a node inside a walk has one parent;
so they agree on their start. Graphs are acyclic when a run
starts; the proof does not need that, since a node where a walk could enter a cycle has
two parents and stops it. `PipelinesAreChains` (in `ReactorRouting`) takes this to the
reactor: a path from a start has no node twice, so the chains that are left by the
module-only filter satisfy `ChainOK`, which the reactor's theorems assume.

**Graph loading.** For documents, kinds and graphs of any size and any cap.
Assumptions: `GraphAssumption`, and `CallerAssumption`, which says that a kind given
to the builder is a value of the Rust enum (`IsKind`) and that a raw node has the
keys the parser looks at. `GraphInv` has five parts: `DocInv` (what a document is),
`WantedInv` (a typed node says what the caller asked for, until a setting missed or
an id came twice), `EngineInv` (`node_map`, the metadata and the edges are about the
nodes of the graph, within the cap), `TriggerInv` (one trigger, no two of its edges
at one node) and `LoadedInv` (what was taken of the nodes and edges of the
document). Its loops over nodes, edges and roots are recursive functions: a
lemma per turn, and a least counterexample for the whole loop. From it:

- `GraphTyped`, `BuiltIsLoaded` (`LoadsWhatWasBuilt`), `KindsComeBack`
  (`KindsSurvive`: over the tables of kinds and fields, bringing a value within its
  bounds twice is bringing it once), `CacheIsTheAnswer`
  (`ReferencesPrefetched`: the cache is what the store answered to the batch query,
  which asks for all that nodes name except the fallback of a `capability_dispatch`);
- `RootsAreFed` (`TriggerFeedsRoots`), an action property: every root has an edge from the
  trigger after each installation, and none has two;
- `ChainsLinear`, `ChainsDisjoint`, by `Detection`.

**NatsDispatch.** `RetriesAreFresh` and `Implements` (every step is a step of
`JobCall` or leaves it), for every retry policy. The invariant relates attempts,
requests and nonces: one request per attempt, no two with a nonce in common while
signing works.

Only model-checked: `Termination`, `CallEnds`, `UnitsEnd` and `Returns` (liveness,
out of the prover's reach). Every safety property of a passing run is stated by a
theorem; so are the two refinements. Those of the
reactor except `TypeOK` and `JoinQuorum` are for patient workflows: joins wait for
all parents and the seed is closed under ancestors.

## Not modelled

Formatting, JSON syntax, encryption, HMAC, file checks, redaction and logging have
no behaviour over time; the engine builder and the adapters are setters.
`PROJECT.json` lists each part with the reason. Six hazards are named there without
a property. Two are outside the model: the exponent of the backoff needs 65 retries,
and the vote key of an ensemble is cut at a byte that may lie inside a character.
Four are in it, and the code does what no text of it rules out: the conditions of
the parent that finishes last count, the rows of a chain may stay running beside a
failure or when `dispatch_chain` returns an error, and a prefetch task may insert
after its run has cleared the cache. Others name a property for a part of what can
go wrong, and their notes say which: units in flight when a run is dropped may be
dispatched again, conditions inside a chain are not looked at, and a graph at its
cap panics when the trigger is installed.

## Plan

`Composites` over child workflows of several nodes, by composing it with `RunPlan`,
which the reactor implements.
