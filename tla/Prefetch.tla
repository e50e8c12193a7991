------------------------------- MODULE Prefetch -------------------------------
(***************************************************************************)
(* The speculative prefetch cache of an engine: detached tasks fill it,    *)
(* fetch_module empties it, the end of a run clears it.  The runs take     *)
(* &self, so several runs may share the engine and its cache.              *)
(*                                                                         *)
(* The registry publishes new versions of a module while runs go on; an    *)
(* artifact is the version that was current when it was fetched.           *)
(***************************************************************************)
EXTENDS Naturals, FiniteSets, SequencesExt

CONSTANTS
  MaxRuns,        \* bound on the runs of the engine
  PNode,
  Succ,           \* [PNode -> Seq(PNode)]: the outgoing neighbours, in order
  Eager,          \* nodes with speculative_prefetch
  Modular,        \* nodes with a module id
  MaxSuccessors,  \* max_prefetch_successors
  MaxVersion      \* bound on the versions that are published

PRun == 1 .. MaxRuns   \* in the order in which they begin

ASSUME PrefetchAssumption ==
  /\ MaxRuns \in Nat
  /\ Succ \in [PNode -> Seq(PNode)]
  /\ MaxSuccessors \in Nat /\ MaxVersion \in Nat \ {0}

VARIABLES
  version,   \* the version in the registry
  cache,     \* module_prefetch_cache: version per node, 0 where there is none
  tasks,     \* the prefetch tasks that have not ended
  phase,     \* of each run
  began,     \* the version that was current when the run began
  launched,  \* the nodes each run has launched
  fetched,   \* the ones whose fetch_module has returned
  aged,      \* history: the runs that were given an artifact older than they are
  tidy       \* history: no run overlapped another, was dropped, or outlived by a task

prefetchVars == <<version, cache, tasks, phase, began, launched, fetched, aged, tidy>>

\* The artifact is 0 until the registry has answered.
Task == [run : PRun, from : PNode, node : PNode, stage : {"test", "fetch", "insert"}, artifact : 0 .. MaxVersion]

PrefetchTypeOK ==
  /\ version \in 1 .. MaxVersion
  /\ cache \in [PNode -> 0 .. MaxVersion]
  /\ tasks \subseteq Task
  /\ phase \in [PRun -> {"new", "active", "ended"}]
  /\ began \in [PRun -> 0 .. MaxVersion]
  /\ launched \in [PRun -> SUBSET PNode]
  /\ fetched \in [PRun -> SUBSET PNode]
  /\ aged \subseteq PRun
  /\ tidy \in BOOLEAN

PrefetchInit ==
  /\ version = 1
  /\ cache = [n \in PNode |-> 0]
  /\ tasks = {}
  /\ phase = [r \in PRun |-> "new"]
  /\ began = [r \in PRun |-> 0]
  /\ launched = [r \in PRun |-> {}]
  /\ fetched = [r \in PRun |-> {}]
  /\ aged = {}
  /\ tidy = TRUE

-----------------------------------------------------------------------------

Begin(r) ==
  /\ phase[r] = "new" /\ \A q \in PRun : phase[q] = "new" => r <= q
  /\ phase' = [phase EXCEPT ![r] = "active"]
  /\ began' = [began EXCEPT ![r] = version]
  /\ tidy' = (tidy /\ \A q \in PRun : phase[q] # "active")
  /\ UNCHANGED <<version, cache, tasks, launched, fetched, aged>>

\* The first successors are looked at, the ones without a module among them too.
Prefetched(n) ==
  IF n \notin Eager THEN {}
  ELSE {Succ[n][i] : i \in {j \in DOMAIN Succ[n] : j <= MaxSuccessors}} \cap Modular

\* The future of a node is queued; then its successors are prefetched.
LaunchNode(r, n) ==
  /\ phase[r] = "active" /\ n \in Modular \ launched[r]
  /\ launched' = [launched EXCEPT ![r] = @ \cup {n}]
  /\ tasks' = tasks \cup {[run |-> r, from |-> n, node |-> s, stage |-> "test", artifact |-> 0] : s \in Prefetched(n)}
  /\ UNCHANGED <<version, cache, phase, began, fetched, aged, tidy>>

Staged(t, stage, artifact) ==
  [run |-> t.run, from |-> t.from, node |-> t.node, stage |-> stage, artifact |-> artifact]
Moved(t, stage, artifact) == (tasks \ {t}) \cup {Staged(t, stage, artifact)}

\* Nothing to do where the cache has the node; the test and the insert are apart.
TaskTests(t) ==
  /\ t.stage = "test"
  /\ tasks' = IF cache[t.node] # 0 THEN tasks \ {t} ELSE Moved(t, "fetch", 0)
  /\ UNCHANGED <<version, cache, phase, began, launched, fetched, aged, tidy>>

\* The registry answers; or it fails, or the five seconds are over.
TaskFetches(t) ==
  /\ t.stage = "fetch"
  /\ tasks' \in {Moved(t, "insert", version), tasks \ {t}}
  /\ UNCHANGED <<version, cache, phase, began, launched, fetched, aged, tidy>>

OrInsert(old, new) == IF old # 0 THEN old ELSE new

TaskInserts(t) ==
  /\ t.stage = "insert"
  /\ cache' = [cache EXCEPT ![t.node] = OrInsert(@, t.artifact)]
  /\ tasks' = tasks \ {t}
  /\ UNCHANGED <<version, phase, began, launched, fetched, aged, tidy>>

\* fetch_module takes the artifact out of the cache, or asks the registry.
FetchModule(r, n) ==
  /\ phase[r] = "active" /\ n \in launched[r] \ fetched[r]
  /\ fetched' = [fetched EXCEPT ![r] = @ \cup {n}]
  /\ aged' = IF cache[n] # 0 /\ cache[n] < began[r] THEN aged \cup {r} ELSE aged
  /\ cache' = [cache EXCEPT ![n] = 0]
  /\ UNCHANGED <<version, tasks, phase, began, launched, tidy>>

Outlived(r) == \E t \in tasks : t.run = r

\* Faulty variant of Cleared: what was not consumed stays.
CacheKept == cache
Cleared == [n \in PNode |-> 0]

\* The loop is done, or a node has failed: the cache is cleared.
End(r) ==
  /\ phase[r] = "active"
  /\ phase' = [phase EXCEPT ![r] = "ended"]
  /\ cache' = Cleared
  /\ tidy' = (tidy /\ ~Outlived(r))
  /\ UNCHANGED <<version, tasks, began, launched, fetched, aged>>

\* A pause returns early; cancellation and the wall-clock cap drop the run.
Drop(r) ==
  /\ phase[r] = "active"
  /\ phase' = [phase EXCEPT ![r] = "ended"]
  /\ tidy' = FALSE
  /\ UNCHANGED <<version, cache, tasks, began, launched, fetched, aged>>

Publish ==
  /\ version < MaxVersion
  /\ version' = version + 1
  /\ UNCHANGED <<cache, tasks, phase, began, launched, fetched, aged, tidy>>

PrefetchNext ==
  \/ \E r \in PRun : Begin(r) \/ End(r) \/ Drop(r)
  \/ \E r \in PRun, n \in PNode : LaunchNode(r, n) \/ FetchModule(r, n)
  \/ \E t \in tasks : TaskTests(t) \/ TaskFetches(t) \/ TaskInserts(t)
  \/ Publish

PrefetchSpec == PrefetchInit /\ [][PrefetchNext]_prefetchVars

-----------------------------------------------------------------------------

\* While the runs of an engine follow each other and leave no task behind, a
\* node is never given an artifact older than its run: what a run did not
\* consume is released before the next one begins (the two clears, at the end
\* of the scheduler loop and in handle_node_failure).
FreshModule == tidy => aged = {}

\* The inductive form: one run at a time, whose tasks these are, and nothing in
\* the cache or on its way into it that is older than the run.
Orderly ==
  /\ aged = {}
  /\ \A q, r \in PRun : phase[q] = "active" /\ phase[r] = "active" => q = r
  /\ \A t \in tasks : phase[t.run] = "active" /\ (t.artifact # 0 => began[t.run] <= t.artifact)
  /\ \A n \in PNode : cache[n] # 0 => \E r \in PRun : phase[r] = "active"
  /\ \A n \in PNode, r \in PRun : cache[n] # 0 /\ phase[r] = "active" => began[r] <= cache[n]
PrefetchInv ==
  /\ PrefetchTypeOK
  /\ \A r \in PRun : began[r] <= version
  /\ tidy => Orderly

=============================================================================
