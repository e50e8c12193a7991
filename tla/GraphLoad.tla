------------------------------ MODULE GraphLoad ------------------------------
(***************************************************************************)
(* From builder calls to the graph the scheduler runs: the fluent builder, *)
(* the JSON document it emits, the validator, the parser that fills the    *)
(* engine, the batch fetch of sub-workflows, the synthetic trigger, and    *)
(* what the chain detector makes of the result.  The engine's graph can    *)
(* also be built directly with add_node and add_edge.                      *)
(*                                                                         *)
(* A node of a document is a record: type ("uuid", "system", "other" or    *)
(* "none"), moduleId ("uuid", "text" or "none"), kind ("none" or a kind    *)
(* string), data (fields; has_data says whether there is any) and, for     *)
(* skip_condition and continue_on_error, the places that set it: the node  *)
(* itself, its `data' or its `config'.                                     *)
(***************************************************************************)
EXTENDS KindCodec, ChainDetect, SequencesExt

CONSTANTS
  Id,             \* ids of nodes, as numbers
  Trigger,        \* the id of the synthetic trigger
  Cap,            \* max_workflow_nodes
  KindValue,      \* kinds a caller adds
  RawNode,        \* nodes a caller adds as JSON
  MaxDocNodes, MaxDocId, MaxExtras, \* bounds on a document
  MaxEdges        \* bound on the edges that are added directly

ASSUME GraphAssumption ==
  /\ Id \subseteq Nat /\ Trigger \in Nat \ Id
  /\ Cap \in Nat \ {0}

\* A caller's kinds are values of the enum, its nodes have the keys of a node.
ASSUME CallerAssumption ==
  /\ \A kind \in KindValue : IsKind(kind)
  /\ \A n \in RawNode : n = [id |-> n.id, type |-> n.type, moduleId |-> n.moduleId, kind |-> n.kind,
                             has_data |-> n.has_data, data |-> n.data, skip |-> n.skip, coe |-> n.coe,
                             retry |-> n.retry]

VARIABLES
  doc,      \* the builder: nodes, edges, errors
  wanted,   \* history: the settings the caller asked for
  eng,      \* the engine's graph
  phase     \* "build", "loaded", "direct", "refused" or "panicked"

vars == <<doc, wanted, eng, phase>>

Retries == {Absent, 0, 5}
NoRetry == Absent
EmptyEngine ==
  [nodes |-> <<>>, map |-> <<>>, meta |-> <<>>, labels |-> {}, skip |-> {}, coe |-> {},
   edges |-> {}, cached |-> {}, held |-> {}, actor |-> FALSE]

Init ==
  /\ doc = [nodes |-> <<>>, edges |-> <<>>, errors |-> {}, raw |-> FALSE]
  /\ wanted = [skip |-> {}, coe |-> {}, retry |-> [i \in Id |-> NoRetry]]
  /\ eng = EmptyEngine
  /\ phase = "build"

-----------------------------------------------------------------------------
(* The builder *)

Building == phase = "build" /\ UNCHANGED <<eng, phase>>
Ids(nodes) == {nodes[i].id : i \in DOMAIN nodes}
PushNode(node) == doc' = [doc EXCEPT !.nodes = Append(@, node)]
DocId == {i \in Id : i <= MaxDocId}

\* Bounds: the ids of a document are numbered in the order of their first use;
\* settings and edges count as extras, and the fields of a kind as two of them.
NextNode(i) == Len(doc.nodes) < MaxDocNodes /\ \A j \in 1 .. i - 1 : j \in Ids(doc.nodes)
Kinded(n) == n.data # <<>>
Extras == 2 * Len(SelectSeq(doc.nodes, Kinded)) + Len(doc.edges) + Cardinality(doc.errors)
            + Cardinality(wanted.skip) + Cardinality(wanted.coe)
            + Cardinality({j \in Id : wanted.retry[j] # NoRetry})

\* config is the module's own configuration: none, or an object that may carry a
\* skip condition.
AddModule(i, has_data, skip) ==
  /\ Building /\ NextNode(i)
  /\ PushNode([id |-> i, type |-> "uuid", moduleId |-> "none", kind |-> "none",
               has_data |-> has_data, data |-> <<>>,
               skip |-> IF has_data /\ skip THEN {"data"} ELSE {}, coe |-> {}, retry |-> NoRetry])
  /\ wanted' = IF has_data /\ skip THEN [wanted EXCEPT !.skip = @ \cup {i}] ELSE wanted

AddSystemNode(i, kind) ==
  /\ Building /\ NextNode(i) /\ (kind.data # <<>> => Extras + 2 <= MaxExtras)
  /\ PushNode([id |-> i, type |-> "system", moduleId |-> "none", kind |-> kind.name,
               has_data |-> TRUE, data |-> SerializeKind(kind),
               skip |-> {}, coe |-> {}, retry |-> NoRetry])
  /\ UNCHANGED wanted

AddRawNode(i, raw) ==
  /\ Building /\ NextNode(i)
  /\ doc' = [doc EXCEPT !.nodes = Append(@, [raw EXCEPT !.id = i]), !.raw = TRUE]
  /\ UNCHANGED wanted

\* find_node_obj_mut: the first node with the id, or none.
Found(i) == {k \in DOMAIN doc.nodes : doc.nodes[k].id = i /\ \A l \in 1 .. k - 1 : doc.nodes[l].id # i}

\* A setting on an unknown id is recorded as an error and changes no node.
\* nodes: the nodes as they are with the setting.
Set(i, method, nodes) ==
  /\ Building /\ Extras < MaxExtras
  /\ doc' = IF Found(i) = {} THEN [doc EXCEPT !.errors = @ \cup {<<i, method>>}]
            ELSE [doc EXCEPT !.nodes = [k \in DOMAIN @ |-> IF k \in Found(i) THEN nodes[k] ELSE @[k]]]

WithSkipCondition(i) ==
  /\ Set(i, "with_skip_condition", [k \in DOMAIN doc.nodes |-> [doc.nodes[k] EXCEPT !.skip = @ \cup {"node"}]])
  /\ wanted' = [wanted EXCEPT !.skip = @ \cup {i}]

WithContinueOnError(i) ==
  /\ Set(i, "with_continue_on_error", [k \in DOMAIN doc.nodes |-> [doc.nodes[k] EXCEPT !.coe = @ \cup {"node"}]])
  /\ wanted' = [wanted EXCEPT !.coe = @ \cup {i}]

WithRetry(i, max) ==
  /\ Set(i, "with_retry", [k \in DOMAIN doc.nodes |-> [doc.nodes[k] EXCEPT !.retry = max]])
  /\ wanted' = [wanted EXCEPT !.retry[i] = max]

\* Edges are not checked against the nodes; the handles are left out.
Edge(i, j, cond) ==
  /\ Building /\ Extras < MaxExtras
  /\ doc' = [doc EXCEPT !.edges = Append(@, [src |-> i, dst |-> j, cond |-> cond])]
  /\ UNCHANGED wanted

-----------------------------------------------------------------------------
(* The engine's graph *)

\* HashMap::insert: a second entry for a key replaces the first.
Inserted(f, i, x) == [j \in DOMAIN f \cup {i} |-> IF j = i THEN x ELSE f[j]]

\* Faulty variant of AddNode: one node too many.
AddNodeOver(g, i, meta) ==
  IF Len(g.nodes) > Cap THEN g
  ELSE [g EXCEPT !.nodes = Append(@, i),
                 !.map = Inserted(@, i, Len(g.nodes) + 1),
                 !.meta = Inserted(@, i, meta)]

\* Past the cap a node is dropped.
AddNode(g, i, meta) ==
  IF Len(g.nodes) >= Cap THEN g
  ELSE [g EXCEPT !.nodes = Append(@, i),
                 !.map = Inserted(@, i, Len(g.nodes) + 1),
                 !.meta = Inserted(@, i, meta)]

\* An edge with an endpoint that is not in node_map is an error, which the parser
\* drops.
AddEdge(g, i, j, cond) ==
  IF {i, j} \subseteq DOMAIN g.map
  THEN [g EXCEPT !.edges = @ \cup {[src |-> g.map[i], dst |-> g.map[j],
                                    key |-> Cardinality(g.edges), cond |-> cond]}]
  ELSE g

-----------------------------------------------------------------------------
(* The parser *)

\* `type' when it is a UUID, else data.moduleId whatever it says.
ModuleIdStr(n) == IF n.type = "uuid" THEN "uuid" ELSE n.moduleId
IsModule(n) == ModuleIdStr(n) = "uuid"
IsSystem(n) == ModuleIdStr(n) = "none" /\ n.type = "system"
Taken(n) == IsModule(n) \/ IsSystem(n)

\* Faulty variant of SkipPlaces: `data' hides the other places.
SkipPlacesInData(n) == IF n.has_data THEN {"data"} ELSE {"node", "config"}

\* Where a setting is looked for depends on the sort of node and on `data'.
SkipPlaces(n) ==
  CASE IsModule(n) -> IF n.has_data THEN {"data", "node", "config"} ELSE {"node", "config"}
    [] IsSystem(n) -> IF n.has_data THEN {"data", "node"} ELSE {}
ContinuePlaces(n) ==
  CASE IsModule(n) -> IF n.has_data THEN {"data", "node"} ELSE {"node", "config"}
    [] IsSystem(n) -> IF n.has_data THEN {"data", "node"} ELSE {}

\* Without an actor there is no budget that bounds the retries.
MaxRetriesUnbudgeted == 3
RetryPolicy(n, actor) ==
  IF IsSystem(n) \/ n.retry = NoRetry THEN NoRetry
  ELSE IF ~actor /\ n.retry > MaxRetriesUnbudgeted THEN MaxRetriesUnbudgeted ELSE n.retry

\* A module's kind is read from `kind' only; a system node's also from its type,
\* which the records of this model do not spell out.
Decoded(n) == IF n.kind = "none" THEN NoKind ELSE ParseSystemNodeKind(n.kind, n.data)

TakeNode(g, n) ==
  IF ~Taken(n) THEN g
  ELSE AddNode([g EXCEPT !.labels = @ \cup {n.id},
                         !.skip = IF n.skip \cap SkipPlaces(n) # {} THEN @ \cup {n.id} ELSE @,
                         !.coe = IF n.coe \cap ContinuePlaces(n) # {} THEN @ \cup {n.id} ELSE @],
               n.id, [module |-> IsModule(n), retry |-> RetryPolicy(n, g.actor), kind |-> Decoded(n)])

\* An edge needs both ends among the nodes taken from this document.
TakenIds == {doc.nodes[k].id : k \in {l \in DOMAIN doc.nodes : Taken(doc.nodes[l])}}
TakeEdge(g, e) == IF {e.src, e.dst} \subseteq TakenIds THEN AddEdge(g, e.src, e.dst, e.cond) ELSE g

\* One loop over the nodes of the document, one over its edges.
TakeNodes(g) ==
  LET after[k \in 0 .. Len(doc.nodes)] == IF k = 0 THEN g ELSE TakeNode(after[k - 1], doc.nodes[k])
  IN  after[Len(doc.nodes)]
TakeEdges(g) ==
  LET after[k \in 0 .. Len(doc.edges)] == IF k = 0 THEN g ELSE TakeEdge(after[k - 1], doc.edges[k])
  IN  after[Len(doc.edges)]
ParseGraphDocument(g) == TakeEdges(TakeNodes(g))

\* What the batch query asks for, and all that could be asked for at load time.  A
\* reference is a node and a field: two that name one workflow are told apart.
SubWorkflowIds(g) == UNION {{<<i, f>> : f \in References(g.meta[i].kind)} : i \in DOMAIN g.meta}
StaticRefs(g) == UNION {{<<i, f>> : f \in Named(g.meta[i].kind)} : i \in DOMAIN g.meta}

\* get_graphs answers from the graphs that the user has in the store: held, which
\* the engine does not see but for the answer.
PopulateSubWorkflowCache(g, held) ==
  [g EXCEPT !.cached = @ \cup (SubWorkflowIds(g) \cap held), !.held = held]

\* Only the async entry point fetches, and only with a store and a user; when the
\* query fails nothing is cached.
LoadGraph ==
  /\ phase = "build" /\ doc.errors = {} /\ doc.nodes # <<>>
  /\ \E actor \in BOOLEAN :
       LET g == ParseGraphDocument([eng EXCEPT !.actor = actor])
       IN  \/ eng' = g
           \/ \E held \in SUBSET StaticRefs(g) : eng' = PopulateSubWorkflowCache(g, held)
  /\ phase' = "loaded"
  /\ UNCHANGED <<doc, wanted>>

\* build refuses with the errors it has, the parser an empty document.
LoadRefused ==
  /\ phase = "build" /\ (doc.errors # {} \/ doc.nodes = <<>>)
  /\ phase' = "refused"
  /\ UNCHANGED <<doc, wanted, eng>>

-----------------------------------------------------------------------------
(* The trigger, and the direct interface *)

Indices == DOMAIN eng.nodes
\* Faulty variant of Roots: only the nodes without any edge.
RootsIsolated(g) == {k \in DOMAIN g.nodes : g.nodes[k] # Trigger /\ \A e \in g.edges : k \notin {e.src, e.dst}}

Roots(g) == {k \in DOMAIN g.nodes : g.nodes[k] # Trigger /\ \A e \in g.edges : e.dst # k}

\* add_node drops the trigger of a full graph.
WithTrigger ==
  IF Trigger \in eng.labels THEN eng
  ELSE [AddNode(eng, Trigger, [module |-> FALSE, retry |-> NoRetry, kind |-> NoKind])
          EXCEPT !.labels = @ \cup {Trigger}]

\* The edge goes to the index that node_map has for the root's id, once.
Fed(h, i) == \E e \in h.edges : e.src = h.map[Trigger] /\ e.dst = h.map[i]
Feed(h, i) == IF Fed(h, i) THEN h ELSE AddEdge(h, Trigger, i, FALSE)
FeedRoots(g) ==
  LET after[k \in 0 .. Len(g.nodes)] ==
        IF k = 0 THEN g ELSE IF k \in Roots(g) THEN Feed(after[k - 1], g.nodes[k]) ELSE after[k - 1]
  IN  after[Len(g.nodes)]

\* Without the trigger, node_map[trigger] panics at the first root.
EnsureTriggerNode ==
  /\ phase \in {"loaded", "direct"}
  /\ IF Roots(WithTrigger) # {} /\ Trigger \notin DOMAIN WithTrigger.map
     THEN phase' = "panicked" /\ UNCHANGED eng
     ELSE eng' = FeedRoots(WithTrigger) /\ UNCHANGED phase
  /\ UNCHANGED <<doc, wanted>>

\* The direct interface starts from an empty engine.  Nodes are numbered as they
\* are added, and edges go up: a cyclic graph is refused before it is run.
AddNodeCall(i) ==
  /\ phase = "direct" \/ (phase = "build" /\ doc.nodes = <<>> /\ doc.edges = <<>> /\ doc.errors = {})
  /\ \A j \in DOMAIN eng.map : j < i
  /\ phase' = "direct"
  /\ eng' = AddNode(eng, i, [module |-> TRUE, retry |-> NoRetry, kind |-> NoKind])
  /\ UNCHANGED <<doc, wanted>>

AddEdgeCall(i, j) ==
  /\ phase = "direct" /\ i < j /\ Cardinality(eng.edges) < MaxEdges
  /\ eng' = AddEdge(eng, i, j, FALSE)
  /\ UNCHANGED <<doc, wanted, phase>>

Next ==
  \/ \E i \in DocId :
       \/ \E b, c \in BOOLEAN : AddModule(i, b, c)
       \/ \E k \in KindValue : AddSystemNode(i, k)
       \/ \E r \in RawNode : AddRawNode(i, r)
       \/ WithSkipCondition(i) \/ WithContinueOnError(i) \/ \E m \in Retries \ {NoRetry} : WithRetry(i, m)
       \/ \E j \in DocId, c \in BOOLEAN : Edge(i, j, c)
  \/ \E i, j \in Id : AddNodeCall(i) \/ AddEdgeCall(i, j)
  \/ LoadGraph \/ LoadRefused \/ EnsureTriggerNode

Spec == Init /\ [][Next]_vars

-----------------------------------------------------------------------------
(* The validator *)

IsAnnotation(n) == IF n.kind # "none" THEN ~KnownSystemKind(n.kind) ELSE ~(n.type = "uuid" \/ n.moduleId = "uuid")
AnnotationCount == Cardinality({k \in DOMAIN doc.nodes : IsAnnotation(doc.nodes[k])})
SystemNodeKinds == {doc.nodes[k].kind : k \in DOMAIN doc.nodes} \ {"none"}

-----------------------------------------------------------------------------
(* Properties *)

TypeOK ==
  /\ phase \in {"build", "loaded", "direct", "refused", "panicked"}
  /\ Len(eng.nodes) <= Cap
  /\ DOMAIN eng.map = ToSet(eng.nodes) /\ DOMAIN eng.meta = DOMAIN eng.map
  /\ \A i \in DOMAIN eng.map : eng.nodes[eng.map[i]] = i
  /\ \A e \in eng.edges : {e.src, e.dst} \subseteq Indices

Typed == ~doc.raw /\ Cardinality(Ids(doc.nodes)) = Len(doc.nodes)
Meant(k) == LET n == doc.nodes[k] IN [name |-> n.kind, data |-> n.data]

\* What the typed builder was told is what the engine runs: every node is there
\* (up to the cap), exactly the wanted nodes have a skip condition or continue on
\* error wherever the setting was put, a module has the retries asked for and at
\* most three without an actor, and the edges are those between nodes that exist.
LoadsWhatWasBuilt ==
  (phase = "loaded" /\ Typed /\ Len(doc.nodes) <= Cap) =>
    /\ Ids(doc.nodes) = DOMAIN eng.map \ {Trigger}
    /\ eng.skip = wanted.skip /\ eng.coe = wanted.coe
    /\ \A i \in Ids(doc.nodes) : eng.meta[i].module =>
         eng.meta[i].retry = IF eng.actor \/ wanted.retry[i] < 3 THEN wanted.retry[i] ELSE 3
    /\ Cardinality({e \in eng.edges : eng.nodes[e.src] # Trigger})
         = Cardinality({k \in DOMAIN doc.edges : {doc.edges[k].src, doc.edges[k].dst} \subseteq Ids(doc.nodes)})
    /\ \A e \in eng.edges : eng.nodes[e.src] # Trigger =>
         \E k \in DOMAIN doc.edges :
           doc.edges[k] = [src |-> eng.nodes[e.src], dst |-> eng.nodes[e.dst], cond |-> e.cond]

\* A system node comes back as the kind it was, its iterations within the limits
\* of the parser, and loading it a second time changes nothing; it loses its kind
\* only for an empty expression or list.
KindsRoundTrip ==
  (phase = "loaded" /\ Typed) =>
    \A k \in DOMAIN doc.nodes : LET n == doc.nodes[k] IN (n.type = "system" /\ n.id \in DOMAIN eng.meta) =>
      LET kind == eng.meta[n.id].kind
          told(f) == IF f \in DOMAIN n.data THEN n.data[f] ELSE Absent
      IN  IF kind = NoKind THEN n.kind \in {"capability_dispatch", "inline_judge"}
          ELSE /\ kind.name = n.kind
               /\ ParseSystemNodeKind(kind.name, SerializeKind(kind)) = kind
               /\ \A f \in DOMAIN kind.data :
                    \/ kind.data[f] = told(f)
                    \/ f = "max_iterations" /\ kind.data[f] \in {50, 100} /\ told(f) > kind.data[f]
                    \/ f \in {"count", "max_retries", "threshold"} /\ kind.data[f] \in {1, 2, 5, 10, 100}
               /\ kind.name \in {"agent_loop", "react_loop"} => kind.data.max_iterations <= 50

\* The validator and the parser read typed documents alike: what the one counts
\* as annotation the other leaves out, and nothing else.
ValidatorAgrees ==
  (phase = "loaded" /\ Typed /\ Len(doc.nodes) <= Cap) =>
    /\ AnnotationCount = Len(doc.nodes) - Cardinality(DOMAIN eng.map \ {Trigger})
    /\ \A k \in DOMAIN doc.nodes : doc.nodes[k].kind \in SystemNodeKinds => KnownSystemKind(doc.nodes[k].kind)

\* The three lists of kinds, in the builder, the parser and the validator, agree:
\* the two statements above together.
KindsSurvive == KindsRoundTrip /\ ValidatorAgrees

\* Once get_graphs has answered, the cache has each graph that the store holds and
\* a node names, so that its dispatch makes no query, and no others.  The fallback
\* of a capability_dispatch is left out: it is as static, but populate_sub_workflow_cache
\* does not ask for it.  Where get_graphs was not called or failed, all nodes query.
ReferencesPrefetched ==
  phase = "loaded" =>
    eng.cached = {r \in eng.held : eng.meta[r[1]].kind.name # "capability_dispatch"}

\* Once the trigger is installed every other node has a parent, however often the
\* trigger was installed before and whatever was added in between, and no node has
\* two edges from the trigger; a root would otherwise start without its input, or
\* wait for a second trigger that never comes.
FeedsRoots ==
  (EnsureTriggerNode /\ phase' # "panicked" /\ Cardinality(ToSet(eng'.nodes)) = Len(eng'.nodes)) =>
    /\ \A k \in DOMAIN eng'.nodes : eng'.nodes[k] # Trigger => \E e \in eng'.edges : e.dst = k
    /\ \A e, f \in eng'.edges : (e.src = f.src /\ e.dst = f.dst /\ eng'.nodes[e.src] = Trigger) => e = f
    /\ \A e \in eng'.edges \ eng.edges : \A f \in eng'.edges : f.dst = e.dst => f = e
TriggerFeedsRoots == [][FeedsRoots]_vars

Detected == DetectLinearChains(Indices, eng.edges)
Acyclic == \A e \in eng.edges : eng.nodes[e.src] = Trigger \/ e.src < e.dst

\* Dispatching a chain as one job is sound: consecutive members are joined by
\* an edge, a member after the head has no parent but the member before it,
\* and a member before the tail no child but the next (chain_detect.rs, the
\* degree tests of the walk).
ChainsAreLinear ==
  Acyclic =>
    \A c \in Detected : \A i \in 1 .. Len(c) - 1 :
      /\ \E e \in eng.edges : e.src = c[i] /\ e.dst = c[i + 1]
      /\ \A e \in eng.edges : e.dst = c[i + 1] <=> e.src = c[i]

\* No node is in two chains: a node would otherwise be executed by both jobs.
ChainsAreDisjoint ==
  Acyclic => \A c, d \in Detected : ToSet(c) \cap ToSet(d) # {} => c = d

=============================================================================
