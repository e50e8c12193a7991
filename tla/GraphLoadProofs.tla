--------------------------- MODULE GraphLoadProofs ---------------------------
(***************************************************************************)
(* The engine runs the graph that was built, and what the detector makes   *)
(* of it are chains: for documents, kinds and graphs of any size.          *)
(***************************************************************************)
EXTENDS GraphLoad, ChainProofs, TLAPS

-----------------------------------------------------------------------------
(* The loops over nodes, edges and roots *)

\* Step k of a loop that started from g.
Step(loop, g, h, k) ==
  CASE loop = "nodes" -> TakeNode(h, doc.nodes[k])
    [] loop = "edges" -> TakeEdge(h, doc.edges[k])
    [] loop = "roots" -> IF k \in Roots(g) THEN Feed(h, g.nodes[k]) ELSE h

\* The engine after every step of a loop, up to step n.
IsLoop(f, loop, g, n) == \A k \in 0 .. n : f[k] = IF k = 0 THEN g ELSE Step(loop, g, f[k - 1], k)

\* There is a run of the loop of any length.
LEMMA LoopExists ==
  ASSUME NEW loop, NEW g, NEW m \in Nat
  PROVE  \E f : IsLoop(f, loop, g, m)
<1> DEFINE P(n) == \E f : IsLoop(f, loop, g, n)
           T == {n \in Nat : ~P(n)}
<1> SUFFICES ASSUME T # {} PROVE FALSE
  OBVIOUS
<1>1. PICK n \in T : \A y \in T : n <= y
  BY Least
<1>2. P(0)
  <2> DEFINE f == [k \in 0 .. 0 |-> g]
  <2>1. IsLoop(f, loop, g, 0)
    BY DEF IsLoop
  <2>2. QED BY <2>1
<1>3. n \in Nat /\ n # 0 /\ n - 1 \in Nat /\ P(n - 1) /\ ~P(n)
  <2>1. n \in Nat /\ ~P(n) BY <1>1
  <2> HIDE DEF P
  <2>2. n # 0 BY <2>1, <1>2
  <2>3. n - 1 \in Nat /\ ~(n <= n - 1) BY <2>1, <2>2
  <2>4. n - 1 \notin T BY <1>1, <2>3
  <2>5. QED BY <2>1, <2>2, <2>3, <2>4
<1>4. PICK f : IsLoop(f, loop, g, n - 1)
  BY <1>3
<1> DEFINE h == [k \in 0 .. n |-> IF k = n THEN Step(loop, g, f[n - 1], n) ELSE f[k]]
<1>5. /\ h[n] = Step(loop, g, f[n - 1], n) /\ h[n - 1] = f[n - 1]
      /\ \A k \in 0 .. n - 1 : h[k] = f[k]
  BY <1>3
<1> HIDE DEF h
<1>6. IsLoop(h, loop, g, n)
  <2> SUFFICES ASSUME NEW k \in 0 .. n PROVE h[k] = IF k = 0 THEN g ELSE Step(loop, g, h[k - 1], k)
    BY DEF IsLoop
  <2>1. CASE k = n
    BY <2>1, <1>3, <1>5
  <2>2. CASE k # n
    <3>1. k \in 0 .. n - 1 /\ (k # 0 => k - 1 \in 0 .. n - 1) BY <2>2, <1>3
    <3>2. f[k] = IF k = 0 THEN g ELSE Step(loop, g, f[k - 1], k) BY <3>1, <1>4 DEF IsLoop
    <3>3. QED BY <3>1, <3>2, <1>5
  <2>3. QED BY <2>1, <2>2
<1>7. QED BY <1>3, <1>6

\* A function that is defined by recursion is such a run.
LEMMA NodesLoop ==
  ASSUME NEW g, Len(doc.nodes) \in Nat
  PROVE  \E f : IsLoop(f, "nodes", g, Len(doc.nodes)) /\ TakeNodes(g) = f[Len(doc.nodes)]
<1> DEFINE n == Len(doc.nodes)
           after == CHOOSE f : f = [k \in 0 .. n |-> IF k = 0 THEN g ELSE TakeNode(f[k - 1], doc.nodes[k])]
<1>1. after = [k \in 0 .. n |-> IF k = 0 THEN g ELSE TakeNode(after[k - 1], doc.nodes[k])]
  <2>1. PICK f : IsLoop(f, "nodes", g, n)
    BY LoopExists
  <2> DEFINE h == [k \in 0 .. n |-> f[k]]
  <2>2. h = [k \in 0 .. n |-> IF k = 0 THEN g ELSE TakeNode(h[k - 1], doc.nodes[k])]
    BY <2>1 DEF IsLoop, Step
  <2>3. QED BY <2>2
<1>2. TakeNodes(g) = after[n]
  BY DEF TakeNodes
<1> HIDE DEF after
<1>3. IsLoop(after, "nodes", g, n)
  BY <1>1 DEF IsLoop, Step
<1>4. QED BY <1>2, <1>3

LEMMA EdgesLoop ==
  ASSUME NEW g, Len(doc.edges) \in Nat
  PROVE  \E f : IsLoop(f, "edges", g, Len(doc.edges)) /\ TakeEdges(g) = f[Len(doc.edges)]
<1> DEFINE n == Len(doc.edges)
           after == CHOOSE f : f = [k \in 0 .. n |-> IF k = 0 THEN g ELSE TakeEdge(f[k - 1], doc.edges[k])]
<1>1. after = [k \in 0 .. n |-> IF k = 0 THEN g ELSE TakeEdge(after[k - 1], doc.edges[k])]
  <2>1. PICK f : IsLoop(f, "edges", g, n)
    BY LoopExists
  <2> DEFINE h == [k \in 0 .. n |-> f[k]]
  <2>2. h = [k \in 0 .. n |-> IF k = 0 THEN g ELSE TakeEdge(h[k - 1], doc.edges[k])]
    BY <2>1 DEF IsLoop, Step
  <2>3. QED BY <2>2
<1>2. TakeEdges(g) = after[n]
  BY DEF TakeEdges
<1> HIDE DEF after
<1>3. IsLoop(after, "edges", g, n)
  BY <1>1 DEF IsLoop, Step
<1>4. QED BY <1>2, <1>3

LEMMA RootsLoop ==
  ASSUME NEW g, Len(g.nodes) \in Nat
  PROVE  \E f : IsLoop(f, "roots", g, Len(g.nodes)) /\ FeedRoots(g) = f[Len(g.nodes)]
<1> DEFINE n == Len(g.nodes)
           after == CHOOSE f : f = [k \in 0 .. n |-> IF k = 0 THEN g ELSE
                                      IF k \in Roots(g) THEN Feed(f[k - 1], g.nodes[k]) ELSE f[k - 1]]
<1>1. after = [k \in 0 .. n |-> IF k = 0 THEN g ELSE
                 IF k \in Roots(g) THEN Feed(after[k - 1], g.nodes[k]) ELSE after[k - 1]]
  <2>1. PICK f : IsLoop(f, "roots", g, n)
    BY LoopExists
  <2> DEFINE h == [k \in 0 .. n |-> f[k]]
  <2>2. h = [k \in 0 .. n |-> IF k = 0 THEN g ELSE IF k \in Roots(g) THEN Feed(h[k - 1], g.nodes[k]) ELSE h[k - 1]]
    BY <2>1 DEF IsLoop, Step
  <2>3. QED BY <2>2
<1>2. FeedRoots(g) = after[n]
  BY DEF FeedRoots
<1> HIDE DEF after
<1>3. IsLoop(after, "roots", g, n)
  BY <1>1 DEF IsLoop, Step
<1>4. QED BY <1>2, <1>3

-----------------------------------------------------------------------------
(* The shape of the engine *)

IsEngine(g) ==
  /\ g = [field \in DOMAIN g |-> g[field]]
  /\ DOMAIN g = {"nodes", "map", "meta", "labels", "skip", "coe", "edges", "cached", "held", "actor"}

\* node_map leads to every id that is in the graph and to nothing else; the edges
\* are finitely many and join nodes of the graph.
NodesOK(g) ==
  /\ g.nodes \in Seq(Id \cup {Trigger}) /\ Len(g.nodes) <= Cap
  /\ DOMAIN g.map = ToSet(g.nodes) /\ DOMAIN g.meta = ToSet(g.nodes)
  /\ \A i \in DOMAIN g.map : g.map[i] \in 1 .. Len(g.nodes) /\ g.nodes[g.map[i]] = i
EdgesOK(g) ==
  /\ IsFiniteSet(g.edges)
  /\ \A e \in g.edges : /\ e = [src |-> e.src, dst |-> e.dst, key |-> e.key, cond |-> e.cond]
                        /\ e.src \in 1 .. Len(g.nodes) /\ e.dst \in 1 .. Len(g.nodes)
                        /\ e.key \in 0 .. Cardinality(g.edges) - 1
EngineOK(g) == IsEngine(g) /\ NodesOK(g) /\ EdgesOK(g)

\* add_node keeps the engine well formed.
LEMMA AddNodeOK ==
  ASSUME NEW g, EngineOK(g), NEW i \in Id \cup {Trigger}, NEW m
  PROVE  EngineOK(AddNode(g, i, m))
<1> DEFINE h == AddNode(g, i, m)
<1>1. CASE Len(g.nodes) >= Cap
  BY <1>1 DEF AddNode
<1>2. CASE ~(Len(g.nodes) >= Cap)
  <2> DEFINE n == Len(g.nodes) + 1
  <2>1. Len(g.nodes) \in Nat /\ g.nodes \in Seq(Id \cup {Trigger}) /\ Cap \in Nat
    BY GraphAssumption DEF EngineOK, NodesOK
  <2>2. /\ h = [g EXCEPT !.nodes = Append(@, i), !.map = Inserted(@, i, n), !.meta = Inserted(@, i, m)]
    BY <1>2 DEF AddNode
  <2>3. /\ IsEngine(h) /\ h.nodes = Append(g.nodes, i) /\ h.map = Inserted(g.map, i, n)
        /\ h.meta = Inserted(g.meta, i, m) /\ h.edges = g.edges
    BY <2>2 DEF EngineOK, IsEngine
  <2>4. h.nodes \in Seq(Id \cup {Trigger}) /\ Len(h.nodes) = n /\ h.nodes[n] = i
        /\ \A k \in 1 .. Len(g.nodes) : h.nodes[k] = g.nodes[k]
    BY <2>1, <2>3, AppendProperties
  <2>5. ToSet(h.nodes) = ToSet(g.nodes) \cup {i}
    BY <2>1, <2>3, <2>4 DEF ToSet
  <2>6. DOMAIN h.map = DOMAIN g.map \cup {i} /\ DOMAIN h.meta = DOMAIN g.meta \cup {i}
        /\ h.map[i] = n /\ \A j \in DOMAIN g.map : j # i => h.map[j] = g.map[j]
    BY <2>3 DEF Inserted
  <2>7. NodesOK(h)
    BY <1>2, <2>1, <2>4, <2>5, <2>6 DEF EngineOK, NodesOK
  <2>8. EdgesOK(h)
    BY <2>1, <2>3, <2>4 DEF EngineOK, EdgesOK
  <2>9. QED BY <2>3, <2>7, <2>8 DEF EngineOK
<1>3. QED BY <1>1, <1>2

\* add_edge adds one edge, between nodes of the graph.
NewEdge(g, i, j, cond) == [src |-> g.map[i], dst |-> g.map[j], key |-> Cardinality(g.edges), cond |-> cond]
LEMMA AddEdgeOK ==
  ASSUME NEW g, EngineOK(g), NEW i, NEW j, NEW cond
  PROVE  /\ EngineOK(AddEdge(g, i, j, cond))
         /\ {i, j} \subseteq DOMAIN g.map =>
              /\ NewEdge(g, i, j, cond) \notin g.edges
              /\ AddEdge(g, i, j, cond).edges = g.edges \cup {NewEdge(g, i, j, cond)}
              /\ Cardinality(g.edges \cup {NewEdge(g, i, j, cond)}) = Cardinality(g.edges) + 1
<1> DEFINE h == AddEdge(g, i, j, cond)
           e == NewEdge(g, i, j, cond)
<1>1. CASE ~({i, j} \subseteq DOMAIN g.map)
  BY <1>1 DEF AddEdge
<1>2. CASE {i, j} \subseteq DOMAIN g.map
  <2>1. Cardinality(g.edges) \in Nat /\ IsFiniteSet(g.edges)
    BY FS_CardinalityType DEF EngineOK, EdgesOK
  <2>2. h = [g EXCEPT !.edges = g.edges \cup {e}]
    BY <1>2 DEF AddEdge, NewEdge
  <2>3. IsEngine(h) /\ h.nodes = g.nodes /\ h.map = g.map /\ h.meta = g.meta /\ h.edges = g.edges \cup {e}
    BY <2>2 DEF EngineOK, IsEngine
  <2>4. e \notin g.edges
    BY <2>1 DEF EngineOK, EdgesOK, NewEdge
  <2>5. IsFiniteSet(g.edges \cup {e}) /\ Cardinality(g.edges \cup {e}) = Cardinality(g.edges) + 1
    BY <2>1, <2>4, FS_AddElement
  <2>6. e.src \in 1 .. Len(g.nodes) /\ e.dst \in 1 .. Len(g.nodes)
    BY <1>2 DEF EngineOK, NodesOK, NewEdge
  <2>7. e = [src |-> e.src, dst |-> e.dst, key |-> e.key, cond |-> e.cond] /\ e.key = Cardinality(g.edges)
    BY DEF NewEdge
  <2> HIDE DEF e
  <2>8. EdgesOK(h)
    <3>1. ASSUME NEW x \in g.edges
          PROVE  /\ x = [src |-> x.src, dst |-> x.dst, key |-> x.key, cond |-> x.cond]
                 /\ x.src \in 1 .. Len(g.nodes) /\ x.dst \in 1 .. Len(g.nodes)
                 /\ x.key \in 0 .. Cardinality(h.edges) - 1
      BY <2>1, <2>3, <2>5 DEF EngineOK, EdgesOK
    <3>2. e.key \in 0 .. Cardinality(h.edges) - 1
      BY <2>1, <2>3, <2>5, <2>7
    <3>3. QED BY <2>3, <2>5, <2>6, <2>7, <3>1, <3>2 DEF EdgesOK
  <2>9. NodesOK(h)
    BY <2>3 DEF EngineOK, NodesOK
  <2>10. QED BY <1>2, <2>2, <2>3, <2>4, <2>5, <2>8, <2>9 DEF EngineOK, e
<1>3. QED BY <1>1, <1>2

-----------------------------------------------------------------------------
(* The invariant *)

\* A document is nodes and edges in their order.  The nodes of the typed builder
\* are modules and system nodes; a setting is on the node, or with the
\* configuration that a module was added with.
IsNode(n) ==
  /\ n = [field \in DOMAIN n |-> n[field]] /\ n.id \in Id
  /\ DOMAIN n = {"id", "type", "moduleId", "kind", "has_data", "data", "skip", "coe", "retry"}
DocInv ==
  /\ doc = [field \in DOMAIN doc |-> doc[field]] /\ DOMAIN doc = {"nodes", "edges", "errors", "raw"}
  /\ doc.nodes \in Seq(ToSet(doc.nodes))
  /\ \A k \in 1 .. Len(doc.nodes) : IsNode(doc.nodes[k])
  /\ doc.edges \in Seq([src : Id, dst : Id, cond : BOOLEAN])
IsTyped(n) ==
  /\ n.moduleId = "none" /\ n.retry \in Retries /\ n.coe \subseteq {"node"}
  /\ \/ n.type = "uuid" /\ n.kind = "none" /\ n.skip \subseteq IF n.has_data THEN {"data", "node"} ELSE {"node"}
     \/ /\ n.type = "system" /\ n.has_data /\ n.skip \subseteq {"node"}
        /\ \E kind \in KindValue : n.kind = kind.name /\ n.data = SerializeKind(kind)
Unique(nodes) == \A k, l \in 1 .. Len(nodes) : nodes[k].id = nodes[l].id => k = l

\* What was asked for is what the nodes of the document say, as long as no setting
\* missed its node and no two nodes have the same id.
Told(nodes, w) ==
  /\ \A i \in w.skip \cup w.coe : \E k \in 1 .. Len(nodes) : nodes[k].id = i
  /\ \A i \in Id : w.retry[i] # NoRetry => \E k \in 1 .. Len(nodes) : nodes[k].id = i
  /\ \A k \in 1 .. Len(nodes) : LET n == nodes[k] IN
       /\ n.id \in w.skip <=> n.skip # {}
       /\ n.id \in w.coe <=> n.coe # {}
       /\ w.retry[n.id] = n.retry
WantedInv ==
  /\ wanted = [field \in DOMAIN wanted |-> wanted[field]] /\ DOMAIN wanted = {"skip", "coe", "retry"}
  /\ DOMAIN wanted.retry = Id
  /\ ~doc.raw => \A k \in 1 .. Len(doc.nodes) : IsTyped(doc.nodes[k])
  /\ (~doc.raw /\ doc.errors = {} /\ Unique(doc.nodes)) => Told(doc.nodes, wanted)

EngineInv ==
  /\ phase \in {"build", "loaded", "direct", "refused", "panicked"}
  /\ phase \in {"build", "refused"} => eng = EmptyEngine
  /\ EngineOK(eng)

\* There is one trigger, it has its label, and no two of its edges end at the same
\* node.
TriggerOK(g) ==
  /\ \A k \in 1 .. Len(g.nodes) : g.nodes[k] = Trigger => Trigger \in g.labels /\ g.map[Trigger] = k
  /\ \A e, f \in g.edges : (g.nodes[e.src] = Trigger /\ e.src = f.src /\ e.dst = f.dst) => e = f
TriggerInv == TriggerOK(eng)

\* What the parser makes of a node.
MetaOf(n, actor) == [module |-> IsModule(n), retry |-> RetryPolicy(n, actor), kind |-> Decoded(n)]
SkipsIn(n) == Taken(n) /\ n.skip \cap SkipPlaces(n) # {}
ContinuesIn(n) == Taken(n) /\ n.coe \cap ContinuePlaces(n) # {}

\* After the nodes up to k: every node of the graph is one of them, and all the
\* nodes that are no annotation are there if they do not pass the cap.
TakenUpTo(nodes, h, k) ==
  /\ h.labels \ {Trigger} = {nodes[l].id : l \in {m \in 1 .. k : Taken(nodes[m])}}
  /\ h.skip = {nodes[l].id : l \in {m \in 1 .. k : SkipsIn(nodes[m])}}
  /\ h.coe = {nodes[l].id : l \in {m \in 1 .. k : ContinuesIn(nodes[m])}}
  /\ \A i \in DOMAIN h.map \ {Trigger} :
       \E l \in 1 .. k : Taken(nodes[l]) /\ nodes[l].id = i /\ h.meta[i] = MetaOf(nodes[l], h.actor)
  /\ k <= Cap => h.labels \ {Trigger} \subseteq DOMAIN h.map

\* After the edges up to k: one edge for each between nodes that are there.
Known(g) == DOMAIN g.map \ {Trigger}
Old(g) == {e \in g.edges : g.nodes[e.src] # Trigger}
Joinable(edges, ids, k) == {l \in 1 .. k : {edges[l].src, edges[l].dst} \subseteq ids}
DrawnUpTo(edges, h, k) ==
  /\ Cardinality(Old(h)) = Cardinality(Joinable(edges, Known(h), k))
  /\ \A e \in Old(h) : \E l \in 1 .. k :
       edges[l] = [src |-> h.nodes[e.src], dst |-> h.nodes[e.dst], cond |-> e.cond]

\* The cache has what the store answered to the batch query.
CachedOK(g) == g.held \subseteq StaticRefs(g) /\ g.cached = SubWorkflowIds(g) \cap g.held

LoadedInv ==
  phase = "loaded" =>
    /\ doc.errors = {}
    /\ TakenUpTo(doc.nodes, eng, Len(doc.nodes))
    /\ DrawnUpTo(doc.edges, eng, Len(doc.edges))
    /\ Trigger \in DOMAIN eng.map => eng.meta[Trigger].kind = NoKind
    /\ CachedOK(eng)

GraphInv == DocInv /\ WantedInv /\ EngineInv /\ TriggerInv /\ LoadedInv

-----------------------------------------------------------------------------
(* Loading *)

NodesInv(h, k, actor) ==
  /\ EngineOK(h) /\ h.edges = {} /\ h.cached = {} /\ h.held = {} /\ h.actor = actor
  /\ Trigger \notin h.labels /\ Trigger \notin DOMAIN h.map /\ Len(h.nodes) <= k
  /\ TakenUpTo(doc.nodes, h, k)

\* One turn of the loop over the nodes.
LEMMA TakeNodeStep ==
  ASSUME DocInv, NEW actor, NEW k \in 1 .. Len(doc.nodes), NEW h, NodesInv(h, k - 1, actor)
  PROVE  NodesInv(TakeNode(h, doc.nodes[k]), k, actor)
<1> DEFINE n == doc.nodes[k]
           skip == IF n.skip \cap SkipPlaces(n) # {} THEN h.skip \cup {n.id} ELSE h.skip
           coe == IF n.coe \cap ContinuePlaces(n) # {} THEN h.coe \cup {n.id} ELSE h.coe
           g == [h EXCEPT !.labels = h.labels \cup {n.id}, !.skip = skip, !.coe = coe]
           meta == MetaOf(n, actor)
           r == TakeNode(h, n)
<1>0. k \in Nat \ {0} /\ 1 .. k = 1 .. k - 1 \cup {k} /\ n.id \in Id /\ n.id # Trigger
      /\ Len(doc.nodes) \in Nat
  <2>1. IsNode(n) BY DEF DocInv
  <2>2. Len(doc.nodes) \in Nat BY DEF DocInv
  <2> HIDE DEF n
  <2>3. QED BY <2>1, <2>2, GraphAssumption DEF IsNode
<1>1. CASE ~Taken(n)
  <2>1. r = h BY <1>1 DEF TakeNode
  <2>2. TakenUpTo(doc.nodes, h, k)
    <3>1. /\ {m \in 1 .. k : Taken(doc.nodes[m])} = {m \in 1 .. k - 1 : Taken(doc.nodes[m])}
          /\ {m \in 1 .. k : SkipsIn(doc.nodes[m])} = {m \in 1 .. k - 1 : SkipsIn(doc.nodes[m])}
          /\ {m \in 1 .. k : ContinuesIn(doc.nodes[m])} = {m \in 1 .. k - 1 : ContinuesIn(doc.nodes[m])}
      BY <1>0, <1>1 DEF SkipsIn, ContinuesIn
    <3>2. QED BY <1>0, <3>1, GraphAssumption DEF NodesInv, TakenUpTo
  <2>3. Len(h.nodes) <= k
    BY <1>0 DEF NodesInv, EngineOK, NodesOK
  <2>4. QED BY <2>1, <2>2, <2>3 DEF NodesInv
<1>2. CASE Taken(n)
  <2>1. r = AddNode(g, n.id, meta)
    BY <1>2 DEF TakeNode, MetaOf, NodesInv, EngineOK, IsEngine
  <2>2. /\ IsEngine(g) /\ g.nodes = h.nodes /\ g.map = h.map /\ g.meta = h.meta /\ g.edges = h.edges
        /\ g.actor = h.actor /\ g.labels = h.labels \cup {n.id}
        /\ g.skip = (IF n.skip \cap SkipPlaces(n) # {} THEN h.skip \cup {n.id} ELSE h.skip)
        /\ g.coe = (IF n.coe \cap ContinuePlaces(n) # {} THEN h.coe \cup {n.id} ELSE h.coe)
        /\ g.cached = {} /\ g.held = {}
    <3> HIDE DEF n, skip, coe
    <3>1. /\ IsEngine(g) /\ g.nodes = h.nodes /\ g.map = h.map /\ g.meta = h.meta /\ g.edges = h.edges
          /\ g.actor = h.actor /\ g.labels = h.labels \cup {n.id} /\ g.skip = skip /\ g.coe = coe
          /\ g.cached = {} /\ g.held = {}
      BY DEF NodesInv, EngineOK, IsEngine
    <3>2. QED BY <3>1 DEF skip, coe
  <2>3. EngineOK(g)
    BY <2>2 DEF NodesInv, EngineOK, NodesOK, EdgesOK
  <2> HIDE DEF g
  <2>4. EngineOK(r)
    BY <1>0, <2>1, <2>3, AddNodeOK
  <2>5. /\ r.labels = g.labels /\ r.skip = g.skip /\ r.coe = g.coe /\ r.edges = g.edges /\ r.actor = g.actor
        /\ r.cached = g.cached /\ r.held = g.held
        /\ Len(g.nodes) >= Cap => r = g
        /\ Len(g.nodes) < Cap => /\ r.map = Inserted(g.map, n.id, Len(g.nodes) + 1)
                                 /\ r.meta = Inserted(g.meta, n.id, meta)
                                 /\ r.nodes = Append(g.nodes, n.id)
    BY <2>1, <2>2, <2>3, GraphAssumption DEF AddNode, EngineOK, IsEngine, NodesOK
  <2>6. Len(r.nodes) <= k
    BY <1>0, <2>2, <2>3, <2>5, GraphAssumption DEF NodesInv, EngineOK, NodesOK
  <2>7. Trigger \notin DOMAIN r.map /\ Trigger \notin r.labels
    BY <1>0, <2>2, <2>5, <2>3, GraphAssumption DEF NodesInv, Inserted, EngineOK, NodesOK
  <2>8. /\ {m \in 1 .. k : Taken(doc.nodes[m])} = {m \in 1 .. k - 1 : Taken(doc.nodes[m])} \cup {k}
        /\ {m \in 1 .. k : SkipsIn(doc.nodes[m])}
             = {m \in 1 .. k - 1 : SkipsIn(doc.nodes[m])} \cup (IF n.skip \cap SkipPlaces(n) # {} THEN {k} ELSE {})
        /\ {m \in 1 .. k : ContinuesIn(doc.nodes[m])}
             = {m \in 1 .. k - 1 : ContinuesIn(doc.nodes[m])} \cup (IF n.coe \cap ContinuePlaces(n) # {} THEN {k} ELSE {})
    BY <1>0, <1>2 DEF SkipsIn, ContinuesIn
  <2>9. /\ r.labels \ {Trigger} = {doc.nodes[l].id : l \in {m \in 1 .. k : Taken(doc.nodes[m])}}
        /\ r.skip = {doc.nodes[l].id : l \in {m \in 1 .. k : SkipsIn(doc.nodes[m])}}
        /\ r.coe = {doc.nodes[l].id : l \in {m \in 1 .. k : ContinuesIn(doc.nodes[m])}}
    BY <1>0, <2>2, <2>5, <2>8 DEF NodesInv, TakenUpTo
  <2>10. ASSUME NEW i \in DOMAIN r.map \ {Trigger}
         PROVE  \E l \in 1 .. k : Taken(doc.nodes[l]) /\ doc.nodes[l].id = i /\ r.meta[i] = MetaOf(doc.nodes[l], r.actor)
    <3>1. r.actor = actor BY <2>2, <2>5 DEF NodesInv
    <3>2. CASE i \in DOMAIN h.map /\ r.meta[i] = h.meta[i]
      BY <1>0, <2>10, <3>1, <3>2 DEF NodesInv, TakenUpTo
    <3>3. CASE i = n.id /\ r.meta[i] = meta
      BY <1>0, <1>2, <3>1, <3>3
    <3>4. QED BY <2>2, <2>3, <2>5, <2>10, <3>2, <3>3, GraphAssumption DEF EngineOK, NodesOK, Inserted
  <2>11. k <= Cap => r.labels \ {Trigger} \subseteq DOMAIN r.map
    BY <1>0, <2>2, <2>3, <2>5, GraphAssumption DEF NodesInv, TakenUpTo, Inserted, EngineOK, NodesOK
  <2>12. QED BY <2>2, <2>4, <2>5, <2>6, <2>7, <2>9, <2>10, <2>11 DEF NodesInv, TakenUpTo
<1>3. QED BY <1>1, <1>2

\* All of them.
LEMMA TakeNodesAll ==
  ASSUME DocInv, NEW actor \in BOOLEAN
  PROVE  NodesInv(TakeNodes([EmptyEngine EXCEPT !.actor = actor]), Len(doc.nodes), actor)
<1> DEFINE g == [EmptyEngine EXCEPT !.actor = actor]
<1>0. Len(doc.nodes) \in Nat BY DEF DocInv
<1>1. PICK f : IsLoop(f, "nodes", g, Len(doc.nodes)) /\ TakeNodes(g) = f[Len(doc.nodes)]
  BY <1>0, NodesLoop
<1>2. NodesInv(g, 0, actor)
  <2>1. /\ IsEngine(g) /\ g.nodes = <<>> /\ g.map = <<>> /\ g.meta = <<>> /\ g.labels = {}
        /\ g.skip = {} /\ g.coe = {} /\ g.edges = {} /\ g.actor = actor
        /\ g.cached = {} /\ g.held = {}
    BY DEF IsEngine, EmptyEngine
  <2> HIDE DEF g
  <2>2. EngineOK(g)
    BY <2>1, GraphAssumption, FS_EmptySet DEF EngineOK, NodesOK, EdgesOK, ToSet
  <2>3. QED BY <2>1, <2>2 DEF NodesInv, TakenUpTo
<1> HIDE DEF g
<1> DEFINE Bad == {k \in 0 .. Len(doc.nodes) : ~NodesInv(f[k], k, actor)}
<1>3. Bad = {}
  <2> SUFFICES ASSUME Bad # {} PROVE FALSE
    OBVIOUS
  <2>1. PICK k \in Bad : \A y \in Bad : k <= y
    <3>1. Bad \in SUBSET Nat OBVIOUS
    <3> HIDE DEF Bad
    <3>2. QED BY <3>1, Least
  <2>2. k \in 0 .. Len(doc.nodes) /\ f[k] = IF k = 0 THEN g ELSE Step("nodes", g, f[k - 1], k)
    BY <1>1 DEF IsLoop
  <2>3. CASE k = 0
    BY <1>2, <2>2, <2>3
  <2>4. CASE k # 0
    <3>1. k \in 1 .. Len(doc.nodes) /\ k - 1 \in 0 .. Len(doc.nodes) /\ ~(k <= k - 1)
      BY <1>0, <2>2, <2>4
    <3>2. NodesInv(f[k - 1], k - 1, actor) BY <2>1, <3>1
    <3>3. f[k] = TakeNode(f[k - 1], doc.nodes[k]) BY <2>2, <2>4 DEF Step
    <3>4. QED BY <3>1, <3>2, <3>3, TakeNodeStep
  <2>5. QED BY <2>3, <2>4
<1>4. QED BY <1>0, <1>1, <1>3 DEF g

\* h differs from g at most in its edges and its cache.
SameNodes(h, g) ==
  /\ h.nodes = g.nodes /\ h.map = g.map /\ h.meta = g.meta /\ h.labels = g.labels
  /\ h.skip = g.skip /\ h.coe = g.coe /\ h.actor = g.actor

LEMMA AddEdgeSame ==
  ASSUME NEW g, EngineOK(g), NEW i, NEW j, NEW cond
  PROVE  SameNodes(AddEdge(g, i, j, cond), g) /\ AddEdge(g, i, j, cond).cached = g.cached /\ AddEdge(g, i, j, cond).held = g.held
BY DEF AddEdge, SameNodes, EngineOK, IsEngine

EdgesInv(h, g, k) ==
  /\ EngineOK(h) /\ SameNodes(h, g) /\ h.cached = g.cached /\ h.held = g.held
  /\ DrawnUpTo(doc.edges, h, k)

\* One turn of the loop over the edges.
LEMMA TakeEdgeStep ==
  ASSUME DocInv, NEW g, Trigger \notin DOMAIN g.map, DOMAIN g.map \subseteq TakenIds,
         NEW k \in 1 .. Len(doc.edges), NEW h, EdgesInv(h, g, k - 1)
  PROVE  EdgesInv(TakeEdge(h, doc.edges[k]), g, k)
<1> DEFINE d == doc.edges[k]
           r == TakeEdge(h, d)
           Drawn(l) == Joinable(doc.edges, DOMAIN g.map, l)
<1>0. k \in Nat \ {0} /\ 1 .. k = 1 .. k - 1 \cup {k} /\ Len(doc.edges) \in Nat /\ d \in [src : Id, dst : Id, cond : BOOLEAN]
  <2>1. doc.edges \in Seq([src : Id, dst : Id, cond : BOOLEAN]) BY DEF DocInv
  <2>2. Len(doc.edges) \in Nat BY <2>1
  <2>3. d \in [src : Id, dst : Id, cond : BOOLEAN] BY <2>1, ElementOfSeq
  <2>4. QED BY <2>2, <2>3
<1>1. EngineOK(h) /\ SameNodes(h, g) /\ h.map = g.map /\ h.nodes = g.nodes
      /\ \A x \in 1 .. Len(h.nodes) : h.nodes[x] # Trigger
  BY DEF EdgesInv, SameNodes, EngineOK, NodesOK, ToSet
<1>2. ASSUME NEW x, EngineOK(x), SameNodes(x, g)
      PROVE  Old(x) = x.edges /\ Known(x) = DOMAIN g.map
  BY <1>1, <1>2 DEF Old, Known, SameNodes, EngineOK, EdgesOK
<1>3. /\ Cardinality(h.edges) = Cardinality(Drawn(k - 1))
      /\ \A e \in h.edges : \E l \in 1 .. k - 1 :
           doc.edges[l] = [src |-> g.nodes[e.src], dst |-> g.nodes[e.dst], cond |-> e.cond]
  <2>1. Old(h) = h.edges /\ Known(h) = DOMAIN g.map BY <1>1, <1>2
  <2>2. QED BY <1>1, <2>1 DEF EdgesInv, DrawnUpTo
<1>4. IsFiniteSet(Drawn(k - 1))
  <2>1. IsFiniteSet(1 .. k - 1) BY <1>0, FS_Interval
  <2>2. QED BY <2>1, FS_Subset DEF Joinable
<1>5. CASE ~({d.src, d.dst} \subseteq DOMAIN g.map)
  <2>1. r = h BY <1>1, <1>5 DEF TakeEdge, AddEdge
  <2>2. Drawn(k) = Drawn(k - 1) BY <1>0, <1>5 DEF Joinable
  <2>3. DrawnUpTo(doc.edges, h, k)
    <3>1. Old(h) = h.edges /\ Known(h) = DOMAIN g.map BY <1>1, <1>2
    <3>2. QED BY <1>0, <1>1, <1>3, <2>2, <3>1 DEF DrawnUpTo
  <2>4. QED BY <1>1, <2>1, <2>3 DEF EdgesInv
<1>6. CASE {d.src, d.dst} \subseteq DOMAIN g.map
  <2>1. r = AddEdge(h, d.src, d.dst, d.cond) /\ {d.src, d.dst} \subseteq DOMAIN h.map
    BY <1>1, <1>6 DEF TakeEdge
  <2>0. \A i, j, cond : /\ EngineOK(AddEdge(h, i, j, cond)) /\ SameNodes(AddEdge(h, i, j, cond), h)
                        /\ {i, j} \subseteq DOMAIN h.map =>
                             /\ AddEdge(h, i, j, cond).edges = h.edges \cup {NewEdge(h, i, j, cond)}
                             /\ Cardinality(h.edges \cup {NewEdge(h, i, j, cond)}) = Cardinality(h.edges) + 1
    <3>1. EngineOK(h) BY <1>1
    <3>2. TAKE i, j, cond
    <3>3. EngineOK(AddEdge(h, i, j, cond))
      BY <3>1, AddEdgeOK
    <3>4. SameNodes(AddEdge(h, i, j, cond), h)
      BY <3>1, AddEdgeSame
    <3>5. {i, j} \subseteq DOMAIN h.map =>
             /\ AddEdge(h, i, j, cond).edges = h.edges \cup {NewEdge(h, i, j, cond)}
             /\ Cardinality(h.edges \cup {NewEdge(h, i, j, cond)}) = Cardinality(h.edges) + 1
      BY <3>1, AddEdgeOK
    <3>6. QED BY <3>3, <3>4, <3>5
  <2>2. EngineOK(r) /\ SameNodes(r, g)
    <3> HIDE DEF r, d
    <3>1. EngineOK(r) /\ SameNodes(r, h) BY <2>0, <2>1
    <3>2. QED BY <1>1, <3>1 DEF SameNodes
  <2> DEFINE e == NewEdge(h, d.src, d.dst, d.cond)
  <2>3. r.edges = h.edges \cup {e} /\ Cardinality(h.edges \cup {e}) = Cardinality(h.edges) + 1
    <3> HIDE DEF r, d
    <3>1. QED BY <2>0, <2>1
  <2>4. e.src = h.map[d.src] /\ e.dst = h.map[d.dst] /\ e.cond = d.cond
    BY DEF NewEdge
  <2> HIDE DEF e
  <2>5. Drawn(k) = Drawn(k - 1) \cup {k} /\ k \notin Drawn(k - 1)
    BY <1>0, <1>6 DEF Joinable
  <2>6. Cardinality(Drawn(k)) = Cardinality(Drawn(k - 1)) + 1
    BY <1>4, <2>5, FS_AddElement
  <2>7. Cardinality(r.edges) = Cardinality(Drawn(k))
    BY <1>3, <2>3, <2>6
  <2>8. g.nodes[e.src] = d.src /\ g.nodes[e.dst] = d.dst /\ e.cond = d.cond
    BY <1>1, <1>6, <2>4 DEF EngineOK, NodesOK
  <2>9. doc.edges[k] = [src |-> g.nodes[e.src], dst |-> g.nodes[e.dst], cond |-> e.cond]
    BY <1>0, <2>8
  <2>10. \A x \in r.edges : \E l \in 1 .. k :
           doc.edges[l] = [src |-> g.nodes[x.src], dst |-> g.nodes[x.dst], cond |-> x.cond]
    BY <1>0, <1>3, <2>3, <2>9
  <2>11. DrawnUpTo(doc.edges, r, k)
    <3>1. Old(r) = r.edges /\ Known(r) = DOMAIN g.map BY <1>2, <2>2
    <3> HIDE DEF r
    <3>2. QED BY <2>2, <2>7, <2>10, <3>1 DEF DrawnUpTo, SameNodes
  <2>12. r.cached = g.cached /\ r.held = g.held
    <3>1. EngineOK(h) BY <1>1
    <3>2. r.cached = h.cached /\ r.held = h.held
      <4> HIDE DEF d
      <4>1. QED BY <2>1, <3>1, AddEdgeSame
    <3> HIDE DEF r
    <3>3. QED BY <3>2 DEF EdgesInv
  <2>13. QED BY <2>2, <2>11, <2>12 DEF EdgesInv
<1>7. QED BY <1>5, <1>6

\* All of them.
LEMMA TakeEdgesAll ==
  ASSUME DocInv, NEW g, EngineOK(g), g.edges = {}, Trigger \notin DOMAIN g.map, DOMAIN g.map \subseteq TakenIds
  PROVE  EdgesInv(TakeEdges(g), g, Len(doc.edges))
<1>0. Len(doc.edges) \in Nat BY DEF DocInv
<1>1. PICK f : IsLoop(f, "edges", g, Len(doc.edges)) /\ TakeEdges(g) = f[Len(doc.edges)]
  BY <1>0, EdgesLoop
<1>2. EdgesInv(g, g, 0)
  <2>1. Old(g) = {} BY DEF Old
  <2>2. Joinable(doc.edges, Known(g), 0) = {} BY DEF Joinable
  <2>3. DrawnUpTo(doc.edges, g, 0) BY <2>1, <2>2 DEF DrawnUpTo
  <2>4. QED BY <2>3 DEF EdgesInv, SameNodes
<1> DEFINE Bad == {k \in 0 .. Len(doc.edges) : ~EdgesInv(f[k], g, k)}
<1>3. Bad = {}
  <2> SUFFICES ASSUME Bad # {} PROVE FALSE
    OBVIOUS
  <2>1. PICK k \in Bad : \A y \in Bad : k <= y
    <3>1. Bad \in SUBSET Nat OBVIOUS
    <3> HIDE DEF Bad
    <3>2. QED BY <3>1, Least
  <2>2. k \in 0 .. Len(doc.edges) /\ f[k] = IF k = 0 THEN g ELSE Step("edges", g, f[k - 1], k)
    BY <1>1 DEF IsLoop
  <2>3. CASE k = 0
    BY <1>2, <2>2, <2>3
  <2>4. CASE k # 0
    <3>1. k \in 1 .. Len(doc.edges) /\ k - 1 \in 0 .. Len(doc.edges) /\ ~(k <= k - 1)
      BY <1>0, <2>2, <2>4
    <3>2. EdgesInv(f[k - 1], g, k - 1) BY <2>1, <3>1
    <3>3. f[k] = TakeEdge(f[k - 1], doc.edges[k]) BY <2>2, <2>4 DEF Step
    <3>4. QED BY <3>1, <3>2, <3>3, TakeEdgeStep
  <2>5. QED BY <2>3, <2>4
<1>4. QED BY <1>0, <1>1, <1>3

\* Loading establishes what LoadedInv says of a loaded engine.
LEMMA LoadGraphStep ==
  ASSUME DocInv, EngineInv, LoadGraph
  PROVE  EngineInv' /\ TriggerInv' /\ LoadedInv'
<1>1. PICK actor \in BOOLEAN : LET r == ParseGraphDocument([eng EXCEPT !.actor = actor]) IN
        eng' = r \/ \E held \in SUBSET StaticRefs(r) : eng' = PopulateSubWorkflowCache(r, held)
  BY DEF LoadGraph
<1> DEFINE g == TakeNodes([EmptyEngine EXCEPT !.actor = actor])
           h == TakeEdges(g)
<1>2. /\ eng' = h \/ \E held \in SUBSET StaticRefs(h) : eng' = PopulateSubWorkflowCache(h, held)
      /\ doc' = doc /\ phase' = "loaded" /\ doc.errors = {}
  BY <1>1 DEF LoadGraph, EngineInv, ParseGraphDocument
<1>3. NodesInv(g, Len(doc.nodes), actor)
  BY TakeNodesAll
<1>4. Trigger \notin DOMAIN g.map /\ EngineOK(g) /\ g.edges = {} /\ DOMAIN g.map \subseteq TakenIds
  <2>1. \A i \in DOMAIN g.map \ {Trigger} : \E l \in 1 .. Len(doc.nodes) : Taken(doc.nodes[l]) /\ doc.nodes[l].id = i
    BY <1>3 DEF NodesInv, TakenUpTo
  <2>2. DOMAIN doc.nodes = 1 .. Len(doc.nodes)
    BY DEF DocInv
  <2>3. QED BY <1>3, <2>1, <2>2 DEF NodesInv, TakenIds
<1>5. EdgesInv(h, g, Len(doc.edges))
  BY <1>4, TakeEdgesAll
<1> HIDE DEF g, h
<1>c. h.cached = {} /\ h.held = {}
  BY <1>3, <1>5 DEF EdgesInv, NodesInv
<1>6. /\ SameNodes(eng', g) /\ EngineOK(eng') /\ eng'.edges = h.edges
      /\ eng'.cached = SubWorkflowIds(h) \cap eng'.held /\ eng'.held \subseteq StaticRefs(h)
      /\ SameNodes(h, g)
  <2>1. CASE eng' = h BY <1>5, <1>c, <2>1 DEF EdgesInv, SameNodes
  <2>2. ASSUME NEW held \in SUBSET StaticRefs(h), eng' = PopulateSubWorkflowCache(h, held)
        PROVE  /\ SameNodes(eng', g) /\ EngineOK(eng') /\ eng'.edges = h.edges
               /\ eng'.cached = SubWorkflowIds(h) \cap eng'.held /\ eng'.held \subseteq StaticRefs(h)
               /\ SameNodes(h, g)
    <3>1. IsEngine(h) BY <1>5 DEF EdgesInv, EngineOK
    <3>2. /\ IsEngine(eng') /\ SameNodes(eng', h) /\ eng'.edges = h.edges
          /\ eng'.cached = SubWorkflowIds(h) \cap held /\ eng'.held = held
      BY <1>c, <2>2, <3>1 DEF PopulateSubWorkflowCache, IsEngine, SameNodes
    <3>3. QED BY <1>5, <3>2 DEF EdgesInv, SameNodes, EngineOK, NodesOK, EdgesOK
  <2>3. QED BY <1>2, <2>1, <2>2
<1>7. TakenUpTo(doc.nodes, eng', Len(doc.nodes))
  BY <1>3, <1>6 DEF NodesInv, TakenUpTo, SameNodes
<1>8. DrawnUpTo(doc.edges, eng', Len(doc.edges))
  <2>1. Known(eng') = Known(h) /\ Old(eng') = Old(h) BY <1>6 DEF Known, Old, SameNodes
  <2>2. QED BY <1>5, <1>6, <2>1 DEF EdgesInv, DrawnUpTo, SameNodes
<1>9. Trigger \notin DOMAIN eng'.map /\ \A k \in 1 .. Len(eng'.nodes) : eng'.nodes[k] # Trigger
  BY <1>4, <1>6 DEF SameNodes, EngineOK, NodesOK, ToSet
<1>10. CachedOK(eng')
  BY <1>6 DEF CachedOK, SameNodes, SubWorkflowIds, StaticRefs
<1>11. EngineInv' BY <1>2, <1>6 DEF EngineInv, EngineOK, IsEngine, NodesOK, EdgesOK
<1>12. TriggerInv' BY <1>6, <1>9 DEF TriggerInv, TriggerOK, EngineOK, EdgesOK
<1>13. LoadedInv' BY <1>2, <1>7, <1>8, <1>9, <1>10 DEF LoadedInv
<1>14. QED BY <1>11, <1>12, <1>13

-----------------------------------------------------------------------------
(* The trigger *)

\* h is g, perhaps with a trigger at the end; both have the same edges.
OneMore(h, g) ==
  /\ EngineOK(h) /\ TriggerOK(h) /\ Trigger \in h.labels
  /\ h.labels \ {Trigger} = g.labels \ {Trigger}
  /\ h.edges = g.edges /\ h.skip = g.skip /\ h.coe = g.coe /\ h.actor = g.actor /\ h.cached = g.cached /\ h.held = g.held
  /\ Len(g.nodes) <= Len(h.nodes) /\ \A k \in 1 .. Len(g.nodes) : h.nodes[k] = g.nodes[k]
  /\ DOMAIN h.map \ {Trigger} = DOMAIN g.map \ {Trigger}
  /\ \A i \in DOMAIN g.map : h.meta[i] = g.meta[i]
  /\ Trigger \in DOMAIN h.map \ DOMAIN g.map => h.meta[Trigger].kind = NoKind

LEMMA WithTriggerOK ==
  ASSUME EngineOK(eng), TriggerOK(eng)
  PROVE  OneMore(WithTrigger, eng)
<1> DEFINE meta == [module |-> FALSE, retry |-> NoRetry, kind |-> NoKind]
           g == AddNode(eng, Trigger, meta)
           h == [g EXCEPT !.labels = g.labels \cup {Trigger}]
<1>1. CASE Trigger \in eng.labels
  <2>1. WithTrigger = eng BY <1>1 DEF WithTrigger
  <2>2. QED BY <1>1, <2>1 DEF OneMore, EngineOK, NodesOK
<1>2. CASE Trigger \notin eng.labels
  <2>1. WithTrigger = h
    BY <1>2 DEF WithTrigger
  <2>2. EngineOK(g)
    BY AddNodeOK
  <2>3. /\ IsEngine(h) /\ h.nodes = g.nodes /\ h.map = g.map /\ h.meta = g.meta /\ h.edges = g.edges /\ h.cached = g.cached /\ h.held = g.held
        /\ h.actor = g.actor /\ h.labels = g.labels \cup {Trigger} /\ h.skip = g.skip /\ h.coe = g.coe
    BY <2>2 DEF EngineOK, IsEngine
  <2>4. /\ g.labels = eng.labels /\ g.edges = eng.edges /\ g.skip = eng.skip /\ g.coe = eng.coe
        /\ g.actor = eng.actor /\ g.cached = eng.cached /\ g.held = eng.held
        /\ Len(eng.nodes) >= Cap => g = eng
        /\ Len(eng.nodes) < Cap => /\ g.map = Inserted(eng.map, Trigger, Len(eng.nodes) + 1)
                                   /\ g.meta = Inserted(eng.meta, Trigger, meta)
                                   /\ g.nodes = Append(eng.nodes, Trigger)
    BY GraphAssumption DEF AddNode, EngineOK, IsEngine, NodesOK
  <2> HIDE DEF g, h
  <2>5. EngineOK(h)
    BY <2>2, <2>3 DEF EngineOK, NodesOK, EdgesOK
  <2>6. Trigger \notin DOMAIN eng.map /\ \A k \in 1 .. Len(eng.nodes) : eng.nodes[k] # Trigger
    BY <1>2 DEF TriggerOK, EngineOK, NodesOK, ToSet
  <2>7. CASE Len(eng.nodes) >= Cap
    BY <2>1, <2>3, <2>4, <2>5, <2>6, <2>7 DEF OneMore, TriggerOK, EngineOK, NodesOK, EdgesOK
  <2>8. CASE Len(eng.nodes) < Cap
    <3>1. Len(eng.nodes) \in Nat /\ eng.nodes \in Seq(Id \cup {Trigger})
      BY DEF EngineOK, NodesOK
    <3>2. Len(h.nodes) = Len(eng.nodes) + 1 /\ h.nodes[Len(eng.nodes) + 1] = Trigger
          /\ \A k \in 1 .. Len(eng.nodes) : h.nodes[k] = eng.nodes[k]
      BY <2>3, <2>4, <2>8, <3>1, AppendProperties
    <3>3. /\ DOMAIN h.map = DOMAIN eng.map \cup {Trigger} /\ h.map[Trigger] = Len(eng.nodes) + 1
          /\ h.meta[Trigger] = meta /\ \A i \in DOMAIN eng.map : h.meta[i] = eng.meta[i]
      <4>1. DOMAIN eng.meta = DOMAIN eng.map BY DEF EngineOK, NodesOK
      <4>2. h.map = Inserted(eng.map, Trigger, Len(eng.nodes) + 1) /\ h.meta = Inserted(eng.meta, Trigger, meta)
        BY <2>3, <2>4, <2>8
      <4> HIDE DEF meta
      <4>3. QED BY <2>6, <4>1, <4>2 DEF Inserted
    <3>4. \A k \in 1 .. Len(h.nodes) : h.nodes[k] = Trigger => Trigger \in h.labels /\ h.map[Trigger] = k
      BY <2>3, <2>6, <3>1, <3>2, <3>3
    <3>5. \A e \in h.edges : h.nodes[e.src] # Trigger
      BY <2>3, <2>4, <2>6, <3>2 DEF EngineOK, EdgesOK
    <3>6. TriggerOK(h) BY <3>4, <3>5 DEF TriggerOK
    <3>7. QED BY <2>1, <2>3, <2>4, <2>5, <2>6, <3>1, <3>2, <3>3, <3>6 DEF OneMore
  <2>9. QED BY <2>7, <2>8, GraphAssumption DEF EngineOK, NodesOK
<1>3. QED BY <1>1, <1>2

\* After the roots up to k: each of them has an edge from the trigger, there are
\* no other new edges, and no two from the trigger end at the same node.
FedInv(h, g, k) ==
  /\ EngineOK(h) /\ SameNodes(h, g) /\ h.cached = g.cached /\ h.held = g.held /\ TriggerOK(h)
  /\ g.edges \subseteq h.edges
  /\ \A e \in h.edges \ g.edges : /\ e.src = g.map[Trigger]
                                  /\ \E l \in 1 .. k : l \in Roots(g) /\ e.dst = g.map[g.nodes[l]]
  /\ \A l \in 1 .. k : l \in Roots(g) => \E e \in h.edges : e.src = g.map[Trigger] /\ e.dst = g.map[g.nodes[l]]

\* One turn of the loop over the roots.
LEMMA FeedStep ==
  ASSUME NEW g, EngineOK(g), Trigger \in DOMAIN g.map,
         NEW k \in 1 .. Len(g.nodes), NEW h, FedInv(h, g, k - 1)
  PROVE  FedInv(Step("roots", g, h, k), g, k)
<1> DEFINE i == g.nodes[k]
           r == Step("roots", g, h, k)
<1>0. k \in Nat \ {0} /\ 1 .. k = 1 .. k - 1 \cup {k} /\ i \in DOMAIN g.map
  BY DEF EngineOK, NodesOK, ToSet
<1>1. EngineOK(h) /\ SameNodes(h, g) /\ h.map = g.map /\ h.nodes = g.nodes /\ TriggerOK(h)
  BY DEF FedInv, SameNodes
<1>2. CASE k \notin Roots(g)
  <2>1. r = h BY <1>2 DEF Step
  <2>2. QED BY <1>0, <1>2, <2>1 DEF FedInv
<1>3. CASE k \in Roots(g) /\ Fed(h, i)
  <2>1. r = h BY <1>3 DEF Step, Feed
  <2>2. \E e \in h.edges : e.src = g.map[Trigger] /\ e.dst = g.map[i]
    BY <1>1, <1>3 DEF Fed
  <2>3. QED BY <1>0, <1>3, <2>1, <2>2 DEF FedInv
<1>4. CASE k \in Roots(g) /\ ~Fed(h, i)
  <2> DEFINE e == NewEdge(h, Trigger, i, FALSE)
  <2>1. r = AddEdge(h, Trigger, i, FALSE) BY <1>4 DEF Step, Feed
  <2>2. /\ EngineOK(r) /\ r.edges = h.edges \cup {e}
    <3>1. EngineOK(h) /\ {Trigger, i} \subseteq DOMAIN h.map BY <1>0, <1>1
    <3>2. EngineOK(AddEdge(h, Trigger, i, FALSE)) /\ AddEdge(h, Trigger, i, FALSE).edges = h.edges \cup {e}
      BY <3>1, AddEdgeOK, Zenon
    <3>3. QED BY <2>1, <3>2
  <2>3. SameNodes(r, g) /\ r.cached = g.cached /\ r.held = g.held
    <3>1. EngineOK(h) BY <1>1
    <3>2. SameNodes(AddEdge(h, Trigger, i, FALSE), h) /\ AddEdge(h, Trigger, i, FALSE).cached = h.cached /\ AddEdge(h, Trigger, i, FALSE).held = h.held
      BY <3>1, AddEdgeSame, Zenon
    <3>3. SameNodes(r, h) /\ r.cached = h.cached /\ r.held = h.held BY <2>1, <3>2
    <3>4. QED BY <1>1, <3>3 DEF SameNodes, FedInv
  <2>4. e.src = g.map[Trigger] /\ e.dst = g.map[i]
    BY <1>1 DEF NewEdge
  <2> HIDE DEF e, r
  <2>5. ASSUME NEW x \in h.edges, g.nodes[x.src] = Trigger, x.dst = e.dst PROVE FALSE
    <3>1. x.src = h.map[Trigger]
      BY <1>1, <2>5 DEF TriggerOK, EngineOK, EdgesOK
    <3>2. QED BY <1>1, <1>4, <2>4, <2>5, <3>1 DEF Fed
  <2>6. \A x, y \in r.edges : (g.nodes[x.src] = Trigger /\ x.src = y.src /\ x.dst = y.dst) => x = y
    BY <1>1, <2>2, <2>5 DEF TriggerOK
  <2>7. TriggerOK(r)
    BY <1>1, <2>3, <2>6 DEF TriggerOK, SameNodes
  <2>8. \A x \in r.edges \ g.edges : /\ x.src = g.map[Trigger]
                                     /\ \E l \in 1 .. k : l \in Roots(g) /\ x.dst = g.map[g.nodes[l]]
    BY <1>0, <1>4, <2>2, <2>4 DEF FedInv
  <2>9. \A l \in 1 .. k : l \in Roots(g) => \E x \in r.edges : x.src = g.map[Trigger] /\ x.dst = g.map[g.nodes[l]]
    BY <1>0, <2>2, <2>4 DEF FedInv
  <2>10. QED BY <2>2, <2>3, <2>7, <2>8, <2>9 DEF FedInv, r
<1>5. QED BY <1>2, <1>3, <1>4

\* All of them.
LEMMA FeedAll ==
  ASSUME NEW g, EngineOK(g), TriggerOK(g), Roots(g) # {} => Trigger \in DOMAIN g.map
  PROVE  FedInv(FeedRoots(g), g, Len(g.nodes))
<1>0. Len(g.nodes) \in Nat BY DEF EngineOK, NodesOK
<1>1. PICK f : IsLoop(f, "roots", g, Len(g.nodes)) /\ FeedRoots(g) = f[Len(g.nodes)]
  BY <1>0, RootsLoop
<1>2. FedInv(g, g, 0)
  BY DEF FedInv, SameNodes
<1> DEFINE Bad == {k \in 0 .. Len(g.nodes) : ~FedInv(f[k], g, k)}
<1>3. Bad = {}
  <2> SUFFICES ASSUME Bad # {} PROVE FALSE
    OBVIOUS
  <2>1. PICK k \in Bad : \A y \in Bad : k <= y
    <3>1. Bad \in SUBSET Nat OBVIOUS
    <3> HIDE DEF Bad
    <3>2. QED BY <3>1, Least
  <2>2. k \in 0 .. Len(g.nodes) /\ f[k] = IF k = 0 THEN g ELSE Step("roots", g, f[k - 1], k)
    BY <1>1 DEF IsLoop
  <2>3. CASE k = 0
    BY <1>2, <2>2, <2>3
  <2>4. CASE k # 0
    <3>1. k \in 1 .. Len(g.nodes) /\ k - 1 \in 0 .. Len(g.nodes) /\ ~(k <= k - 1)
      BY <1>0, <2>2, <2>4
    <3>2. FedInv(f[k - 1], g, k - 1) BY <2>1, <3>1
    <3>3. f[k] = Step("roots", g, f[k - 1], k) BY <2>2, <2>4
    <3>4. CASE Trigger \in DOMAIN g.map
      BY <3>1, <3>2, <3>3, <3>4, FeedStep
    <3>5. CASE Roots(g) = {}
      BY <3>1, <3>2, <3>3, <3>5, <2>1, <1>0 DEF FedInv, Step
    <3>6. QED BY <3>4, <3>5
  <2>5. QED BY <2>3, <2>4
<1>4. QED BY <1>0, <1>1, <1>3

\* A trigger names no sub-workflow.
LEMMA SameRefs ==
  ASSUME NEW h, NEW g, DOMAIN g.meta \ {Trigger} = DOMAIN h.meta \ {Trigger},
         \A i \in DOMAIN g.meta \ {Trigger} : h.meta[i] = g.meta[i],
         Trigger \in DOMAIN g.meta => g.meta[Trigger].kind = NoKind,
         Trigger \in DOMAIN h.meta => h.meta[Trigger].kind = NoKind
  PROVE  SubWorkflowIds(h) = SubWorkflowIds(g) /\ StaticRefs(h) = StaticRefs(g)
<1>1. References(NoKind) = {} /\ Named(NoKind) = {}
  BY DEF References, Named, NoKind
<1>2. /\ \A i \in DOMAIN h.meta \ DOMAIN g.meta : h.meta[i].kind = NoKind
      /\ \A i \in DOMAIN g.meta \ DOMAIN h.meta : g.meta[i].kind = NoKind
      /\ \A i \in DOMAIN h.meta \cap DOMAIN g.meta : h.meta[i].kind = g.meta[i].kind
  OBVIOUS
<1>3. \A r : r \in SubWorkflowIds(h) <=> r \in SubWorkflowIds(g)
  BY <1>1, <1>2 DEF SubWorkflowIds
<1>4. \A r : r \in StaticRefs(h) <=> r \in StaticRefs(g)
  BY <1>1, <1>2 DEF StaticRefs
<1>5. QED BY <1>3, <1>4

LEMMA EnsureTriggerStep ==
  ASSUME EngineInv, TriggerInv, LoadedInv, EnsureTriggerNode
  PROVE  EngineInv' /\ TriggerInv' /\ LoadedInv'
<1> DEFINE g == WithTrigger
           h == FeedRoots(g)
<1>1. OneMore(g, eng) /\ EngineOK(eng)
  BY WithTriggerOK DEF EngineInv, TriggerInv
<1>2. CASE Roots(g) # {} /\ Trigger \notin DOMAIN g.map
  <2>1. phase' = "panicked" /\ eng' = eng BY <1>2 DEF EnsureTriggerNode
  <2>2. QED BY <1>1, <2>1 DEF EngineInv, TriggerInv, LoadedInv
<1>3. CASE ~(Roots(g) # {} /\ Trigger \notin DOMAIN g.map)
  <2>1. eng' = h /\ phase' = phase /\ phase \in {"loaded", "direct"} /\ doc' = doc
    BY <1>3 DEF EnsureTriggerNode
  <2>2. FedInv(h, g, Len(g.nodes))
    BY <1>1, <1>3, FeedAll DEF OneMore
  <2> HIDE DEF g, h
  <2>3. EngineOK(h) /\ TriggerOK(h) /\ SameNodes(h, g) /\ h.cached = g.cached /\ h.held = g.held
    BY <2>2 DEF FedInv
  <2>4. ASSUME phase = "loaded" PROVE LoadedInv'
    <3>1. /\ doc.errors = {} /\ TakenUpTo(doc.nodes, eng, Len(doc.nodes)) /\ DrawnUpTo(doc.edges, eng, Len(doc.edges))
          /\ Trigger \in DOMAIN eng.map => eng.meta[Trigger].kind = NoKind
          /\ CachedOK(eng)
      BY <2>4 DEF LoadedInv
    <3>2. /\ h.labels \ {Trigger} = eng.labels \ {Trigger} /\ h.skip = eng.skip /\ h.coe = eng.coe
          /\ h.actor = eng.actor /\ DOMAIN h.map \ {Trigger} = DOMAIN eng.map \ {Trigger}
          /\ \A i \in DOMAIN eng.map : h.meta[i] = eng.meta[i]
          /\ h.cached = eng.cached /\ h.held = eng.held
      BY <1>1, <2>3 DEF OneMore, SameNodes
    <3>0. \A i \in DOMAIN h.map \ {Trigger} : h.meta[i] = eng.meta[i]
      BY <3>2
    <3>3. TakenUpTo(doc.nodes, h, Len(doc.nodes))
      <4>1. TakenUpTo(doc.nodes, eng, Len(doc.nodes)) BY <3>1
      <4>2. DOMAIN h.map \ {Trigger} = DOMAIN eng.map \ {Trigger} BY <3>2
      <4>3. h.labels \ {Trigger} = eng.labels \ {Trigger} /\ h.skip = eng.skip /\ h.coe = eng.coe /\ h.actor = eng.actor
        BY <3>2
      <4>4. QED BY <3>0, <4>1, <4>2, <4>3 DEF TakenUpTo
    <3>4. \A k \in 1 .. Len(eng.nodes) : h.nodes[k] = eng.nodes[k]
      BY <1>1, <2>3 DEF OneMore, SameNodes
    <3>5. Old(h) = Old(eng)
      <4>1. \A e \in eng.edges : h.nodes[e.src] = eng.nodes[e.src]
        BY <1>1, <3>4 DEF EngineOK, EdgesOK
      <4>2. \A e \in h.edges \ eng.edges : h.nodes[e.src] = Trigger
        <5>1. TAKE e \in h.edges \ eng.edges
        <5>2. e.src = g.map[Trigger] /\ Roots(g) # {}
          BY <1>1, <2>2 DEF FedInv, OneMore
        <5>3. QED BY <1>1, <1>3, <2>3, <5>2 DEF OneMore, SameNodes, EngineOK, NodesOK
      <4>3. eng.edges \subseteq h.edges
        BY <1>1, <2>2 DEF FedInv, OneMore
      <4>4. QED BY <4>1, <4>2, <4>3 DEF Old
    <3>6. DrawnUpTo(doc.edges, h, Len(doc.edges))
      <4>1. Known(h) = Known(eng) BY <3>2 DEF Known
      <4>2. \A e \in Old(eng) : h.nodes[e.src] = eng.nodes[e.src] /\ h.nodes[e.dst] = eng.nodes[e.dst]
        BY <1>1, <3>4 DEF Old, EngineOK, EdgesOK
      <4>3. QED BY <3>1, <3>5, <4>1, <4>2 DEF DrawnUpTo
    <3>7. Trigger \in DOMAIN h.map => h.meta[Trigger].kind = NoKind
      BY <1>1, <2>3, <3>1, <3>2 DEF OneMore, SameNodes
    <3>8. SubWorkflowIds(h) = SubWorkflowIds(eng) /\ StaticRefs(h) = StaticRefs(eng)
      <4>1. DOMAIN h.meta = DOMAIN h.map /\ DOMAIN eng.meta = DOMAIN eng.map
        BY <1>1, <2>3 DEF EngineOK, NodesOK
      <4>2. QED BY <3>1, <3>2, <3>7, <4>1, SameRefs
    <3>9. CachedOK(h) BY <3>1, <3>2, <3>8 DEF CachedOK
    <3>10. QED BY <2>1, <3>1, <3>3, <3>6, <3>7, <3>9 DEF LoadedInv
  <2>5. QED BY <2>1, <2>3, <2>4 DEF EngineInv, TriggerInv, LoadedInv
<1>4. QED BY <1>2, <1>3

-----------------------------------------------------------------------------
(* The direct interface *)

LEMMA AddNodeCallStep ==
  ASSUME EngineInv, TriggerInv, NEW i \in Id, AddNodeCall(i)
  PROVE  EngineInv' /\ TriggerInv' /\ LoadedInv'
<1> DEFINE meta == [module |-> TRUE, retry |-> NoRetry, kind |-> NoKind]
           h == AddNode(eng, i, meta)
<1>1. eng' = h /\ phase' = "direct" /\ i # Trigger /\ EngineOK(eng)
  BY GraphAssumption DEF AddNodeCall, EngineInv
<1>2. EngineOK(h)
  BY <1>1, AddNodeOK
<1>3. /\ h.labels = eng.labels /\ h.edges = eng.edges
      /\ Len(eng.nodes) >= Cap => h = eng
      /\ Len(eng.nodes) < Cap => h.map = Inserted(eng.map, i, Len(eng.nodes) + 1) /\ h.nodes = Append(eng.nodes, i)
  BY <1>1, GraphAssumption DEF AddNode, EngineOK, IsEngine, NodesOK
<1> HIDE DEF h
<1>4. CASE Len(eng.nodes) >= Cap
  BY <1>1, <1>2, <1>3, <1>4 DEF EngineInv, TriggerInv, LoadedInv
<1>5. CASE Len(eng.nodes) < Cap
  <2>1. Len(eng.nodes) \in Nat /\ eng.nodes \in Seq(Id \cup {Trigger})
    BY <1>1 DEF EngineOK, NodesOK
  <2>2. Len(h.nodes) = Len(eng.nodes) + 1 /\ h.nodes[Len(eng.nodes) + 1] = i
        /\ \A k \in 1 .. Len(eng.nodes) : h.nodes[k] = eng.nodes[k]
    BY <1>3, <1>5, <2>1, AppendProperties
  <2>3. \A k \in 1 .. Len(h.nodes) : h.nodes[k] = Trigger => Trigger \in h.labels /\ h.map[Trigger] = k
    <3>1. TAKE k \in 1 .. Len(h.nodes)
    <3>2. HAVE h.nodes[k] = Trigger
    <3>3. k \in 1 .. Len(eng.nodes) /\ eng.nodes[k] = Trigger
      BY <1>1, <2>1, <2>2, <3>2
    <3>4. Trigger \in eng.labels /\ eng.map[Trigger] = k /\ Trigger \in DOMAIN eng.map
      BY <1>1, <2>1, <3>3 DEF TriggerInv, TriggerOK, EngineOK, NodesOK, ToSet
    <3>5. QED BY <1>1, <1>3, <1>5, <3>4 DEF Inserted
  <2>4. TriggerOK(h)
    BY <1>1, <1>3, <2>2, <2>3 DEF TriggerInv, TriggerOK, EngineOK, EdgesOK
  <2>5. QED BY <1>1, <1>2, <2>4 DEF EngineInv, TriggerInv, LoadedInv
<1>6. QED BY <1>1, <1>4, <1>5, GraphAssumption DEF EngineOK, NodesOK

LEMMA AddEdgeCallStep ==
  ASSUME EngineInv, TriggerInv, NEW i \in Id, NEW j \in Id, AddEdgeCall(i, j)
  PROVE  EngineInv' /\ TriggerInv' /\ LoadedInv'
<1> DEFINE h == AddEdge(eng, i, j, FALSE)
           e == NewEdge(eng, i, j, FALSE)
<1>1. eng' = h /\ phase' = "direct" /\ phase = "direct" /\ i # Trigger /\ EngineOK(eng)
  BY GraphAssumption DEF AddEdgeCall, EngineInv
<1>2. EngineOK(h) /\ ({i, j} \subseteq DOMAIN eng.map => h.edges = eng.edges \cup {e})
  BY <1>1, AddEdgeOK, Zenon
<1>3. SameNodes(h, eng)
  BY <1>1, AddEdgeSame, Zenon
<1>4. TriggerOK(h)
  <2>1. CASE ~({i, j} \subseteq DOMAIN eng.map)
    BY <2>1 DEF AddEdge, TriggerInv
  <2>2. CASE {i, j} \subseteq DOMAIN eng.map
    <3>1. eng.nodes[e.src] = i
      BY <1>1, <2>2 DEF NewEdge, EngineOK, NodesOK
    <3> HIDE DEF h, e
    <3>2. QED BY <1>1, <1>2, <1>3, <2>2, <3>1 DEF TriggerInv, TriggerOK, SameNodes
  <2>3. QED BY <2>1, <2>2
<1> HIDE DEF h
<1>5. QED BY <1>1, <1>2, <1>4 DEF EngineInv, TriggerInv, LoadedInv

-----------------------------------------------------------------------------
(* The builder *)

LEMMA Pushed ==
  ASSUME NEW nodes, nodes \in Seq(ToSet(nodes)), NEW n
  PROVE  LET more == Append(nodes, n) IN
           /\ Len(nodes) \in Nat /\ Len(more) = Len(nodes) + 1
           /\ more \in Seq(ToSet(more))
           /\ more[Len(nodes) + 1] = n /\ \A k \in 1 .. Len(nodes) : more[k] = nodes[k]
<1> DEFINE more == Append(nodes, n)
           S == ToSet(nodes) \cup {n}
<1>1. Len(nodes) \in Nat /\ nodes \in Seq(S) /\ n \in S
  OBVIOUS
<1>2. more \in Seq(S) /\ Len(more) = Len(nodes) + 1 /\ more[Len(nodes) + 1] = n
      /\ \A k \in 1 .. Len(nodes) : more[k] = nodes[k]
  BY <1>1, AppendProperties
<1>3. ToSet(more) = S
  BY <1>1, <1>2 DEF ToSet
<1>4. QED BY <1>1, <1>2, <1>3

\* A node that the typed builder adds.
LEMMA TypedNode ==
  ASSUME DocInv, WantedInv, NEW n, IsNode(n), IsTyped(n), n.coe = {}, n.retry = NoRetry,
         doc' = [doc EXCEPT !.nodes = Append(@, n)],
         wanted' = IF n.skip # {} THEN [wanted EXCEPT !.skip = @ \cup {n.id}] ELSE wanted
  PROVE  DocInv' /\ WantedInv'
<1>1. /\ doc' = [field \in DOMAIN doc' |-> doc'[field]] /\ DOMAIN doc' = DOMAIN doc
      /\ doc'.nodes = Append(doc.nodes, n) /\ doc'.edges = doc.edges /\ doc'.errors = doc.errors /\ doc'.raw = doc.raw
  BY DEF DocInv
<1>2. /\ Len(doc.nodes) \in Nat /\ Len(doc'.nodes) = Len(doc.nodes) + 1
      /\ doc'.nodes \in Seq(ToSet(doc'.nodes))
      /\ doc'.nodes[Len(doc.nodes) + 1] = n /\ \A k \in 1 .. Len(doc.nodes) : doc'.nodes[k] = doc.nodes[k]
  BY <1>1, Pushed DEF DocInv
<1>3. 1 .. Len(doc'.nodes) = 1 .. Len(doc.nodes) \cup {Len(doc.nodes) + 1}
  BY <1>2
<1>4. DocInv'
  BY <1>1, <1>2, <1>3 DEF DocInv
<1>5. /\ wanted' = [field \in DOMAIN wanted' |-> wanted'[field]] /\ DOMAIN wanted' = {"skip", "coe", "retry"}
      /\ wanted'.retry = wanted.retry /\ wanted'.coe = wanted.coe
      /\ wanted'.skip = IF n.skip # {} THEN wanted.skip \cup {n.id} ELSE wanted.skip
  BY DEF WantedInv
<1>6. ASSUME ~doc'.raw, doc'.errors = {}, Unique(doc'.nodes) PROVE Told(doc'.nodes, wanted')
  <2>1. Unique(doc.nodes) /\ \A k \in 1 .. Len(doc.nodes) : doc.nodes[k].id # n.id
    BY <1>2, <1>6 DEF Unique
  <2>2. Told(doc.nodes, wanted)
    BY <1>1, <1>6, <2>1 DEF WantedInv
  <2>3. n.id \in Id /\ n.id \notin wanted.skip /\ n.id \notin wanted.coe /\ wanted.retry[n.id] = NoRetry
    BY <2>1, <2>2 DEF Told, IsNode
  <2>4. \A i \in wanted'.skip \cup wanted'.coe : \E k \in 1 .. Len(doc'.nodes) : doc'.nodes[k].id = i
    BY <1>2, <1>3, <1>5, <2>2 DEF Told
  <2>5. \A i \in Id : wanted'.retry[i] # NoRetry => \E k \in 1 .. Len(doc'.nodes) : doc'.nodes[k].id = i
    BY <1>2, <1>3, <1>5, <2>2 DEF Told
  <2>6. ASSUME NEW k \in 1 .. Len(doc'.nodes)
        PROVE  /\ doc'.nodes[k].id \in wanted'.skip <=> doc'.nodes[k].skip # {}
               /\ doc'.nodes[k].id \in wanted'.coe <=> doc'.nodes[k].coe # {}
               /\ wanted'.retry[doc'.nodes[k].id] = doc'.nodes[k].retry
    <3>1. CASE k \in 1 .. Len(doc.nodes)
      BY <1>2, <1>5, <2>1, <2>2, <3>1 DEF Told
    <3>2. CASE k = Len(doc.nodes) + 1
      BY <1>2, <1>5, <2>3, <3>2
    <3>3. QED BY <1>3, <3>1, <3>2
  <2>7. QED BY <2>4, <2>5, <2>6 DEF Told
<1>7. \A k \in 1 .. Len(doc'.nodes) : ~doc'.raw => IsTyped(doc'.nodes[k])
  BY <1>1, <1>2, <1>3 DEF WantedInv
<1>8. QED BY <1>4, <1>5, <1>6, <1>7 DEF WantedInv

\* A setting changes one node and what was wanted of it alike.
Settles(i, nodes) ==
  /\ \A k \in 1 .. Len(doc.nodes) : /\ IsNode(nodes[k]) /\ nodes[k].id = doc.nodes[k].id
                                    /\ IsTyped(doc.nodes[k]) => IsTyped(nodes[k])
  /\ wanted' = [field \in DOMAIN wanted' |-> wanted'[field]] /\ DOMAIN wanted' = {"skip", "coe", "retry"}
  /\ DOMAIN wanted'.retry = Id
  /\ \A j \in Id \ {i} : /\ j \in wanted'.skip <=> j \in wanted.skip
                         /\ j \in wanted'.coe <=> j \in wanted.coe
                         /\ wanted'.retry[j] = wanted.retry[j]
  /\ wanted'.skip \cup wanted'.coe \subseteq wanted.skip \cup wanted.coe \cup {i}
  /\ \A k \in 1 .. Len(doc.nodes) :
       (/\ doc.nodes[k].id = i
        /\ i \in wanted.skip <=> doc.nodes[k].skip # {}
        /\ i \in wanted.coe <=> doc.nodes[k].coe # {}
        /\ wanted.retry[i] = doc.nodes[k].retry)
         => (/\ i \in wanted'.skip <=> nodes[k].skip # {}
             /\ i \in wanted'.coe <=> nodes[k].coe # {}
             /\ wanted'.retry[i] = nodes[k].retry)

LEMMA SettingOK ==
  ASSUME DocInv, WantedInv, NEW i \in Id, NEW method, NEW nodes, Set(i, method, nodes), Settles(i, nodes)
  PROVE  DocInv' /\ WantedInv'
<1>0. Len(doc.nodes) \in Nat /\ DOMAIN doc.nodes = 1 .. Len(doc.nodes)
  BY DEF DocInv
<1>1. CASE Found(i) = {}
  <2>1. doc' = [doc EXCEPT !.errors = @ \cup {<<i, method>>}] BY <1>1 DEF Set
  <2>2. /\ doc' = [field \in DOMAIN doc' |-> doc'[field]] /\ DOMAIN doc' = DOMAIN doc
        /\ doc'.nodes = doc.nodes /\ doc'.edges = doc.edges /\ doc'.errors # {} /\ doc'.raw = doc.raw
    BY <2>1 DEF DocInv
  <2>3. QED BY <2>2 DEF DocInv, WantedInv, Settles
<1>2. CASE Found(i) # {}
  <2> DEFINE after == [k \in 1 .. Len(doc.nodes) |-> IF k \in Found(i) THEN nodes[k] ELSE doc.nodes[k]]
  <2>1. doc' = [doc EXCEPT !.nodes = after] BY <1>0, <1>2 DEF Set
  <2> HIDE DEF after
  <2>2. /\ doc' = [field \in DOMAIN doc' |-> doc'[field]] /\ DOMAIN doc' = DOMAIN doc
        /\ doc'.nodes = after /\ doc'.edges = doc.edges /\ doc'.errors = doc.errors /\ doc'.raw = doc.raw
    BY <2>1 DEF DocInv
  <2>3. /\ after \in Seq(ToSet(after)) /\ Len(after) = Len(doc.nodes)
        /\ \A k \in 1 .. Len(doc.nodes) : after[k] = IF k \in Found(i) THEN nodes[k] ELSE doc.nodes[k]
    BY <1>0 DEF after, ToSet
  <2>4. DocInv'
    BY <2>2, <2>3 DEF DocInv, Settles
  <2>5. \A k \in 1 .. Len(doc.nodes) : after[k].id = doc.nodes[k].id
    BY <2>3 DEF Settles
  <2>6. ASSUME ~doc'.raw, doc'.errors = {}, Unique(after) PROVE Told(after, wanted')
    <3>1. Unique(doc.nodes) BY <2>3, <2>5, <2>6 DEF Unique
    <3>2. Told(doc.nodes, wanted) BY <2>2, <2>6, <3>1 DEF WantedInv
    <3>3. PICK m \in Found(i) : TRUE BY <1>2
    <3>4. m \in 1 .. Len(doc.nodes) /\ doc.nodes[m].id = i BY <1>0, <3>3 DEF Found
    <3>5. \A k \in 1 .. Len(doc.nodes) : doc.nodes[k].id = i => k = m BY <3>1, <3>4 DEF Unique
    <3>6. \A j \in wanted'.skip \cup wanted'.coe : \E k \in 1 .. Len(after) : after[k].id = j
      <4>1. after[m].id = i /\ m \in 1 .. Len(after) BY <2>3, <2>5, <3>4
      <4>2. \A j \in wanted.skip \cup wanted.coe : \E k \in 1 .. Len(doc.nodes) : doc.nodes[k].id = j
        BY <3>2 DEF Told
      <4>3. wanted'.skip \cup wanted'.coe \subseteq wanted.skip \cup wanted.coe \cup {i}
        BY DEF Settles
      <4>4. QED BY ONLY <2>3, <2>5, <4>1, <4>2, <4>3
    <3>7. \A j \in Id : wanted'.retry[j] # NoRetry => \E k \in 1 .. Len(after) : after[k].id = j
      <4>1. after[m].id = i /\ m \in 1 .. Len(after) BY <2>3, <2>5, <3>4
      <4>2. \A j \in Id \ {i} : wanted'.retry[j] = wanted.retry[j] BY DEF Settles
      <4>3. \A j \in Id : wanted.retry[j] # NoRetry => \E k \in 1 .. Len(doc.nodes) : doc.nodes[k].id = j
        BY <3>2 DEF Told
      <4>4. QED BY ONLY <2>3, <2>5, <4>1, <4>2, <4>3
    <3>8. ASSUME NEW k \in 1 .. Len(after)
          PROVE  /\ after[k].id \in wanted'.skip <=> after[k].skip # {}
                 /\ after[k].id \in wanted'.coe <=> after[k].coe # {}
                 /\ wanted'.retry[after[k].id] = after[k].retry
      <4>1. CASE k = m
        <5>1. after[m] = nodes[m] /\ after[m].id = i BY <2>3, <2>5, <3>3, <3>4
        <5>2. /\ i \in wanted.skip <=> doc.nodes[m].skip # {}
              /\ i \in wanted.coe <=> doc.nodes[m].coe # {}
              /\ wanted.retry[i] = doc.nodes[m].retry
          BY <3>2, <3>4 DEF Told
        <5>3. /\ i \in wanted'.skip <=> nodes[m].skip # {}
              /\ i \in wanted'.coe <=> nodes[m].coe # {}
              /\ wanted'.retry[i] = nodes[m].retry
          BY <3>4, <5>2 DEF Settles
        <5>4. QED BY <4>1, <5>1, <5>3
      <4>2. CASE k # m
        <5>1. k \notin Found(i) /\ doc.nodes[k].id \in Id \ {i}
          BY <2>3, <3>5, <4>2 DEF Found, DocInv, IsNode
        <5>2. QED BY <2>3, <3>2, <5>1 DEF Told, Settles
      <4>3. QED BY <4>1, <4>2
    <3>9. QED BY <3>6, <3>7, <3>8 DEF Told
  <2>7. \A k \in 1 .. Len(after) : ~doc'.raw => IsTyped(after[k])
    BY <2>2, <2>3 DEF WantedInv, Settles
  <2>8. QED BY <2>2, <2>4, <2>6, <2>7 DEF WantedInv, Settles
<1>3. QED BY <1>1, <1>2

LEMMA AddModuleStep ==
  ASSUME DocInv, WantedInv, NEW i \in Id, NEW has_data \in BOOLEAN, NEW skip \in BOOLEAN,
         AddModule(i, has_data, skip)
  PROVE  DocInv' /\ WantedInv'
<1> DEFINE n == [id |-> i, type |-> "uuid", moduleId |-> "none", kind |-> "none",
                 has_data |-> has_data, data |-> <<>>,
                 skip |-> IF has_data /\ skip THEN {"data"} ELSE {}, coe |-> {}, retry |-> NoRetry]
<1>1. doc' = [doc EXCEPT !.nodes = Append(@, n)]
  BY DEF AddModule, PushNode
<1>2. IsNode(n) /\ n.id = i /\ n.coe = {} /\ n.retry = NoRetry
  BY DEF IsNode
<1>3. IsTyped(n)
  BY DEF IsTyped, Retries, NoRetry
<1>4. n.skip # {} <=> has_data /\ skip
  OBVIOUS
<1>5. wanted' = IF n.skip # {} THEN [wanted EXCEPT !.skip = @ \cup {n.id}] ELSE wanted
  <2>1. wanted' = IF has_data /\ skip THEN [wanted EXCEPT !.skip = @ \cup {i}] ELSE wanted
    BY DEF AddModule
  <2> HIDE DEF n
  <2>2. QED BY <1>2, <1>4, <2>1
<1> HIDE DEF n
<1>6. QED BY <1>1, <1>2, <1>3, <1>5, TypedNode

LEMMA AddSystemNodeStep ==
  ASSUME DocInv, WantedInv, NEW i \in Id, NEW kind \in KindValue, AddSystemNode(i, kind)
  PROVE  DocInv' /\ WantedInv'
<1> DEFINE n == [id |-> i, type |-> "system", moduleId |-> "none", kind |-> kind.name,
                 has_data |-> TRUE, data |-> SerializeKind(kind),
                 skip |-> {}, coe |-> {}, retry |-> NoRetry]
<1>1. doc' = [doc EXCEPT !.nodes = Append(@, n)] /\ wanted' = wanted
  BY DEF AddSystemNode, PushNode
<1>2. IsNode(n) /\ n.id = i /\ n.coe = {} /\ n.retry = NoRetry /\ n.skip = {}
  BY DEF IsNode
<1>3. IsTyped(n)
  BY DEF IsTyped, Retries, NoRetry
<1> HIDE DEF n
<1>4. QED BY <1>1, <1>2, <1>3, TypedNode

LEMMA AddRawNodeStep ==
  ASSUME DocInv, WantedInv, NEW i \in Id, NEW raw \in RawNode, AddRawNode(i, raw)
  PROVE  DocInv' /\ WantedInv'
<1> DEFINE n == [raw EXCEPT !.id = i]
<1>1. doc' = [doc EXCEPT !.nodes = Append(@, n), !.raw = TRUE] /\ wanted' = wanted
  BY DEF AddRawNode
<1>2. IsNode(n)
  BY CallerAssumption DEF IsNode
<1> HIDE DEF n
<1>3. /\ doc' = [field \in DOMAIN doc' |-> doc'[field]] /\ DOMAIN doc' = DOMAIN doc
      /\ doc'.nodes = Append(doc.nodes, n) /\ doc'.edges = doc.edges /\ doc'.raw
  BY <1>1 DEF DocInv
<1>4. /\ Len(doc.nodes) \in Nat /\ Len(doc'.nodes) = Len(doc.nodes) + 1
      /\ doc'.nodes \in Seq(ToSet(doc'.nodes))
      /\ doc'.nodes[Len(doc.nodes) + 1] = n /\ \A k \in 1 .. Len(doc.nodes) : doc'.nodes[k] = doc.nodes[k]
  BY <1>3, Pushed DEF DocInv
<1>5. DocInv'
  BY <1>2, <1>3, <1>4 DEF DocInv
<1>6. WantedInv'
  BY <1>1, <1>3 DEF WantedInv
<1>7. QED BY <1>5, <1>6

LEMMA WithSkipConditionStep ==
  ASSUME DocInv, WantedInv, NEW i \in Id, WithSkipCondition(i)
  PROVE  DocInv' /\ WantedInv'
<1> DEFINE nodes == [k \in DOMAIN doc.nodes |-> [doc.nodes[k] EXCEPT !.skip = @ \cup {"node"}]]
<1>0. DOMAIN doc.nodes = 1 .. Len(doc.nodes) BY DEF DocInv
<1>1. Set(i, "with_skip_condition", nodes) /\ wanted' = [wanted EXCEPT !.skip = @ \cup {i}]
  BY DEF WithSkipCondition
<1>2. ASSUME NEW k \in 1 .. Len(doc.nodes)
      PROVE  /\ IsNode(nodes[k]) /\ nodes[k].id = doc.nodes[k].id
             /\ IsTyped(doc.nodes[k]) => IsTyped(nodes[k])
             /\ nodes[k].skip # {} /\ nodes[k].coe = doc.nodes[k].coe /\ nodes[k].retry = doc.nodes[k].retry
  <2> DEFINE n == doc.nodes[k]
  <2>1. nodes[k] = [n EXCEPT !.skip = n.skip \cup {"node"}] /\ IsNode(n) BY <1>0 DEF DocInv
  <2> HIDE DEF nodes, n
  <2>2. /\ IsNode(nodes[k]) /\ nodes[k].skip = n.skip \cup {"node"}
        /\ \A field \in DOMAIN n \ {"skip"} : nodes[k][field] = n[field]
    BY <2>1 DEF IsNode
  <2>3. /\ nodes[k].id = n.id /\ nodes[k].type = n.type /\ nodes[k].moduleId = n.moduleId /\ nodes[k].kind = n.kind
        /\ nodes[k].has_data = n.has_data /\ nodes[k].data = n.data /\ nodes[k].coe = n.coe /\ nodes[k].retry = n.retry
    BY <2>1, <2>2 DEF IsNode
  <2>4. IsTyped(n) => IsTyped(nodes[k])
    BY <2>2, <2>3 DEF IsTyped
  <2>5. QED BY <2>2, <2>3, <2>4 DEF n
<1>3. /\ wanted' = [field \in DOMAIN wanted' |-> wanted'[field]] /\ DOMAIN wanted' = {"skip", "coe", "retry"}
      /\ wanted'.skip = wanted.skip \cup {i} /\ wanted'.coe = wanted.coe /\ wanted'.retry = wanted.retry
      /\ DOMAIN wanted'.retry = Id
  BY <1>1 DEF WantedInv
<1> HIDE DEF nodes
<1>4. Settles(i, nodes)
  BY <1>2, <1>3 DEF Settles
<1>5. QED BY <1>1, <1>4, SettingOK

LEMMA WithContinueOnErrorStep ==
  ASSUME DocInv, WantedInv, NEW i \in Id, WithContinueOnError(i)
  PROVE  DocInv' /\ WantedInv'
<1> DEFINE nodes == [k \in DOMAIN doc.nodes |-> [doc.nodes[k] EXCEPT !.coe = @ \cup {"node"}]]
<1>0. DOMAIN doc.nodes = 1 .. Len(doc.nodes) BY DEF DocInv
<1>1. Set(i, "with_continue_on_error", nodes) /\ wanted' = [wanted EXCEPT !.coe = @ \cup {i}]
  BY DEF WithContinueOnError
<1>2. ASSUME NEW k \in 1 .. Len(doc.nodes)
      PROVE  /\ IsNode(nodes[k]) /\ nodes[k].id = doc.nodes[k].id
             /\ IsTyped(doc.nodes[k]) => IsTyped(nodes[k])
             /\ nodes[k].coe # {} /\ nodes[k].skip = doc.nodes[k].skip /\ nodes[k].retry = doc.nodes[k].retry
  <2> DEFINE n == doc.nodes[k]
  <2>1. nodes[k] = [n EXCEPT !.coe = n.coe \cup {"node"}] /\ IsNode(n) BY <1>0 DEF DocInv
  <2> HIDE DEF nodes, n
  <2>2. /\ IsNode(nodes[k]) /\ nodes[k].coe = n.coe \cup {"node"}
        /\ \A field \in DOMAIN n \ {"coe"} : nodes[k][field] = n[field]
    BY <2>1 DEF IsNode
  <2>3. /\ nodes[k].id = n.id /\ nodes[k].type = n.type /\ nodes[k].moduleId = n.moduleId /\ nodes[k].kind = n.kind
        /\ nodes[k].has_data = n.has_data /\ nodes[k].data = n.data /\ nodes[k].skip = n.skip /\ nodes[k].retry = n.retry
    BY <2>1, <2>2 DEF IsNode
  <2>4. IsTyped(n) => IsTyped(nodes[k])
    BY <2>2, <2>3 DEF IsTyped
  <2>5. QED BY <2>2, <2>3, <2>4 DEF n
<1>3. /\ wanted' = [field \in DOMAIN wanted' |-> wanted'[field]] /\ DOMAIN wanted' = {"skip", "coe", "retry"}
      /\ wanted'.coe = wanted.coe \cup {i} /\ wanted'.skip = wanted.skip /\ wanted'.retry = wanted.retry
      /\ DOMAIN wanted'.retry = Id
  BY <1>1 DEF WantedInv
<1> HIDE DEF nodes
<1>4. Settles(i, nodes)
  BY <1>2, <1>3 DEF Settles
<1>5. QED BY <1>1, <1>4, SettingOK

LEMMA WithRetryStep ==
  ASSUME DocInv, WantedInv, NEW i \in Id, NEW max \in Retries, WithRetry(i, max)
  PROVE  DocInv' /\ WantedInv'
<1> DEFINE nodes == [k \in DOMAIN doc.nodes |-> [doc.nodes[k] EXCEPT !.retry = max]]
<1>0. DOMAIN doc.nodes = 1 .. Len(doc.nodes) BY DEF DocInv
<1>1. Set(i, "with_retry", nodes) /\ wanted' = [wanted EXCEPT !.retry[i] = max]
  BY DEF WithRetry
<1>2. ASSUME NEW k \in 1 .. Len(doc.nodes)
      PROVE  /\ IsNode(nodes[k]) /\ nodes[k].id = doc.nodes[k].id
             /\ IsTyped(doc.nodes[k]) => IsTyped(nodes[k])
             /\ nodes[k].retry = max /\ nodes[k].skip = doc.nodes[k].skip /\ nodes[k].coe = doc.nodes[k].coe
  <2> DEFINE n == doc.nodes[k]
  <2>1. nodes[k] = [n EXCEPT !.retry = max] /\ IsNode(n) BY <1>0 DEF DocInv
  <2> HIDE DEF nodes, n
  <2>2. /\ IsNode(nodes[k]) /\ nodes[k].retry = max
        /\ \A field \in DOMAIN n \ {"retry"} : nodes[k][field] = n[field]
    BY <2>1 DEF IsNode
  <2>3. /\ nodes[k].id = n.id /\ nodes[k].type = n.type /\ nodes[k].moduleId = n.moduleId /\ nodes[k].kind = n.kind
        /\ nodes[k].has_data = n.has_data /\ nodes[k].data = n.data /\ nodes[k].coe = n.coe /\ nodes[k].skip = n.skip
    BY <2>1, <2>2 DEF IsNode
  <2>4. IsTyped(n) => IsTyped(nodes[k])
    BY <2>2, <2>3 DEF IsTyped
  <2>5. QED BY <2>2, <2>3, <2>4 DEF n
<1>3. /\ wanted' = [field \in DOMAIN wanted' |-> wanted'[field]] /\ DOMAIN wanted' = {"skip", "coe", "retry"}
      /\ wanted'.coe = wanted.coe /\ wanted'.skip = wanted.skip
      /\ wanted'.retry = [wanted.retry EXCEPT ![i] = max]
  BY <1>1 DEF WantedInv
<1>4. /\ DOMAIN wanted'.retry = Id /\ wanted'.retry[i] = max
      /\ \A j \in Id \ {i} : wanted'.retry[j] = wanted.retry[j]
  BY <1>3 DEF WantedInv
<1> HIDE DEF nodes
<1>5. /\ \A j \in Id \ {i} : /\ j \in wanted'.skip <=> j \in wanted.skip
                             /\ j \in wanted'.coe <=> j \in wanted.coe
                             /\ wanted'.retry[j] = wanted.retry[j]
      /\ wanted'.skip \cup wanted'.coe \subseteq wanted.skip \cup wanted.coe \cup {i}
  BY <1>3, <1>4
<1>6. \A k \in 1 .. Len(doc.nodes) :
           (/\ doc.nodes[k].id = i
            /\ i \in wanted.skip <=> doc.nodes[k].skip # {}
            /\ i \in wanted.coe <=> doc.nodes[k].coe # {}
            /\ wanted.retry[i] = doc.nodes[k].retry)
             => (/\ i \in wanted'.skip <=> nodes[k].skip # {}
                 /\ i \in wanted'.coe <=> nodes[k].coe # {}
                 /\ wanted'.retry[i] = nodes[k].retry)
  BY <1>2, <1>3, <1>4
<1>7. Settles(i, nodes)
  BY <1>2, <1>3, <1>4, <1>5, <1>6 DEF Settles
<1>8. QED BY <1>1, <1>7, SettingOK

LEMMA EdgeStep ==
  ASSUME DocInv, WantedInv, NEW i \in Id, NEW j \in Id, NEW cond \in BOOLEAN, Edge(i, j, cond)
  PROVE  DocInv' /\ WantedInv'
<1> DEFINE e == [src |-> i, dst |-> j, cond |-> cond]
<1>1. doc' = [doc EXCEPT !.edges = Append(@, e)] /\ wanted' = wanted
  BY DEF Edge
<1>2. /\ doc' = [field \in DOMAIN doc' |-> doc'[field]] /\ DOMAIN doc' = DOMAIN doc
      /\ doc'.nodes = doc.nodes /\ doc'.edges = Append(doc.edges, e) /\ doc'.errors = doc.errors /\ doc'.raw = doc.raw
  BY <1>1 DEF DocInv
<1>3. doc'.edges \in Seq([src : Id, dst : Id, cond : BOOLEAN])
  <2>1. e \in [src : Id, dst : Id, cond : BOOLEAN] /\ doc.edges \in Seq([src : Id, dst : Id, cond : BOOLEAN])
    BY DEF DocInv
  <2> HIDE DEF e
  <2>2. QED BY <1>2, <2>1, AppendProperties
<1>4. QED BY <1>1, <1>2, <1>3 DEF DocInv, WantedInv

-----------------------------------------------------------------------------
(* The invariant is one *)

LEMMA InitInv == Init => GraphInv
<1> SUFFICES ASSUME Init PROVE GraphInv
  OBVIOUS
<1>1. DocInv
  BY DEF Init, DocInv, ToSet
<1>2. WantedInv
  <2>1. wanted = [skip |-> {}, coe |-> {}, retry |-> [i \in Id |-> NoRetry]] /\ doc.nodes = <<>>
    BY DEF Init
  <2>2. /\ wanted = [field \in DOMAIN wanted |-> wanted[field]] /\ DOMAIN wanted = {"skip", "coe", "retry"}
        /\ wanted.skip = {} /\ wanted.coe = {} /\ wanted.retry = [i \in Id |-> NoRetry]
    BY <2>1
  <2>3. Told(doc.nodes, wanted) BY <2>1, <2>2 DEF Told
  <2>4. QED BY <2>1, <2>2, <2>3 DEF WantedInv
<1>3. /\ IsEngine(eng) /\ eng.nodes = <<>> /\ eng.map = <<>> /\ eng.meta = <<>> /\ eng.edges = {}
  BY DEF Init, EmptyEngine, IsEngine
<1>4. EngineInv
  BY <1>3, GraphAssumption, FS_EmptySet DEF Init, EngineInv, EngineOK, NodesOK, EdgesOK, ToSet
<1>5. TriggerInv /\ LoadedInv
  BY <1>3 DEF Init, TriggerInv, TriggerOK, LoadedInv
<1>6. QED BY <1>1, <1>2, <1>4, <1>5 DEF GraphInv

\* While the document is built the engine stays as it is.
LEMMA BuildingStep ==
  ASSUME GraphInv, Building
  PROVE  EngineInv' /\ TriggerInv' /\ LoadedInv'
<1>1. phase' = "build" /\ eng' = eng BY DEF Building
<1>2. QED BY <1>1 DEF Building, GraphInv, EngineInv, TriggerInv, LoadedInv

LEMMA StepInv == GraphInv /\ [Next]_vars => GraphInv'
<1> SUFFICES ASSUME GraphInv, [Next]_vars PROVE GraphInv'
  OBVIOUS
<1> USE DEF GraphInv
<1>1. ASSUME NEW i \in DocId, NEW b \in BOOLEAN, NEW c \in BOOLEAN, AddModule(i, b, c) PROVE GraphInv'
  BY <1>1, AddModuleStep, BuildingStep DEF AddModule, DocId
<1>2. ASSUME NEW i \in DocId, NEW kind \in KindValue, AddSystemNode(i, kind) PROVE GraphInv'
  BY <1>2, AddSystemNodeStep, BuildingStep DEF AddSystemNode, DocId
<1>3. ASSUME NEW i \in DocId, NEW raw \in RawNode, AddRawNode(i, raw) PROVE GraphInv'
  BY <1>3, AddRawNodeStep, BuildingStep DEF AddRawNode, DocId
<1>4. ASSUME NEW i \in DocId, WithSkipCondition(i) PROVE GraphInv'
  BY <1>4, WithSkipConditionStep, BuildingStep DEF WithSkipCondition, Set, DocId
<1>5. ASSUME NEW i \in DocId, WithContinueOnError(i) PROVE GraphInv'
  BY <1>5, WithContinueOnErrorStep, BuildingStep DEF WithContinueOnError, Set, DocId
<1>6. ASSUME NEW i \in DocId, NEW max \in Retries \ {NoRetry}, WithRetry(i, max) PROVE GraphInv'
  BY <1>6, WithRetryStep, BuildingStep DEF WithRetry, Set, DocId
<1>7. ASSUME NEW i \in DocId, NEW j \in DocId, NEW c \in BOOLEAN, Edge(i, j, c) PROVE GraphInv'
  BY <1>7, EdgeStep, BuildingStep DEF Edge, DocId
<1>8. ASSUME UNCHANGED <<doc, wanted>> PROVE DocInv' /\ WantedInv'
  BY <1>8 DEF DocInv, WantedInv
<1>9. ASSUME NEW i \in Id, AddNodeCall(i) PROVE GraphInv'
  BY <1>8, <1>9, AddNodeCallStep DEF AddNodeCall
<1>10. ASSUME NEW i \in Id, NEW j \in Id, AddEdgeCall(i, j) PROVE GraphInv'
  BY <1>8, <1>10, AddEdgeCallStep DEF AddEdgeCall
<1>11. CASE LoadGraph
  BY <1>8, <1>11, LoadGraphStep DEF LoadGraph
<1>12. CASE LoadRefused
  BY <1>8, <1>12 DEF LoadRefused, EngineInv, TriggerInv, LoadedInv
<1>13. CASE EnsureTriggerNode
  BY <1>8, <1>13, EnsureTriggerStep DEF EnsureTriggerNode
<1>14. CASE UNCHANGED vars
  BY <1>8, <1>14 DEF vars, EngineInv, TriggerInv, LoadedInv
<1>15. QED
  BY <1>1, <1>2, <1>3, <1>4, <1>5, <1>6, <1>7, <1>9, <1>10, <1>11, <1>12, <1>13, <1>14 DEF Next

\* What is said of documents, engines and loading holds in every state.
THEOREM GraphInductive == Spec => []GraphInv
<1>1. QED BY InitInv, StepInv, PTL DEF Spec

-----------------------------------------------------------------------------
(* The graph and its chains *)

LEMMA InvTyped == GraphInv => TypeOK
BY DEF GraphInv, EngineInv, EngineOK, NodesOK, EdgesOK, TypeOK, Indices

\* The type invariant: node_map leads to every id of the graph, edges join nodes
\* of the graph, and add_node stops at the cap.
THEOREM GraphTyped == Spec => []TypeOK
<1>1. QED BY GraphInductive, InvTyped, PTL

\* What the detector finds in the engine's graph.
LEMMA EngineChains ==
  ASSUME GraphInv
  PROVE  /\ \A c \in Detected : Len(c) \in Nat /\ c \in Seq(Indices) /\ Linear(eng.edges, c, c[1])
         /\ \A c, d \in Detected : (\E i \in 1 .. Len(c), j \in 1 .. Len(d) : c[i] = d[j]) => c = d
<1>1. EngineOK(eng) BY DEF GraphInv, EngineInv
<1>2. Indices = 1 .. Len(eng.nodes) /\ Len(eng.nodes) \in Nat BY <1>1 DEF EngineOK, NodesOK, Indices
<1>3. IsFiniteSet(Indices) BY <1>2, FS_Interval
<1>4. IsFiniteSet(eng.edges) /\ \A e \in eng.edges : e.src \in Indices /\ e.dst \in Indices /\ e.key \in Nat
  BY <1>1, <1>2, FS_CardinalityType DEF EngineOK, EdgesOK
<1>5. QED BY <1>3, <1>4, Detection DEF Detected

LEMMA InvLinear == GraphInv => ChainsAreLinear
<1> SUFFICES ASSUME GraphInv, NEW c \in Detected, NEW i \in 1 .. Len(c) - 1
             PROVE  /\ \E e \in eng.edges : e.src = c[i] /\ e.dst = c[i + 1]
                    /\ \A e \in eng.edges : e.dst = c[i + 1] <=> e.src = c[i]
  BY DEF ChainsAreLinear
<1>1. Joined(eng.edges, c[i], c[i + 1]) BY EngineChains DEF Linear
<1>2. QED BY <1>1 DEF Joined

LEMMA InvDisjoint == GraphInv => ChainsAreDisjoint
<1> SUFFICES ASSUME GraphInv, NEW c \in Detected, NEW d \in Detected, ToSet(c) \cap ToSet(d) # {}
             PROVE  c = d
  BY DEF ChainsAreDisjoint
<1>1. DOMAIN c = 1 .. Len(c) /\ DOMAIN d = 1 .. Len(d) BY EngineChains
<1>2. \E i \in 1 .. Len(c), j \in 1 .. Len(d) : c[i] = d[j] BY <1>1 DEF ToSet
<1>3. QED BY <1>2, EngineChains

\* Consecutive members of a chain are joined by an edge, and no other edge enters
\* the one or leaves the other.
THEOREM ChainsLinear == Spec => []ChainsAreLinear
<1>1. QED BY GraphInductive, InvLinear, PTL

\* No node is in two chains, so none is executed by two pipeline jobs.
THEOREM ChainsDisjoint == Spec => []ChainsAreDisjoint
<1>1. QED BY GraphInductive, InvDisjoint, PTL

-----------------------------------------------------------------------------
(* The trigger's edges *)

LEMMA AllDifferent ==
  ASSUME NEW S, NEW s \in Seq(S), Cardinality(ToSet(s)) = Len(s)
  PROVE  \A i, j \in 1 .. Len(s) : s[i] = s[j] => i = j
<1>1. Len(s) \in Nat /\ DOMAIN s = 1 .. Len(s) /\ s = [i \in 1 .. Len(s) |-> s[i]]
  OBVIOUS
<1>2. IsFiniteSet(1 .. Len(s)) /\ Cardinality(1 .. Len(s)) = Len(s)
  <2> DEFINE n == Len(s)
  <2>1. n \in Int /\ 1 \in Int BY <1>1
  <2> HIDE DEF n
  <2>2. IsFiniteSet(1 .. n) /\ Cardinality(1 .. n) = IF 1 > n THEN 0 ELSE n - 1 + 1
    BY <2>1, FS_Interval
  <2>3. QED BY <1>1, <2>2 DEF n
<1>3. s \in Surjection(1 .. Len(s), ToSet(s))
  BY <1>1 DEF Surjection, ToSet
<1>4. s \in Injection(1 .. Len(s), ToSet(s))
  BY <1>2, <1>3, FS_Surjection
<1>5. QED BY <1>1, <1>4 DEF Injection, IsInjective

LEMMA TriggerStep == GraphInv /\ [Next]_vars => [FeedsRoots]_vars
<1> SUFFICES ASSUME GraphInv, EnsureTriggerNode, phase' # "panicked",
                    Cardinality(ToSet(eng'.nodes)) = Len(eng'.nodes)
             PROVE  /\ \A k \in DOMAIN eng'.nodes : eng'.nodes[k] # Trigger => \E e \in eng'.edges : e.dst = k
                    /\ \A e, f \in eng'.edges : (e.src = f.src /\ e.dst = f.dst /\ eng'.nodes[e.src] = Trigger) => e = f
                    /\ \A e \in eng'.edges \ eng.edges : \A f \in eng'.edges : f.dst = e.dst => f = e
  BY DEF FeedsRoots
<1> DEFINE g == WithTrigger
           h == FeedRoots(g)
<1>1. OneMore(g, eng)
  BY WithTriggerOK DEF GraphInv, EngineInv, TriggerInv
<1>2. eng' = h /\ (Roots(g) # {} => Trigger \in DOMAIN g.map)
  BY DEF EnsureTriggerNode
<1>3. FedInv(h, g, Len(g.nodes))
  BY <1>1, <1>2, FeedAll DEF OneMore
<1> HIDE DEF g, h
<1>4. /\ EngineOK(h) /\ EngineOK(g) /\ TriggerOK(h) /\ h.nodes = g.nodes /\ h.map = g.map /\ g.edges = eng.edges
      /\ DOMAIN g.nodes = 1 .. Len(g.nodes)
  BY <1>1, <1>3 DEF FedInv, SameNodes, OneMore, EngineOK, NodesOK
<1>5. \A i, j \in 1 .. Len(g.nodes) : g.nodes[i] = g.nodes[j] => i = j
  BY <1>2, <1>4, AllDifferent DEF EngineOK, NodesOK
<1>6. \A k \in 1 .. Len(g.nodes) : g.map[g.nodes[k]] = k
  BY <1>4, <1>5 DEF EngineOK, NodesOK, ToSet
<1>7. ASSUME NEW k \in DOMAIN h.nodes, h.nodes[k] # Trigger PROVE \E e \in h.edges : e.dst = k
  <2>1. CASE k \in Roots(g)
    BY <1>3, <1>4, <1>6, <2>1 DEF FedInv
  <2>2. CASE k \notin Roots(g)
    BY <1>3, <1>4, <1>7, <2>2 DEF FedInv, Roots
  <2>3. QED BY <2>1, <2>2
<1>8. ASSUME NEW e \in h.edges \ eng.edges, NEW f \in h.edges, f.dst = e.dst PROVE f = e
  <2>1. PICK l \in 1 .. Len(g.nodes) : l \in Roots(g) /\ e.src = g.map[Trigger] /\ e.dst = l
    BY <1>3, <1>4, <1>6, <1>8 DEF FedInv
  <2>2. f \notin g.edges
    BY <1>8, <2>1 DEF Roots
  <2>3. f.src = g.map[Trigger]
    BY <1>3, <1>8, <2>2 DEF FedInv
  <2>4. h.nodes[e.src] = Trigger
    BY <1>2, <1>4, <2>1 DEF EngineOK, NodesOK
  <2>5. QED BY <1>4, <1>8, <2>1, <2>3, <2>4 DEF TriggerOK
<1>9. QED BY <1>2, <1>4, <1>7, <1>8 DEF TriggerOK

\* Installing the trigger gives every root exactly one edge from it, however often
\* it is installed.
THEOREM RootsAreFed == Spec => TriggerFeedsRoots
<1>1. QED BY GraphInductive, TriggerStep, PTL DEF Spec, TriggerFeedsRoots

-----------------------------------------------------------------------------
(* Kinds *)

\* The bounds of a field: only `max_iterations' has one from above alone, and only
\* a count, a number of retries and a threshold are brought into an interval.
FieldOK(k, key, f) ==
  /\ f.default \in Int /\ (f.default = Absent \/ f.default >= 0)
  /\ \/ f.lo = 0 /\ f.hi \in {1, Unbounded} /\ key # "max_iterations"
     \/ f.lo = 0 /\ f.hi \in {50, 100} /\ key = "max_iterations" /\ (k \in {"agent_loop", "react_loop"} => f.hi = 50)
     \/ f.lo \in {0, 1, 2} /\ f.hi \in {5, 10, 100} /\ key \in {"count", "max_retries", "threshold"}
  /\ \/ f.refused = {}
     \/ f.refused = {Absent}
     \/ f.refused = {0} /\ k \in {"capability_dispatch", "inline_judge"}

LEMMA BaseFieldsOK ==
  ASSUME NEW k \in KnownSystemKindsBase, NEW key \in DOMAIN BaseKinds[k]
  PROVE  FieldOK(k, key, BaseKinds[k][key])
<1> USE DEF BaseKinds, FieldOK, Required, NonEmpty, Optional, Or, AtMost, Between, Field, Absent, Unbounded
<1>1. CASE k = "wait" BY <1>1
<1>2. CASE k = "sub_workflow" BY <1>2
<1>3. CASE k = "loop" BY <1>3
<1>4. CASE k = "while_loop" BY <1>4
<1>5. CASE k = "repeat_loop" BY <1>5
<1>6. CASE k = "fan_in" BY <1>6
<1>7. CASE k = "error_handler" BY <1>7
<1>8. CASE k = "collect" BY <1>8
<1>9. CASE k = "synthesize" BY <1>9
<1>10. CASE k = "verify" BY <1>10
<1>11. CASE k = "dispatch" BY <1>11
<1>12. CASE k = "capability_dispatch" BY <1>12
<1> HIDE DEF BaseKinds, FieldOK, Required, NonEmpty, Optional, Or, AtMost, Between, Field, Absent, Unbounded
<1>13. QED BY <1>1, <1>2, <1>3, <1>4, <1>5, <1>6, <1>7, <1>8, <1>9, <1>10, <1>11, <1>12 DEF KnownSystemKindsBase

LEMMA LlmFieldsOK ==
  ASSUME NEW k \in KnownSystemKindsLlm, NEW key \in DOMAIN LlmKinds[k]
  PROVE  FieldOK(k, key, LlmKinds[k][key])
<1> USE DEF LlmKinds, AgentFields, FieldOK, Required, NonEmpty, Optional, Or, AtMost, Between, Field, Absent, Unbounded
<1>1. CASE k = "agent_loop" BY <1>1
<1>2. CASE k = "react_loop" BY <1>2
<1>3. CASE k = "judge" BY <1>3
<1>4. CASE k = "inline_judge" BY <1>4
<1>5. CASE k = "ensemble" BY <1>5
<1>6. CASE k = "confidence_gate" BY <1>6
<1>7. CASE k = "reflective_retry" BY <1>7
<1>8. CASE k = "llm_dispatch" BY <1>8
<1> HIDE DEF LlmKinds, AgentFields, FieldOK, Required, NonEmpty, Optional, Or, AtMost, Between, Field, Absent, Unbounded
<1>9. QED BY <1>1, <1>2, <1>3, <1>4, <1>5, <1>6, <1>7, <1>8 DEF KnownSystemKindsLlm

\* Builder, parser and validator have the same list of kinds.
LEMMA KnownKinds ==
  ASSUME NEW k
  PROVE  /\ k \in ParsedKinds <=> KnownSystemKind(k)
         /\ k \in ParsedKinds => k # "none"
<1>1. DOMAIN BaseKinds = KnownSystemKindsBase
  BY DEF BaseKinds, KnownSystemKindsBase
<1>2. DOMAIN LlmKinds = KnownSystemKindsLlm
  BY DEF LlmKinds, KnownSystemKindsLlm
<1>3. k \in ParsedKinds <=> KnownSystemKind(k)
  BY <1>1, <1>2 DEF ParsedKinds, KnownSystemKind
<1>4. ~KnownSystemKind("none")
  BY DEF KnownSystemKind, KnownSystemKindsBase, KnownSystemKindsLlm
<1>5. QED BY <1>3, <1>4

LEMMA FieldsOK ==
  ASSUME NEW k \in ParsedKinds, NEW key \in DOMAIN Fields(k)
  PROVE  FieldOK(k, key, Fields(k)[key])
<1>1. DOMAIN BaseKinds = KnownSystemKindsBase
  BY DEF BaseKinds, KnownSystemKindsBase
<1>2. DOMAIN LlmKinds = KnownSystemKindsLlm
  BY DEF LlmKinds, KnownSystemKindsLlm
<1>3. CASE k \in KnownSystemKindsBase
  BY <1>1, <1>3, BaseFieldsOK DEF Fields
<1>4. CASE k \notin KnownSystemKindsBase
  BY <1>1, <1>2, <1>4, LlmFieldsOK DEF Fields, ParsedKinds
<1>5. QED BY <1>3, <1>4

\* A field that a caller may set, brought into its bounds once and twice.
LEMMA BringOnce ==
  ASSUME NEW k, NEW key, NEW f, FieldOK(k, key, f), NEW v,
         v \in 0 .. (IF f.hi = 1 THEN 1 ELSE Unbounded) \/ (v = Absent /\ f.default = Absent /\ Absent \notin f.refused)
  PROVE  LET r == Bring(f, IF v = Absent THEN f.default ELSE v) IN
           /\ r \in Int
           /\ \/ r = v
              \/ key = "max_iterations" /\ r \in {50, 100} /\ v > r
              \/ key \in {"count", "max_retries", "threshold"} /\ r \in {1, 2, 5, 10, 100}
           /\ r = Absent <=> v = Absent
           /\ r # Absent => r <= f.hi
           /\ r \in f.refused => k \in {"capability_dispatch", "inline_judge"}
           /\ Bring(f, IF r = Absent THEN f.default ELSE r) = r
<1> DEFINE r == Bring(f, IF v = Absent THEN f.default ELSE v)
<1>1. CASE v = Absent
  BY <1>1 DEF Bring, FieldOK, Absent
<1>2. CASE v # Absent
  <2>1. v \in 0 .. (IF f.hi = 1 THEN 1 ELSE Unbounded) BY <1>2
  <2>2. r = IF v < f.lo THEN f.lo ELSE IF v > f.hi THEN f.hi ELSE v
    BY <1>2 DEF Bring
  <2>3. f.lo \in Nat /\ f.hi \in Nat /\ f.lo <= f.hi
    BY DEF FieldOK, Unbounded
  <2>4. r \in Nat /\ f.lo <= r /\ r <= f.hi /\ r # Absent
    BY <2>1, <2>2, <2>3 DEF Unbounded, Absent
  <2>5. Bring(f, IF r = Absent THEN f.default ELSE r) = r
    <3> HIDE DEF r
    <3>1. QED BY <2>3, <2>4 DEF Bring
  <2>6. \/ r = v
        \/ key = "max_iterations" /\ r \in {50, 100} /\ v > r
        \/ key \in {"count", "max_retries", "threshold"} /\ r \in {1, 2, 5, 10, 100}
    <3>1. CASE f.lo = 0 /\ f.hi \in {1, Unbounded}
      BY <2>1, <2>2, <3>1 DEF Unbounded
    <3>2. CASE f.lo = 0 /\ f.hi \in {50, 100} /\ key = "max_iterations"
      BY <2>1, <2>2, <3>2 DEF Unbounded
    <3>3. CASE f.lo \in {0, 1, 2} /\ f.hi \in {5, 10, 100} /\ key \in {"count", "max_retries", "threshold"}
      BY <2>1, <2>2, <3>3 DEF Unbounded
    <3>4. QED BY <3>1, <3>2, <3>3 DEF FieldOK
  <2> HIDE DEF r
  <2>7. r \in f.refused => k \in {"capability_dispatch", "inline_judge"}
    BY <2>4 DEF FieldOK
  <2>8. QED BY <1>2, <2>4, <2>5, <2>6, <2>7 DEF r
<1>3. QED BY <1>1, <1>2

\* A value of the enum, written out, parsed, written out and parsed again.
LEMMA RoundTrip ==
  ASSUME NEW kind, IsKind(kind)
  PROVE  LET data == SerializeKind(kind)
             back == ParseSystemNodeKind(kind.name, data)
             told(key) == IF key \in DOMAIN data THEN data[key] ELSE Absent
         IN  IF back = NoKind THEN kind.name \in {"capability_dispatch", "inline_judge"}
             ELSE /\ back.name = kind.name
                  /\ ParseSystemNodeKind(back.name, SerializeKind(back)) = back
                  /\ \A key \in DOMAIN back.data :
                       \/ back.data[key] = told(key)
                       \/ key = "max_iterations" /\ back.data[key] \in {50, 100} /\ told(key) > back.data[key]
                       \/ key \in {"count", "max_retries", "threshold"} /\ back.data[key] \in {1, 2, 5, 10, 100}
                  /\ back.name \in {"agent_loop", "react_loop"} => back.data.max_iterations <= 50
<1> DEFINE k == kind.name
           data == SerializeKind(kind)
           back == ParseSystemNodeKind(k, data)
           told(key) == IF key \in DOMAIN data THEN data[key] ELSE Absent
           read == [key \in DOMAIN Fields(k) |-> Read(Fields(k)[key], data, key)]
           refused == \E key \in DOMAIN read : read[key] \in Fields(k)[key].refused
<1>1. k \in ParsedKinds /\ DOMAIN kind.data = DOMAIN Fields(k) /\ k # "none"
  BY KnownKinds DEF IsKind
<1>2. \A key \in DOMAIN Fields(k) : told(key) = kind.data[key]
  BY <1>1 DEF SerializeKind
<1>3. back = IF refused THEN NoKind ELSE [name |-> k, data |-> read]
  BY <1>1 DEF ParseSystemNodeKind
<1>4. ASSUME NEW key \in DOMAIN Fields(k)
      PROVE  /\ read[key] \in Int
             /\ \/ read[key] = told(key)
                \/ key = "max_iterations" /\ read[key] \in {50, 100} /\ told(key) > read[key]
                \/ key \in {"count", "max_retries", "threshold"} /\ read[key] \in {1, 2, 5, 10, 100}
             /\ read[key] # Absent => read[key] <= Fields(k)[key].hi
             /\ read[key] \in Fields(k)[key].refused => k \in {"capability_dispatch", "inline_judge"}
             /\ Bring(Fields(k)[key], IF read[key] = Absent THEN Fields(k)[key].default ELSE read[key]) = read[key]
  <2> DEFINE f == Fields(k)[key]
             v == kind.data[key]
  <2>1. read[key] = Bring(f, IF v = Absent THEN f.default ELSE v) /\ told(key) = v
    BY <1>2 DEF Read
  <2>2. v \in 0 .. (IF f.hi = 1 THEN 1 ELSE Unbounded) \/ (v = Absent /\ f.default = Absent /\ Absent \notin f.refused)
    BY <1>1 DEF IsKind
  <2>3. FieldOK(k, key, f)
    BY <1>1, FieldsOK
  <2> HIDE DEF f, v, k, data, read, told
  <2>4. QED BY <2>1, <2>2, <2>3, BringOnce DEF f
<1>5. DOMAIN read = DOMAIN Fields(k)
  OBVIOUS
<1>6. CASE refused
  <2>1. PICK key \in DOMAIN Fields(k) : read[key] \in Fields(k)[key].refused BY <1>6
  <2>2. k \in {"capability_dispatch", "inline_judge"} /\ back = NoKind BY <1>3, <1>4, <1>6, <2>1
  <2>3. QED BY <2>2
<1>7. CASE ~refused
  <2>1. back = [name |-> k, data |-> read] /\ back.name = k /\ back.data = read /\ back # NoKind
    <3>1. back = [name |-> k, data |-> read] BY <1>3, <1>7
    <3> HIDE DEF back, read
    <3>2. back.name = k /\ back.data = read BY <3>1
    <3>3. QED BY <1>1, <3>1, <3>2 DEF NoKind
  <2> DEFINE more == SerializeKind(back)
             again == [key \in DOMAIN Fields(k) |-> Read(Fields(k)[key], more, key)]
  <2>2. ASSUME NEW key \in DOMAIN Fields(k) PROVE again[key] = read[key]
    <3>1. (IF key \in DOMAIN more THEN more[key] ELSE Absent) = read[key]
      <4> HIDE DEF back, read
      <4>1. QED BY <1>5, <2>1 DEF SerializeKind
    <3>2. again[key] = Bring(Fields(k)[key], IF read[key] = Absent THEN Fields(k)[key].default ELSE read[key])
      <4> HIDE DEF back, read, more
      <4>1. QED BY <3>1 DEF Read
    <3>3. QED BY <1>4, <3>2
  <2>3. again = read
    BY <1>5, <2>2
  <2>4. ParseSystemNodeKind(k, more)
          = IF \E key \in DOMAIN again : again[key] \in Fields(k)[key].refused THEN NoKind ELSE [name |-> k, data |-> again]
    <3> HIDE DEF more
    <3>1. QED BY <1>1 DEF ParseSystemNodeKind
  <2>5. ParseSystemNodeKind(back.name, SerializeKind(back)) = back
    <3> HIDE DEF again, read, back
    <3>1. QED BY <1>7, <2>1, <2>3, <2>4
  <2>6. k \in {"agent_loop", "react_loop"} => read.max_iterations <= 50
    <3> SUFFICES ASSUME k \in {"agent_loop", "react_loop"} PROVE read["max_iterations"] <= 50
      OBVIOUS
    <3>1. "max_iterations" \in DOMAIN Fields(k)
      BY <1>1 DEF Fields, BaseKinds, LlmKinds, AgentFields
    <3>2. Fields(k)["max_iterations"].hi = 50
      BY <1>1, <3>1, FieldsOK DEF FieldOK
    <3> HIDE DEF read
    <3>3. QED BY <1>4, <3>1, <3>2 DEF Absent
  <2>7. QED
    <3> HIDE DEF read, back, k, told
    <3>1. \A key \in DOMAIN back.data :
                       \/ back.data[key] = told(key)
                       \/ key = "max_iterations" /\ back.data[key] \in {50, 100} /\ told(key) > back.data[key]
                       \/ key \in {"count", "max_retries", "threshold"} /\ back.data[key] \in {1, 2, 5, 10, 100}
      BY <1>4, <1>5, <2>1
    <3>2. QED BY <2>1, <2>5, <2>6, <3>1 DEF back, k, told
<1>8. QED BY <1>6, <1>7

-----------------------------------------------------------------------------
(* The engine runs what was built *)

\* The fields that name a sub-workflow are the ones fetched for their kind.
LEMMA AllReferences ==
  ASSUME NEW kind, kind.name \in ParsedKinds, kind.name # "capability_dispatch",
         DOMAIN kind.data = DOMAIN Fields(kind.name),
         NEW f \in Named(kind)
  PROVE  f \in References(kind)
<1> DEFINE k == kind.name
           named == CASE k \in {"sub_workflow", "agent_loop", "react_loop", "judge"} -> {"workflow"}
                      [] k = "ensemble" -> {"workflow", "judge"}
                      [] k = "reflective_retry" -> {"workflow", "reflection"}
                      [] k = "llm_dispatch" -> {"workflow", "routes", "fallback"}
                      [] OTHER -> {}
<1>0. DOMAIN BaseKinds = KnownSystemKindsBase
  BY DEF BaseKinds, KnownSystemKindsBase
<1>f. /\ f \in DOMAIN kind.data /\ kind.data[f] = 1
      /\ f \in {"workflow", "judge", "reflection", "routes", "fallback"}
  BY DEF Named
<1>1. CASE k \in KnownSystemKindsBase
  <2>1. Fields(k) = BaseKinds[k] BY <1>0, <1>1 DEF Fields
  <2>2. f \in DOMAIN BaseKinds[k] BY <1>f, <2>1
  <2>3. k = "sub_workflow" /\ f = "workflow"
    BY <1>1, <1>f, <2>2 DEF KnownSystemKindsBase, BaseKinds
  <2>4. QED BY <1>f, <2>3 DEF References
<1>2. CASE k \in KnownSystemKindsLlm /\ k \notin KnownSystemKindsBase
  <2>1. Fields(k) = LlmKinds[k] BY <1>0, <1>2 DEF Fields
  <2>2. f \in DOMAIN LlmKinds[k] BY <1>f, <2>1
  <2>3. f \in named
    BY <1>2, <1>f, <2>2 DEF KnownSystemKindsLlm, LlmKinds, AgentFields
  <2> HIDE DEF named
  <2>4. References(kind) = {x \in named : kind.data[x] = 1} BY DEF References, named
  <2>5. QED BY <1>f, <2>3, <2>4
<1>3. QED BY <1>1, <1>2, KnownKinds DEF KnownSystemKind

\* A kind in a loaded engine has the fields of a kind the parser knows.
LEMMA LoadedKind ==
  ASSUME GraphInv, phase = "loaded", NEW i \in DOMAIN eng.meta, eng.meta[i].kind # NoKind
  PROVE  LET kind == eng.meta[i].kind
         IN  kind.name \in ParsedKinds /\ DOMAIN kind.data = DOMAIN Fields(kind.name)
<1> DEFINE kind == eng.meta[i].kind
<1>1. i \in DOMAIN eng.map /\ LoadedInv BY DEF GraphInv, EngineInv, EngineOK, NodesOK
<1>2. i # Trigger BY <1>1 DEF LoadedInv
<1>3. PICK l \in 1 .. Len(doc.nodes) : eng.meta[i] = MetaOf(doc.nodes[l], eng.actor)
  BY <1>1, <1>2 DEF LoadedInv, TakenUpTo
<1> DEFINE n == doc.nodes[l]
<1>4. kind = Decoded(n) BY <1>3 DEF MetaOf
<1>5. kind = ParseSystemNodeKind(n.kind, n.data) BY <1>4 DEF Decoded
<1> HIDE DEF n
<1>6. QED BY <1>5 DEF ParseSystemNodeKind

LEMMA InvPrefetched == GraphInv => ReferencesPrefetched
<1> SUFFICES ASSUME GraphInv, phase = "loaded"
             PROVE  eng.cached = {r \in eng.held : eng.meta[r[1]].kind.name # "capability_dispatch"}
  BY DEF ReferencesPrefetched
<1>1. eng.held \subseteq StaticRefs(eng) /\ eng.cached = SubWorkflowIds(eng) \cap eng.held
  BY DEF GraphInv, LoadedInv, CachedOK
<1>2. ASSUME NEW r \in eng.held
      PROVE  r \in SubWorkflowIds(eng) <=> eng.meta[r[1]].kind.name # "capability_dispatch"
  <2>1. PICK i \in DOMAIN eng.meta : \E f \in Named(eng.meta[i].kind) : r = <<i, f>>
    BY <1>1, <1>2 DEF StaticRefs
  <2>f. PICK f \in Named(eng.meta[i].kind) : r = <<i, f>> BY <2>1
  <2> DEFINE kind == eng.meta[i].kind
  <2>2. r[1] = i BY <2>f
  <2>3. ASSUME kind.name # "capability_dispatch" PROVE r \in SubWorkflowIds(eng)
    <3>1. kind # NoKind BY <2>f DEF Named, NoKind
    <3>2. kind.name \in ParsedKinds /\ DOMAIN kind.data = DOMAIN Fields(kind.name) BY <3>1, LoadedKind
    <3>3. f \in References(kind) BY <2>3, <3>2, AllReferences
    <3>4. QED BY <2>f, <3>3 DEF SubWorkflowIds
  <2>4. ASSUME kind.name = "capability_dispatch", r \in SubWorkflowIds(eng) PROVE FALSE
    <3>1. PICK j \in DOMAIN eng.meta : \E h \in References(eng.meta[j].kind) : r = <<j, h>>
      BY <2>4 DEF SubWorkflowIds
    <3>2. j = i BY <2>f, <3>1
    <3>3. References(kind) = {} BY <2>4 DEF References
    <3>4. QED BY <3>1, <3>2, <3>3
  <2>5. QED BY <2>2, <2>3, <2>4
<1>3. QED BY <1>1, <1>2

\* When get_graphs has answered, no dispatch queries for a graph that the store had
\* and a node names, but for the fallback of a capability_dispatch; nothing else is
\* in the cache, and nothing at all if there was no answer.
THEOREM CacheIsTheAnswer == Spec => []ReferencesPrefetched
<1>1. QED BY GraphInductive, InvPrefetched, PTL

\* A typed document whose ids are all different.
LEMMA TypedUnique ==
  ASSUME DocInv, Typed
  PROVE  Unique(doc.nodes) /\ ~doc.raw
<1> DEFINE ids == [k \in 1 .. Len(doc.nodes) |-> doc.nodes[k].id]
<1>1. Len(doc.nodes) \in Nat /\ DOMAIN doc.nodes = 1 .. Len(doc.nodes)
      /\ \A k \in 1 .. Len(doc.nodes) : doc.nodes[k].id \in Id
  <2>1. doc.nodes \in Seq(ToSet(doc.nodes)) /\ \A k \in 1 .. Len(doc.nodes) : IsNode(doc.nodes[k]) BY DEF DocInv
  <2>2. Len(doc.nodes) \in Nat /\ DOMAIN doc.nodes = 1 .. Len(doc.nodes) BY <2>1
  <2>3. ASSUME NEW k \in 1 .. Len(doc.nodes) PROVE doc.nodes[k].id \in Id
    <3>1. IsNode(doc.nodes[k]) BY <2>1
    <3>2. QED BY <3>1 DEF IsNode
  <2>4. QED BY <2>2, <2>3
<1>2. ids \in Seq(Id) /\ Len(ids) = Len(doc.nodes) /\ DOMAIN ids = 1 .. Len(doc.nodes)
  BY <1>1
<1>3. ToSet(ids) = Ids(doc.nodes) BY <1>1, <1>2 DEF ToSet, Ids
<1>4. \A k, l \in 1 .. Len(ids) : ids[k] = ids[l] => k = l
  <2> HIDE DEF ids
  <2>1. QED BY <1>2, <1>3, AllDifferent DEF Typed
<1>5. QED BY <1>2, <1>4 DEF Unique, Typed

\* What LoadedInv says of a typed document: its nodes are the ones of the graph.
LEMMA TypedLoaded ==
  ASSUME GraphInv, phase = "loaded", Typed
  PROVE  /\ Told(doc.nodes, wanted)
         /\ \A k \in 1 .. Len(doc.nodes) :
              /\ IsTyped(doc.nodes[k]) /\ Taken(doc.nodes[k]) /\ IsNode(doc.nodes[k])
              /\ SkipsIn(doc.nodes[k]) <=> doc.nodes[k].skip # {}
              /\ ContinuesIn(doc.nodes[k]) <=> doc.nodes[k].coe # {}
              /\ doc.nodes[k].id \in DOMAIN eng.meta => eng.meta[doc.nodes[k].id] = MetaOf(doc.nodes[k], eng.actor)
         /\ Len(doc.nodes) <= Cap => Ids(doc.nodes) = DOMAIN eng.map \ {Trigger}
<1>1. DocInv /\ WantedInv /\ EngineInv /\ LoadedInv BY DEF GraphInv
<1>2. Unique(doc.nodes) /\ ~doc.raw BY <1>1, TypedUnique
<1>3. Told(doc.nodes, wanted) BY <1>1, <1>2 DEF WantedInv, LoadedInv
<1>4. ASSUME NEW k \in 1 .. Len(doc.nodes)
      PROVE  /\ IsTyped(doc.nodes[k]) /\ Taken(doc.nodes[k]) /\ IsNode(doc.nodes[k]) /\ doc.nodes[k].id # Trigger
             /\ SkipsIn(doc.nodes[k]) <=> doc.nodes[k].skip # {}
             /\ ContinuesIn(doc.nodes[k]) <=> doc.nodes[k].coe # {}
             /\ doc.nodes[k].id \in DOMAIN eng.meta => eng.meta[doc.nodes[k].id] = MetaOf(doc.nodes[k], eng.actor)
  <2> DEFINE n == doc.nodes[k]
  <2>1. IsTyped(n) /\ IsNode(n) BY <1>1, <1>2 DEF WantedInv, DocInv
  <2>2. n.id # Trigger BY <2>1, GraphAssumption DEF IsNode
  <2> HIDE DEF n
  <2>3. /\ Taken(n) /\ n.skip \cap SkipPlaces(n) = n.skip /\ n.coe \cap ContinuePlaces(n) = n.coe
    <3>1. CASE n.type = "uuid"
      <4>1. IsModule(n) BY <3>1 DEF IsModule, ModuleIdStr
      <4>2. /\ SkipPlaces(n) = (IF n.has_data THEN {"data", "node", "config"} ELSE {"node", "config"})
            /\ ContinuePlaces(n) = (IF n.has_data THEN {"data", "node"} ELSE {"node", "config"})
        BY <4>1 DEF SkipPlaces, ContinuePlaces, IsModule, IsSystem
      <4>3. n.skip \subseteq (IF n.has_data THEN {"data", "node"} ELSE {"node"}) /\ n.coe \subseteq {"node"}
        BY <2>1, <3>1 DEF IsTyped
      <4>4. QED BY <4>1, <4>2, <4>3 DEF Taken
    <3>2. CASE n.type = "system"
      <4>1. IsSystem(n) /\ ~IsModule(n) BY <2>1, <3>2 DEF IsSystem, IsModule, ModuleIdStr, IsTyped
      <4>2. n.has_data /\ n.skip \subseteq {"node"} /\ n.coe \subseteq {"node"} BY <2>1, <3>2 DEF IsTyped
      <4>3. SkipPlaces(n) = {"data", "node"} /\ ContinuePlaces(n) = {"data", "node"}
        BY <4>1, <4>2 DEF SkipPlaces, ContinuePlaces
      <4>4. QED BY <4>1, <4>2, <4>3 DEF Taken
    <3>3. QED BY <2>1, <3>1, <3>2 DEF IsTyped
  <2>6. ASSUME n.id \in DOMAIN eng.meta PROVE eng.meta[n.id] = MetaOf(n, eng.actor)
    <3>1. n.id \in DOMAIN eng.map \ {Trigger} BY <1>1, <2>2, <2>6 DEF EngineInv, EngineOK, NodesOK
    <3>2. PICK l \in 1 .. Len(doc.nodes) : doc.nodes[l].id = n.id /\ eng.meta[n.id] = MetaOf(doc.nodes[l], eng.actor)
      BY <1>1, <3>1 DEF LoadedInv, TakenUpTo
    <3>3. l = k BY <1>2, <3>2 DEF Unique, n
    <3>4. QED BY <3>2, <3>3 DEF n
  <2>7. /\ Taken(n) /\ (SkipsIn(n) <=> n.skip # {}) /\ (ContinuesIn(n) <=> n.coe # {})
    BY <2>3 DEF SkipsIn, ContinuesIn
  <2>8. QED BY <2>1, <2>2, <2>6, <2>7 DEF n
<1>5. ASSUME Len(doc.nodes) <= Cap PROVE Ids(doc.nodes) = DOMAIN eng.map \ {Trigger}
  <2>1. DOMAIN doc.nodes = 1 .. Len(doc.nodes) BY <1>1 DEF DocInv
  <2>2. eng.labels \ {Trigger} = Ids(doc.nodes)
    <3>1. {m \in 1 .. Len(doc.nodes) : Taken(doc.nodes[m])} = DOMAIN doc.nodes BY <1>4, <2>1
    <3>2. eng.labels \ {Trigger} = {doc.nodes[l].id : l \in DOMAIN doc.nodes}
      BY <1>1, <3>1 DEF LoadedInv, TakenUpTo
    <3>3. QED BY <3>2 DEF Ids
  <2>3. \A i \in DOMAIN eng.map \ {Trigger} : \E l \in 1 .. Len(doc.nodes) : doc.nodes[l].id = i
    BY <1>1 DEF LoadedInv, TakenUpTo
  <2>4. eng.labels \ {Trigger} \subseteq DOMAIN eng.map
    BY <1>1, <1>5 DEF LoadedInv, TakenUpTo
  <2>5. QED BY <2>1, <2>2, <2>3, <2>4 DEF Ids
<1>6. QED BY <1>3, <1>4, <1>5

LEMMA InvLoads == GraphInv => LoadsWhatWasBuilt
<1> SUFFICES ASSUME GraphInv, phase = "loaded", Typed, Len(doc.nodes) <= Cap
             PROVE  /\ Ids(doc.nodes) = DOMAIN eng.map \ {Trigger}
                    /\ eng.skip = wanted.skip /\ eng.coe = wanted.coe
                    /\ \A i \in Ids(doc.nodes) : eng.meta[i].module =>
                         eng.meta[i].retry = IF eng.actor \/ wanted.retry[i] < 3 THEN wanted.retry[i] ELSE 3
                    /\ Cardinality({e \in eng.edges : eng.nodes[e.src] # Trigger})
                         = Cardinality({k \in DOMAIN doc.edges : {doc.edges[k].src, doc.edges[k].dst} \subseteq Ids(doc.nodes)})
                    /\ \A e \in eng.edges : eng.nodes[e.src] # Trigger =>
                         \E k \in DOMAIN doc.edges :
                           doc.edges[k] = [src |-> eng.nodes[e.src], dst |-> eng.nodes[e.dst], cond |-> e.cond]
  BY DEF LoadsWhatWasBuilt
<1>1. DocInv /\ EngineInv /\ LoadedInv /\ Told(doc.nodes, wanted) /\ Ids(doc.nodes) = DOMAIN eng.map \ {Trigger}
      /\ DOMAIN doc.nodes = 1 .. Len(doc.nodes) /\ DOMAIN doc.edges = 1 .. Len(doc.edges)
  BY TypedLoaded DEF GraphInv, DocInv
<1>2. eng.skip = wanted.skip
  <2>1. eng.skip = {doc.nodes[l].id : l \in {m \in 1 .. Len(doc.nodes) : SkipsIn(doc.nodes[m])}}
    BY <1>1 DEF LoadedInv, TakenUpTo
  <2>2. \A l \in 1 .. Len(doc.nodes) : SkipsIn(doc.nodes[l]) <=> doc.nodes[l].id \in wanted.skip
    BY <1>1, TypedLoaded DEF Told
  <2>3. \A i \in wanted.skip : \E l \in 1 .. Len(doc.nodes) : doc.nodes[l].id = i
    BY <1>1 DEF Told
  <2>4. QED BY <2>1, <2>2, <2>3
<1>3. eng.coe = wanted.coe
  <2>1. eng.coe = {doc.nodes[l].id : l \in {m \in 1 .. Len(doc.nodes) : ContinuesIn(doc.nodes[m])}}
    BY <1>1 DEF LoadedInv, TakenUpTo
  <2>2. \A l \in 1 .. Len(doc.nodes) : ContinuesIn(doc.nodes[l]) <=> doc.nodes[l].id \in wanted.coe
    BY <1>1, TypedLoaded DEF Told
  <2>3. \A i \in wanted.coe : \E l \in 1 .. Len(doc.nodes) : doc.nodes[l].id = i
    BY <1>1 DEF Told
  <2>4. QED BY <2>1, <2>2, <2>3
<1>4. ASSUME NEW i \in Ids(doc.nodes), eng.meta[i].module
      PROVE  eng.meta[i].retry = IF eng.actor \/ wanted.retry[i] < 3 THEN wanted.retry[i] ELSE 3
  <2>1. PICK k \in 1 .. Len(doc.nodes) : doc.nodes[k].id = i BY <1>1 DEF Ids
  <2> DEFINE n == doc.nodes[k]
  <2>2. i \in DOMAIN eng.meta BY <1>1 DEF EngineInv, EngineOK, NodesOK
  <2>3. eng.meta[i] = MetaOf(n, eng.actor) /\ IsTyped(n) BY <2>1, <2>2, TypedLoaded
  <2>4. wanted.retry[i] = n.retry BY <1>1, <2>1 DEF Told
  <2> HIDE DEF n
  <2>5. IsModule(n) /\ eng.meta[i].retry = RetryPolicy(n, eng.actor) BY <1>4, <2>3 DEF MetaOf
  <2>6. ~IsSystem(n) BY <2>5 DEF IsModule, IsSystem
  <2>7. n.retry \in {-1, 0, 5} BY <2>3 DEF IsTyped, Retries, Absent
  <2>8. QED BY <2>4, <2>5, <2>6, <2>7 DEF RetryPolicy, MaxRetriesUnbudgeted, NoRetry, Absent
<1>5. /\ Cardinality({e \in eng.edges : eng.nodes[e.src] # Trigger})
           = Cardinality({k \in DOMAIN doc.edges : {doc.edges[k].src, doc.edges[k].dst} \subseteq Ids(doc.nodes)})
      /\ \A e \in eng.edges : eng.nodes[e.src] # Trigger =>
           \E k \in DOMAIN doc.edges :
             doc.edges[k] = [src |-> eng.nodes[e.src], dst |-> eng.nodes[e.dst], cond |-> e.cond]
  <2>1. DrawnUpTo(doc.edges, eng, Len(doc.edges)) BY <1>1 DEF LoadedInv
  <2>2. Old(eng) = {e \in eng.edges : eng.nodes[e.src] # Trigger} BY DEF Old
  <2>3. Joinable(doc.edges, Known(eng), Len(doc.edges))
          = {k \in DOMAIN doc.edges : {doc.edges[k].src, doc.edges[k].dst} \subseteq Ids(doc.nodes)}
    BY <1>1 DEF Joinable, Known
  <2>4. Cardinality(Old(eng)) = Cardinality(Joinable(doc.edges, Known(eng), Len(doc.edges)))
        /\ \A e \in Old(eng) : \E k \in 1 .. Len(doc.edges) :
             doc.edges[k] = [src |-> eng.nodes[e.src], dst |-> eng.nodes[e.dst], cond |-> e.cond]
    BY <2>1 DEF DrawnUpTo
  <2>5. QED BY <1>1, <2>2, <2>3, <2>4
<1>6. QED BY <1>1, <1>2, <1>3, <1>4, <1>5

\* What the typed builder was told is what the engine runs, up to the cap: nodes,
\* skip conditions, continue-on-error, retries and edges.
THEOREM BuiltIsLoaded == Spec => []LoadsWhatWasBuilt
<1>1. QED BY GraphInductive, InvLoads, PTL

LEMMA InvRoundTrip == GraphInv => KindsRoundTrip
<1> SUFFICES ASSUME GraphInv, phase = "loaded", Typed,
                    NEW k \in DOMAIN doc.nodes, doc.nodes[k].type = "system", doc.nodes[k].id \in DOMAIN eng.meta
             PROVE  LET n == doc.nodes[k]
                        kind == eng.meta[n.id].kind
                        told(f) == IF f \in DOMAIN n.data THEN n.data[f] ELSE Absent
                    IN  IF kind = NoKind THEN n.kind \in {"capability_dispatch", "inline_judge"}
                        ELSE /\ kind.name = n.kind
                             /\ ParseSystemNodeKind(kind.name, SerializeKind(kind)) = kind
                             /\ \A f \in DOMAIN kind.data :
                                  \/ kind.data[f] = told(f)
                                  \/ f = "max_iterations" /\ kind.data[f] \in {50, 100} /\ told(f) > kind.data[f]
                                  \/ f \in {"count", "max_retries", "threshold"} /\ kind.data[f] \in {1, 2, 5, 10, 100}
                             /\ kind.name \in {"agent_loop", "react_loop"} => kind.data.max_iterations <= 50
  BY DEF KindsRoundTrip
<1> DEFINE n == doc.nodes[k]
<1>1. k \in 1 .. Len(doc.nodes) BY DEF GraphInv, DocInv
<1>2. IsTyped(n) /\ eng.meta[n.id] = MetaOf(n, eng.actor)
  BY <1>1, TypedLoaded
<1> HIDE DEF n
<1>3. PICK value \in KindValue : n.kind = value.name /\ n.data = SerializeKind(value)
  BY <1>2 DEF IsTyped, n
<1>4. IsKind(value) /\ n.kind # "none"
  BY <1>3, CallerAssumption, KnownKinds DEF IsKind
<1>5. eng.meta[n.id].kind = ParseSystemNodeKind(value.name, SerializeKind(value))
  BY <1>2, <1>3, <1>4 DEF MetaOf, Decoded
<1>6. QED BY <1>3, <1>4, <1>5, RoundTrip DEF n

LEMMA InvAgrees == GraphInv => ValidatorAgrees
<1> SUFFICES ASSUME GraphInv, phase = "loaded", Typed, Len(doc.nodes) <= Cap
             PROVE  /\ AnnotationCount = Len(doc.nodes) - Cardinality(DOMAIN eng.map \ {Trigger})
                    /\ \A k \in DOMAIN doc.nodes : doc.nodes[k].kind \in SystemNodeKinds => KnownSystemKind(doc.nodes[k].kind)
  BY DEF ValidatorAgrees
<1>1. DOMAIN doc.nodes = 1 .. Len(doc.nodes) /\ Len(doc.nodes) \in Nat BY DEF GraphInv, DocInv
<1>2. ASSUME NEW k \in DOMAIN doc.nodes
      PROVE  ~IsAnnotation(doc.nodes[k]) /\ (doc.nodes[k].kind # "none" => KnownSystemKind(doc.nodes[k].kind))
  <2> DEFINE n == doc.nodes[k]
  <2>1. IsTyped(n) BY <1>1, TypedLoaded
  <2> HIDE DEF n
  <2>2. CASE n.type = "uuid"
    BY <2>1, <2>2 DEF IsTyped, IsAnnotation, n
  <2>3. CASE n.type = "system"
    <3>1. PICK value \in KindValue : n.kind = value.name BY <2>1, <2>3 DEF IsTyped
    <3>2. KnownSystemKind(n.kind) /\ n.kind # "none"
      BY <3>1, CallerAssumption, KnownKinds DEF IsKind
    <3>3. QED BY <3>2 DEF IsAnnotation, n
  <2>4. QED BY <2>1, <2>2, <2>3 DEF IsTyped
<1>3. AnnotationCount = 0
  <2>1. {k \in DOMAIN doc.nodes : IsAnnotation(doc.nodes[k])} = {} BY <1>2
  <2>2. QED BY <2>1, FS_EmptySet DEF AnnotationCount
<1>4. Cardinality(DOMAIN eng.map \ {Trigger}) = Len(doc.nodes)
  BY TypedLoaded DEF Typed
<1>5. \A k \in DOMAIN doc.nodes : doc.nodes[k].kind \in SystemNodeKinds => KnownSystemKind(doc.nodes[k].kind)
  BY <1>2 DEF SystemNodeKinds
<1>6. QED BY <1>1, <1>3, <1>4, <1>5

\* A kind survives the way into the document and back, within the bounds of the
\* parser, and the validator knows it.
THEOREM KindsComeBack == Spec => []KindsSurvive
<1>1. GraphInv => KindsSurvive BY InvRoundTrip, InvAgrees DEF KindsSurvive
<1>2. QED BY <1>1, GraphInductive, PTL

=============================================================================
