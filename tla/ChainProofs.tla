----------------------------- MODULE ChainProofs -----------------------------
(***************************************************************************)
(* What detect_linear_chains finds, in any finite graph.                   *)
(***************************************************************************)
EXTENDS ChainDetect, FiniteSetTheorems, SequenceTheorems, TLAPS

\* A set of numbers that is not empty has a least element.
LEMMA Least ==
  ASSUME NEW T \in SUBSET Nat, T # {}
  PROVE  \E x \in T : \A y \in T : x <= y
<1>1. PICK x \in T : \A y \in T : ~ (<<y, x>> \in OpToRel(<, Nat))
  BY NatLessThanWellFounded, WFMin
<1>2. \A y \in T : ~(y < x)
  BY <1>1 DEF OpToRel
<1>3. QED BY <1>2

\* One step of the walk.
Extended(E, c) == IF Continues(E, c[Len(c)]) THEN Append(c, FirstChild(E, c[Len(c)])) ELSE c

\* The walk up to step n.
IsWalk(f, E, start, n) == \A k \in 0 .. n : f[k] = IF k = 0 THEN <<start>> ELSE Extended(E, f[k - 1])

\* There is a walk of any length: what is defined by recursion is a function.
LEMMA WalkExists ==
  ASSUME NEW E, NEW start, NEW m \in Nat
  PROVE  \E f : IsWalk(f, E, start, m)
<1> DEFINE P(n) == \E f : IsWalk(f, E, start, n)
           T == {n \in Nat : ~P(n)}
<1> SUFFICES ASSUME T # {} PROVE FALSE
  OBVIOUS
<1>1. PICK n \in T : \A y \in T : n <= y
  BY Least
<1>2. P(0)
  <2> DEFINE f == [k \in 0 .. 0 |-> <<start>>]
  <2>1. IsWalk(f, E, start, 0)
    BY DEF IsWalk
  <2>2. QED BY <2>1
<1>3. n \in Nat /\ n # 0 /\ n - 1 \in Nat /\ P(n - 1) /\ ~P(n)
  <2>1. n \in Nat /\ ~P(n) BY <1>1
  <2> HIDE DEF P
  <2>2. n # 0 BY <2>1, <1>2
  <2>3. n - 1 \in Nat /\ ~(n <= n - 1) BY <2>1, <2>2
  <2>4. n - 1 \notin T BY <1>1, <2>3
  <2>5. QED BY <2>1, <2>2, <2>3, <2>4
<1>4. PICK f : IsWalk(f, E, start, n - 1)
  BY <1>3
<1> DEFINE g == [k \in 0 .. n |-> IF k = n THEN Extended(E, f[n - 1]) ELSE f[k]]
<1>5. /\ g[n] = Extended(E, f[n - 1]) /\ g[n - 1] = f[n - 1]
      /\ \A k \in 0 .. n - 1 : g[k] = f[k]
  BY <1>3
<1> HIDE DEF g
<1>6. IsWalk(g, E, start, n)
  <2> SUFFICES ASSUME NEW k \in 0 .. n PROVE g[k] = IF k = 0 THEN <<start>> ELSE Extended(E, g[k - 1])
    BY DEF IsWalk
  <2>1. CASE k = n
    BY <2>1, <1>3, <1>5
  <2>2. CASE k # n
    <3>1. k \in 0 .. n - 1 /\ (k # 0 => k - 1 \in 0 .. n - 1) BY <2>2, <1>3
    <3>2. f[k] = IF k = 0 THEN <<start>> ELSE Extended(E, f[k - 1]) BY <3>1, <1>4 DEF IsWalk
    <3>3. QED BY <3>1, <3>2, <1>5
  <2>3. QED BY <2>1, <2>2
<1>7. QED BY <1>3, <1>6

\* Walk takes one step per node of the graph.
LEMMA WalkSteps ==
  ASSUME NEW N, NEW E, NEW start, Cardinality(N) \in Nat
  PROVE  \E w : IsWalk(w, E, start, Cardinality(N)) /\ Walk(N, E, start) = w[Cardinality(N)]
<1> DEFINE walk == CHOOSE f : f = [k \in 0 .. Cardinality(N) |-> IF k = 0 THEN <<start>> ELSE Extended(E, f[k - 1])]
<1>1. walk = [k \in 0 .. Cardinality(N) |-> IF k = 0 THEN <<start>> ELSE Extended(E, walk[k - 1])]
  <2>1. PICK f : IsWalk(f, E, start, Cardinality(N))
    BY WalkExists
  <2> DEFINE g == [k \in 0 .. Cardinality(N) |-> f[k]]
  <2>2. g = [k \in 0 .. Cardinality(N) |-> IF k = 0 THEN <<start>> ELSE Extended(E, g[k - 1])]
    BY <2>1 DEF IsWalk
  <2>3. QED BY <2>2
<1>2. Walk(N, E, start) = walk[Cardinality(N)]
  BY DEF Walk, Extended
<1> HIDE DEF walk
<1>3. IsWalk(walk, E, start, Cardinality(N))
  BY <1>1 DEF IsWalk
<1>4. QED
  BY <1>2, <1>3

-----------------------------------------------------------------------------
(* Linear paths *)

\* m and n follow each other in a chain: an edge joins them, and no other edge
\* leaves m or enters n.
Joined(E, m, n) ==
  /\ OutDegree(E, m) = 1 /\ InDegree(E, n) = 1
  /\ \E e \in E : e.src = m /\ e.dst = n
  /\ \A e \in E : e.dst = n <=> e.src = m

\* A sequence that starts at a node and goes on along such edges.
Linear(E, c, start) ==
  /\ Len(c) \in Nat \ {0} /\ c[1] = start
  /\ \A i \in 1 .. Len(c) - 1 : Joined(E, c[i], c[i + 1])

\* The only edge with a property, where edges with it are counted to be one.
LEMMA OnlyOne ==
  ASSUME NEW S, IsFiniteSet(S), Cardinality(S) = 1
  PROVE  \E x \in S : \A y \in S : y = x
<1>1. PICK x : S = {x} BY FS_Singleton
<1>2. QED BY <1>1

\* Where the walk goes on, it goes to a node that is joined.
LEMMA ContinuesJoined ==
  ASSUME NEW E, IsFiniteSet(E), \A e \in E : e.key \in Nat, NEW n, Continues(E, n)
  PROVE  Joined(E, n, FirstChild(E, n))
<1>1. PICK e \in E : e.src = n /\ \A f \in E : f.src = n => f = e
  <2>1. IsFiniteSet({f \in E : f.src = n}) BY FS_Subset
  <2>2. Cardinality({f \in E : f.src = n}) = 1 BY DEF Continues, OutDegree
  <2>3. QED BY <2>1, <2>2, OnlyOne
<1>2. FirstChild(E, n) = e.dst
  BY <1>1 DEF FirstChild
<1>3. PICK g \in E : g.dst = e.dst /\ \A f \in E : f.dst = e.dst => f = g
  <2>1. IsFiniteSet({f \in E : f.dst = e.dst}) BY FS_Subset
  <2>2. Cardinality({f \in E : f.dst = e.dst}) = 1 BY <1>2 DEF Continues, InDegree
  <2>3. QED BY <2>1, <2>2, OnlyOne
<1>4. QED BY <1>1, <1>2, <1>3 DEF Joined, Continues

\* A linear sequence with a joined node after its last one.
LEMMA LinearAppend ==
  ASSUME NEW V, NEW E, NEW c \in Seq(V), NEW start, Linear(E, c, start), NEW x \in V, Joined(E, c[Len(c)], x)
  PROVE  Linear(E, Append(c, x), start)
<1> DEFINE d == Append(c, x)
<1>1. Len(d) = Len(c) + 1 /\ d[Len(c) + 1] = x /\ \A i \in 1 .. Len(c) : d[i] = c[i]
  BY AppendProperties
<1> HIDE DEF d
<1>2. ASSUME NEW i \in 1 .. Len(d) - 1 PROVE Joined(E, d[i], d[i + 1])
  <2>1. CASE i = Len(c)
    BY <2>1, <1>1 DEF Linear
  <2>2. CASE i # Len(c)
    <3>1. i \in 1 .. Len(c) - 1 /\ i + 1 \in 1 .. Len(c) /\ i \in 1 .. Len(c) BY <2>2, <1>1 DEF Linear
    <3>2. QED BY <3>1, <1>1 DEF Linear
  <2>3. QED BY <2>1, <2>2
<1>3. Len(d) \in Nat \ {0} /\ d[1] = start
  BY <1>1 DEF Linear
<1>4. Linear(E, d, start) BY <1>2, <1>3 DEF Linear
<1>5. QED BY <1>4 DEF d

\* The walk is linear after any number of steps.
LEMMA WalkLinear ==
  ASSUME NEW V, NEW E, IsFiniteSet(E), \A e \in E : e.key \in Nat /\ e.dst \in V, NEW start \in V,
         NEW n \in Nat, NEW w, IsWalk(w, E, start, n)
  PROVE  w[n] \in Seq(V) /\ Linear(E, w[n], start)
<1> DEFINE Bad == {k \in 0 .. n : ~(w[k] \in Seq(V) /\ Linear(E, w[k], start))}
<1> SUFFICES ASSUME Bad # {} PROVE FALSE
  OBVIOUS
<1>1. PICK k \in Bad : \A y \in Bad : k <= y
  <2>1. Bad \in SUBSET Nat OBVIOUS
  <2> HIDE DEF Bad
  <2>2. QED BY <2>1, Least
<1>2. k \in 0 .. n /\ w[k] = IF k = 0 THEN <<start>> ELSE Extended(E, w[k - 1])
  BY DEF IsWalk
<1>3. CASE k = 0
  <2>1. <<start>> \in Seq(V) /\ Len(<<start>>) = 1 /\ <<start>>[1] = start
    OBVIOUS
  <2>2. Linear(E, <<start>>, start) BY <2>1 DEF Linear
  <2>3. QED BY <1>1, <1>2, <1>3, <2>1, <2>2
<1>4. CASE k # 0
  <2> DEFINE c == w[k - 1]
  <2>1. c \in Seq(V) /\ Linear(E, c, start)
    <3>1. k - 1 \in 0 .. n /\ ~(k <= k - 1) BY <1>2, <1>4
    <3>2. QED BY <3>1, <1>1
  <2>2. CASE Continues(E, c[Len(c)])
    <3>1. Joined(E, c[Len(c)], FirstChild(E, c[Len(c)]))
      BY <2>2, ContinuesJoined
    <3>2. FirstChild(E, c[Len(c)]) \in V
      BY <3>1 DEF Joined
    <3>3. Linear(E, Append(c, FirstChild(E, c[Len(c)])), start) /\ Append(c, FirstChild(E, c[Len(c)])) \in Seq(V)
      BY <2>1, <3>1, <3>2, LinearAppend, AppendProperties
    <3>4. QED BY <1>1, <1>2, <1>4, <2>2, <3>3 DEF Extended
  <2>3. CASE ~Continues(E, c[Len(c)])
    BY <1>1, <1>2, <1>4, <2>1, <2>3 DEF Extended
  <2>4. QED BY <2>2, <2>3
<1>5. QED BY <1>3, <1>4

\* A node that a chain enters is no start.
LEMMA StartNotJoined ==
  ASSUME NEW E, IsFiniteSet(E), \A e \in E : e.key \in Nat, NEW m, NEW n, Joined(E, m, n)
  PROVE  ~IsStart(E, n)
<1> SUFFICES ASSUME IsStart(E, n) PROVE FALSE
  OBVIOUS
<1>1. InDegree(E, n) = 1 /\ OutDegree(E, m) = 1 BY DEF Joined
<1>2. IsFiniteSet({f \in E : f.dst = n}) /\ Cardinality({f \in E : f.dst = n}) = 1
  BY <1>1, FS_Subset DEF InDegree
<1>3. PICK e \in {f \in E : f.dst = n} : \A f \in {g \in E : g.dst = n} : f = e
  BY <1>2, OnlyOne
<1>4. FirstParent(E, n) = e.src BY <1>3 DEF FirstParent
<1>5. e.src = m BY <1>3 DEF Joined
<1>6. QED BY <1>1, <1>4, <1>5 DEF IsStart

\* Two linear sequences from starts that share a node have the same start: going
\* back along the only edges that enter, both reach it.
LEMMA SameStart ==
  ASSUME NEW E, IsFiniteSet(E), \A e \in E : e.key \in Nat,
         NEW s, NEW t, IsStart(E, s), IsStart(E, t),
         NEW c, NEW d, Linear(E, c, s), Linear(E, d, t),
         NEW i0 \in 1 .. Len(c), NEW j0 \in 1 .. Len(d), c[i0] = d[j0]
  PROVE  s = t
<1> DEFINE Shared == {i \in 1 .. Len(c) : \E j \in 1 .. Len(d) : c[i] = d[j]}
<1>0. Len(c) \in Nat \ {0} /\ Len(d) \in Nat \ {0} BY DEF Linear
<1>1. PICK i \in Shared : \A y \in Shared : i <= y
  <2>1. Shared \in SUBSET Nat /\ Shared # {} BY <1>0
  <2> HIDE DEF Shared
  <2>2. QED BY <2>1, Least
<1>2. PICK j \in 1 .. Len(d) : c[i] = d[j]
  OBVIOUS
<1>3. ASSUME NEW m, NEW n, Joined(E, m, n), IsStart(E, n) PROVE FALSE
  BY <1>3, StartNotJoined
<1>4. CASE i = 1
  <2>1. CASE j = 1
    BY <1>2, <1>4, <2>1 DEF Linear
  <2>2. CASE j # 1
    <3>1. j - 1 \in 1 .. Len(d) - 1 /\ (j - 1) + 1 = j BY <1>0, <2>2
    <3>2. Joined(E, d[j - 1], d[j]) BY <3>1 DEF Linear
    <3>3. d[j] = s BY <1>2, <1>4 DEF Linear
    <3>4. QED BY <1>3, <3>2, <3>3
  <2>3. QED BY <2>1, <2>2
<1>5. CASE i # 1
  <2>1. i - 1 \in 1 .. Len(c) - 1 /\ (i - 1) + 1 = i /\ i - 1 \in 1 .. Len(c) BY <1>0, <1>5
  <2>2. Joined(E, c[i - 1], c[i]) BY <2>1 DEF Linear
  <2>3. CASE j = 1
    <3>1. c[i] = t BY <1>2, <2>3 DEF Linear
    <3>2. QED BY <1>3, <2>2, <3>1
  <2>4. CASE j # 1
    <3>1. j - 1 \in 1 .. Len(d) - 1 /\ (j - 1) + 1 = j /\ j - 1 \in 1 .. Len(d) BY <1>0, <2>4
    <3>2. Joined(E, d[j - 1], d[j]) BY <3>1 DEF Linear
    <3>3. c[i - 1] = d[j - 1] BY <1>2, <2>2, <3>2 DEF Joined
    <3>4. i - 1 \in Shared BY <2>1, <3>1, <3>3
    <3>5. QED BY <1>1, <2>1, <3>4
  <2>5. QED BY <2>3, <2>4
<1>6. QED BY <1>4, <1>5

\* A linear sequence from a start has no node twice: going back from both places,
\* the start would be entered.
LEMMA LinearDistinct ==
  ASSUME NEW E, IsFiniteSet(E), \A e \in E : e.key \in Nat,
         NEW s, IsStart(E, s), NEW c, Linear(E, c, s),
         NEW i0 \in 1 .. Len(c), NEW j0 \in 1 .. Len(c), c[i0] = c[j0]
  PROVE  i0 = j0
<1> DEFINE Twice == {i \in 1 .. Len(c) : \E j \in 1 .. Len(c) : i < j /\ c[i] = c[j]}
<1>0. Len(c) \in Nat \ {0} BY DEF Linear
<1> SUFFICES ASSUME i0 # j0 PROVE FALSE
  OBVIOUS
<1>1. PICK i \in Twice : \A y \in Twice : i <= y
  <2>1. i0 < j0 \/ j0 < i0 BY <1>0
  <2>2. Twice \in SUBSET Nat /\ Twice # {} BY <1>0, <2>1
  <2> HIDE DEF Twice
  <2>3. QED BY <2>2, Least
<1>2. PICK j \in 1 .. Len(c) : i < j /\ c[i] = c[j]
  OBVIOUS
<1>3. j - 1 \in 1 .. Len(c) - 1 /\ (j - 1) + 1 = j BY <1>0, <1>2
<1>4. Joined(E, c[j - 1], c[j]) BY <1>3 DEF Linear
<1>5. CASE i = 1
  <2>1. c[j] = s BY <1>2, <1>5 DEF Linear
  <2>2. QED BY <1>4, <2>1, StartNotJoined
<1>6. CASE i # 1
  <2>1. i - 1 \in 1 .. Len(c) - 1 /\ (i - 1) + 1 = i /\ i - 1 \in 1 .. Len(c) /\ i - 1 < j - 1 /\ j - 1 \in 1 .. Len(c)
    BY <1>0, <1>2, <1>6
  <2>2. Joined(E, c[i - 1], c[i]) BY <2>1 DEF Linear
  <2>3. c[i - 1] = c[j - 1] BY <1>2, <1>4, <2>2 DEF Joined
  <2>4. i - 1 \in Twice BY <2>1, <2>3
  <2>5. QED BY <1>1, <2>1, <2>4
<1>7. QED BY <1>5, <1>6

\* What detect_linear_chains finds in a finite graph: sequences of at least two
\* nodes, each the walk from its first, along edges that nothing else joins or
\* leaves, and no two of them with a node in common.
THEOREM Detection ==
  ASSUME NEW N, IsFiniteSet(N), NEW E, IsFiniteSet(E),
         \A e \in E : e.src \in N /\ e.dst \in N /\ e.key \in Nat
  PROVE  /\ \A c \in DetectLinearChains(N, E) : /\ c \in Seq(N) /\ Len(c) >= 2
                                                /\ IsStart(E, c[1]) /\ Linear(E, c, c[1])
         /\ \A c, d \in DetectLinearChains(N, E) :
              (\E i \in 1 .. Len(c), j \in 1 .. Len(d) : c[i] = d[j]) => c = d
<1>0. Cardinality(N) \in Nat BY FS_CardinalityType
<1>1. ASSUME NEW s \in N
      PROVE  Walk(N, E, s) \in Seq(N) /\ Linear(E, Walk(N, E, s), s) /\ Walk(N, E, s)[1] = s
  <2>1. PICK w : IsWalk(w, E, s, Cardinality(N)) /\ Walk(N, E, s) = w[Cardinality(N)]
    BY <1>0, WalkSteps
  <2>2. w[Cardinality(N)] \in Seq(N) /\ Linear(E, w[Cardinality(N)], s)
    BY <1>0, <2>1, WalkLinear
  <2>3. QED BY <2>1, <2>2 DEF Linear
<1>2. ASSUME NEW c \in DetectLinearChains(N, E)
      PROVE  /\ c \in Seq(N) /\ Len(c) >= 2 /\ c[1] \in N
             /\ IsStart(E, c[1]) /\ Linear(E, c, c[1]) /\ c = Walk(N, E, c[1])
  <2>1. PICK s \in N : IsStart(E, s) /\ c = Walk(N, E, s) /\ Len(c) >= 2
    BY DEF DetectLinearChains
  <2>2. QED BY <1>1, <2>1
<1>3. ASSUME NEW c \in DetectLinearChains(N, E), NEW d \in DetectLinearChains(N, E),
             NEW i \in 1 .. Len(c), NEW j \in 1 .. Len(d), c[i] = d[j]
      PROVE  c = d
  <2>1. c[1] = d[1] BY <1>2, <1>3, SameStart
  <2>2. QED BY <1>2, <2>1
<1>4. QED BY <1>2, <1>3

=============================================================================
