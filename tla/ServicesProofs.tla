---------------------------- MODULE ServicesProofs ----------------------------
(***************************************************************************)
(* The three stores that runs share: the rate limiter, the prefetch cache  *)
(* and the replay cache, each for any values of its constants; and their   *)
(* composition, whose behaviours are behaviours of each of the three.      *)
(***************************************************************************)
EXTENDS MCServices, SequenceTheorems, TLAPS

-----------------------------------------------------------------------------
(***************************************************************************)
(* The rate limiter, for any number of runs and modules, any limits and    *)
(* any interleaving of checks, evictions and restarts.                     *)
(***************************************************************************)

WindowType == [start : Nat, granted : Nat, last : Nat]

\* What the history of a module says: each window within its limit and its
\* span, the windows apart.
Bounded(m, ws) ==
  \A i \in DOMAIN ws :
    /\ ws[i].granted > 0 => Covers(ws[i].granted, m)
    /\ ws[i].last <= ws[i].start + Window
    /\ i > 1 => ws[i].start > ws[i - 1].start + Window

LEMMA WindowBoundParts == WindowBound <=> \A m \in Module : Bounded(m, windows[m])
BY DEF WindowBound, Bounded

\* A window is opened when the last one is over.
LEMMA OpenWindow ==
  ASSUME NEW m, NEW ws \in Seq(WindowType), Bounded(m, ws), NEW t \in Nat,
         ws # <<>> => ws[Len(ws)].start + Window < t
  PROVE  LET w == [start |-> t, granted |-> 0, last |-> t]
         IN  /\ Append(ws, w) \in Seq(WindowType)
             /\ Bounded(m, Append(ws, w))
             /\ Len(Append(ws, w)) = Len(ws) + 1
             /\ Append(ws, w)[Len(ws) + 1] = w
<1> DEFINE w == [start |-> t, granted |-> 0, last |-> t]
<1>1. w \in WindowType /\ w.granted = 0 /\ w.start = t /\ w.last = t
  BY DEF WindowType
<1>2. /\ Append(ws, w) \in Seq(WindowType)
      /\ Len(Append(ws, w)) = Len(ws) + 1
      /\ \A i \in 1 .. Len(ws) : Append(ws, w)[i] = ws[i]
      /\ Append(ws, w)[Len(ws) + 1] = w
  BY <1>1, AppendProperties
<1>3. Len(ws) \in Nat /\ DOMAIN ws = 1 .. Len(ws) /\ DOMAIN Append(ws, w) = 1 .. Len(ws) + 1
  BY <1>2, LenProperties
<1> HIDE DEF w
<1>4. ASSUME NEW i \in 1 .. Len(ws) + 1
      PROVE  /\ Append(ws, w)[i].granted > 0 => Covers(Append(ws, w)[i].granted, m)
             /\ Append(ws, w)[i].last <= Append(ws, w)[i].start + Window
             /\ i > 1 => Append(ws, w)[i].start > Append(ws, w)[i - 1].start + Window
  <2>1. CASE i \in 1 .. Len(ws)
    <3>1. Append(ws, w)[i] = ws[i] /\ (i > 1 => Append(ws, w)[i - 1] = ws[i - 1])
      BY <2>1, <1>2, <1>3
    <3>2. QED BY <2>1, <3>1, <1>3 DEF Bounded
  <2>2. CASE i = Len(ws) + 1
    <3>1. Append(ws, w)[i] = w BY <2>2, <1>2
    <3>2. w.last <= w.start + Window BY <1>1, LimiterAssumption
    <3>3. ASSUME i > 1 PROVE Append(ws, w)[i].start > Append(ws, w)[i - 1].start + Window
      <4>1. ws # <<>> /\ i - 1 = Len(ws) /\ Append(ws, w)[i - 1] = ws[Len(ws)]
        <5>1. i - 1 = Len(ws) /\ Len(ws) \in 1 .. Len(ws) BY <2>2, <3>3, <1>3
        <5>2. ws # <<>> BY <5>1, EmptySeq
        <5>3. QED BY <5>1, <5>2, <1>2
      <4>2. ws[Len(ws)] \in WindowType
        BY <4>1, <1>3, EmptySeq, ElementOfSeq
      <4>3. ws[Len(ws)].start \in Nat
        BY <4>2 DEF WindowType
      <4>4. QED BY <4>1, <4>3, <3>1, <1>1, LimiterAssumption
    <3>4. ~(w.granted > 0) BY <1>1
    <3>5. QED BY <3>1, <3>2, <3>3, <3>4
  <2>3. QED BY <2>1, <2>2, <1>3
<1>5. Bounded(m, Append(ws, w))
  BY <1>3, <1>4 DEF Bounded
<1>6. QED BY <1>2, <1>5 DEF w

\* A grant in the last window, within the limit and within the window.
LEMMA GrantInWindow ==
  ASSUME NEW m, NEW ws \in Seq(WindowType), Bounded(m, ws), ws # <<>>, NEW t \in Nat,
         ws[Len(ws)].start + Window >= t,
         Covers(ws[Len(ws)].granted + 1, m)
  PROVE  LET g == [ws EXCEPT ![Len(ws)] = Granted(@, t)]
         IN  /\ g \in Seq(WindowType)
             /\ Bounded(m, g)
             /\ Len(g) = Len(ws)
             /\ g[Len(ws)] = Granted(ws[Len(ws)], t)
<1> DEFINE n == Len(ws)
           v == Granted(ws[n], t)
           g == [ws EXCEPT ![n] = v]
<1>1. n \in Nat /\ n > 0 /\ DOMAIN ws = 1 .. n
  BY EmptySeq, LenProperties
<1>2. ws[n] \in WindowType
  BY <1>1, ElementOfSeq
<1>3. v \in WindowType /\ v.granted = ws[n].granted + 1 /\ v.start = ws[n].start /\ v.last = t
  BY <1>2 DEF WindowType, Granted
<1>5. /\ g \in Seq(WindowType) /\ Len(g) = n /\ g[n] = v /\ DOMAIN g = 1 .. n
      /\ \A i \in 1 .. n : i # n => g[i] = ws[i]
  <2>1. g \in Seq(WindowType) /\ Len(g) = n
    BY <1>1, <1>3, ExceptSeq
  <2>2. QED BY <2>1, <1>1, LenProperties
<1> HIDE DEF g, v
<1>6. ASSUME NEW i \in 1 .. n
      PROVE  /\ g[i].granted > 0 => Covers(g[i].granted, m)
             /\ g[i].last <= g[i].start + Window
             /\ i > 1 => g[i].start > g[i - 1].start + Window
  <2>0. i > 1 => i - 1 \in 1 .. n /\ i - 1 # n BY <1>1
  <2>1. i > 1 => g[i - 1] = ws[i - 1] BY <2>0, <1>5
  <2>2. g[i].start = ws[i].start BY <1>3, <1>5
  <2>3. i > 1 => g[i].start > g[i - 1].start + Window BY <2>1, <2>2, <1>1 DEF Bounded
  <2>4. CASE i = n BY <2>3, <2>4, <1>3, <1>5
  <2>5. CASE i # n BY <2>3, <2>5, <1>1, <1>5 DEF Bounded
  <2>6. QED BY <2>4, <2>5
<1>7. Bounded(m, g)
  BY <1>5, <1>6 DEF Bounded
<1>8. QED BY <1>5, <1>7 DEF g, v

\* A check of the limit keeps the invariant.
LEMMA CheckStep ==
  ASSUME LimiterInv, NEW r \in Run, NEW m \in Module, CheckRateLimit(r, m)
  PROVE  LimiterInv'
<1>1. /\ clock \in Nat /\ windows[m] \in Seq(WindowType) /\ Bounded(m, windows[m])
      /\ entry[m] \in [start : Nat, count : Nat, there : BOOLEAN] /\ EntryInv(m)
  BY WindowBoundParts DEF LimiterInv, LimiterTypeOK, WindowType
<1> DEFINE opened == Append(windows[m], [start |-> clock, granted |-> 0, last |-> clock])
           ws == IF Lapsed(m) THEN opened ELSE windows[m]
           cur == Current(m)
<1>2. Window \in Nat /\ Interval \in Nat /\ Limit[r][m] \in Int
  BY LimiterAssumption
<1>3. /\ ws \in Seq(WindowType) /\ Bounded(m, ws) /\ ws # <<>>
      /\ ws[Len(ws)].start = cur.start /\ ws[Len(ws)].granted <= cur.count
      /\ clock <= cur.start + Window /\ cur.start <= clock
      /\ cur \in [start : Nat, count : Nat, there : BOOLEAN] /\ cur.there
  <2>1. CASE Lapsed(m)
    <3>1. windows[m] # <<>> => windows[m][Len(windows[m])].start + Window < clock
      <4>1. CASE entry[m].there
        BY <4>1, <2>1, <1>1, <1>2 DEF EntryInv, LastWindow, Lapsed, Expired
      <4>2. CASE ~entry[m].there
        BY <4>2, <1>1 DEF EntryInv, LastWindow
      <4>3. QED BY <4>1, <4>2
    <3>2. /\ opened \in Seq(WindowType) /\ Bounded(m, opened) /\ Len(opened) = Len(windows[m]) + 1
          /\ opened[Len(windows[m]) + 1] = [start |-> clock, granted |-> 0, last |-> clock]
      BY <3>1, <1>1, OpenWindow
    <3>3. opened # <<>>
      BY <3>2, <1>1, EmptySeq, LenProperties
    <3>4. cur = [start |-> clock, count |-> 0, there |-> TRUE]
      BY <2>1 DEF Current, Opened
    <3>5. QED BY <2>1, <3>2, <3>3, <3>4, <1>1, <1>2
  <2>2. CASE ~Lapsed(m)
    <3>1. cur = entry[m] /\ ws = windows[m] BY <2>2 DEF Current
    <3>2. QED BY <3>1, <2>2, <1>1, <1>2 DEF EntryInv, LastWindow, Lapsed, Expired
  <2>3. QED BY <2>1, <2>2
<1>4. /\ entry' = [entry EXCEPT ![m] = Counted(m)]
      /\ Counted(m) = [start |-> cur.start, count |-> cur.count + 1, there |-> TRUE]
      /\ windows' = [windows EXCEPT ![m] = WindowsWith(m, Admits(r, m))]
      /\ clock' = clock /\ backing' = backing /\ nextScan' \in Nat
  BY <1>1, <1>2 DEF CheckRateLimit, Counted, SpawnEviction, LimiterInv, LimiterTypeOK
<1> DEFINE g == [ws EXCEPT ![Len(ws)] = Granted(@, clock)]
           new == IF Admits(r, m) THEN g ELSE ws
<1>5. WindowsWith(m, Admits(r, m)) = new
  BY DEF WindowsWith
<1> HIDE DEF ws, cur
<1>5a. Len(ws) \in Nat /\ Len(ws) > 0 /\ ws[Len(ws)] \in WindowType
  BY <1>3, EmptySeq, LenProperties, ElementOfSeq
<1>6. /\ new \in Seq(WindowType) /\ Bounded(m, new) /\ new # <<>>
      /\ new[Len(new)].start = cur.start /\ new[Len(new)].granted <= cur.count + 1
  <2>1. CASE Admits(r, m)
    <3>1. cur.count + 1 <= Limit[r][m]
      BY <2>1, <1>3, <1>4 DEF Admits
    <3>2. Covers(ws[Len(ws)].granted + 1, m)
      BY <3>1, <1>2, <1>3, <1>5a DEF Covers, WindowType, CheckRateLimit
    <3>3. /\ g \in Seq(WindowType) /\ Bounded(m, g) /\ Len(g) = Len(ws)
          /\ g[Len(ws)] = Granted(ws[Len(ws)], clock)
      <4>1. ws[Len(ws)].start + Window >= clock
        BY <1>3, <1>2, <1>1
      <4>2. QED BY <4>1, <3>2, <1>1, <1>3, GrantInWindow
    <3>4. g[Len(g)].start = cur.start /\ g[Len(g)].granted = ws[Len(ws)].granted + 1
      BY <3>3, <1>3, <1>5a DEF WindowType, Granted
    <3>5. g # <<>>
      BY <3>3, <1>5a, EmptySeq
    <3>6. QED BY <2>1, <3>3, <3>4, <3>5, <1>3, <1>5a DEF WindowType
  <2>2. CASE ~Admits(r, m)
    BY <2>2, <1>3, <1>5a DEF WindowType
  <2>3. QED BY <2>1, <2>2
<1> HIDE DEF new
<1>7. windows'[m] = new /\ \A q \in Module : q # m => windows'[q] = windows[q]
  BY <1>4, <1>5 DEF LimiterInv, LimiterTypeOK
<1>8. /\ entry'[m].start = cur.start /\ entry'[m].count = cur.count + 1 /\ entry'[m].there
      /\ \A q \in Module : q # m => entry'[q] = entry[q]
      /\ entry' \in [Module -> [start : Nat, count : Nat, there : BOOLEAN]]
  BY <1>3, <1>4 DEF LimiterInv, LimiterTypeOK
<1>9. LimiterTypeOK'
  <2>1. windows' \in [Module -> Seq(WindowType)]
    BY <1>4, <1>5, <1>6 DEF LimiterInv, LimiterTypeOK, WindowType
  <2>2. QED BY <2>1, <1>4, <1>8 DEF LimiterInv, LimiterTypeOK, WindowType
<1>10. WindowBound'
  <2>1. \A q \in Module : Bounded(q, windows'[q])
    BY <1>6, <1>7, WindowBoundParts DEF LimiterInv
  <2>2. QED BY <2>1 DEF WindowBound, Bounded, Covers
<1>11. ASSUME NEW q \in Module PROVE EntryInv(q)'
  <2>1. CASE q = m
    BY <2>1, <1>3, <1>4, <1>6, <1>7, <1>8 DEF EntryInv, LastWindow
  <2>2. CASE q # m
    BY <2>2, <1>4, <1>7, <1>8 DEF LimiterInv, EntryInv, LastWindow
  <2>3. QED BY <2>1, <2>2
<1>12. QED BY <1>9, <1>10, <1>11 DEF LimiterInv

\* An eviction, and what empties the counters, keep it: an entry is evicted
\* only when its window is over.
LEMMA EvictStep ==
  ASSUME LimiterInv, EvictStaleRateLimits
  PROVE  LimiterInv'
<1>1. clock' = clock /\ windows' = windows /\ backing' = backing /\ nextScan' \in Nat
  BY LimiterAssumption DEF EvictStaleRateLimits, LimiterInv, LimiterTypeOK
<1>2. \A m \in Module : entry'[m] = entry[m] \/ (entry[m].there /\ StaleEntry(entry[m]) /\ entry'[m] = NoEntry)
  BY DEF EvictStaleRateLimits, LimiterInv, LimiterTypeOK
<1>3. entry' \in [Module -> [start : Nat, count : Nat, there : BOOLEAN]]
  BY DEF EvictStaleRateLimits, LimiterInv, LimiterTypeOK, NoEntry
<1>4. ASSUME NEW m \in Module PROVE EntryInv(m)'
  <2>1. CASE entry'[m] = entry[m]
    BY <2>1, <1>1 DEF LimiterInv, EntryInv, LastWindow
  <2>2. CASE entry[m].there /\ StaleEntry(entry[m]) /\ entry'[m] = NoEntry
    <3>1. entry[m].start \in Nat /\ clock \in Nat
      BY DEF LimiterInv, LimiterTypeOK
    <3>2. LastWindow(m).start + Window < clock
      BY <2>2, <3>1, LimiterAssumption DEF StaleEntry, EntryInv, LimiterInv
    <3>3. QED BY <2>2, <3>2, <1>1 DEF EntryInv, LastWindow, NoEntry
  <2>3. QED BY <2>1, <2>2, <1>2
<1>5. QED BY <1>1, <1>3, <1>4 DEF LimiterInv, LimiterTypeOK, WindowBound, Covers

LEMMA ClearStep ==
  ASSUME LimiterInv, ResetGlobalRateLimits \/ Restart
  PROVE  LimiterInv'
<1>1. clock' = clock /\ backing' = backing /\ nextScan' \in Nat
  BY DEF ResetGlobalRateLimits, Restart, LimiterInv, LimiterTypeOK
<1>2. CASE windows' = windows /\ entry' = entry
  BY <1>1, <1>2 DEF LimiterInv, LimiterTypeOK, WindowBound, Covers, EntryInv, LastWindow
<1>3. CASE windows' = [m \in Module |-> <<>>] /\ entry' = [m \in Module |-> NoEntry]
  <2>1. \A m \in Module : windows'[m] = <<>> /\ ~entry'[m].there
    BY <1>3 DEF NoEntry
  <2>2. LimiterTypeOK'
    BY <1>1, <1>3 DEF LimiterInv, LimiterTypeOK, NoEntry
  <2>3. QED BY <2>1, <2>2 DEF LimiterInv, WindowBound, EntryInv
<1>4. QED BY <1>2, <1>3 DEF ResetGlobalRateLimits, Restart

LEMMA TickStep ==
  ASSUME LimiterInv, ClockTick
  PROVE  LimiterInv'
<1>1. /\ clock \in Nat /\ clock' = clock + 1 /\ entry' = entry /\ windows' = windows
      /\ backing' = backing /\ nextScan' = nextScan
  BY DEF ClockTick, LimiterInv, LimiterTypeOK
<1>2. ASSUME NEW m \in Module PROVE EntryInv(m)'
  <2>1. entry[m].start \in Nat /\ windows[m] \in Seq(WindowType)
    BY DEF LimiterInv, LimiterTypeOK, WindowType
  <2>2. ASSUME windows[m] # <<>> PROVE LastWindow(m).start \in Nat
    <3>1. Len(windows[m]) \in 1 .. Len(windows[m])
      BY <2>1, <2>2, EmptySeq, LenProperties
    <3>2. windows[m][Len(windows[m])] \in WindowType
      BY <2>1, <3>1, ElementOfSeq
    <3>3. QED BY <3>2 DEF LastWindow, WindowType
  <2>3. EntryInv(m) BY DEF LimiterInv
  <2>4. LastWindow(m)' = LastWindow(m) BY <1>1 DEF LastWindow
  <2>5. CASE entry[m].there
    BY <2>5, <2>1, <2>3, <2>4, <1>1 DEF EntryInv
  <2>6. CASE ~entry[m].there
    BY <2>6, <2>2, <2>3, <2>4, <1>1, LimiterAssumption DEF EntryInv
  <2>7. QED BY <2>5, <2>6
<1>3. QED BY <1>1, <1>2 DEF LimiterInv, LimiterTypeOK, WindowBound, Covers

LEMMA LimiterStep == LimiterInv /\ [LimiterNext]_limiterVars => LimiterInv'
<1> SUFFICES ASSUME LimiterInv, [LimiterNext]_limiterVars PROVE LimiterInv'
  OBVIOUS
<1>1. CASE UNCHANGED limiterVars
  BY <1>1 DEF limiterVars, LimiterInv, LimiterTypeOK, WindowBound, Covers, EntryInv, LastWindow
<1>2. CASE \E r \in Run, m \in Module : CheckRateLimit(r, m)
  BY <1>2, CheckStep
<1>3. CASE \E r \in Run, m \in Module : FailOpen(r, m)
  BY <1>1, <1>3 DEF FailOpen
<1>4. QED
  BY <1>1, <1>2, <1>3, EvictStep, ClearStep, TickStep DEF LimiterNext

\* The invariant holds in every state of the limiter.
THEOREM LimiterInductive == LimiterSpec => []LimiterInv
<1>1. LimiterInit => LimiterInv
  <2> SUFFICES ASSUME LimiterInit PROVE LimiterInv
    OBVIOUS
  <2>1. LimiterTypeOK
    BY DEF LimiterInit, LimiterTypeOK, NoEntry
  <2>2. \A m \in Module : windows[m] = <<>> /\ ~entry[m].there
    BY DEF LimiterInit, NoEntry
  <2>3. QED BY <2>1, <2>2 DEF LimiterInv, WindowBound, EntryInv
<1>2. QED BY <1>1, LimiterStep, PTL DEF LimiterSpec

\* The limit bounds what is granted in a window, however many runs check at once
\* and whatever is evicted or restarted between two checks (check_rate_limit,
\* evict_stale_rate_limits).
THEOREM LimitHolds == LimiterSpec => []WindowBound
<1>1. LimiterInv => WindowBound BY DEF LimiterInv
<1>2. QED BY <1>1, LimiterInductive, PTL

-----------------------------------------------------------------------------
(***************************************************************************)
(* The prefetch cache, for any nodes, runs and published versions.         *)
(***************************************************************************)

\* The types, and that a run began with a version that is published.
LEMMA TypeKept ==
  ASSUME PrefetchTypeOK, \A r \in PRun : began[r] <= version, [PrefetchNext]_prefetchVars
  PROVE  PrefetchTypeOK' /\ \A r \in PRun : began'[r] <= version'
<1>v. MaxVersion \in Nat \ {0} /\ version \in Nat /\ version <= MaxVersion /\ version > 0
  BY PrefetchAssumption DEF PrefetchTypeOK
<1>1. ASSUME NEW r \in PRun, Begin(r) PROVE PrefetchTypeOK' /\ \A q \in PRun : began'[q] <= version'
  BY <1>1, <1>v DEF Begin, PrefetchTypeOK
<1>2. ASSUME NEW r \in PRun, End(r) \/ Drop(r) PROVE PrefetchTypeOK' /\ \A q \in PRun : began'[q] <= version'
  <2>1. phase' \in [PRun -> {"new", "active", "ended"}] /\ cache' \in [PNode -> 0 .. MaxVersion]
    BY <1>2, <1>v DEF End, Drop, Cleared, PrefetchTypeOK
  <2>2. tidy' \in BOOLEAN
    BY <1>2 DEF End, Drop, PrefetchTypeOK
  <2>3. /\ version' = version /\ tasks' = tasks /\ began' = began
        /\ launched' = launched /\ fetched' = fetched /\ aged' = aged
    BY <1>2 DEF End, Drop
  <2>4. QED BY <2>1, <2>2, <2>3 DEF PrefetchTypeOK
<1>3. ASSUME NEW r \in PRun, NEW n \in PNode, LaunchNode(r, n)
      PROVE  PrefetchTypeOK' /\ \A q \in PRun : began'[q] <= version'
  <2>1. Prefetched(n) \subseteq PNode
    BY <1>3, PrefetchAssumption DEF Prefetched
  <2>2. {[run |-> r, from |-> n, node |-> s, stage |-> "test", artifact |-> 0] : s \in Prefetched(n)} \subseteq Task
    BY <1>3, <1>v, <2>1 DEF Task
  <2>3. tasks' \subseteq Task
    BY <1>3, <2>2 DEF LaunchNode, PrefetchTypeOK
  <2>4. launched' \in [PRun -> SUBSET PNode]
    BY <1>3 DEF LaunchNode, PrefetchTypeOK
  <2>5. QED BY <1>3, <2>3, <2>4 DEF LaunchNode, PrefetchTypeOK
<1>4. ASSUME NEW r \in PRun, NEW n \in PNode, FetchModule(r, n)
      PROVE  PrefetchTypeOK' /\ \A q \in PRun : began'[q] <= version'
  <2>1. cache' \in [PNode -> 0 .. MaxVersion] /\ fetched' \in [PRun -> SUBSET PNode] /\ aged' \subseteq PRun
    BY <1>4, <1>v DEF FetchModule, PrefetchTypeOK
  <2>2. QED BY <1>4, <2>1 DEF FetchModule, PrefetchTypeOK
<1>5. ASSUME NEW t \in tasks, TaskTests(t) \/ TaskFetches(t) \/ TaskInserts(t)
      PROVE  PrefetchTypeOK' /\ \A q \in PRun : began'[q] <= version'
  <2>0. t \in Task BY <1>5 DEF PrefetchTypeOK
  <2>1. Staged(t, "fetch", 0) \in Task
    BY <2>0, <1>v DEF Task, Staged
  <2>2. Staged(t, "insert", version) \in Task
    BY <2>0, <1>v DEF Task, Staged
  <2>3. tasks' \subseteq Task
    BY <1>5, <2>1, <2>2 DEF TaskTests, TaskFetches, TaskInserts, Moved, PrefetchTypeOK
  <2>4. cache' \in [PNode -> 0 .. MaxVersion]
    BY <1>5, <2>0 DEF TaskTests, TaskFetches, TaskInserts, OrInsert, PrefetchTypeOK, Task
  <2>5. QED BY <1>5, <2>3, <2>4 DEF TaskTests, TaskFetches, TaskInserts, PrefetchTypeOK
<1>6. CASE Publish
  BY <1>6, <1>v DEF Publish, PrefetchTypeOK
<1>7. CASE UNCHANGED prefetchVars
  BY <1>7 DEF prefetchVars, PrefetchTypeOK
<1>8. QED BY <1>1, <1>2, <1>3, <1>4, <1>5, <1>6, <1>7 DEF PrefetchNext

\* While the runs stay orderly, the cache holds nothing older than its run.
LEMMA OrderlyStep ==
  ASSUME PrefetchTypeOK, \A r \in PRun : began[r] <= version, tidy => Orderly,
         [PrefetchNext]_prefetchVars, tidy'
  PROVE  Orderly'
<1>v. version \in Nat /\ began \in [PRun -> Nat] /\ \A n \in PNode : cache[n] \in Nat
  BY PrefetchAssumption DEF PrefetchTypeOK
<1>1. ASSUME NEW r \in PRun, Begin(r) PROVE Orderly'
  <2>1. tidy /\ Orderly /\ \A q \in PRun : phase[q] # "active"
    BY <1>1 DEF Begin
  <2>2. tasks = {} /\ \A n \in PNode : cache[n] = 0
    BY <2>1 DEF Orderly, PrefetchTypeOK, Task
  <2>3. /\ \A q \in PRun : phase'[q] = "active" => q = r
        /\ aged' = aged /\ tasks' = tasks /\ cache' = cache
    BY <1>1, <2>1 DEF Begin, PrefetchTypeOK
  <2>4. QED BY <2>1, <2>2, <2>3 DEF Orderly
<1>2. ASSUME NEW r \in PRun, End(r) PROVE Orderly'
  <2>1. tidy /\ Orderly /\ (\A t \in tasks : t.run # r) /\ phase[r] = "active"
    BY <1>2 DEF End, Outlived
  <2>2. tasks = {}
    BY <2>1 DEF Orderly, PrefetchTypeOK, Task
  <2>3. \A q \in PRun : phase'[q] # "active"
    BY <1>2, <2>1 DEF End, Orderly, PrefetchTypeOK
  <2>4. aged' = aged /\ tasks' = tasks /\ \A n \in PNode : cache'[n] = 0
    BY <1>2 DEF End, Cleared
  <2>5. QED BY <2>1, <2>2, <2>3, <2>4 DEF Orderly
<1>3. ASSUME NEW r \in PRun, Drop(r) PROVE Orderly'
  BY <1>3 DEF Drop
<1>4. ASSUME NEW r \in PRun, NEW n \in PNode, LaunchNode(r, n) PROVE Orderly'
  <2>1. tidy /\ Orderly /\ phase[r] = "active" /\ phase' = phase /\ began' = began /\ cache' = cache /\ aged' = aged
    BY <1>4 DEF LaunchNode
  <2>2. \A t \in tasks' : t \in tasks \/ (t.run = r /\ t.artifact = 0)
    BY <1>4 DEF LaunchNode
  <2>3. QED BY <2>1, <2>2 DEF Orderly
<1>5. ASSUME NEW r \in PRun, NEW n \in PNode, FetchModule(r, n) PROVE Orderly'
  <2>1. /\ tidy /\ Orderly /\ phase[r] = "active" /\ phase' = phase /\ began' = began /\ tasks' = tasks
        /\ cache' = [cache EXCEPT ![n] = 0]
        /\ aged' = IF cache[n] # 0 /\ cache[n] < began[r] THEN aged \cup {r} ELSE aged
    BY <1>5 DEF FetchModule
  <2>2. ~(cache[n] # 0 /\ cache[n] < began[r])
    BY <2>1, <1>v DEF Orderly
  <2>3. aged' = {} BY <2>1, <2>2 DEF Orderly
  <2>4. \A m \in PNode : cache'[m] # 0 => cache'[m] = cache[m]
    BY <2>1 DEF PrefetchTypeOK
  <2>5. QED BY <2>1, <2>3, <2>4 DEF Orderly
<1>6. ASSUME NEW t \in tasks, TaskTests(t) \/ TaskFetches(t) PROVE Orderly'
  <2>1. tidy /\ Orderly /\ phase' = phase /\ began' = began /\ cache' = cache /\ aged' = aged
    BY <1>6 DEF TaskTests, TaskFetches
  <2>2. t \in Task BY <1>6 DEF PrefetchTypeOK
  <2>3. \A s \in tasks' : s \in tasks \/ (s.run = t.run /\ s.artifact \in {0, version})
    <3>1. tasks' \subseteq tasks \cup {Staged(t, "fetch", 0), Staged(t, "insert", version)}
      BY <1>6 DEF TaskTests, TaskFetches, Moved
    <3>2. /\ Staged(t, "fetch", 0).run = t.run /\ Staged(t, "fetch", 0).artifact = 0
          /\ Staged(t, "insert", version).run = t.run /\ Staged(t, "insert", version).artifact = version
      BY DEF Staged
    <3>3. QED BY <3>1, <3>2
  <2>4. phase[t.run] = "active" /\ began[t.run] <= version
    BY <1>6, <2>1, <2>2 DEF Orderly, Task
  <2>5. QED BY <2>1, <2>3, <2>4 DEF Orderly
<1>7. ASSUME NEW t \in tasks, TaskInserts(t) PROVE Orderly'
  <2>1. /\ tidy /\ Orderly /\ phase' = phase /\ began' = began /\ aged' = aged /\ tasks' \subseteq tasks
        /\ cache' = [cache EXCEPT ![t.node] = OrInsert(@, t.artifact)]
    BY <1>7 DEF TaskInserts
  <2>2. t \in Task BY <1>7 DEF PrefetchTypeOK
  <2>3. \A m \in PNode : cache'[m] = cache[m] \/ cache'[m] = t.artifact
    BY <2>1, <2>2 DEF OrInsert, PrefetchTypeOK
  <2>4. /\ t.run \in PRun /\ phase[t.run] = "active"
        /\ t.artifact # 0 => began[t.run] <= t.artifact
    BY <1>7, <2>1, <2>2 DEF Orderly, Task
  <2>5. \A m \in PNode, r \in PRun : cache'[m] # 0 /\ phase'[r] = "active" => began'[r] <= cache'[m]
    BY <2>1, <2>3, <2>4 DEF Orderly
  <2>6. \A m \in PNode : cache'[m] # 0 => \E r \in PRun : phase'[r] = "active"
    BY <2>1, <2>4
  <2>7. QED BY <2>1, <2>5, <2>6 DEF Orderly
<1>8. CASE Publish \/ UNCHANGED prefetchVars
  BY <1>8 DEF Publish, prefetchVars, Orderly
<1>9. QED BY <1>1, <1>2, <1>3, <1>4, <1>5, <1>6, <1>7, <1>8 DEF PrefetchNext

\* The invariant holds in every state of the prefetch cache.
THEOREM PrefetchInductive == PrefetchSpec => []PrefetchInv
<1>1. PrefetchInit => PrefetchInv
  BY PrefetchAssumption DEF PrefetchInit, PrefetchInv, PrefetchTypeOK, Orderly
<1>2. PrefetchInv /\ [PrefetchNext]_prefetchVars => PrefetchInv'
  BY TypeKept, OrderlyStep DEF PrefetchInv
<1>3. QED BY <1>1, <1>2, PTL DEF PrefetchSpec

\* Runs that follow each other and leave no task behind are never given an
\* artifact that was cached before they began (fetch_module, the two clears).
THEOREM NoStaleModule == PrefetchSpec => []FreshModule
<1>1. PrefetchInv => FreshModule
  BY DEF PrefetchInv, Orderly, FreshModule
<1>2. QED BY <1>1, PrefetchInductive, PTL

-----------------------------------------------------------------------------
(***************************************************************************)
(* The replay cache, for any number of nonces, verifiers and seconds.      *)
(***************************************************************************)

\* What a sweep keeps: the strict window in any case, and twice the window
\* below the cap.
LEMMA Kept ==
  ASSUME CacheInv, NEW t \in Nat, t <= now
  PROVE  /\ Swept(t) \subseteq seen /\ Room(Swept(t), t) \subseteq Swept(t)
         /\ \A n \in seen : now < Stamp[n] + 2 * MaxAge => n \in Swept(t)
         /\ \A n \in Swept(t) : now < Stamp[n] + MaxAge => n \in Room(Swept(t), t)
         /\ ~(Cardinality(Swept(t)) >= HardCap) => Room(Swept(t), t) = Swept(t)
<1>1. \A n \in Nonce : Stamp[n] \in Nat \ {0}
  BY NonceAssumption
<1>2. \A n \in Nonce : now < Stamp[n] + 2 * MaxAge => Stamp[n] > SaturatingSub(t, 2 * MaxAge)
  BY <1>1, NonceAssumption DEF CacheInv, CacheTypeOK, SaturatingSub
<1>3. \A n \in Nonce : now < Stamp[n] + MaxAge => Stamp[n] > SaturatingSub(t, MaxAge)
  BY <1>1, NonceAssumption DEF CacheInv, CacheTypeOK, SaturatingSub
<1>4. QED
  BY <1>2, <1>3 DEF CacheInv, CacheTypeOK, Swept, Room, Retain

\* A nonce under verification is young enough to be in the cache if it was
\* accepted before, whatever the delay since its freshness was tested.
LEMMA UnderWay ==
  ASSUME CacheInv, NEW v \in Verifier, job[v] # Idle
  PROVE  job[v] \in Nonce /\ now < Stamp[job[v]] + 2 * MaxAge
<1>1. job[v] \in Nonce /\ Stamp[job[v]] \in Nat
  BY NonceAssumption DEF CacheInv, CacheTypeOK
<1>2. since[v] <= Stamp[job[v]] + MaxAge
  BY <1>1, NonceAssumption DEF CacheInv, CacheTypeOK, Fresh, SaturatingSub
<1>3. now <= since[v] + MaxDelay /\ since[v] \in Nat /\ now \in Nat
  BY DEF CacheInv, CacheTypeOK
<1>4. QED
  BY <1>1, <1>2, <1>3, NonceAssumption

\* Every step keeps the invariant.
LEMMA CacheStep == CacheInv /\ [CacheNext]_nonceVars => CacheInv'
<1> SUFFICES ASSUME CacheInv, [CacheNext]_nonceVars PROVE CacheInv'
  OBVIOUS
<1> USE NonceAssumption
<1>1. CASE Tick
  <2>1. CacheTypeOK' BY <1>1 DEF Tick, CacheInv, CacheTypeOK
  <2>2. \A v \in Verifier : job'[v] # Idle =>
          Fresh(job'[v], since'[v]) /\ since'[v] <= now' /\ now' <= since'[v] + MaxDelay
    BY <1>1 DEF Tick, CacheInv, CacheTypeOK
  <2>3. \A n \in admitted : now' < Stamp[n] + MaxAge => now < Stamp[n] + MaxAge
    BY <1>1 DEF Tick, CacheInv, CacheTypeOK
  <2>4. \A n \in admitted : now' < Stamp[n] + 2 * MaxAge => now < Stamp[n] + 2 * MaxAge
    BY <1>1 DEF Tick, CacheInv, CacheTypeOK
  <2>5. QED
    BY <1>1, <2>1, <2>2, <2>3, <2>4 DEF Tick, CacheInv, FreshRemembered, AdmittedOnce, Fresh
<1>2. ASSUME NEW v \in Verifier, NEW n \in Nonce, Accept(v, n) PROVE CacheInv'
  <2>1. CacheTypeOK' BY <1>2 DEF Accept, CacheInv, CacheTypeOK
  <2>2. \A u \in Verifier : job'[u] # Idle =>
          Fresh(job'[u], since'[u]) /\ since'[u] <= now' /\ now' <= since'[u] + MaxDelay
    <3> TAKE u \in Verifier
    <3>1. CASE u = v
      BY <1>2, <3>1 DEF Accept, CacheInv, CacheTypeOK
    <3>2. CASE u # v
      BY <1>2, <3>2 DEF Accept, CacheInv, CacheTypeOK
    <3>3. QED BY <3>1, <3>2
  <2>3. QED
    BY <1>2, <2>1, <2>2 DEF Accept, CacheInv, FreshRemembered, AdmittedOnce, Fresh
<1>3. ASSUME NEW v \in Verifier, NEW t \in since[v] .. now, Replay(v, t) PROVE CacheInv'
  <2>0. t \in Nat /\ t <= now BY <1>3 DEF CacheInv, CacheTypeOK
  <2>1. CacheTypeOK' BY <1>3, <2>0, Kept DEF Replay, CacheInv, CacheTypeOK
  <2>2. \A u \in Verifier : job'[u] # Idle => u # v /\ job'[u] = job[u] /\ since'[u] = since[u]
    BY <1>3 DEF Replay, CacheInv, CacheTypeOK
  <2>3. FreshRemembered'
    <3>1. \A n \in admitted : now < Stamp[n] + MaxAge => now < Stamp[n] + 2 * MaxAge
      BY DEF CacheInv, CacheTypeOK
    <3>2. QED BY <1>3, <3>1, <2>0, Kept DEF Replay, CacheInv, FreshRemembered
  <2>4. ~capped => \A n \in admitted : now < Stamp[n] + 2 * MaxAge => n \in seen'
    BY <1>3, <2>0, Kept DEF Replay, CacheInv
  <2>5. QED
    BY <1>3, <2>1, <2>2, <2>3, <2>4 DEF Replay, CacheInv, AdmittedOnce, Fresh
<1>4. ASSUME NEW v \in Verifier, NEW t \in since[v] .. now, Record(v, t) PROVE CacheInv'
  <2> DEFINE n == job[v]
  <2>0. n \in Nonce /\ n # Idle /\ t \in Nat /\ t <= now BY <1>4 DEF Record, CacheInv, CacheTypeOK
  <2>1. CacheTypeOK' BY <1>4, <2>0, Kept DEF Record, CacheInv, CacheTypeOK
  <2>2. \A u \in Verifier : job'[u] # Idle => u # v /\ job'[u] = job[u] /\ since'[u] = since[u]
    BY <1>4 DEF Record, CacheInv, CacheTypeOK
  <2>3. FreshRemembered'
    <3>1. \A m \in admitted : now < Stamp[m] + MaxAge => now < Stamp[m] + 2 * MaxAge
      BY DEF CacheInv, CacheTypeOK
    <3>2. QED BY <1>4, <2>0, <3>1, Kept DEF Record, CacheInv, FreshRemembered
  <2>4. ~capped => n \notin admitted
    BY <1>4, <2>0, Kept, UnderWay DEF Record, CacheInv
  <2>5. ~capped' => ~capped /\ Room(Swept(t), t) = Swept(t)
    BY <1>4, <2>0, Kept DEF Record
  <2>6. ~capped' => \A m \in admitted' : now < Stamp[m] + 2 * MaxAge => m \in seen'
    BY <1>4, <2>0, <2>5, Kept DEF Record, CacheInv
  <2>7. AdmittedOnce'
    BY <1>4, <2>4, <2>5 DEF Record, CacheInv, AdmittedOnce
  <2>8. now' = now /\ \A u \in Verifier : job'[u] # Idle =>
          Fresh(job'[u], since'[u]) /\ since'[u] <= now' /\ now' <= since'[u] + MaxDelay
    BY <1>4, <2>2 DEF Record, CacheInv
  <2>9. QED
    BY <2>1, <2>3, <2>6, <2>7, <2>8 DEF CacheInv, Fresh
<1>5. CASE UNCHANGED nonceVars
  BY <1>5 DEF nonceVars, CacheInv, CacheTypeOK, FreshRemembered, AdmittedOnce, Fresh
<1>6. QED
  BY <1>1, <1>2, <1>3, <1>4, <1>5 DEF CacheNext, Refuse

\* The invariant holds in every state of the cache.
THEOREM CacheInductive == CacheSpec => []CacheInv
<1>1. CacheInit => CacheInv
  <2> SUFFICES ASSUME CacheInit PROVE CacheInv
    OBVIOUS
  <2>1. CacheTypeOK
    <3>1. job \in [Verifier -> Nonce \cup {Idle}] /\ since \in [Verifier -> Nat]
      BY DEF CacheInit
    <3>2. now \in Nat BY NonceAssumption DEF CacheInit
    <3>3. QED BY <3>1, <3>2 DEF CacheInit, CacheTypeOK
  <2>2. \A v \in Verifier : job[v] = Idle BY DEF CacheInit
  <2>3. QED BY <2>1, <2>2 DEF CacheInit, CacheInv, FreshRemembered, AdmittedOnce
<1>2. QED
  BY <1>1, CacheStep, PTL DEF CacheSpec

\* A nonce that verify has accepted stays in the cache while it is strictly
\* inside the freshness window, at any size of the cache (check_and_record).
THEOREM WindowRemembered == CacheSpec => []FreshRemembered
<1>1. CacheInv => FreshRemembered BY DEF CacheInv
<1>2. QED BY <1>1, CacheInductive, PTL

\* Until the cache is full, verify accepts a nonce once.
THEOREM SingleUse == CacheSpec => []AdmittedOnce
<1>1. CacheInv => AdmittedOnce BY DEF CacheInv
<1>2. QED BY <1>1, CacheInductive, PTL

-----------------------------------------------------------------------------
(***************************************************************************)
(* The composition.                                                        *)
(***************************************************************************)

\* A behaviour of the three stores together is one of each of them: a store that
\* is at rest stutters, and none writes what belongs to another.
THEOREM Implements == Spec => LimiterSpec /\ PrefetchSpec /\ CacheSpec
<1>1. Init => LimiterInit /\ PrefetchInit /\ CacheInit
  BY DEF Init
<1>2. [Next]_allVars => [LimiterNext]_limiterVars /\ [PrefetchNext]_prefetchVars /\ [CacheNext]_nonceVars
  BY DEF Next, allVars
<1>3. QED BY <1>1, <1>2, PTL DEF Spec, LimiterSpec, PrefetchSpec, CacheSpec

\* The state of the three stores is well typed, at any limit of any of them:
\* counters, clocks, cached versions and nonces stay what they are.
THEOREM ServicesTyped == Spec => []TypeOK
<1>1. LimiterInv /\ PrefetchInv /\ CacheInv => TypeOK
  BY DEF LimiterInv, PrefetchInv, CacheInv, TypeOK
<1>2. QED
  BY <1>1, Implements, LimiterInductive, PrefetchInductive, CacheInductive, PTL

\* What each store promises, it promises in the composition (check_rate_limit,
\* fetch_module, check_and_record).
THEOREM ServicesSafe == Spec => [](WindowBound /\ FreshModule /\ FreshRemembered /\ AdmittedOnce)
<1>1. QED
  BY Implements, LimitHolds, NoStaleModule, WindowRemembered, SingleUse, PTL

=============================================================================
