----------------------------- MODULE RateLimiter -----------------------------
(***************************************************************************)
(* check_rate_limit: the per-module request counter that all runs of a     *)
(* process share, the background task that evicts old counters, and the    *)
(* shared store that may replace the counters.                             *)
(*                                                                         *)
(* A counter is reached through the map's entry guard and there is no      *)
(* await while it is held, so a check is one step.  The history is kept by *)
(* window: every time a counter is made or set back, a window opens.       *)
(***************************************************************************)
EXTENDS Integers, Sequences, FiniteSets

CONSTANTS
  Run,         \* concurrent runs, each with the limits its engine has loaded
  Module,
  Limit,       \* [Run -> [Module -> Int]]; 0 or less is no limit
  Window,      \* WINDOW_SECS
  Stale,       \* RATE_LIMIT_STALE_SECS
  Interval,    \* RATE_LIMIT_EVICTION_INTERVAL_SECS
  MaxEntries,  \* RATE_LIMIT_MAX_ENTRIES
  MaxCount,    \* bound on a counter
  MaxClock     \* bound on the clock

ASSUME LimiterAssumption ==
  /\ Limit \in [Run -> [Module -> Int]]
  /\ Window \in Nat /\ Stale \in Nat /\ Interval \in Nat \ {0}
  /\ MaxEntries \in Nat /\ MaxCount \in Nat /\ MaxClock \in Nat
  /\ Window < Stale

VARIABLES
  clock,     \* the monotonic clock, in seconds
  backing,   \* "memory", or "store" where a RateLimitStore is wired
  entry,     \* the counter of each module
  nextScan,  \* next tick of the eviction task; 0 until it is spawned
  windows    \* history: the windows of each module, oldest first

limiterVars == <<clock, backing, entry, nextScan, windows>>

NoEntry == [start |-> 0, count |-> 0, there |-> FALSE]
\* Faulty variant of Opened: the window is set back by its own length.
OpenedBack(t) == [start |-> t - Window, count |-> 0, there |-> TRUE]
Opened(t) == [start |-> t, count |-> 0, there |-> TRUE]
Entries == {m \in Module : entry[m].there}

LimiterTypeOK ==
  /\ clock \in Nat
  /\ backing \in {"memory", "store"}
  /\ entry \in [Module -> [start : Nat, count : Nat, there : BOOLEAN]]
  /\ nextScan \in Nat
  /\ windows \in [Module -> Seq([start : Nat, granted : Nat, last : Nat])]

LimiterInit ==
  /\ clock = 0
  /\ backing \in {"memory", "store"}
  /\ entry = [m \in Module |-> NoEntry]
  /\ nextScan = 0
  /\ windows = [m \in Module |-> <<>>]

-----------------------------------------------------------------------------

Expired(e) == clock - e.start > Window

\* The counter a call finds: made, or set back, when there is no current one.
Lapsed(m) == ~entry[m].there \/ Expired(entry[m])
Current(m) == IF Lapsed(m) THEN Opened(clock) ELSE entry[m]
Counted(m) == [start |-> Current(m).start, count |-> Current(m).count + 1, there |-> TRUE]

Granted(w, t) == [start |-> w.start, granted |-> w.granted + 1, last |-> t]

WindowsWith(m, admitted) ==
  LET ws == IF Lapsed(m) THEN Append(windows[m], [start |-> clock, granted |-> 0, last |-> clock])
            ELSE windows[m]
      n  == Len(ws)
  IN  IF admitted THEN [ws EXCEPT ![n] = Granted(@, clock)] ELSE ws

Admits(r, m) == Counted(m).count <= Limit[r][m]

\* The first check in memory spawns the eviction task, whose first tick is skipped.
SpawnEviction == nextScan' = IF backing = "memory" /\ nextScan = 0 THEN clock + Interval ELSE nextScan

CheckRateLimit(r, m) ==
  /\ Limit[r][m] > 0
  /\ Current(m).count < MaxCount
  /\ entry' = [entry EXCEPT ![m] = Counted(m)]
  /\ windows' = [windows EXCEPT ![m] = WindowsWith(m, Admits(r, m))]
  /\ SpawnEviction
  /\ UNCHANGED <<clock, backing>>

\* A module without a limit, or a store that fails: the dispatch goes on uncounted.
FailOpen(r, m) ==
  /\ Limit[r][m] <= 0 \/ backing = "store"
  /\ UNCHANGED limiterVars

\* Faulty variant of StaleEntry: the cutoff is one interval.
StaleEarly(e) == e.start <= clock - 1
StaleEntry(e) == e.start <= clock - Stale

\* A tick of the eviction task; a tick may come late.
EvictStaleRateLimits ==
  /\ backing = "memory"
  /\ nextScan # 0 /\ nextScan <= clock
  /\ nextScan' = nextScan + Interval
  /\ entry' = IF Cardinality(Entries) <= MaxEntries THEN entry
              ELSE [m \in Module |-> IF entry[m].there /\ StaleEntry(entry[m]) THEN NoEntry ELSE entry[m]]
  /\ UNCHANGED <<clock, backing, windows>>

ResetGlobalRateLimits ==
  /\ backing = "memory"
  /\ entry' = [m \in Module |-> NoEntry]
  /\ windows' = [m \in Module |-> <<>>]
  /\ UNCHANGED <<clock, backing, nextScan>>

\* The process starts again.  What was counted in memory is void from here on
\* (and so is what the history says of it); what is counted in the store is not.
Restart ==
  /\ IF backing = "memory"
     THEN /\ entry' = [m \in Module |-> NoEntry]
          /\ windows' = [m \in Module |-> <<>>]
     ELSE UNCHANGED <<entry, windows>>
  /\ nextScan' = 0
  /\ UNCHANGED <<clock, backing>>

ClockTick ==
  /\ clock < MaxClock
  /\ clock' = clock + 1
  /\ UNCHANGED <<backing, entry, nextScan, windows>>

LimiterNext ==
  \/ \E r \in Run, m \in Module : CheckRateLimit(r, m) \/ FailOpen(r, m)
  \/ EvictStaleRateLimits \/ ResetGlobalRateLimits \/ Restart \/ ClockTick

LimiterSpec == LimiterInit /\ [][LimiterNext]_limiterVars

-----------------------------------------------------------------------------

\* The largest limit any run has for the module bounds what is granted in a window.
Covers(k, m) == \E r \in Run : Limit[r][m] > 0 /\ k <= Limit[r][m]

\* In a window no more calls are let through than the limit, however many runs
\* check at once and whatever is evicted; a grant lies within Window of the start
\* of its window, and the windows of a module do not overlap.  So no span of
\* Window seconds holds more than twice the limit ("a single key with 60 RPM
\* should still be capped at 60 RPM whether one workflow or twenty hit it",
\* engine.rs: MODULE_RATE_LIMITS).  With a store the bound outlives a restart;
\* calls that a failing store lets through are not counted.
WindowBound ==
  \A m \in Module : \A i \in DOMAIN windows[m] :
    LET w == windows[m][i]
    IN  /\ w.granted > 0 => Covers(w.granted, m)
        /\ w.last <= w.start + Window
        /\ i > 1 => w.start > windows[m][i - 1].start + Window

\* The inductive form: the last window is the one the counter counts, and when
\* the counter was evicted the last window is over.
LastWindow(m) == windows[m][Len(windows[m])]
EntryInv(m) ==
  IF entry[m].there
  THEN /\ windows[m] # <<>>
       /\ LastWindow(m).start = entry[m].start
       /\ LastWindow(m).granted <= entry[m].count
       /\ entry[m].start <= clock
  ELSE windows[m] # <<>> => LastWindow(m).start + Window < clock

LimiterInv ==
  /\ LimiterTypeOK
  /\ WindowBound
  /\ \A m \in Module : EntryInv(m)

=============================================================================
