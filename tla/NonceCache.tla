------------------------------ MODULE NonceCache ------------------------------
(***************************************************************************)
(* The process-global replay cache of the job protocol: the freshness test *)
(* of JobRequest::verify and its siblings, and                             *)
(* JobNonceCache::check_and_record behind it.  Verifiers run on several    *)
(* threads.  Each reads the clock twice: for the freshness test, and once  *)
(* the signature has been checked for the sweep, before it takes the lock. *)
(* The clock may move between the two, and while it waits for the lock.    *)
(*                                                                         *)
(* A nonce carries the second it was made in.  The cache maps a nonce to   *)
(* that second, so the set of nonces is all of its state.  All verifiers   *)
(* use one max_age_secs, and the clock does not go back.                   *)
(***************************************************************************)
EXTENDS Naturals, FiniteSets

CONSTANTS
  Nonce,
  Stamp,        \* [Nonce -> Nat]: the timestamp in the nonce
  Verifier,     \* threads
  Idle,         \* no nonce: the thread is not verifying
  MaxAge,       \* max_age_secs
  MaxSkew,      \* MAX_FUTURE_SKEW_SECS
  SweepAbove,   \* entries above which an insert sweeps (1024)
  HardCap,      \* NONCE_CACHE_HARD_CAP
  MaxDelay,     \* longest time from the first clock read of a verify to its insert
  Horizon       \* bound on the clock

ASSUME NonceAssumption ==
  /\ Stamp \in [Nonce -> Nat \ {0}]
  /\ Idle \notin Nonce
  /\ MaxAge \in Nat /\ MaxSkew \in Nat /\ MaxDelay \in Nat /\ Horizon \in Nat
  /\ SweepAbove \in Nat /\ HardCap \in Nat
  /\ MaxDelay < MaxAge

VARIABLES
  now,       \* the wall clock, in seconds
  seen,      \* the nonces in the cache
  job,       \* the nonce each thread is verifying
  since,     \* when its freshness was tested
  admitted,  \* history: the nonces verify has accepted
  again,     \* history: the nonces verify has accepted more than once
  capped     \* history: the aggressive sweep has run

nonceVars == <<now, seen, job, since, admitted, again, capped>>

CacheTypeOK ==
  /\ now \in Nat
  /\ seen \subseteq Nonce
  /\ job \in [Verifier -> Nonce \cup {Idle}]
  /\ since \in [Verifier -> Nat]
  /\ admitted \subseteq Nonce /\ again \subseteq Nonce
  /\ capped \in BOOLEAN

CacheInit ==
  /\ now \in 0 .. Horizon
  /\ seen = {} /\ capped = FALSE
  /\ job = [v \in Verifier |-> Idle]
  /\ since = [v \in Verifier |-> 0]
  /\ admitted = {} /\ again = {}

SaturatingSub(a, b) == IF a >= b THEN a - b ELSE 0

\* Faulty variant of Fresh: the test is twice as generous as the sweep expects.
FreshTwice(n, t) == SaturatingSub(t, Stamp[n]) <= 2 * MaxAge /\ SaturatingSub(Stamp[n], t) <= MaxSkew

\* Not too old and not too far in the future at time t.
Fresh(n, t) == SaturatingSub(t, Stamp[n]) <= MaxAge /\ SaturatingSub(Stamp[n], t) <= MaxSkew

\* The entries newer than a cutoff.
Retain(S, cutoff) == { n \in S : Stamp[n] > cutoff }

\* The sweep of every insert by a thread that read the clock at t, skipped
\* while the cache is small.
Swept(t) == IF Cardinality(seen) > SweepAbove
            THEN Retain(seen, SaturatingSub(t, 2 * MaxAge)) ELSE seen

\* verify up to the cache: freshness tested, signature checked.
Accept(v, n) ==
  /\ job[v] = Idle /\ Fresh(n, now)
  /\ job' = [job EXCEPT ![v] = n] /\ since' = [since EXCEPT ![v] = now]
  /\ UNCHANGED <<now, seen, admitted, again, capped>>

\* verify answers at once that the nonce is too old or in the future; one that
\* is malformed or badly signed changes as little.
Refuse(v, n) == job[v] = Idle /\ ~Fresh(n, now) /\ UNCHANGED nonceVars

\* check_and_record of a nonce that is there: a replay.
Replay(v, t) ==
  /\ job[v] \in Swept(t)
  /\ seen' = Swept(t)
  /\ job' = [job EXCEPT ![v] = Idle] /\ since' = [since EXCEPT ![v] = 0]
  /\ UNCHANGED <<now, admitted, again, capped>>

\* Faulty variant of Room: at the cap the cache is emptied.
RoomAtOnce(S, t) == IF Cardinality(S) >= HardCap THEN {} ELSE S

\* At the hard cap, everything out of the strict window goes.
Room(S, t) == IF Cardinality(S) >= HardCap THEN Retain(S, SaturatingSub(t, MaxAge)) ELSE S

\* check_and_record of a nonce that is not there.
Record(v, t) ==
  /\ job[v] \in Nonce \ Swept(t)
  /\ seen' = Room(Swept(t), t) \cup {job[v]}
  /\ capped' = (capped \/ Cardinality(Swept(t)) >= HardCap)
  /\ admitted' = admitted \cup {job[v]}
  /\ again' = again \cup (admitted \cap {job[v]})
  /\ job' = [job EXCEPT ![v] = Idle] /\ since' = [since EXCEPT ![v] = 0]
  /\ UNCHANGED now

\* Time passes; no verify takes longer than MaxDelay.
Tick ==
  /\ now < Horizon
  /\ \A v \in Verifier : job[v] # Idle => now < since[v] + MaxDelay
  /\ now' = now + 1
  /\ UNCHANGED <<seen, job, since, admitted, again, capped>>

CacheNext ==
  \/ Tick
  \/ \E v \in Verifier : \/ \E n \in Nonce : Accept(v, n) \/ Refuse(v, n)
                         \/ \E t \in since[v] .. now : Replay(v, t) \/ Record(v, t)

CacheSpec == CacheInit /\ [][CacheNext]_nonceVars

-----------------------------------------------------------------------------
(* Properties *)

\* A nonce that verify has accepted is still in the cache for as long as it is
\* strictly inside the freshness window: no sweep, at any size, forgets it.
FreshRemembered ==
  \A n \in admitted : now < Stamp[n] + MaxAge => n \in seen

\* Until the cache is full, verify accepts a nonce once, however its two clock
\* reads and the sweeps of other verifiers fall.
AdmittedOnce == ~capped => again = {}

\* The inductive form: an entry is forgotten only when no verify that is under
\* way, or that can still begin, could accept it.
CacheInv ==
  /\ CacheTypeOK
  /\ \A v \in Verifier : job[v] # Idle =>
       Fresh(job[v], since[v]) /\ since[v] <= now /\ now <= since[v] + MaxDelay
  /\ FreshRemembered
  /\ AdmittedOnce
  /\ ~capped => \A n \in admitted : now < Stamp[n] + 2 * MaxAge => n \in seen

=============================================================================
