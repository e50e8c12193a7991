------------------------------ MODULE MCServices ------------------------------
(***************************************************************************)
(* The stores that runs share, on small instances: the rate limiter, the   *)
(* prefetch cache and the replay cache.  They do not interact, so in each  *)
(* behaviour one of them works and the others are at rest.                 *)
(***************************************************************************)
EXTENDS RateLimiter, Prefetch, NonceCache

CONSTANTS m1, m2, r1, r2

VARIABLE working

allVars == <<working, limiterVars, prefetchVars, nonceVars>>

\* Two runs with limits of their own for the first module; none for the second in r2.
MCLimit == [r \in {r1, r2} |-> [m \in {m1, m2} |-> IF m = m1 THEN (IF r = r1 THEN 1 ELSE 2)
                                                   ELSE IF r = r1 THEN 1 ELSE 0]]

\* Two nodes that prefetch the third; the first has another successor after it,
\* and a system node before it.
MCSucc == [n \in 1 .. 4 |-> IF n = 1 THEN <<4, 3, 2>> ELSE IF n = 2 THEN <<3>> ELSE <<>>]

\* Two nonces of one second and one of a later second.
Stamps == (1 :> 3) @@ (2 :> 3) @@ (3 :> 5)

Init ==
  /\ working \in {"limiter", "prefetch", "nonces"}
  /\ LimiterInit /\ (working # "limiter" => backing = "memory")
  /\ PrefetchInit
  /\ CacheInit /\ (working # "nonces" => now = 0)
Next ==
  \/ working = "limiter" /\ LimiterNext /\ UNCHANGED <<working, prefetchVars, nonceVars>>
  \/ working = "prefetch" /\ PrefetchNext /\ UNCHANGED <<working, limiterVars, nonceVars>>
  \/ working = "nonces" /\ CacheNext /\ UNCHANGED <<working, limiterVars, prefetchVars>>
Spec == Init /\ [][Next]_allVars

\* The types of all three.
TypeOK == LimiterTypeOK /\ PrefetchTypeOK /\ CacheTypeOK

=============================================================================
