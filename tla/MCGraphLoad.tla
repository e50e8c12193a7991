----------------------------- MODULE MCGraphLoad -----------------------------
(***************************************************************************)
(* Kinds at and beyond the limits of the parser, and nodes that only JSON  *)
(* can express.                                                            *)
(***************************************************************************)
EXTENDS GraphLoad

\* A kind with all fields at v, except its bounds on iterations.
Sample(k, v, bound) ==
  [name |-> k, data |-> [f \in DOMAIN Fields(k) |->
     IF f \in {"max_iterations", "count", "max_retries", "threshold", "timeout"} THEN bound
     ELSE IF v = Absent /\ Fields(k)[f].default # Absent THEN 0
     ELSE IF v = Absent /\ Absent \in Fields(k)[f].refused THEN 1 ELSE v]]
Kinds == { Sample(k, v, b) : k \in DOMAIN BaseKinds \cup DOMAIN LlmKinds, v \in {Absent, 1}, b \in {0, 101} }

Blank == [id |-> 0, type |-> "other", moduleId |-> "none", kind |-> "none",
          has_data |-> FALSE, data |-> <<>>, skip |-> {}, coe |-> {}, retry |-> NoRetry]
RawNodes ==
  { Blank,                                                       \* an annotation
    [Blank EXCEPT !.type = "none", !.kind = "collect"],          \* a kind and no type
    [Blank EXCEPT !.moduleId = "uuid", !.has_data = TRUE, !.coe = {"config"}, !.skip = {"config"}],
    [Blank EXCEPT !.type = "uuid", !.coe = {"config"}, !.skip = {"config"}],
    [Blank EXCEPT !.type = "system", !.kind = "wait", !.skip = {"node"}],
    [Blank EXCEPT !.type = "system", !.moduleId = "text", !.has_data = TRUE, !.kind = "wait"] }
=============================================================================
