------------------------------ MODULE KindCodec ------------------------------
(***************************************************************************)
(* How a system node travels: SystemNodeKind -> (kind string, data) in the *)
(* builder, and back in the parser.                                        *)
(*                                                                         *)
(* A field is a number.  A text, an id, a list or a map is 1, or 0 when it *)
(* is empty or nil; a flag is 0 or 1; a threshold is in percent; Absent    *)
(* stands for a key that is missing or null.                               *)
(***************************************************************************)
EXTENDS Integers

CONSTANT Llm   \* the feature `llm-primitives'

Absent == -1
Unbounded == 1000   \* above every number that is tried
NoKind == [name |-> "none", data |-> <<>>]

\* What the parser does with a field: the value of an absent one, the bounds the
\* value is brought into, and the values for which there is no kind at all.
Field(default, lo, hi, refused) == [default |-> default, lo |-> lo, hi |-> hi, refused |-> refused]
Required == Field(Absent, 0, 1, {Absent})
NonEmpty == Field(0, 0, 1, {0})
Optional == Field(Absent, 0, Unbounded, {})
Or(default) == Field(default, 0, Unbounded, {})
AtMost(default, hi) == Field(default, 0, hi, {})
Between(default, lo, hi) == Field(default, lo, hi, {})

BaseKinds ==
  [ wait |-> [message |-> Optional],
    sub_workflow |-> [workflow |-> Required, timeout |-> Or(30)],
    loop |-> [max_iterations |-> AtMost(10, 100), condition |-> Required],
    while_loop |-> [condition |-> Required, max_iterations |-> AtMost(10, 100)],
    repeat_loop |-> [count |-> Or(1)],
    fan_in |-> [join_mode |-> Or(0), aggregation_expr |-> Optional],
    error_handler |-> [error_pattern |-> Optional],
    collect |-> <<>>,
    synthesize |-> [synthesis_expr |-> Optional],
    verify |-> [condition |-> Required, check_label |-> Optional, on_failure |-> Or(0)],
    dispatch |-> [expression |-> Required, timeout |-> Or(30)],
    capability_dispatch |-> [capabilities |-> NonEmpty, fallback |-> Optional, timeout |-> Or(30)] ]

\* Faulty variant of AgentFields: the iterations of `loop'.
AgentFieldsUncapped == [workflow |-> Required, max_iterations |-> AtMost(10, 100), inject_history |-> Or(1), timeout |-> Or(60)]

\* agent_loop and react_loop.
AgentFields == [workflow |-> Required, max_iterations |-> AtMost(10, 50), inject_history |-> Or(1), timeout |-> Or(60)]
LlmKinds ==
  [ agent_loop |-> AgentFields,
    react_loop |-> AgentFields,
    judge |-> [workflow |-> Or(0), rubric |-> Or(0), pass_threshold |-> Optional, on_failure |-> Or(0), timeout |-> Or(60)],
    inline_judge |-> [verdict_expr |-> NonEmpty, pass_threshold |-> Optional, on_failure |-> Or(0)],
    ensemble |-> [workflow |-> Or(0), count |-> Between(3, 2, 10), consensus |-> Or(0), judge |-> Optional, timeout |-> Or(60)],
    confidence_gate |-> [threshold |-> AtMost(70, 100), confidence_path |-> Or(1), on_low_confidence |-> Or(0)],
    reflective_retry |-> [workflow |-> Or(0), reflection |-> Or(0), max_retries |-> Between(2, 1, 5), timeout |-> Or(60)],
    llm_dispatch |-> [workflow |-> Or(0), routes |-> Or(0), fallback |-> Optional, timeout |-> Or(60)] ]

Fields(k) == IF k \in DOMAIN BaseKinds THEN BaseKinds[k] ELSE LlmKinds[k]
ParsedKinds == DOMAIN BaseKinds \cup (IF Llm THEN DOMAIN LlmKinds ELSE {})

\* A value of the enum SystemNodeKind: its variants and their fields, of which
\* only an Option can be absent; what is no number is 0 or 1.
IsKind(kind) ==
  /\ kind = [name |-> kind.name, data |-> kind.data]
  /\ kind.name \in ParsedKinds /\ DOMAIN kind.data = DOMAIN Fields(kind.name)
  /\ \A key \in DOMAIN kind.data : LET f == Fields(kind.name)[key] IN
       \/ kind.data[key] \in 0 .. IF f.hi = 1 THEN 1 ELSE Unbounded
       \/ kind.data[key] = Absent /\ f.default = Absent /\ Absent \notin f.refused

Bring(f, v) == IF v = Absent THEN v ELSE IF v < f.lo THEN f.lo ELSE IF v > f.hi THEN f.hi ELSE v
Read(f, data, key) ==
  LET v == IF key \in DOMAIN data THEN data[key] ELSE Absent
  IN  Bring(f, IF v = Absent THEN f.default ELSE v)

\* parse_system_node_kind: None for an unknown kind and for refused data.
ParseSystemNodeKind(k, data) ==
  IF k \notin ParsedKinds THEN NoKind
  ELSE LET read == [key \in DOMAIN Fields(k) |-> Read(Fields(k)[key], data, key)]
       IN  IF \E key \in DOMAIN read : read[key] \in Fields(k)[key].refused
           THEN NoKind ELSE [name |-> k, data |-> read]

\* serialize_system_node_kind: an option that is None is left out or is null.
SerializeKind(kind) ==
  [key \in {f \in DOMAIN kind.data : kind.data[f] # Absent} |-> kind.data[key]]

\* The kinds that the validator of graph_json knows, listed a second time.
KnownSystemKindsBase ==
  {"wait", "sub_workflow", "loop", "while_loop", "repeat_loop", "fan_in", "error_handler",
   "collect", "synthesize", "verify", "dispatch", "capability_dispatch"}
KnownSystemKindsLlm ==
  {"agent_loop", "react_loop", "judge", "inline_judge", "ensemble", "confidence_gate",
   "reflective_retry", "llm_dispatch"}
KnownSystemKind(k) == k \in KnownSystemKindsBase \/ (Llm /\ k \in KnownSystemKindsLlm)

\* Faulty variant of References: the judge of an ensemble is left out.
ReferencesButJudge(kind) == {f \in DOMAIN kind.data \cap {"workflow", "reflection"} : kind.data[f] = 1}

\* The sub-workflows a kind names, by field: the ones fetched in one batch.
References(kind) ==
  LET named == CASE kind.name \in {"sub_workflow", "agent_loop", "react_loop", "judge"} -> {"workflow"}
                 [] kind.name = "ensemble" -> {"workflow", "judge"}
                 [] kind.name = "reflective_retry" -> {"workflow", "reflection"}
                 [] kind.name = "llm_dispatch" -> {"workflow", "routes", "fallback"}
                 [] OTHER -> {}
  IN  {f \in named : kind.data[f] = 1}

\* All sub-workflows a kind names, by field.
Named(kind) ==
  {f \in DOMAIN kind.data \cap {"workflow", "judge", "reflection", "routes", "fallback"} : kind.data[f] = 1}
=============================================================================
