---------------------------- MODULE MCComposites ----------------------------
(* Programs of three workflows: R is the root, A and B what it calls.        *)
EXTENDS Composites

CONSTANTS R, A, B

N(kind, child, aux, alt, n, mode, coe) ==
  [kind |-> kind, child |-> child, aux |-> aux, alt |-> alt, n |-> n, mode |-> mode, coe |-> coe]
Leaf(kind) == N(kind, NoWorkflow, NoWorkflow, NoWorkflow, 1, "error", FALSE)
Mod == Leaf("module")

Tree(r, a, b, inp) == [node |-> (R :> r @@ A :> a @@ B :> b), root |-> R, inp |-> inp]

\* Every kind at the root, over modules.
Flat == {Tree(r, Mod, Mod, "low") : r \in
  {N("sub_workflow", w, A, A, 1, "error", c) : w \in {A, NoWorkflow}, c \in BOOLEAN}
  \cup {N("ensemble", A, B, A, 3, m, FALSE) : m \in {"first_pass", "majority_vote"}}
  \cup {N("ensemble", A, B, A, 3, "best_of_n", FALSE), N("ensemble", A, NoWorkflow, A, 2, "best_of_n", FALSE)}
  \cup {N("reflective_retry", A, B, A, 3, "error", FALSE)}
  \cup {N("llm_dispatch", A, B, w, 1, "error", FALSE) : w \in {B, NoWorkflow}}
  \cup {N(k, A, B, A, 2, m, FALSE) : k \in {"judge", "inline_judge", "verify", "confidence_gate"},
                                    m \in {"error", "passthrough", "pause"}}
  \cup {N("dispatch", A, B, A, 1, "error", FALSE)}
  \cup {N("capability_dispatch", A, B, w, 1, "error", FALSE) : w \in {B, NoWorkflow}}
  \cup {N("agent_loop", w, B, A, 3, "error", FALSE) : w \in {A, NoWorkflow}}
  \cup {N("loop", w, B, A, 3, "error", c) : w \in {A, NoWorkflow}, c \in BOOLEAN}
  \cup {Leaf(k) : k \in Local \cup {"wait"}}}

\* A calling node at the root over one below it, over a module.
Nested == {Tree(N(k, A, B, NoWorkflow, 2, "error", FALSE), N(l, B, B, NoWorkflow, 1, "error", c), Mod, "none") :
             k \in Calling, l \in Calling \ {"ensemble"}, c \in BOOLEAN}

\* Workflows that call themselves, or each other.
Recursive == {Tree(N(k, R, B, NoWorkflow, 2, "error", FALSE), Mod, Mod, "low") : k \in Calling}
             \cup {Tree(N("sub_workflow", A, B, B, 1, "error", FALSE), N("llm_dispatch", B, R, R, 1, "error", FALSE), Mod, "low")}

\* A pause below a node that calls.
Pausing == {Tree(N(k, A, B, NoWorkflow, 2, "error", FALSE), Leaf("wait"), Mod, "none") : k \in Calling}

Programs == Flat \cup Nested \cup Recursive \cup Pausing

=============================================================================
