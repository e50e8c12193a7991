------------------------------- MODULE JobCall -------------------------------
(***************************************************************************)
(* What a dispatcher promises the engine of one call: at most `limit'      *)
(* attempts reach a worker, each is executed at most once, and the call    *)
(* answers with a result only when some attempt produced one.  It does not *)
(* promise that a call that failed left nothing running: an attempt may be *)
(* executed after the call was closed.                                     *)
(***************************************************************************)
EXTENDS Naturals

VARIABLES
  limit,      \* how many attempts the retry policy allows
  status,     \* "open", "ok" or "failed"
  executed,   \* the attempts a worker has executed
  succeeded   \* those that produced a result

callVars == <<limit, status, executed, succeeded>>

CallInit ==
  /\ limit \in Nat \ {0}
  /\ status = "open" /\ executed = {} /\ succeeded = {}

Execute ==
  \E i \in 1 .. limit :
    /\ i \notin executed
    /\ executed' = executed \cup {i}
    /\ succeeded' \in {succeeded, succeeded \cup {i}}
    /\ UNCHANGED <<limit, status>>

Succeed ==
  /\ status = "open" /\ succeeded # {}
  /\ status' = "ok" /\ UNCHANGED <<limit, executed, succeeded>>

Fail ==
  /\ status = "open"
  /\ status' = "failed" /\ UNCHANGED <<limit, executed, succeeded>>

CallSpec == CallInit /\ [][Execute \/ Succeed \/ Fail]_callVars

=============================================================================
