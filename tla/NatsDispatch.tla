----------------------------- MODULE NatsDispatch -----------------------------
(***************************************************************************)
(* One call of the NATS dispatcher: `dispatch' with the retry loop         *)
(* execute_job_with_retry, or `dispatch_chain' with dispatch_with_retry,   *)
(* against a broker and workers that are slow, lose messages and answer    *)
(* late.  A lost message is one that is never taken from `network'.        *)
(*                                                                         *)
(* Each request has an inbox of its own, so an answer to an earlier        *)
(* attempt is never taken for an answer to the current one.                *)
(***************************************************************************)
EXTENDS Naturals

CONSTANT MaxRetries   \* bound on max_retries of the retry policy

ASSUME DispatchAssumption == MaxRetries \in Nat

VARIABLES
  call,      \* the job: path, keyed, conditional, retries
  phase,     \* where the loop is, or how the call ended
  attempts,  \* failed attempts so far
  sent,      \* requests sent so far; the current one is the last
  nonce,     \* the nonce in the payload
  signed,    \* nonces made so far
  network,   \* requests on their way to a worker
  replies,   \* answers on their way back
  known,     \* the nonces in the workers' replay cache
  executed,  \* history: the requests a worker has executed
  succeeded, \* history: those whose execution succeeded
  refused,   \* history: the requests a worker refused as replays
  unsigned   \* history: a payload could not be signed again

loop == <<phase, attempts, sent, nonce, signed, unsigned>>
worker == <<network, replies, known, executed, succeeded, refused>>
dispatchVars == <<call, loop, worker>>

Closed == {"ok", "failed", "timeout", "dropped"}
Call == [path : {"single", "chain"},
         keyed : BOOLEAN,        \* worker_shared_key is set
         conditional : BOOLEAN,  \* retry_condition is set
         retries : 0 .. MaxRetries]

DispatchTypeOK ==
  /\ call \in Call
  /\ phase \in {"start", "await", "sleep"} \cup Closed
  /\ attempts \in Nat /\ sent \in Nat /\ nonce \in Nat /\ signed \in Nat
  /\ network \subseteq [req : Nat, nonce : Nat]
  /\ replies \subseteq [req : Nat, verdict : {"ok", "fail", "bad"}]
  /\ known \subseteq Nat /\ executed \subseteq Nat
  /\ succeeded \subseteq Nat /\ refused \subseteq Nat
  /\ unsigned \in BOOLEAN

\* The request is assembled, and signed when there is a key.
DispatchInit ==
  /\ call \in Call
  /\ phase = "start" /\ attempts = 0 /\ sent = 0 /\ nonce = 1 /\ signed = 1
  /\ network = {} /\ replies = {} /\ known = {}
  /\ executed = {} /\ succeeded = {} /\ refused = {} /\ unsigned = FALSE

-----------------------------------------------------------------------------
(* The retry loop *)

\* transport.request, at the top of the loop and after the backoff.
Request ==
  /\ phase \in {"start", "sleep"}
  /\ phase' = "await" /\ sent' = sent + 1
  /\ network' = network \cup {[req |-> sent + 1, nonce |-> nonce]}
  /\ UNCHANGED <<call, attempts, nonce, signed, unsigned, replies, known, executed, succeeded, refused>>

\* Faulty variant of Resign: the bytes of the first attempt are sent again.
ResignNever == UNCHANGED <<nonce, signed, unsigned>>

\* resign_payload_for_retry, or its pipeline sibling: a fresh nonce, or on an
\* error the payload as it was.
Resign ==
  \/ call.keyed /\ nonce' = signed + 1 /\ signed' = signed + 1 /\ UNCHANGED unsigned
  \/ call.keyed /\ unsigned' = TRUE /\ UNCHANGED <<nonce, signed>>
  \/ ~call.keyed /\ UNCHANGED <<nonce, signed, unsigned>>

\* Faulty variant of Exhausted: off by one.
ExhaustedLate == attempts + 1 > call.retries + 1
Exhausted == attempts + 1 > call.retries

\* attempts += 1, then give up or sign again and back off.
RetryOrFail ==
  /\ attempts' = attempts + 1
  /\ UNCHANGED <<call, sent, worker>>
  /\ \/ Exhausted /\ phase' = "failed" /\ UNCHANGED <<nonce, signed, unsigned>>
     \/ ~Exhausted /\ phase' = "sleep" /\ Resign

Close(how) == phase' = how /\ UNCHANGED <<call, attempts, sent, nonce, signed, unsigned, worker>>

\* The request cannot be signed or serialised.
CannotSend == phase = "start" /\ Close("failed")

\* The answer to the current request.
Answered(verdict) == phase = "await" /\ [req |-> sent, verdict |-> verdict] \in replies

AnswerOk == Answered("ok") /\ Close("ok")

\* The answer does not parse, or its signature or nonce is refused.
AnswerBad == Answered("bad") /\ Close("failed")

\* A failed job is retried on the single path only; a chain's failure is its result.
AnswerFailed ==
  /\ Answered("fail")
  /\ \/ call.path = "chain" /\ Close("failed")
     \/ /\ call.path = "single"
        /\ call.conditional \/ call.retries > 0  \* condition false, or not transient
        /\ Close("failed")
     \/ call.path = "single" /\ RetryOrFail

\* The transport reports an error, whether or not a worker has the request.
TransportFails == phase = "await" /\ RetryOrFail

\* Faulty variant of TimesOut: a chain is awaited without a timeout.
TimesOutSingle == phase = "await" /\ call.path = "single" /\ Close("timeout")

\* tokio::time::timeout elapses: not retried.
TimesOut == phase = "await" /\ Close("timeout")

\* The engine drops the future: cancelled, or past its wall-clock limit.
Dropped == phase \in {"await", "sleep"} /\ Close("dropped")

-----------------------------------------------------------------------------
(* Workers: outside the repository, as its comments describe them *)

WorkerRefuses ==
  \E m \in network :
    /\ call.keyed /\ m.nonce \in known
    /\ network' = network \ {m} /\ refused' = refused \cup {m.req}
    /\ replies' = replies \cup {[req |-> m.req, verdict |-> "fail"]}
    /\ UNCHANGED <<call, loop, known, executed, succeeded>>

WorkerRuns ==
  \E m \in network, verdict \in {"ok", "fail", "bad"}, good \in BOOLEAN :
    /\ ~(call.keyed /\ m.nonce \in known)
    /\ verdict = "ok" => good
    /\ verdict = "fail" => ~good
    /\ network' = network \ {m} /\ known' = known \cup {m.nonce}
    /\ executed' = executed \cup {m.req}
    /\ succeeded' = IF good THEN succeeded \cup {m.req} ELSE succeeded
    /\ replies' = replies \cup {[req |-> m.req, verdict |-> verdict]}
    /\ UNCHANGED <<call, loop, refused>>

-----------------------------------------------------------------------------

Idle == phase \in Closed /\ UNCHANGED dispatchVars

DispatchNext ==
  \/ CannotSend \/ Request \/ AnswerOk \/ AnswerBad \/ AnswerFailed
  \/ TransportFails \/ TimesOut \/ Dropped
  \/ WorkerRefuses \/ WorkerRuns \/ Idle

DispatchSpec == DispatchInit /\ [][DispatchNext]_dispatchVars

\* The timers of the backoff and of the request fire; workers owe nothing.
FairDispatch ==
  /\ DispatchSpec
  /\ WF_dispatchVars(Request) /\ WF_dispatchVars(TimesOut)

-----------------------------------------------------------------------------
(* Properties *)

\* A call ends whatever the broker and the workers do: every await of
\* transport.request is under a timeout, and the retries are bounded.
CallEnds == <>(phase \in Closed)

\* The retry of a job is never refused as a replay of an earlier attempt,
\* even when the worker did get that attempt, unless signing failed.
FreshRetries == refused # {} => unsigned

\* The call seen as the abstract one.
Promise == INSTANCE JobCall WITH
  limit <- call.retries + 1,
  status <- IF phase = "ok" THEN "ok" ELSE IF phase \in Closed THEN "failed" ELSE "open"

\* The dispatcher implements JobCall: bounded attempts, each executed at most
\* once, and no answer without a successful execution.
KeepsPromise == Promise!CallSpec

-----------------------------------------------------------------------------
(* The inductive invariant *)

\* One request per attempt, within the policy.
Counts ==
  /\ phase \in {"start", "sleep"} => attempts <= call.retries /\ sent = attempts
  /\ phase = "await" => attempts <= call.retries /\ sent = attempts + 1
  /\ sent <= call.retries + 1

\* A request is on its way once, or with a worker, or answered.
Requests ==
  /\ executed \subseteq 1 .. sent
  /\ \A m \in network : m.req \in 1 .. sent /\ m.req \notin executed
  /\ \A m, o \in network : m.req = o.req => m = o
  /\ \A r \in replies : r.verdict = "ok" => r.req \in succeeded

\* As long as signing works, no two requests have a nonce in common, and the
\* nonce of a request that is still to be sent is new.
Nonces ==
  call.keyed /\ ~unsigned =>
    /\ nonce = signed
    /\ \A m \in network : m.nonce <= nonce /\ m.nonce \notin known
    /\ \A m, o \in network : m.nonce = o.nonce => m = o
    /\ \A k \in known : k <= nonce
    /\ phase \in {"start", "sleep"} => /\ \A m \in network : m.nonce # nonce
                                       /\ nonce \notin known

DispatchInv == DispatchTypeOK /\ Counts /\ Requests /\ Nonces /\ FreshRetries

=============================================================================
