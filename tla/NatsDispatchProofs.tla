------------------------- MODULE NatsDispatchProofs -------------------------
(***************************************************************************)
(* The NATS dispatcher keeps what JobCall promises, for every retry policy *)
(* and every behaviour of the broker and the workers.                      *)
(***************************************************************************)
EXTENDS NatsDispatch, TLAPS

-----------------------------------------------------------------------------
(* The invariant is inductive *)

\* A step that only closes the call keeps the invariant.
LEMMA CloseKeeps ==
  ASSUME DispatchInv, NEW how \in Closed, Close(how)
  PROVE  DispatchInv'
<1>1. DispatchTypeOK'
  BY DEF DispatchInv, DispatchTypeOK, Close, Closed, worker
<1>2. Counts' /\ Requests'
  BY DEF DispatchInv, Counts, Requests, Close, Closed, worker
<1>3. Nonces' /\ FreshRetries'
  BY DEF DispatchInv, Nonces, FreshRetries, Close, Closed, worker
<1>4. QED
  BY <1>1, <1>2, <1>3 DEF DispatchInv

\* Counting an attempt, and signing again for the next, keeps the invariant.
LEMMA RetryKeeps ==
  ASSUME DispatchInv, phase = "await", RetryOrFail
  PROVE  DispatchInv'
<1>1. /\ phase' \in {"failed", "sleep"} /\ attempts' = attempts + 1
      /\ UNCHANGED <<call, sent, network, replies, known, executed, succeeded, refused>>
      /\ phase' = "sleep" => attempts + 1 <= call.retries
  BY DEF DispatchInv, DispatchTypeOK, RetryOrFail, Exhausted, worker, Call
<1>2. /\ nonce' \in Nat /\ signed' \in Nat /\ unsigned' \in BOOLEAN
      /\ unsigned => unsigned'
  <2>1. nonce \in Nat /\ signed \in Nat /\ signed + 1 \in Nat /\ unsigned \in BOOLEAN
    BY DEF DispatchInv, DispatchTypeOK
  <2>2. \/ nonce' = signed + 1 /\ signed' = signed + 1 /\ unsigned' = unsigned
        \/ nonce' = nonce /\ signed' = signed /\ unsigned' \in {unsigned, TRUE}
    BY Zenon DEF RetryOrFail, Resign
  <2>3. nonce' \in Nat /\ signed' \in Nat
    BY <2>1, <2>2
  <2>4. unsigned' \in BOOLEAN /\ (unsigned => unsigned')
    BY <2>1, <2>2, Zenon
  <2>5. QED
    BY <2>3, <2>4
<1>3. DispatchTypeOK'
  BY <1>1, <1>2 DEF DispatchInv, DispatchTypeOK, Closed
<1>4. Counts' /\ Requests'
  BY <1>1 DEF DispatchInv, DispatchTypeOK, Counts, Requests, Call
<1>5. Nonces'
  <2>1. CASE phase' = "failed" /\ UNCHANGED <<nonce, signed, unsigned>>
    BY <1>1, <2>1 DEF DispatchInv, Nonces
  <2>2. CASE call.keyed /\ nonce' = signed + 1 /\ signed' = signed + 1 /\ UNCHANGED unsigned
    BY <1>1, <2>2 DEF DispatchInv, DispatchTypeOK, Nonces
  <2>3. CASE unsigned' = TRUE \/ ~call.keyed
    BY <1>1, <2>3 DEF Nonces
  <2>4. QED
    BY <2>1, <2>2, <2>3 DEF RetryOrFail, Resign
<1>6. FreshRetries'
  BY <1>1, <1>2 DEF DispatchInv, DispatchTypeOK, FreshRetries
<1>7. QED
  BY <1>3, <1>4, <1>5, <1>6 DEF DispatchInv

\* A request with the current nonce is put on the network.
LEMMA RequestKeeps ==
  ASSUME DispatchInv, Request
  PROVE  DispatchInv'
<1>1. DispatchTypeOK'
  BY DEF DispatchInv, DispatchTypeOK, Request
<1>2. Counts'
  BY DEF DispatchInv, DispatchTypeOK, Counts, Request, Call
<1>3. Requests'
  BY DEF DispatchInv, DispatchTypeOK, Requests, Request
<1>4. Nonces'
  BY DEF DispatchInv, DispatchTypeOK, Nonces, Request
<1>5. FreshRetries'
  BY DEF DispatchInv, FreshRetries, Request
<1>6. QED
  BY <1>1, <1>2, <1>3, <1>4, <1>5 DEF DispatchInv

\* A worker that takes a request from the network refuses it only when signing
\* has failed.
LEMMA RefusalKeeps ==
  ASSUME DispatchInv, WorkerRefuses
  PROVE  DispatchInv'
<1>1. PICK m \in network :
        /\ call.keyed /\ m.nonce \in known
        /\ network' = network \ {m} /\ refused' = refused \cup {m.req}
        /\ replies' = replies \cup {[req |-> m.req, verdict |-> "fail"]}
  BY DEF WorkerRefuses
<1>2. UNCHANGED <<call, phase, attempts, sent, nonce, signed, unsigned, known, executed, succeeded>>
  BY DEF WorkerRefuses, loop
<1>3. unsigned
  BY <1>1 DEF DispatchInv, Nonces
<1>4. DispatchTypeOK'
  <2>1. m.req \in Nat
    BY <1>1 DEF DispatchInv, DispatchTypeOK
  <2>2. replies' \subseteq [req : Nat, verdict : {"ok", "fail", "bad"}]
    BY <1>1, <2>1 DEF DispatchInv, DispatchTypeOK
  <2>3. network' \subseteq [req : Nat, nonce : Nat] /\ refused' \subseteq Nat
    BY <1>1, <2>1 DEF DispatchInv, DispatchTypeOK
  <2>4. QED
    BY <1>2, <2>2, <2>3 DEF DispatchInv, DispatchTypeOK
<1>5. Counts' /\ Requests'
  BY <1>1, <1>2 DEF DispatchInv, Counts, Requests
<1>6. Nonces' /\ FreshRetries'
  BY <1>2, <1>3 DEF Nonces, FreshRetries
<1>7. QED
  BY <1>4, <1>5, <1>6 DEF DispatchInv

\* A worker that executes a request records its nonce.
LEMMA ExecutionKeeps ==
  ASSUME DispatchInv, WorkerRuns
  PROVE  DispatchInv'
<1>1. PICK m \in network, verdict \in {"ok", "fail", "bad"}, good \in BOOLEAN :
        /\ verdict = "ok" => good
        /\ network' = network \ {m} /\ known' = known \cup {m.nonce}
        /\ executed' = executed \cup {m.req}
        /\ succeeded' = IF good THEN succeeded \cup {m.req} ELSE succeeded
        /\ replies' = replies \cup {[req |-> m.req, verdict |-> verdict]}
  BY DEF WorkerRuns
<1>2. UNCHANGED <<call, phase, attempts, sent, nonce, signed, unsigned, refused>>
  BY DEF WorkerRuns, loop
<1>3. DispatchTypeOK'
  <2>1. m.req \in Nat /\ m.nonce \in Nat
    BY <1>1 DEF DispatchInv, DispatchTypeOK
  <2>2. replies' \subseteq [req : Nat, verdict : {"ok", "fail", "bad"}]
    BY <1>1, <2>1 DEF DispatchInv, DispatchTypeOK
  <2>3. /\ network' \subseteq [req : Nat, nonce : Nat]
        /\ known' \subseteq Nat /\ executed' \subseteq Nat /\ succeeded' \subseteq Nat
    BY <1>1, <2>1 DEF DispatchInv, DispatchTypeOK
  <2>4. QED
    BY <1>2, <2>2, <2>3 DEF DispatchInv, DispatchTypeOK
<1>4. Counts' /\ FreshRetries'
  BY <1>2 DEF DispatchInv, Counts, FreshRetries
<1>5. Requests'
  <2>1. m.req \in 1 .. sent /\ \A o \in network' : o \in network /\ o.req # m.req
    BY <1>1 DEF DispatchInv, Requests
  <2>2. executed' \subseteq 1 .. sent'
    BY <1>1, <1>2, <2>1 DEF DispatchInv, Requests
  <2>3. /\ \A o \in network' : o.req \in 1 .. sent' /\ o.req \notin executed'
        /\ \A o, q \in network' : o.req = q.req => o = q
    BY <1>1, <1>2, <2>1 DEF DispatchInv, Requests
  <2>4. \A r \in replies' : r.verdict = "ok" => r.req \in succeeded'
    BY <1>1 DEF DispatchInv, Requests
  <2>5. QED
    BY <2>2, <2>3, <2>4 DEF Requests
<1>6. Nonces'
  BY <1>1, <1>2 DEF DispatchInv, DispatchTypeOK, Nonces
<1>7. QED
  BY <1>3, <1>4, <1>5, <1>6 DEF DispatchInv

\* DispatchInv, which ties the numbers of attempts, requests and nonces
\* together, holds in every state of every call.
THEOREM DispatchInductive == DispatchSpec => []DispatchInv
<1>1. DispatchInit => DispatchInv
  <2> SUFFICES ASSUME DispatchInit PROVE DispatchInv
    OBVIOUS
  <2>1. DispatchTypeOK
    BY DEF DispatchInit, DispatchTypeOK
  <2>2. Counts /\ Requests /\ FreshRetries
    BY DispatchAssumption DEF DispatchInit, Counts, Requests, FreshRetries, Call
  <2>3. Nonces
    BY DEF DispatchInit, Nonces
  <2>4. QED
    BY <2>1, <2>2, <2>3 DEF DispatchInv
<1>2. DispatchInv /\ [DispatchNext]_dispatchVars => DispatchInv'
  <2> SUFFICES ASSUME DispatchInv, [DispatchNext]_dispatchVars PROVE DispatchInv'
    OBVIOUS
  <2>1. CASE Request
    BY <2>1, RequestKeeps
  <2>2. CASE AnswerOk
    BY <2>2, CloseKeeps DEF AnswerOk, Closed
  <2>3. CASE AnswerBad
    BY <2>3, CloseKeeps DEF AnswerBad, Closed
  <2>4. CASE AnswerFailed
    BY <2>4, CloseKeeps, RetryKeeps DEF AnswerFailed, Answered, Closed
  <2>5. CASE TransportFails
    BY <2>5, RetryKeeps DEF TransportFails
  <2>6. CASE CannotSend \/ TimesOut \/ Dropped
    BY <2>6, CloseKeeps DEF CannotSend, TimesOut, Dropped, Closed
  <2>7. CASE WorkerRefuses \/ WorkerRuns
    BY <2>7, RefusalKeeps, ExecutionKeeps
  <2>8. CASE UNCHANGED dispatchVars
    BY <2>8 DEF dispatchVars, loop, worker, DispatchInv, DispatchTypeOK, Counts, Requests, Nonces, FreshRetries
  <2>9. QED
    BY <2>1, <2>2, <2>3, <2>4, <2>5, <2>6, <2>7, <2>8 DEF DispatchNext, Idle
<1>3. QED
  BY <1>1, <1>2, PTL DEF DispatchSpec

\* No retry is refused as a replay as long as signing works: a worker that got
\* an attempt whose answer was lost accepts the next one.
THEOREM RetriesAreFresh == DispatchSpec => []FreshRetries
BY DispatchInductive, PTL DEF DispatchInv

-----------------------------------------------------------------------------
(* Refinement *)

\* A step of the dispatcher is a step of the call it implements, or leaves it.
LEMMA StepRefines ==
  ASSUME DispatchInv, [DispatchNext]_dispatchVars
  PROVE  [Promise!Execute \/ Promise!Succeed \/ Promise!Fail]_(Promise!callVars)
<1> USE DEF Promise!Execute, Promise!Succeed, Promise!Fail, Promise!callVars
<1>1. CASE Request
  BY <1>1 DEF Request, Closed
<1>2. CASE AnswerOk
  <2>1. succeeded # {}
    BY <1>2 DEF AnswerOk, Answered, DispatchInv, Requests
  <2>2. QED
    BY <1>2, <2>1 DEF AnswerOk, Answered, Close, Closed, worker
<1>3. CASE \E how \in {"failed", "timeout", "dropped"} : Close(how) /\ phase \notin Closed
  BY <1>3 DEF Close, Closed, worker
<1>4. CASE RetryOrFail /\ phase = "await"
  BY <1>4 DEF RetryOrFail, Closed, worker
<1>5. CASE WorkerRefuses
  BY <1>5 DEF WorkerRefuses, loop
<1>6. CASE WorkerRuns
  <2>1. PICK m \in network, good \in BOOLEAN :
          /\ executed' = executed \cup {m.req}
          /\ succeeded' = IF good THEN succeeded \cup {m.req} ELSE succeeded
    BY <1>6 DEF WorkerRuns
  <2>2. m.req \in 1 .. call.retries + 1 /\ m.req \notin executed
    BY <2>1 DEF DispatchInv, DispatchTypeOK, Counts, Requests, Call
  <2>3. UNCHANGED <<call, phase>>
    BY <1>6 DEF WorkerRuns, loop
  <2>4. QED
    BY <2>1, <2>2, <2>3
<1>7. CASE UNCHANGED dispatchVars
  BY <1>7 DEF dispatchVars, loop, worker
<1>8. QED
  BY <1>1, <1>2, <1>3, <1>4, <1>5, <1>6, <1>7
  DEF DispatchNext, Idle, CannotSend, AnswerBad, AnswerFailed, TransportFails, TimesOut, Dropped, Answered, Closed

\* The dispatcher implements JobCall, for every retry policy: at most
\* retries + 1 attempts, each executed at most once, and a result only when an
\* execution succeeded.
THEOREM Implements == DispatchSpec => KeepsPromise
<1>1. DispatchInit => Promise!CallInit
  BY DispatchAssumption DEF DispatchInit, Promise!CallInit, Call, Closed
<1>2. QED
  BY <1>1, StepRefines, DispatchInductive, PTL DEF DispatchSpec, KeepsPromise, Promise!CallSpec

=============================================================================
