--------------------------- MODULE RetryTransport ---------------------------
(***************************************************************************)
(* http_adapter: RetryTransport.request around Httpx2Adapter.request, as   *)
(* create_adapter stacks them, used by several threads that share one      *)
(* client.  Between the adapter and the broker a request may be lost, its  *)
(* answer may be lost, and a request the caller gave up on may still be    *)
(* carried out later.                                                      *)
(*                                                                         *)
(* Durations are left out: a timeout may strike whenever a thread waits    *)
(* for an answer.                                                          *)
(***************************************************************************)
EXTENDS Integers, ManagementApi

CONSTANTS
  Caller,                \* threads, each of which makes one call
  Requests,              \* what they may ask
  Brokers,               \* what the broker may hold at the beginning
  max_retries            \* the argument of create_adapter

ASSUME RetriesAssumption == max_retries \in Nat
ASSUME RequestsAssumption == None \notin Requests /\ \A r \in Requests : IsRequest(r)
ASSUME BrokersAssumption == \A b \in Brokers : IsBroker(b)

(* Without retries the adapter is used bare, which is a single attempt.    *)
MaxAttempts == IF max_retries > 0 THEN max_retries ELSE 1

VARIABLES
  request,               \* what each caller asked for, None before its call
  pc,                    \* where its thread is
  attempt,               \* the loop variable of RetryTransport.request
  outcome,               \* what the call returned or raised, None yet
  slept,                 \* the number of backoffs waited out
  is_closed,             \* Httpx2Adapter._client.is_closed
  closed_at_call,        \* was it closed when the call began?
  requests,              \* <<c, a>>: attempt a of c is on its way
  response,              \* the answer that has reached a waiting thread
  answers,               \* the answers the broker gave to each call
  broker                 \* what the broker holds

threads == <<request, pc, attempt, outcome, slept, closed_at_call>>
vars == <<threads, is_closed, requests, response, answers, broker>>

Init ==
  /\ request = [c \in Caller |-> None]
  /\ pc = [c \in Caller |-> "idle"]
  /\ attempt = [c \in Caller |-> 0]
  /\ outcome = [c \in Caller |-> None]
  /\ slept = [c \in Caller |-> 0]
  /\ is_closed = FALSE
  /\ closed_at_call = [c \in Caller |-> FALSE]
  /\ requests = {}
  /\ response = [c \in Caller |-> None]
  /\ answers = [c \in Caller |-> {}]
  /\ broker \in Brokers

-----------------------------------------------------------------------------
Call(c, r) ==
  /\ pc[c] = "idle"
  /\ request' = [request EXCEPT ![c] = r]
  /\ pc' = [pc EXCEPT ![c] = "attempt"]
  /\ closed_at_call' = [closed_at_call EXCEPT ![c] = is_closed]
  /\ UNCHANGED <<attempt, outcome, slept, is_closed, requests, response,
                 answers, broker>>

(* The call ends: o is returned or raised.                                 *)
End(c, o) ==
  /\ pc' = [pc EXCEPT ![c] = "ended"]
  /\ outcome' = [outcome EXCEPT ![c] = o]
  /\ response' = [response EXCEPT ![c] = None]
  /\ UNCHANGED <<request, attempt, slept, closed_at_call, is_closed, requests,
                 answers, broker>>

(* Httpx2Adapter.request first looks whether its client is closed.         *)
RejectClosed(c) ==
  /\ pc[c] = "attempt"
  /\ is_closed
  /\ End(c, Failed("transport_error"))

(* Faulty PassCheck: the adapter does not look. *)
PassUnchecked(c) ==
  /\ pc[c] = "attempt"
  /\ pc' = [pc EXCEPT ![c] = "checked"]
  /\ UNCHANGED <<request, attempt, outcome, slept, closed_at_call, is_closed,
                 requests, response, answers, broker>>

PassCheck(c) ==
  /\ pc[c] = "attempt"
  /\ ~is_closed
  /\ pc' = [pc EXCEPT ![c] = "checked"]
  /\ UNCHANGED <<request, attempt, outcome, slept, closed_at_call, is_closed,
                 requests, response, answers, broker>>

(* The request goes out, or it is lost before the broker sees it.          *)
Send(c) ==
  /\ pc[c] = "checked"
  /\ ~is_closed
  /\ pc' = [pc EXCEPT ![c] = "waiting"]
  /\ requests' \in {requests, requests \cup {<<c, attempt[c]>>}}
  /\ UNCHANGED <<request, attempt, outcome, slept, closed_at_call, is_closed,
                 response, answers, broker>>

(* Another thread has closed the client since the check.                   *)
SendOnClosed(c) ==
  /\ pc[c] = "checked"
  /\ is_closed
  /\ End(c, Failed("runtime_error"))

(* Any answer ends the call: a status of 400 or more is an APIError, which *)
(* is not retried.                                                         *)
Receive(c) ==
  /\ pc[c] = "waiting"
  /\ response[c] # None
  /\ End(c, response[c])

(* httpx2.HTTPError that is neither a timeout nor a network error.         *)
BreakOff(c) ==
  /\ pc[c] = "waiting"
  /\ End(c, Failed("transport_error"))

(* Faulty GiveUp: the last error is swallowed. *)
GiveUpSilently(c) ==
  /\ pc[c] = "waiting"
  /\ attempt[c] + 1 = MaxAttempts
  /\ End(c, HttpAnswer("ok", None, request[c].method))

(* Faulty GiveUp: backs off once more before it raises. *)
GiveUpSlowly(c) ==
  /\ pc[c] = "waiting"
  /\ attempt[c] + 1 = MaxAttempts
  /\ pc' = [pc EXCEPT ![c] = "ended"]
  /\ \E e \in Retryable : outcome' = [outcome EXCEPT ![c] = Failed(e)]
  /\ slept' = [slept EXCEPT ![c] = @ + 1]
  /\ response' = [response EXCEPT ![c] = None]
  /\ UNCHANGED <<request, attempt, closed_at_call, is_closed, requests, answers, broker>>

(* A timeout or network error: the last attempt raises it, an earlier one  *)
(* backs off.  The jitter may be zero, which is not slept.                 *)
GiveUp(c) ==
  /\ pc[c] = "waiting"
  /\ attempt[c] + 1 = MaxAttempts
  /\ \E e \in Retryable : End(c, Failed(e))

BackOff(c) ==
  /\ pc[c] = "waiting"
  /\ attempt[c] + 1 # MaxAttempts
  /\ pc' = [pc EXCEPT ![c] = "backoff"]
  /\ slept' \in {slept, [slept EXCEPT ![c] = @ + 1]}
  /\ response' = [response EXCEPT ![c] = None]
  /\ UNCHANGED <<request, attempt, outcome, closed_at_call, is_closed, requests,
                 answers, broker>>

(* Faulty Retry: the attempt is not counted. *)
RetryUncounted(c) ==
  /\ pc[c] = "backoff"
  /\ pc' = [pc EXCEPT ![c] = "attempt"]
  /\ UNCHANGED <<request, attempt, outcome, slept, closed_at_call, is_closed, requests,
                 response, answers, broker>>

Retry(c) ==
  /\ pc[c] = "backoff"
  /\ attempt' = [attempt EXCEPT ![c] = @ + 1]
  /\ pc' = [pc EXCEPT ![c] = "attempt"]
  /\ UNCHANGED <<request, outcome, slept, closed_at_call, is_closed, requests,
                 response, answers, broker>>

(* Httpx2Adapter.close, from any thread and at any time.                   *)
CloseAdapter ==
  /\ is_closed' = TRUE
  /\ UNCHANGED <<threads, requests, response, answers, broker>>

-----------------------------------------------------------------------------
(* The broker answers r with a.  The answer is lost if the thread no       *)
(* longer waits for this attempt, and it may be lost anyway.               *)
Reply(r, a) ==
  /\ r \in requests
  /\ requests' = requests \ {r}
  /\ answers' = [answers EXCEPT ![r[1]] = @ \cup {a}]
  /\ \/ UNCHANGED response
     \/ /\ pc[r[1]] = "waiting" /\ attempt[r[1]] = r[2]
        /\ response' = [response EXCEPT ![r[1]] = a]
  /\ UNCHANGED <<threads, is_closed>>

CarryOut(r) ==
  \E effect \in Effects(request[r[1]], broker) :
    Reply(r, effect.answer) /\ broker' = effect.broker

Refuse(r) == Reply(r, Failed("refused")) /\ UNCHANGED broker

Step(c) ==
  \/ RejectClosed(c) \/ PassCheck(c) \/ Send(c) \/ SendOnClosed(c)
  \/ Receive(c) \/ BreakOff(c) \/ GiveUp(c) \/ BackOff(c) \/ Retry(c)

Next ==
  \/ \E c \in Caller, r \in Requests : Call(c, r)
  \/ \E c \in Caller : Step(c)
  \/ CloseAdapter
  \/ \E r \in requests : CarryOut(r) \/ Refuse(r)

(* A thread that can go on does: no wait is unbounded, for an answer that  *)
(* does not come becomes a timeout.  Nothing is asked of the broker.       *)
Fairness == \A c \in Caller : WF_vars(Step(c))

Spec == Init /\ [][Next]_vars /\ Fairness

-----------------------------------------------------------------------------
Site == {"idle", "attempt", "checked", "waiting", "backoff", "ended"}

TypeOK ==
  /\ request \in [Caller -> Requests \cup {None}]
  /\ pc \in [Caller -> Site]
  /\ attempt \in [Caller -> 0 .. MaxAttempts - 1]
  /\ slept \in [Caller -> Nat]
  /\ is_closed \in BOOLEAN
  /\ closed_at_call \in [Caller -> BOOLEAN]
  /\ requests \subseteq Caller \X (0 .. MaxAttempts - 1)
  /\ DOMAIN outcome = Caller /\ DOMAIN response = Caller /\ DOMAIN answers = Caller
  /\ \A c \in Caller :
       /\ outcome[c] = None \/ outcome[c].status \in Status \cup Failure
       /\ response[c] = None \/ response[c].status \in Status
       /\ \A a \in answers[c] : a.status \in Status
  /\ IsBroker(broker)

(***************************************************************************)
(* A timeout or network error reaches the caller only when every attempt   *)
(* the configuration allows has been made, and backoff waits only between  *)
(* attempts (CHANGELOG, 0.3.0): never before an error is raised.           *)
(***************************************************************************)
AttemptsExhausted ==
  \A c \in Caller :
    /\ outcome[c] \in {Failed(e) : e \in Retryable} => attempt[c] = MaxAttempts - 1
    /\ slept[c] <= attempt[c] + (IF pc[c] = "backoff" THEN 1 ELSE 0)

(***************************************************************************)
(* A call on an adapter that was already closed has no effect at all and   *)
(* says so by TransportError (CHANGELOG, 0.3.0).  A RuntimeError of HTTPX  *)
(* escapes only to a call that began before the close.                     *)
(***************************************************************************)
ClosedIsReported ==
  \A c \in Caller :
    closed_at_call[c] => /\ outcome[c] \in {None, Failed("transport_error")}
                         /\ answers[c] = {}
                         /\ \A r \in requests : r[1] # c

(***************************************************************************)
(* Declaring and deleting survive repetition: once a PUT has been          *)
(* answered with success, the resource is there for as long as nobody has  *)
(* asked for its deletion, or that of its virtual host, whatever late      *)
(* duplicates arrive; and the same of DELETE, for which 404 is as good.    *)
(* Only an answer to the request itself counts: one that was redirected    *)
(* may have become a GET.                                                  *)
(***************************************************************************)
Asked(c, method, kind) ==
  request[c] # None /\ request[c].method = method /\ request[c].target = kind

Achieved(method, kind, S) ==
  \E c \in Caller :
    /\ Asked(c, method, kind) /\ outcome[c] # None
    /\ outcome[c].by = method /\ outcome[c].status \in S

NobodyAsks(method, kind) == \A c \in Caller : ~Asked(c, method, kind)

RepetitionHarmless ==
  \A kind \in Kind :
    /\ Achieved("PUT", kind, {"ok"}) =>
         Found(kind, broker) \/ ~NobodyAsks("DELETE", kind) \/ ~NobodyAsks("DELETE", "vhost")
    /\ Achieved("DELETE", kind, {"ok", "not_found"}) =>
         ~Found(kind, broker) \/ ~NobodyAsks("PUT", kind)

(* The transport implements the promise of a remote call. *)
Remote == INSTANCE RemoteCall WITH Failures <- Failure,
                                   repeated <- [c \in Caller |-> attempt[c] > 0]
IsRemoteCall == Remote!Spec
=============================================================================
