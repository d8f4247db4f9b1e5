----------------------------- MODULE RemoteCall -----------------------------
(***************************************************************************)
(* What a request through the HTTP adapter promises, whatever is lost,     *)
(* late or repeated on the way.  A call is carried out at most once unless *)
(* it is repeated, and then any number of times, some of them after the    *)
(* caller has been told the outcome; but an answer the caller gets is one  *)
(* the broker gave to this call, and the outcome is told once.             *)
(***************************************************************************)
EXTENDS ManagementApi

CONSTANTS
  Caller,
  Requests,              \* what the callers may ask
  Brokers,               \* what the broker may hold at the beginning
  Failures               \* what may end a call instead of an answer

ASSUME FailuresAssumption == Failures \subseteq Failure

VARIABLES
  request,               \* what each caller asked for, None yet
  broker,                \* what the broker holds
  answers,               \* what the broker has answered to each call
  outcome,               \* what each caller was told, None yet
  repeated               \* has the call been repeated?

vars == <<request, broker, answers, outcome, repeated>>

Init ==
  /\ request = [c \in Caller |-> None]
  /\ broker \in Brokers
  /\ answers = [c \in Caller |-> {}]
  /\ outcome = [c \in Caller |-> None]
  /\ repeated = [c \in Caller |-> FALSE]

Call(c, r) ==
  /\ request[c] = None
  /\ request' = [request EXCEPT ![c] = r]
  /\ UNCHANGED <<broker, answers, outcome, repeated>>

IsOpen(c) == request[c] # None /\ (repeated[c] \/ answers[c] = {})

CarryOut(c) ==
  /\ IsOpen(c)
  /\ \E effect \in Effects(request[c], broker) :
       /\ answers' = [answers EXCEPT ![c] = @ \cup {effect.answer}]
       /\ broker' = effect.broker
  /\ UNCHANGED <<request, outcome, repeated>>

Refuse(c) ==
  /\ IsOpen(c)
  /\ answers' = [answers EXCEPT ![c] = @ \cup {Failed("refused")}]
  /\ UNCHANGED <<request, broker, outcome, repeated>>

(* No answer has come in time. *)
Repeat(c) ==
  /\ request[c] # None /\ outcome[c] = None
  /\ repeated' = [repeated EXCEPT ![c] = TRUE]
  /\ UNCHANGED <<request, broker, answers, outcome>>

Tell(c) ==
  /\ request[c] # None /\ outcome[c] = None
  /\ \E o \in answers[c] \cup {Failed(f) : f \in Failures} :
       outcome' = [outcome EXCEPT ![c] = o]
  /\ UNCHANGED <<request, broker, answers, repeated>>

Proceed(c) == CarryOut(c) \/ Refuse(c) \/ Repeat(c) \/ Tell(c)

Next ==
  \/ \E c \in Caller, r \in Requests : Call(c, r)
  \/ \E c \in Caller : Proceed(c)

Spec == Init /\ [][Next]_vars
=============================================================================
