---------------------- MODULE ManagementClient_proofs ----------------------
(***************************************************************************)
(* Proofs about RetryTransport, for any threads, requests, brokers and     *)
(* number of retries, and about ManagementClient, which uses that          *)
(* transport as it says and comes to its end in order.                     *)
(***************************************************************************)
EXTENDS ManagementClient, ManagementApi_proofs

(* Where a call stands says what is known of it.                           *)
CallInv ==
  \A c \in Caller :
    /\ pc[c] = "idle" => request[c] = None /\ attempt[c] = 0 /\ ~closed_at_call[c]
    /\ pc[c] # "idle" => request[c] \in Requests
    /\ pc[c] = "backoff" => attempt[c] + 1 < MaxAttempts
    /\ outcome[c] = None <=> pc[c] # "ended"
    /\ response[c] # None => response[c] \in answers[c]
    /\ outcome[c] # None => outcome[c] \in answers[c] \cup {Failed(f) : f \in Failure}

(* Only what was sent is on its way, and an attempt is answered once.      *)
WireInv ==
  /\ \A c \in Caller :
       pc[c] \in {"idle", "attempt", "checked"} => <<c, attempt[c]>> \notin requests
  /\ \A r \in requests : r[2] <= attempt[r[1]]
  /\ \A c \in Caller :
       /\ attempt[c] = 0
       /\ pc[c] \in {"idle", "attempt", "checked"} \/ <<c, 0>> \in requests
       => answers[c] = {}

(* A call on a closed adapter never got as far as the wire.                *)
ClosedInv ==
  \A c \in Caller : closed_at_call[c] => is_closed /\ pc[c] \in {"attempt", "ended"}

(* What an answer to the request itself says of the broker since then.     *)
Answered(method, kind, S) ==
  \E c \in Caller :
    Asked(c, method, kind) /\ \E a \in answers[c] : a.by = method /\ a.status \in S

EffectInv ==
  \A kind \in Kind :
    /\ Answered("PUT", kind, {"ok"}) =>
         Found(kind, broker) \/ ~NobodyAsks("DELETE", kind) \/ ~NobodyAsks("DELETE", "vhost")
    /\ Answered("DELETE", kind, {"ok", "not_found"}) =>
         ~Found(kind, broker) \/ ~NobodyAsks("PUT", kind)

IInv ==
  TypeOK /\ CallInv /\ WireInv /\ ClosedInv /\ AttemptsExhausted /\ ClosedIsReported /\ EffectInv

-----------------------------------------------------------------------------
(* The steps *)

(* The statuses of answers are not the failures a call may end with.       *)
LEMMA FailedIsNoAnswer ==
  ASSUME NEW f \in Failure
  PROVE  /\ Failed(f).status = f /\ Failed(f).by = None /\ Failed(f) # None
         /\ f \notin Status
  BY NoneAssumption DEF Failed, HttpAnswer, Failure, Retryable, Status

LEMMA AttemptsArePositive == MaxAttempts \in Nat \ {0}
  BY RetriesAssumption DEF MaxAttempts

(* What is on its way is an attempt of a call that was made.               *)
LEMMA OnTheWay ==
  ASSUME TypeOK, CallInv, WireInv, NEW r \in requests
  PROVE  /\ r[1] \in Caller /\ r[2] \in 0 .. MaxAttempts - 1 /\ r = <<r[1], r[2]>>
         /\ r[2] <= attempt[r[1]]
         /\ pc[r[1]] # "idle" /\ request[r[1]] \in Requests /\ IsRequest(request[r[1]])
<1>1. r[1] \in Caller /\ r[2] \in 0 .. MaxAttempts - 1 /\ r = <<r[1], r[2]>>
  BY DEF TypeOK
<1>2. r[2] <= attempt[r[1]]
  BY DEF WireInv
<1>3. pc[r[1]] # "idle"
  <2>1. SUFFICES ASSUME pc[r[1]] = "idle" PROVE FALSE
    OBVIOUS
  <2>2. attempt[r[1]] = 0
    BY <1>1, <2>1 DEF CallInv
  <2>3. r[2] = 0
    BY <1>1, <1>2, <2>2, AttemptsArePositive
  <2>4. QED BY <1>1, <2>1, <2>2, <2>3 DEF WireInv
<1>4. request[r[1]] \in Requests
  BY <1>1, <1>3 DEF CallInv
<1>5. QED BY <1>1, <1>2, <1>3, <1>4, RequestsAssumption

(* Everything holds before the first call.                                 *)
LEMMA InitInv == Init => IInv
<1> SUFFICES ASSUME Init PROVE IInv
  OBVIOUS
<1>1. TypeOK
  <2>1. 0 \in 0 .. MaxAttempts - 1
    BY AttemptsArePositive
  <2>2. IsBroker(broker)
    BY BrokersAssumption DEF Init
  <2>3. /\ request \in [Caller -> Requests \cup {None}] /\ pc \in [Caller -> Site]
        /\ attempt \in [Caller -> 0 .. MaxAttempts - 1] /\ slept \in [Caller -> Nat]
        /\ closed_at_call \in [Caller -> BOOLEAN]
    BY <2>1 DEF Init, Site
  <2>4. QED BY <2>2, <2>3 DEF Init, TypeOK
<1>2. CallInv
  <2>1. \A c \in Caller :
          /\ request[c] = None /\ attempt[c] = 0 /\ ~closed_at_call[c] /\ pc[c] = "idle"
          /\ outcome[c] = None /\ response[c] = None
    BY DEF Init
  <2>2. QED BY <2>1 DEF CallInv
<1>3. WireInv
  BY DEF Init, WireInv
<1>4. ClosedInv /\ ClosedIsReported
  BY DEF Init, ClosedInv, ClosedIsReported
<1>5. AttemptsExhausted
  <2>1. \A e \in Retryable : None # Failed(e)
    BY FailedIsNoAnswer DEF Failure
  <2>2. \A c \in Caller : outcome[c] = None /\ slept[c] = 0 /\ attempt[c] = 0 /\ pc[c] = "idle"
    BY DEF Init
  <2>3. \A c \in Caller : outcome[c] \notin {Failed(e) : e \in Retryable}
    BY <2>1, <2>2
  <2>4. QED BY <2>2, <2>3 DEF AttemptsExhausted
<1>6. EffectInv
  BY DEF Init, EffectInv, Answered
<1>7. QED BY <1>1, <1>2, <1>3, <1>4, <1>5, <1>6 DEF IInv

LEMMA TypeStep == IInv /\ Next => TypeOK'
<1> SUFFICES ASSUME IInv, Next PROVE TypeOK'
  OBVIOUS
<1> USE AttemptsArePositive DEF IInv, TypeOK, Site
<1>1. ASSUME NEW c \in Caller, NEW r \in Requests, Call(c, r) PROVE TypeOK'
  BY <1>1 DEF Call
<1>2. ASSUME NEW c \in Caller, NEW o, End(c, o), o.status \in Status \cup Failure
      PROVE  TypeOK'
  BY <1>2 DEF End
<1>3. ASSUME NEW c \in Caller, Step(c) PROVE TypeOK'
  <2>1. CASE RejectClosed(c)
    BY <1>2, <2>1, FailedIsNoAnswer DEF RejectClosed, Failure
  <2>2. CASE PassCheck(c)
    BY <2>2 DEF PassCheck
  <2>3. CASE Send(c)
    BY <2>3 DEF Send
  <2>4. CASE SendOnClosed(c)
    BY <1>2, <2>4, FailedIsNoAnswer DEF SendOnClosed, Failure
  <2>5. CASE Receive(c)
    BY <1>2, <2>5 DEF Receive
  <2>6. CASE BreakOff(c)
    BY <1>2, <2>6, FailedIsNoAnswer DEF BreakOff, Failure
  <2>7. CASE GiveUp(c)
    BY <1>2, <2>7, FailedIsNoAnswer DEF GiveUp, Failure
  <2>8. CASE BackOff(c)
    BY <2>8 DEF BackOff
  <2>9. CASE Retry(c)
    <3>1. attempt[c] + 1 \in 0 .. MaxAttempts - 1
      BY <2>9 DEF Retry, CallInv
    <3>2. QED BY <2>9, <3>1 DEF Retry
  <2>10. QED BY <1>3, <2>1, <2>2, <2>3, <2>4, <2>5, <2>6, <2>7, <2>8, <2>9 DEF Step
<1>4. CASE CloseAdapter
  BY <1>4 DEF CloseAdapter, threads
<1>5. ASSUME NEW r \in requests, NEW a, Reply(r, a), a.status \in Status, IsBroker(broker')
      PROVE  TypeOK'
  BY <1>5 DEF Reply, threads
<1>6. ASSUME NEW r \in requests, CarryOut(r) PROVE TypeOK'
  <2>1. IsRequest(request[r[1]])
    BY OnTheWay
  <2>2. PICK effect \in Effects(request[r[1]], broker) :
          Reply(r, effect.answer) /\ broker' = effect.broker
    BY <1>6 DEF CarryOut
  <2>3. PICK sent : /\ IsRequest(sent)
                    /\ effect.broker = After(sent, broker)
                    /\ effect.answer.status = StatusOf(sent, broker)
    BY <2>1, EffectOfForm
  <2>4. IsBroker(broker') /\ effect.answer.status \in Status
    BY <2>2, <2>3, AfterIsBroker DEF StatusOf, Status
  <2>5. QED BY <1>5, <2>2, <2>4
<1>7. ASSUME NEW r \in requests, Refuse(r) PROVE TypeOK'
  BY <1>5, <1>7 DEF Refuse, Failed, HttpAnswer, Status
<1>8. QED BY <1>1, <1>3, <1>4, <1>6, <1>7 DEF Next

LEMMA CallStep == IInv /\ Next => CallInv'
<1> SUFFICES ASSUME IInv, Next PROVE CallInv'
  OBVIOUS
<1> USE DEF IInv, TypeOK, CallInv
<1>1. ASSUME NEW c \in Caller, NEW r \in Requests, Call(c, r) PROVE CallInv'
  BY <1>1 DEF Call
<1>2. ASSUME NEW c \in Caller, NEW o, End(c, o), pc[c] # "idle", o # None,
             o \in answers[c] \cup {Failed(f) : f \in Failure}
      PROVE  CallInv'
  BY <1>2 DEF End
<1>3. ASSUME NEW c \in Caller, NEW f \in Failure, End(c, Failed(f)), pc[c] # "idle"
      PROVE  CallInv'
  BY <1>2, <1>3, FailedIsNoAnswer
<1>4. ASSUME NEW c \in Caller, Step(c) PROVE CallInv'
  <2>1. CASE RejectClosed(c)
    BY <1>3, <2>1 DEF RejectClosed, Failure
  <2>2. CASE PassCheck(c)
    BY <2>2 DEF PassCheck
  <2>3. CASE Send(c)
    BY <2>3 DEF Send
  <2>4. CASE SendOnClosed(c)
    BY <1>3, <2>4 DEF SendOnClosed, Failure
  <2>5. CASE Receive(c)
    BY <1>2, <2>5 DEF Receive
  <2>6. CASE BreakOff(c)
    BY <1>3, <2>6 DEF BreakOff, Failure
  <2>7. CASE GiveUp(c)
    BY <1>3, <2>7 DEF GiveUp, Failure
  <2>8. CASE BackOff(c)
    <3>1. attempt[c] + 1 < MaxAttempts
      BY <2>8, AttemptsArePositive DEF BackOff
    <3>2. QED BY <2>8, <3>1 DEF BackOff
  <2>9. CASE Retry(c)
    BY <2>9 DEF Retry
  <2>10. QED BY <1>4, <2>1, <2>2, <2>3, <2>4, <2>5, <2>6, <2>7, <2>8, <2>9 DEF Step
<1>5. CASE CloseAdapter
  BY <1>5 DEF CloseAdapter, threads
<1>6. ASSUME NEW r \in requests, NEW a, Reply(r, a) PROVE CallInv'
  BY <1>6 DEF Reply, threads
<1>7. QED BY <1>1, <1>4, <1>5, <1>6 DEF Next, CarryOut, Refuse

LEMMA WireStep == IInv /\ Next => WireInv'
<1> SUFFICES ASSUME IInv, Next PROVE WireInv'
  OBVIOUS
<1> USE DEF IInv, TypeOK, WireInv
<1>1. ASSUME NEW c \in Caller, NEW r \in Requests, Call(c, r) PROVE WireInv'
  BY <1>1 DEF Call
<1>2. ASSUME NEW c \in Caller, NEW o, End(c, o) PROVE WireInv'
  BY <1>2 DEF End
<1>3. ASSUME NEW c \in Caller, Step(c) PROVE WireInv'
  <2>1. CASE \E o : End(c, o)
    BY <1>2, <2>1
  <2>2. CASE PassCheck(c)
    BY <2>2 DEF PassCheck
  <2>3. CASE Send(c)
    BY <2>3 DEF Send
  <2>4. CASE BackOff(c)
    BY <2>4 DEF BackOff
  <2>5. CASE Retry(c)
    BY <2>5, AttemptsArePositive DEF Retry
  <2>6. QED BY <1>3, <2>1, <2>2, <2>3, <2>4, <2>5
            DEF Step, RejectClosed, SendOnClosed, Receive, BreakOff, GiveUp
<1>4. CASE CloseAdapter
  BY <1>4 DEF CloseAdapter, threads
<1>5. ASSUME NEW r \in requests, NEW a, Reply(r, a) PROVE WireInv'
  BY <1>5, OnTheWay, AttemptsArePositive DEF Reply, threads
<1>6. QED BY <1>1, <1>3, <1>4, <1>5 DEF Next, CarryOut, Refuse

LEMMA ClosedStep == IInv /\ Next => ClosedInv' /\ ClosedIsReported'
<1> SUFFICES ASSUME IInv, Next PROVE ClosedInv' /\ ClosedIsReported'
  OBVIOUS
<1> USE DEF IInv, TypeOK, CallInv, ClosedInv, ClosedIsReported
<1>1. ASSUME NEW c \in Caller, NEW r \in Requests, Call(c, r)
      PROVE  ClosedInv' /\ ClosedIsReported'
  <2>1. answers[c] = {}
    BY <1>1 DEF Call, WireInv
  <2>2. \A q \in requests : q[1] # c
    BY <1>1, OnTheWay DEF Call
  <2>3. QED BY <1>1, <2>1, <2>2 DEF Call
<1>2. ASSUME NEW c \in Caller, NEW o, End(c, o), closed_at_call[c] => o = Failed("transport_error")
      PROVE  ClosedInv' /\ ClosedIsReported'
  BY <1>2 DEF End
<1>3. ASSUME NEW c \in Caller, Step(c) PROVE ClosedInv' /\ ClosedIsReported'
  <2>1. CASE RejectClosed(c)
    BY <1>2, <2>1 DEF RejectClosed
  <2>2. CASE PassCheck(c)
    BY <2>2 DEF PassCheck
  <2>3. CASE Send(c)
    BY <2>3 DEF Send
  <2>4. CASE (\E o : End(c, o)) /\ pc[c] \in {"checked", "waiting"}
    BY <1>2, <2>4
  <2>5. CASE BackOff(c)
    BY <2>5 DEF BackOff
  <2>6. CASE Retry(c)
    BY <2>6 DEF Retry
  <2>7. QED BY <1>3, <2>1, <2>2, <2>3, <2>4, <2>5, <2>6
            DEF Step, SendOnClosed, Receive, BreakOff, GiveUp
<1>4. CASE CloseAdapter
  BY <1>4 DEF CloseAdapter, threads
<1>5. ASSUME NEW r \in requests, NEW a, Reply(r, a) PROVE ClosedInv' /\ ClosedIsReported'
  BY <1>5, OnTheWay DEF Reply, threads
<1>6. QED BY <1>1, <1>3, <1>4, <1>5 DEF Next, CarryOut, Refuse

LEMMA AttemptsStep == IInv /\ Next => AttemptsExhausted'
<1> SUFFICES ASSUME IInv, Next PROVE AttemptsExhausted'
  OBVIOUS
<1> DEFINE Exhausted == {Failed(e) : e \in Retryable}
<1> USE DEF IInv, TypeOK, CallInv, AttemptsExhausted
<1>1. ASSUME NEW c \in Caller, NEW r \in Requests, Call(c, r) PROVE AttemptsExhausted'
  BY <1>1 DEF Call
<1>2. ASSUME NEW c \in Caller, NEW o, End(c, o), pc[c] # "backoff",
             o \in Exhausted => attempt[c] = MaxAttempts - 1
      PROVE  AttemptsExhausted'
  BY <1>2 DEF End
<1>3. \A o : o.status \in Status \cup {"transport_error", "runtime_error"} => o \notin Exhausted
  BY DEF Failed, HttpAnswer, Retryable, Status
<1>4. ASSUME NEW c \in Caller, Step(c) PROVE AttemptsExhausted'
  <2>1. CASE RejectClosed(c)
    BY <1>2, <1>3, <2>1 DEF RejectClosed, Failed, HttpAnswer
  <2>2. CASE PassCheck(c)
    BY <2>2 DEF PassCheck
  <2>3. CASE Send(c)
    BY <2>3 DEF Send
  <2>4. CASE SendOnClosed(c)
    BY <1>2, <1>3, <2>4 DEF SendOnClosed, Failed, HttpAnswer
  <2>5. CASE Receive(c)
    BY <1>2, <1>3, <2>5 DEF Receive
  <2>6. CASE BreakOff(c)
    BY <1>2, <1>3, <2>6 DEF BreakOff, Failed, HttpAnswer
  <2>7. CASE GiveUp(c)
    BY <1>2, <2>7, AttemptsArePositive DEF GiveUp
  <2>8. CASE BackOff(c)
    BY <2>8 DEF BackOff
  <2>9. CASE Retry(c)
    <3>1. outcome'[c] = None /\ None \notin Exhausted
      BY <2>9, FailedIsNoAnswer DEF Retry, Failure
    <3>2. QED BY <2>9, <3>1, AttemptsArePositive DEF Retry
  <2>10. QED BY <1>4, <2>1, <2>2, <2>3, <2>4, <2>5, <2>6, <2>7, <2>8, <2>9 DEF Step
<1>5. CASE UNCHANGED threads
  BY <1>5 DEF threads
<1>6. QED BY <1>1, <1>4, <1>5 DEF Next, CloseAdapter, CarryOut, Refuse, Reply

(* What has been achieved stays so whatever comes late, unless it was      *)
(* asked to be undone.                                                     *)
LEMMA EffectStep == IInv /\ Next => EffectInv'
<1> SUFFICES ASSUME IInv, Next PROVE EffectInv'
  OBVIOUS
<1>1. ASSUME NEW c \in Caller, NEW q \in Requests, Call(c, q) PROVE EffectInv'
  <2>1. answers[c] = {} /\ request[c] = None
    BY <1>1 DEF Call, IInv, CallInv, WireInv
  <2>2. /\ answers' = answers /\ broker' = broker
        /\ \A d \in Caller : d # c => request'[d] = request[d]
    BY <1>1 DEF Call, IInv, TypeOK
  <2>3. \A method, kind, S : Answered(method, kind, S)' => Answered(method, kind, S)
    BY <2>1, <2>2 DEF Answered, Asked
  <2>4. \A method, kind : NobodyAsks(method, kind)' => NobodyAsks(method, kind)
    BY <2>1, <2>2 DEF NobodyAsks, Asked
  <2>5. \A kind : Found(kind, broker') <=> Found(kind, broker)
    BY <2>2
  <2>6. QED BY <2>3, <2>4, <2>5 DEF EffectInv, IInv
<1>2. CASE UNCHANGED <<request, answers, broker>>
  BY <1>2 DEF EffectInv, IInv, Answered, Asked, NobodyAsks
<1>3. ASSUME NEW c \in Caller, Step(c) PROVE UNCHANGED <<request, answers, broker>>
  BY <1>3 DEF Step, RejectClosed, PassCheck, Send, SendOnClosed, Receive, BreakOff, GiveUp,
              BackOff, Retry, End
<1>4. ASSUME NEW r \in requests, CarryOut(r) PROVE EffectInv'
  <2>1. r[1] \in Caller /\ IsRequest(request[r[1]])
    BY OnTheWay DEF IInv
  <2>2. PICK effect \in Effects(request[r[1]], broker) :
          Reply(r, effect.answer) /\ broker' = effect.broker
    BY <1>4 DEF CarryOut
  <2>3. PICK sent : /\ IsRequest(sent)
                    /\ sent = request[r[1]] \/ sent.method = "GET"
                    /\ effect.broker = After(sent, broker)
                    /\ effect.answer.status = StatusOf(sent, broker)
                    /\ effect.answer.by = sent.method
    BY <2>1, EffectOfForm
  <2>4. /\ request' = request /\ broker' = After(sent, broker) /\ IsBroker(broker)
        /\ answers' = [answers EXCEPT ![r[1]] = @ \cup {effect.answer}]
        /\ DOMAIN answers = Caller
    BY <2>2, <2>3 DEF Reply, threads, IInv, TypeOK
  <2>5. \A method, kind, S : Answered(method, kind, S)' =>
          \/ Answered(method, kind, S)
          \/ /\ Asked(r[1], method, kind)
             /\ effect.answer.by = method /\ effect.answer.status \in S
    BY <2>4 DEF Answered, Asked
  <2>6. \A method, kind : NobodyAsks(method, kind)' <=> NobodyAsks(method, kind)
    BY <2>4 DEF NobodyAsks, Asked
  <2>7. \A method, kind : sent.method # "GET" /\ NobodyAsks(method, kind) =>
          ~(sent.method = method /\ sent.target = kind)
    <3>1. request[r[1]] # None
      BY OnTheWay, RequestsAssumption DEF IInv
    <3>2. QED BY <2>1, <2>3, <3>1 DEF NobodyAsks, Asked
  <2>8. ASSUME NEW kind \in Kind, Answered("PUT", kind, {"ok"})',
               NobodyAsks("DELETE", kind), NobodyAsks("DELETE", "vhost")
        PROVE  Found(kind, broker')
    <3>1. CASE Answered("PUT", kind, {"ok"})
      <4>1. Found(kind, broker)
        BY <2>8, <3>1 DEF IInv, EffectInv
      <4>2. ~(sent.method = "DELETE" /\ sent.target \in {kind, "vhost"})
        BY <2>7, <2>8
      <4>3. QED BY <2>3, <2>4, <4>1, <4>2, FoundStays
    <3>2. CASE /\ Asked(r[1], "PUT", kind)
               /\ sent.method = "PUT" /\ StatusOf(sent, broker) = "ok"
      <4>1. sent.target = kind
        BY <2>3, <3>2 DEF Asked
      <4>2. QED BY <2>3, <2>4, <3>2, <4>1, PutIsFound
    <3>3. QED BY <2>3, <2>5, <2>8, <3>1, <3>2
  <2>9. ASSUME NEW kind \in Kind, Answered("DELETE", kind, {"ok", "not_found"})',
               NobodyAsks("PUT", kind)
        PROVE  ~Found(kind, broker')
    <3>1. CASE Answered("DELETE", kind, {"ok", "not_found"})
      <4>1. ~Found(kind, broker)
        BY <2>9, <3>1 DEF IInv, EffectInv
      <4>2. ~(sent.method = "PUT" /\ sent.target = kind)
        BY <2>7, <2>9
      <4>3. QED BY <2>3, <2>4, <4>1, <4>2, AbsenceStays
    <3>2. CASE /\ Asked(r[1], "DELETE", kind)
               /\ sent.method = "DELETE" /\ StatusOf(sent, broker) \in {"ok", "not_found"}
      <4>1. sent.target = kind
        BY <2>3, <3>2 DEF Asked
      <4>2. QED BY <2>3, <2>4, <3>2, <4>1, DeleteIsGone
    <3>3. QED BY <2>3, <2>5, <2>9, <3>1, <3>2
  <2>10. QED BY <2>6, <2>8, <2>9 DEF EffectInv
<1>5. ASSUME NEW r \in requests, Refuse(r) PROVE EffectInv'
  <2>1. /\ request' = request /\ broker' = broker /\ DOMAIN answers = Caller
        /\ answers' = [answers EXCEPT ![r[1]] = @ \cup {Failed("refused")}]
    BY <1>5 DEF Refuse, Reply, threads, IInv, TypeOK
  <2>2. \A method, kind, S : Answered(method, kind, S)' /\ "refused" \notin S =>
          Answered(method, kind, S)
    BY <2>1 DEF Answered, Asked, Failed, HttpAnswer
  <2>3. \A method, kind : NobodyAsks(method, kind)' <=> NobodyAsks(method, kind)
    BY <2>1 DEF NobodyAsks, Asked
  <2>4. \A kind : Found(kind, broker') <=> Found(kind, broker)
    BY <2>1
  <2>5. QED BY <2>2, <2>3, <2>4 DEF EffectInv, IInv
<1>6. QED BY <1>1, <1>2, <1>3, <1>4, <1>5 DEF Next, CloseAdapter, threads

LEMMA Inductive == IInv /\ [Next]_vars => IInv'
<1> SUFFICES ASSUME IInv, [Next]_vars PROVE IInv'
  OBVIOUS
<1>1. CASE Next
  BY <1>1, TypeStep, CallStep, WireStep, ClosedStep, AttemptsStep, EffectStep DEF IInv
<1>2. CASE UNCHANGED vars
  BY <1>2 DEF vars, threads, IInv, TypeOK, CallInv, WireInv, ClosedInv, AttemptsExhausted,
              ClosedIsReported, EffectInv, Answered, Asked, NobodyAsks
<1>3. QED BY <1>1, <1>2

-----------------------------------------------------------------------------
(* The inductive invariant of the transport.                               *)
THEOREM Invariance == Spec => []IInv
<1>1. Init => IInv
  BY InitInv
<1>2. IInv /\ [Next]_vars => IInv'
  BY Inductive
<1>3. QED BY <1>1, <1>2, PTL DEF Spec

(* Every variable of the transport stays within its type; in particular    *)
(* what the broker holds stays coherent whatever is carried out late.      *)
THEOREM TypeCorrectness == Spec => []TypeOK
<1>1. IInv => TypeOK
  BY DEF IInv
<1>2. QED BY <1>1, Invariance, PTL

(* A timeout or network error is raised by the last attempt only, and no   *)
(* backoff is waited out that no attempt follows (RetryTransport.request). *)
THEOREM AttemptsAreExhausted == Spec => []AttemptsExhausted
<1>1. IInv => AttemptsExhausted
  BY DEF IInv
<1>2. QED BY <1>1, Invariance, PTL

(* A call on a closed adapter raises TransportError and sends nothing      *)
(* (Httpx2Adapter.request).                                                *)
THEOREM ClosedIsAlwaysReported == Spec => []ClosedIsReported
<1>1. IInv => ClosedIsReported
  BY DEF IInv
<1>2. QED BY <1>1, Invariance, PTL

(* Late and repeated requests do not undo what a PUT or DELETE achieved.   *)
LEMMA AchievedIsAnswered ==
  ASSUME IInv, NEW method \in Methods, NEW kind, NEW S, Achieved(method, kind, S)
  PROVE  Answered(method, kind, S)
<1>1. PICK c \in Caller : /\ Asked(c, method, kind) /\ outcome[c] # None
                          /\ outcome[c].by = method /\ outcome[c].status \in S
  BY DEF Achieved
<1>2. \A f \in Failure : Failed(f).by # method
  BY FailedIsNoAnswer, NoneAssumption
<1>3. outcome[c] \in answers[c]
  BY <1>1, <1>2 DEF IInv, CallInv
<1>4. QED BY <1>1, <1>3 DEF Answered

(* Repetition is harmless: a PUT or DELETE that succeeded stays carried    *)
(* out until it is asked to be undone (RetryTransport.request retries all  *)
(* methods).                                                               *)
THEOREM RepetitionIsHarmless == Spec => []RepetitionHarmless
<1>1. IInv => RepetitionHarmless
  BY AchievedIsAnswered DEF IInv, EffectInv, RepetitionHarmless, Methods
<1>2. QED BY <1>1, Invariance, PTL

-----------------------------------------------------------------------------
(* The transport is a remote call *)

LEMMA SameEffects ==
  ASSUME NEW r, NEW b
  PROVE  Remote!Effects(r, b) = Effects(r, b)
  BY DEF Remote!Effects, Effects, Remote!HttpAnswer, HttpAnswer, Remote!StatusOf, StatusOf,
         Remote!Forms, Forms, Remote!HttpRequest, HttpRequest, Remote!Contents, Contents,
         Remote!After, After, Remote!Removed, Removed, Remote!Missing, Missing,
         Remote!Forbidden, Forbidden, Remote!Stored, Stored, Remote!Found, Found,
         Remote!Matching, Matching, Remote!Quoted, Quoted, Remote!Kind, Kind

LEMMA RemoteInit == Init => Remote!Init
<1> SUFFICES ASSUME Init PROVE Remote!Init
  OBVIOUS
<1>1. \A c \in Caller : (attempt[c] > 0) = FALSE
  BY DEF Init
<1>2. [c \in Caller |-> attempt[c] > 0] = [c \in Caller |-> FALSE]
  BY <1>1, Zenon
<1>3. QED BY <1>2 DEF Init, Remote!Init

(* Every step of the transport is a step of a remote call, or of no        *)
(* concern to it.                                                          *)
LEMMA RemoteStep == IInv /\ [Next]_vars => [Remote!Next]_(Remote!vars)
<1> SUFFICES ASSUME IInv, [Next]_vars PROVE [Remote!Next]_(Remote!vars)
  OBVIOUS
<1> DEFINE repeats == [c \in Caller |-> attempt[c] > 0]
<1> USE DEF Remote!vars
<1>1. ASSUME NEW c \in Caller, NEW r \in Requests, Call(c, r) PROVE Remote!Call(c, r)
  BY <1>1 DEF Call, Remote!Call, IInv, CallInv
<1>2. ASSUME NEW c \in Caller, NEW o, End(c, o), pc[c] \notin {"idle", "ended"},
             o \in answers[c] \cup {Failed(f) : f \in Failure}
      PROVE  Remote!Tell(c)
  <2>1. request[c] # None /\ outcome[c] = None
    BY <1>2, RequestsAssumption DEF IInv, CallInv
  <2>2. \A f : Remote!Failed(f) = Failed(f)
    BY DEF Remote!Failed, Failed, Remote!HttpAnswer, HttpAnswer
  <2>3. o \in answers[c] \cup {Remote!Failed(f) : f \in Failure}
    BY <1>2, <2>2
  <2>4. QED BY <1>2, <2>1, <2>3 DEF End, Remote!Tell
<1>3. ASSUME NEW c \in Caller, Step(c) PROVE Remote!Proceed(c) \/ UNCHANGED Remote!vars
  <2>1. CASE RejectClosed(c)
    BY <1>2, <2>1 DEF RejectClosed, Failure, Remote!Proceed
  <2>2. CASE PassCheck(c)
    BY <2>2 DEF PassCheck
  <2>3. CASE Send(c)
    BY <2>3 DEF Send
  <2>4. CASE SendOnClosed(c)
    BY <1>2, <2>4 DEF SendOnClosed, Failure, Remote!Proceed
  <2>5. CASE Receive(c)
    BY <1>2, <2>5 DEF Receive, IInv, CallInv, Remote!Proceed
  <2>6. CASE BreakOff(c)
    BY <1>2, <2>6 DEF BreakOff, Failure, Remote!Proceed
  <2>7. CASE GiveUp(c)
    BY <1>2, <2>7 DEF GiveUp, Failure, Remote!Proceed
  <2>8. CASE BackOff(c)
    BY <2>8 DEF BackOff
  <2>9. CASE Retry(c)
    <3>1. request[c] # None /\ outcome[c] = None
      BY <2>9, RequestsAssumption DEF Retry, IInv, CallInv
    <3>2. repeats' = [repeats EXCEPT ![c] = TRUE]
      <4>1. \A d \in Caller : (attempt'[d] > 0) = IF d = c THEN TRUE ELSE attempt[d] > 0
        <5>1. attempt[c] \in Nat
          BY AttemptsArePositive DEF IInv, TypeOK
        <5>2. attempt'[c] > 0 /\ \A d \in Caller : d # c => attempt'[d] = attempt[d]
          BY <2>9, <5>1 DEF Retry, IInv, TypeOK
        <5>3. QED BY <5>2
      <4>2. repeats' = [d \in Caller |-> IF d = c THEN TRUE ELSE attempt[d] > 0]
        BY <4>1, Zenon
      <4>3. [repeats EXCEPT ![c] = TRUE] = [d \in Caller |-> IF d = c THEN TRUE ELSE attempt[d] > 0]
        BY Zenon
      <4>4. QED BY <4>2, <4>3
    <3>3. QED BY <2>9, <3>1, <3>2 DEF Retry, Remote!Repeat, Remote!Proceed
  <2>10. QED BY <1>3, <2>1, <2>2, <2>3, <2>4, <2>5, <2>6, <2>7, <2>8, <2>9 DEF Step
<1>4. CASE UNCHANGED <<threads, requests, response, answers, broker>>
  BY <1>4 DEF threads
<1>5. ASSUME NEW r \in requests PROVE r[1] \in Caller /\ Remote!IsOpen(r[1])
  <2>1. /\ r[1] \in Caller /\ r[2] \in Nat /\ r = <<r[1], r[2]>> /\ r[2] <= attempt[r[1]]
        /\ request[r[1]] \in Requests
    BY OnTheWay, AttemptsArePositive DEF IInv
  <2>2. attempt[r[1]] \in Nat
    BY <2>1, AttemptsArePositive DEF IInv, TypeOK
  <2>3. attempt[r[1]] > 0 \/ answers[r[1]] = {}
    BY <2>1, <2>2 DEF IInv, WireInv
  <2>4. QED BY <2>1, <2>3, RequestsAssumption DEF Remote!IsOpen
<1>6. ASSUME NEW r \in requests, CarryOut(r) PROVE Remote!CarryOut(r[1])
  BY <1>5, <1>6, SameEffects DEF CarryOut, Reply, threads, Remote!CarryOut
<1>7. ASSUME NEW r \in requests, Refuse(r) PROVE Remote!Refuse(r[1])
  BY <1>5, <1>7 DEF Refuse, Reply, threads, Remote!Refuse, Remote!Failed, Failed,
                    Remote!HttpAnswer, HttpAnswer
<1>8. CASE Next
  BY <1>1, <1>3, <1>4, <1>5, <1>6, <1>7, <1>8
  DEF Next, CloseAdapter, Remote!Next, Remote!Proceed
<1>9. QED BY <1>4, <1>8 DEF vars

(* RetryTransport around Httpx2Adapter keeps the promise of RemoteCall.    *)
THEOREM ImplementsRemoteCall == Spec => IsRemoteCall
<1>1. Init => Remote!Init
  BY RemoteInit
<1>2. IInv /\ [Next]_vars => [Remote!Next]_(Remote!vars)
  BY RemoteStep
<1>3. QED BY <1>1, <1>2, Invariance, PTL DEF Spec, IsRemoteCall, Remote!Spec

-----------------------------------------------------------------------------
(* A client is believed closed only after its adapter was.                 *)
ClosingInv ==
  /\ closing \in [Closer -> {"idle", "adapter", "flag"}]
  /\ closed => is_closed
  /\ \A t \in Closer : closing[t] = "flag" => is_closed

(* Until the constructor is through, nobody else has the client: what the  *)
(* probe ends with is not the error of a client closed meanwhile.          *)
ConstructorInv ==
  /\ phase = "new" => ~has_adapter
  /\ phase \in {"new", "probe", "cleanup"} =>
       /\ ~is_closed
       /\ \A t \in Closer : closing[t] = "idle"
       /\ outcome[Constructor] # None => outcome[Constructor].status # "runtime_error"

(* Nor is what it raises changed by the clean-up.                          *)
RaisedInv ==
  phase = "cleanup" \/ (phase = "failed" /\ has_adapter) =>
    /\ pc[Constructor] = "ended"
    /\ raised # "none" /\ raised # "runtime_error"
    /\ raised = IF outcome[Constructor].status = "ok" THEN "malformed_response"
                ELSE outcome[Constructor].status

ClientInv == IInv /\ ClosingInv /\ ConstructorInv /\ RaisedInv /\ NothingLeaks

-----------------------------------------------------------------------------
(* The client does with the transport only what its threads may do.        *)
LEMMA ClientStep == ClientNext => [Next]_vars
<1> SUFFICES ASSUME ClientNext PROVE [Next]_vars
  OBVIOUS
<1>1. CASE Construct
  BY <1>1, ConstructorAssumption, OverviewAssumption
  DEF Construct, FailTls, CreateAdapter, Probe, AcceptVersion, RejectVersion, CleanUp,
      CleanUpFails, Next
<1>2. CASE \E c \in Caller : Request(c) \/ RefuseManager(c)
  BY <1>2 DEF Request, RefuseManager, Next
<1>3. CASE \E t \in Closer : Close(t) \/ CloseOwned(t) \/ CloseOwnedFails(t) \/ SetClosed(t)
  BY <1>3 DEF Close, CloseOwned, CloseOwnedFails, SetClosed, Next
<1>4. CASE Transport
  BY <1>4 DEF Transport, Next
<1>5. QED BY <1>1, <1>2, <1>3, <1>4 DEF ClientNext

(* No step opens a closed adapter, or changes what a call has ended with.  *)
LEMMA NothingReopens ==
  ASSUME IInv, [Next]_vars
  PROVE  /\ is_closed => is_closed'
         /\ \A c \in Caller : pc[c] = "ended" => pc'[c] = "ended" /\ outcome'[c] = outcome[c]
<1>1. ASSUME NEW c \in Caller, NEW r \in Requests, Call(c, r)
      PROVE  /\ is_closed' = is_closed
             /\ \A d \in Caller : pc[d] = "ended" => pc'[d] = "ended" /\ outcome'[d] = outcome[d]
  BY <1>1 DEF Call, IInv, TypeOK
<1>2. ASSUME NEW c \in Caller, Step(c)
      PROVE  /\ is_closed' = is_closed
             /\ \A d \in Caller : pc[d] = "ended" => pc'[d] = "ended" /\ outcome'[d] = outcome[d]
  <2>1. /\ is_closed' = is_closed /\ pc[c] # "ended"
        /\ \A d \in Caller : d # c => pc'[d] = pc[d] /\ outcome'[d] = outcome[d]
    <3>1. CASE \E o : End(c, o) /\ pc[c] # "ended"
      BY <3>1 DEF End, IInv, TypeOK
    <3>2. CASE PassCheck(c) \/ Send(c) \/ BackOff(c) \/ Retry(c)
      BY <3>2 DEF PassCheck, Send, BackOff, Retry, IInv, TypeOK
    <3>3. QED BY <1>2, <3>1, <3>2
              DEF Step, RejectClosed, SendOnClosed, Receive, BreakOff, GiveUp
  <2>2. QED BY <2>1
<1>3. CASE CloseAdapter \/ UNCHANGED <<threads, is_closed>>
  BY <1>3 DEF CloseAdapter, threads
<1>4. CASE UNCHANGED vars
  BY <1>3, <1>4 DEF vars
<1>5. CASE \E r \in requests : CarryOut(r) \/ Refuse(r)
  BY <1>3, <1>5 DEF CarryOut, Refuse, Reply
<1>6. QED BY <1>1, <1>2, <1>3, <1>4, <1>5 DEF Next

(* The error of a closed client comes only from a closed adapter.          *)
LEMMA RuntimeErrorIsOfClosed ==
  ASSUME IInv, [Next]_vars, NEW c \in Caller, ~is_closed,
         outcome[c] # None => outcome[c].status # "runtime_error",
         outcome'[c] # None
  PROVE  outcome'[c].status # "runtime_error"
<1>1. ASSUME NEW d \in Caller, NEW r \in Requests, Call(d, r) PROVE outcome' = outcome
  BY <1>1 DEF Call
<1>2. ASSUME NEW d \in Caller, NEW o, End(d, o), o.status # "runtime_error"
      PROVE  outcome'[c].status # "runtime_error"
  BY <1>2 DEF End, IInv, TypeOK
<1>3. ASSUME NEW d \in Caller, Step(d) PROVE outcome'[c].status # "runtime_error"
  <2>1. CASE RejectClosed(d) \/ SendOnClosed(d)
    BY <2>1 DEF RejectClosed, SendOnClosed
  <2>2. CASE Receive(d)
    BY <1>2, <2>2 DEF Receive, IInv, TypeOK, Status
  <2>3. CASE BreakOff(d)
    BY <1>2, <2>3 DEF BreakOff, Failed, HttpAnswer
  <2>4. CASE GiveUp(d)
    BY <1>2, <2>4 DEF GiveUp, Retryable, Failed, HttpAnswer
  <2>5. CASE PassCheck(d) \/ Send(d) \/ BackOff(d) \/ Retry(d)
    BY <2>5 DEF PassCheck, Send, BackOff, Retry
  <2>6. QED BY <1>3, <2>1, <2>2, <2>3, <2>4, <2>5 DEF Step
<1>4. QED BY <1>1, <1>3 DEF Next, CloseAdapter, CarryOut, Refuse, Reply, threads, vars

LEMMA ClientInitInv == ClientInit => ClientInv
<1> SUFFICES ASSUME ClientInit PROVE ClientInv
  OBVIOUS
<1>1. IInv
  BY InitInv DEF ClientInit
<1>2. ClosingInv
  BY DEF ClientInit, ClosingInv
<1>3. outcome[Constructor] = None
  BY ConstructorAssumption DEF ClientInit, Init
<1>4. ConstructorInv
  BY <1>3 DEF ClientInit, Init, ConstructorInv
<1>5. QED BY <1>1, <1>2, <1>4 DEF ClientInit, ClientInv, RaisedInv, NothingLeaks

(* Only a close changes the adapter's state.                               *)
LEMMA TransportKeepsOpen == Transport => UNCHANGED <<client, is_closed>>
<1> SUFFICES ASSUME Transport PROVE UNCHANGED <<client, is_closed>>
  OBVIOUS
<1>1. ASSUME NEW c \in Caller, Step(c) PROVE is_closed' = is_closed
  BY <1>1 DEF Step, RejectClosed, PassCheck, Send, SendOnClosed, Receive, BreakOff, GiveUp,
              BackOff, Retry, End
<1>2. ASSUME NEW r \in requests, CarryOut(r) \/ Refuse(r) PROVE is_closed' = is_closed
  BY <1>2 DEF CarryOut, Refuse, Reply
<1>3. QED BY <1>1, <1>2 DEF Transport

LEMMA ClosingStep == ClientInv /\ ClientNext => ClosingInv'
<1> SUFFICES ASSUME ClientInv, ClientNext PROVE ClosingInv'
  OBVIOUS
<1>1. is_closed => is_closed'
  BY ClientStep, NothingReopens DEF ClientInv
<1>2. CASE UNCHANGED <<closed, closing>>
  BY <1>1, <1>2 DEF ClientInv, ClosingInv
<1>3. CASE Construct
  <2>1. CASE CleanUp
    BY <1>1, <2>1 DEF CleanUp, CloseAdapter, ClientInv, ClosingInv
  <2>2. CASE ~CleanUp
    BY <1>2, <1>3, <2>2 DEF Construct, FailTls, CreateAdapter, Probe, AcceptVersion,
                            RejectVersion, CleanUpFails, client
  <2>3. QED BY <2>1, <2>2
<1>4. ASSUME NEW t \in Closer, Close(t) PROVE ClosingInv'
  BY <1>1, <1>4 DEF Close, ClientInv, ClosingInv
<1>5. ASSUME NEW t \in Closer, CloseOwned(t) PROVE ClosingInv'
  BY <1>5 DEF CloseOwned, CloseAdapter, ClientInv, ClosingInv
<1>6. ASSUME NEW t \in Closer, CloseOwnedFails(t) PROVE ClosingInv'
  BY <1>1, <1>6 DEF CloseOwnedFails, ClientInv, ClosingInv
<1>7. ASSUME NEW t \in Closer, SetClosed(t) PROVE ClosingInv'
  BY <1>1, <1>7 DEF SetClosed, ClientInv, ClosingInv
<1>8. QED BY <1>2, <1>3, <1>4, <1>5, <1>6, <1>7
          DEF ClientNext, Request, RefuseManager, Transport, client

LEMMA ConstructorStep == ClientInv /\ ClientNext => ConstructorInv'
<1> SUFFICES ASSUME ClientInv, ClientNext PROVE ConstructorInv'
  OBVIOUS
<1> DEFINE Early == {"new", "probe", "cleanup"}
<1> USE DEF ClientInv, ConstructorInv
<1>1. ASSUME phase \in Early, outcome'[Constructor] # None
      PROVE  outcome'[Constructor].status # "runtime_error"
  BY <1>1, ClientStep, RuntimeErrorIsOfClosed, ConstructorAssumption
<1>2. CASE phase \in Early /\ UNCHANGED <<is_closed, closing>> /\ (phase' = "new" => ~has_adapter')
  BY <1>1, <1>2
<1>3. CASE phase' \notin Early
  BY <1>3
<1>4. CASE Construct
  BY <1>2, <1>3, <1>4 DEF Construct, FailTls, CreateAdapter, Probe, Call, AcceptVersion,
       RejectVersion, CleanUp, CleanUpFails, Probed, client, vars, threads
<1>5. CASE \E c \in Caller : Request(c) \/ RefuseManager(c)
  BY <1>3, <1>5 DEF Request, RefuseManager, client
<1>6. CASE \E t \in Closer : Close(t) \/ CloseOwned(t) \/ CloseOwnedFails(t) \/ SetClosed(t)
  BY <1>3, <1>6 DEF Close, CloseOwned, CloseOwnedFails, SetClosed
<1>7. CASE Transport
  BY <1>2, <1>3, <1>7, TransportKeepsOpen DEF client
<1>8. QED BY <1>4, <1>5, <1>6, <1>7 DEF ClientNext

LEMMA RaisedStep == ClientInv /\ ClientNext => RaisedInv'
<1> SUFFICES ASSUME ClientInv, ClientNext PROVE RaisedInv'
  OBVIOUS
<1> USE DEF ClientInv, RaisedInv
<1>1. pc[Constructor] = "ended" =>
        pc'[Constructor] = "ended" /\ outcome'[Constructor] = outcome[Constructor]
  BY ClientStep, NothingReopens, ConstructorAssumption
<1>2. CASE UNCHANGED <<phase, raised, has_adapter>>
  BY <1>1, <1>2
<1>3. CASE RejectVersion
  <2>1. /\ phase = "probe" /\ pc[Constructor] = "ended"
        /\ raised' = IF outcome[Constructor].status = "ok" THEN "malformed_response"
                     ELSE outcome[Constructor].status
    BY <1>3 DEF RejectVersion, Probed
  <2>2. /\ outcome[Constructor] # None
        /\ outcome[Constructor].status \in Status \cup Failure
    BY <2>1, ConstructorAssumption DEF IInv, CallInv, TypeOK
  <2>3. outcome[Constructor].status \notin {"none", "runtime_error"}
    BY <2>1, <2>2 DEF ConstructorInv, Status, Failure, Retryable
  <2>4. QED BY <1>1, <2>1, <2>3
<1>4. CASE FailTls
  BY <1>4 DEF FailTls, ConstructorInv
<1>5. CASE CreateAdapter \/ AcceptVersion
  BY <1>5 DEF CreateAdapter, AcceptVersion
<1>6. CASE CleanUp \/ CleanUpFails
  BY <1>1, <1>6 DEF CleanUp, CleanUpFails
<1>7. QED BY <1>2, <1>3, <1>4, <1>5, <1>6
          DEF ClientNext, Construct, Probe, Request, RefuseManager, Close, CloseOwned,
              CloseOwnedFails, SetClosed, Transport, client

LEMMA LeaksStep == ClientInv /\ ClientNext => NothingLeaks'
<1> SUFFICES ASSUME ClientInv, ClientNext PROVE NothingLeaks'
  OBVIOUS
<1> USE DEF ClientInv, NothingLeaks
<1>1. is_closed => is_closed'
  BY ClientStep, NothingReopens
<1>2. CASE UNCHANGED <<phase, has_adapter>> /\ (close_failed => close_failed')
  BY <1>1, <1>2
<1>3. CASE FailTls
  BY <1>3 DEF FailTls, ConstructorInv
<1>4. CASE CreateAdapter \/ AcceptVersion \/ RejectVersion
  BY <1>4 DEF CreateAdapter, AcceptVersion, RejectVersion
<1>5. CASE CleanUp \/ CleanUpFails
  BY <1>5 DEF CleanUp, CloseAdapter, CleanUpFails
<1>6. QED BY <1>2, <1>3, <1>4, <1>5
          DEF ClientNext, Construct, Probe, Request, RefuseManager, Close, CloseOwned,
              CloseOwnedFails, SetClosed, Transport, client

LEMMA ClientInductive == ClientInv /\ [ClientNext]_<<vars, client>> => ClientInv'
<1> SUFFICES ASSUME ClientInv, [ClientNext]_<<vars, client>> PROVE ClientInv'
  OBVIOUS
<1>1. IInv'
  BY ClientStep, Inductive DEF ClientInv
<1>2. CASE ClientNext
  BY <1>1, <1>2, ClosingStep, ConstructorStep, RaisedStep, LeaksStep DEF ClientInv
<1>3. CASE UNCHANGED <<vars, client>>
  BY <1>1, <1>3 DEF ClientInv, ClosingInv, ConstructorInv, RaisedInv, NothingLeaks, vars,
                    threads, client
<1>4. QED BY <1>2, <1>3

-----------------------------------------------------------------------------
(* The inductive invariant of the client, and with it every invariant of   *)
(* the transport.                                                          *)
THEOREM ClientInvariance == ClientSpec => []ClientInv
<1>1. ClientInit => ClientInv
  BY ClientInitInv
<1>2. ClientInv /\ [ClientNext]_<<vars, client>> => ClientInv'
  BY ClientInductive
<1>3. QED BY <1>1, <1>2, PTL DEF ClientSpec

(* A constructor that raises closes what it opened (__init__).             *)
THEOREM NothingIsLeaked == ClientSpec => []NothingLeaks
<1>1. ClientInv => NothingLeaks
  BY DEF ClientInv
<1>2. QED BY <1>1, ClientInvariance, PTL

(* _closed is set only when the adapter is closed (close).                 *)
THEOREM ClosedMeansClosed == ClientSpec => []ClosedIsClosed
<1>1. ClientInv => ClosedIsClosed
  BY DEF ClientInv, ClosingInv, ClosedIsClosed
<1>2. QED BY <1>1, ClientInvariance, PTL

(* The constructor raises its first error (__init__, _get_version).        *)
THEOREM FirstErrorIsRaised == ClientSpec => []FirstErrorRaised
<1>1. ClientInv => FirstErrorRaised
  BY DEF ClientInv, RaisedInv, FirstErrorRaised
<1>2. QED BY <1>1, ClientInvariance, PTL

(* What is proved of the transport holds of the one inside a client.       *)
THEOREM ClientUsesTransport == ClientSpec => Init /\ [][Next]_vars
<1>1. ClientInit => Init
  BY DEF ClientInit
<1>2. [ClientNext]_<<vars, client>> => [Next]_vars
  BY ClientStep
<1>3. QED BY <1>1, <1>2, PTL DEF ClientSpec

(* The calls made through a client are remote calls.                       *)
THEOREM ClientCallsAreRemote == ClientSpec => IsRemoteCall
<1>1. ClientInit => Remote!Init
  BY RemoteInit DEF ClientInit
<1>2. ClientInv /\ [ClientNext]_<<vars, client>> => [Remote!Next]_(Remote!vars)
  BY ClientStep, RemoteStep DEF ClientInv
<1>3. QED BY <1>1, <1>2, ClientInvariance, PTL DEF ClientSpec, IsRemoteCall, Remote!Spec
=============================================================================
