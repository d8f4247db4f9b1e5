------------------------ MODULE ManagementApi_proofs ------------------------
(***************************************************************************)
(* What a request can do to a broker, as the proofs about the transport    *)
(* and about the managers need it.                                         *)
(***************************************************************************)
EXTENDS ManagementApi, TLAPS

(* Whoever looks for a resource finds it if the broker holds one: all of   *)
(* them go with their virtual host.                                        *)
LEMMA FoundIsHeld ==
  ASSUME NEW b, IsBroker(b), NEW kind \in Kind
  PROVE  Found(kind, b) <=> b.held[kind] # None
  BY DEF IsBroker, Found

(* A definition that is put is one, with its defaults filled in as well.   *)
LEMMA StoredIsSome ==
  ASSUME NEW b, IsBroker(b), NEW r, IsRequest(r), r.method = "PUT",
         ~Missing(r, b)
  PROVE  /\ Stored(r, b) # None
         /\ r.target = "vhost" => Stored(r, b).default_queue_type \in QueueType
<1>1. CASE r.target = "queue" /\ r.value.type = "unset"
  <2>1. Found("vhost", b)
    BY <1>1 DEF Missing
  <2>2. b.held["vhost"].default_queue_type \in QueueType
    BY <2>1 DEF IsBroker, Found
  <2>3. QED BY <1>1, <2>2 DEF IsRequest, Stored
<1>2. CASE ~(r.target = "queue" /\ r.value.type = "unset")
  BY <1>2 DEF IsRequest, Stored
<1>3. QED BY <1>1, <1>2

-----------------------------------------------------------------------------
(* What is in a broker after a request *)

(* A request changes what is held of a kind only by putting something      *)
(* there, or by deleting it or the virtual host.                           *)
LEMMA HeldAfter ==
  ASSUME NEW b, IsBroker(b), NEW r, IsRequest(r), NEW kind \in Kind
  PROVE  LET held == After(r, b).held[kind]
         IN \/ held = b.held[kind]
            \/ /\ StatusOf(r, b) = "ok" /\ r.method = "PUT" /\ r.target = kind
               /\ held = Stored(r, b) /\ held # None
            \/ /\ StatusOf(r, b) = "ok" /\ r.method = "DELETE" /\ r.target \in {kind, "vhost"}
               /\ held = None
<1>1. CASE StatusOf(r, b) # "ok" \/ r.method = "GET"
  BY <1>1 DEF After
<1>2. CASE StatusOf(r, b) = "ok" /\ r.method = "PUT"
  <2>1. After(r, b) = [b EXCEPT !.held[r.target] = Stored(r, b)]
    BY <1>2 DEF After
  <2>2. Stored(r, b) # None
    <3>1. ~Missing(r, b)
      BY <1>2 DEF StatusOf
    <3>2. QED BY <1>2, <3>1, StoredIsSome
  <2>3. After(r, b).held = [b.held EXCEPT ![r.target] = Stored(r, b)]
    BY <2>1 DEF IsBroker
  <2>4. b.held = [k \in Kind |-> b.held[k]]
    BY DEF IsBroker
  <2>5. After(r, b).held[kind] = IF kind = r.target THEN Stored(r, b) ELSE b.held[kind]
    BY <2>3, <2>4
  <2>6. QED BY <1>2, <2>2, <2>5
<1>3. CASE StatusOf(r, b) = "ok" /\ r.method = "POST"
  BY <1>3 DEF After, IsRequest, IsBroker
<1>4. CASE StatusOf(r, b) = "ok" /\ r.method = "DELETE"
  <2>1. CASE r.target \in {"protection", "bindings", "binding"}
    BY <1>4, <2>1 DEF After, IsBroker
  <2>2. CASE r.target \notin {"protection", "bindings", "binding"}
    <3>1. After(r, b) = Removed(r.target, b)
      BY <1>4, <2>2 DEF After
    <3>2. CASE r.target = "vhost"
      BY <1>4, <3>1, <3>2 DEF Removed
    <3>3. CASE r.target # "vhost"
      <4>1. After(r, b).held = [b.held EXCEPT ![r.target] = None]
        BY <3>1, <3>3 DEF Removed, IsBroker
      <4>2. After(r, b).held[kind] = IF kind = r.target THEN None ELSE b.held[kind]
        BY <4>1 DEF IsBroker
      <4>3. QED BY <1>4, <4>2
    <3>4. QED BY <3>2, <3>3
  <2>3. QED BY <2>1, <2>2
<1>5. QED BY <1>1, <1>2, <1>3, <1>4 DEF IsRequest, Methods

(* It leaves a broker that holds nothing outside a virtual host.           *)
LEMMA AfterIsBroker ==
  ASSUME NEW b, IsBroker(b), NEW r, IsRequest(r)
  PROVE  IsBroker(After(r, b))
<1> DEFINE a == After(r, b)
<1>1. CASE StatusOf(r, b) # "ok" \/ r.method = "GET"
  BY <1>1 DEF After
<1>2. CASE StatusOf(r, b) = "ok" /\ r.method = "PUT"
  <2>1. a = [b EXCEPT !.held[r.target] = Stored(r, b)]
    BY <1>2 DEF After
  <2>2. /\ a = [held |-> a.held, bindings |-> b.bindings, protected |-> b.protected]
        /\ a.held = [b.held EXCEPT ![r.target] = Stored(r, b)]
    BY <2>1 DEF IsBroker
  <2>3. a.held = [k \in Kind |-> IF k = r.target THEN Stored(r, b) ELSE b.held[k]]
    BY <2>2 DEF IsBroker
  <2>4. ~Missing(r, b)
    BY <1>2 DEF StatusOf
  <2>5. /\ Stored(r, b) # None
        /\ r.target = "vhost" => Stored(r, b).default_queue_type \in QueueType
    BY <1>2, <2>4, StoredIsSome
  <2>6. b.held["vhost"] = None => r.target = "vhost"
    BY <1>2, <2>4 DEF Missing, Found, IsRequest, Kind
  <2>7. "vhost" \in Kind /\ r.target \in Kind
    BY <1>2 DEF Kind, IsRequest
  <2>8. a.held["vhost"] # None /\ a.held["vhost"].default_queue_type \in QueueType
    BY <2>3, <2>5, <2>6, <2>7 DEF IsBroker
  <2>9. QED BY <2>2, <2>3, <2>8 DEF IsBroker
<1>3. CASE StatusOf(r, b) = "ok" /\ r.method = "POST"
  <2>1. ~Missing(r, b)
    BY <1>3 DEF StatusOf
  <2>2. b.held["vhost"] # None
    BY <1>3, <2>1 DEF Missing, Found, IsRequest
  <2>3. QED BY <1>3, <2>2 DEF After, IsRequest, IsBroker
<1>4. CASE StatusOf(r, b) = "ok" /\ r.method = "DELETE"
  <2>1. r.target # "overview" => b.held["vhost"] # None
    <3>1. ~Missing(r, b)
      BY <1>4 DEF StatusOf
    <3>2. QED BY <1>4, <3>1 DEF Missing, Found, Kind
  <2>2. CASE r.target \in {"protection", "bindings", "binding"}
    BY <1>4, <2>1, <2>2 DEF After, IsBroker
  <2>3. CASE r.target \notin {"protection", "bindings", "binding"}
    <3>1. a = Removed(r.target, b)
      BY <1>4, <2>3 DEF After
    <3>2. CASE r.target = "vhost"
      <4>1. a = [held |-> [k \in Kind |-> None], bindings |-> {}, protected |-> FALSE]
        BY <3>1, <3>2 DEF Removed
      <4>2. /\ a = [held |-> a.held, bindings |-> a.bindings, protected |-> a.protected]
            /\ a.held = [k \in Kind |-> None] /\ a.bindings = {}
        BY <4>1
      <4>3. "vhost" \in Kind
        BY DEF Kind
      <4>4. QED BY <4>2, <4>3 DEF IsBroker
    <3>3. CASE r.target # "vhost"
      <4>1. /\ a = [held |-> a.held, bindings |-> a.bindings, protected |-> a.protected]
            /\ a.held = [b.held EXCEPT ![r.target] = None]
            /\ b.bindings = {} => a.bindings = {}
        BY <3>1, <3>3 DEF Removed, IsBroker
      <4>2. a.held = [k \in Kind |-> IF k = r.target THEN None ELSE b.held[k]]
        BY <4>1 DEF IsBroker
      <4>3. "vhost" \in Kind
        BY DEF Kind
      <4>4. QED BY <3>3, <4>1, <4>2, <4>3 DEF IsBroker
    <3>4. QED BY <3>2, <3>3
  <2>4. QED BY <2>2, <2>3
<1>5. QED BY <1>1, <1>2, <1>3, <1>4 DEF IsRequest, Methods

(* A resource stays until it or its virtual host is deleted, ...           *)
LEMMA FoundStays ==
  ASSUME NEW b, IsBroker(b), NEW r, IsRequest(r), NEW kind \in Kind, Found(kind, b),
         ~(r.method = "DELETE" /\ r.target \in {kind, "vhost"})
  PROVE  Found(kind, After(r, b))
<1>1. b.held[kind] # None
  BY FoundIsHeld
<1>2. After(r, b).held[kind] # None
  BY <1>1, HeldAfter
<1>3. QED BY <1>2, AfterIsBroker, FoundIsHeld

(* ... and comes only if it is put.                                        *)
LEMMA AbsenceStays ==
  ASSUME NEW b, IsBroker(b), NEW r, IsRequest(r), NEW kind \in Kind, ~Found(kind, b),
         ~(r.method = "PUT" /\ r.target = kind)
  PROVE  ~Found(kind, After(r, b))
<1>1. b.held[kind] = None
  BY FoundIsHeld
<1>2. After(r, b).held[kind] = None
  BY <1>1, HeldAfter
<1>3. QED BY <1>2, AfterIsBroker, FoundIsHeld

(* A PUT that succeeds leaves the resource, ...                            *)
LEMMA PutIsFound ==
  ASSUME NEW b, IsBroker(b), NEW r, IsRequest(r), NEW kind \in Kind,
         r.method = "PUT", r.target = kind, StatusOf(r, b) = "ok"
  PROVE  Found(kind, After(r, b))
<1>1. ~Missing(r, b)
  BY DEF StatusOf
<1>2. Stored(r, b) # None
  BY <1>1, StoredIsSome
<1>3. After(r, b) = [b EXCEPT !.held[kind] = Stored(r, b)]
  BY DEF After
<1>4. After(r, b).held[kind] # None
  <2>1. After(r, b).held = [b.held EXCEPT ![kind] = Stored(r, b)]
    BY <1>3 DEF IsBroker
  <2>2. kind \in DOMAIN b.held
    BY DEF IsBroker
  <2>3. QED BY <1>2, <2>1, <2>2
<1>5. QED BY <1>4, AfterIsBroker, FoundIsHeld

(* ... and a DELETE none, whether there was one or not.                    *)
LEMMA DeleteIsGone ==
  ASSUME NEW b, IsBroker(b), NEW r, IsRequest(r), NEW kind \in Kind,
         r.method = "DELETE", r.target = kind, StatusOf(r, b) \in {"ok", "not_found"}
  PROVE  ~Found(kind, After(r, b))
<1>1. CASE StatusOf(r, b) = "not_found"
  <2>1. Missing(r, b)
    BY <1>1 DEF StatusOf
  <2>2. ~Found(kind, b)
    BY <2>1 DEF Missing, Found, Kind
  <2>3. After(r, b) = b
    BY <1>1 DEF After
  <2>4. QED BY <2>2, <2>3
<1>2. CASE StatusOf(r, b) = "ok"
  <2>1. After(r, b) = Removed(kind, b)
    BY <1>2 DEF After, Kind
  <2>2. After(r, b).held[kind] = None
    BY <2>1 DEF Removed, IsBroker
  <2>3. QED BY <2>2 DEF Found
<1>3. QED BY <1>1, <1>2

(* A PUT that succeeds leaves what was put.                                *)
LEMMA PutIsHeld ==
  ASSUME NEW b, IsBroker(b), NEW r, IsRequest(r), r.method = "PUT", StatusOf(r, b) = "ok"
  PROVE  After(r, b).held[r.target] = Stored(r, b)
<1>1. After(r, b).held = [b.held EXCEPT ![r.target] = Stored(r, b)]
  BY DEF After, IsBroker
<1>2. r.target \in DOMAIN b.held
  BY DEF IsRequest, IsBroker
<1>3. QED BY <1>1, <1>2

(* A binding goes only if it, or what it leads from or to, is deleted, ... *)
LEMMA BindingsLost ==
  ASSUME NEW b, IsBroker(b), NEW r, IsRequest(r),
         NEW x \in b.bindings, x \notin After(r, b).bindings
  PROVE  /\ StatusOf(r, b) = "ok" /\ r.method = "DELETE"
         /\ \/ r.target = "vhost"
            \/ r.target = "exchange" /\ ~r.value.if_unused
            \/ r.target = "queue" /\ x.to = "queue"
            \/ r.target = "binding" /\ x \in Matching(r, b)
<1>1. StatusOf(r, b) = "ok" /\ r.method # "GET"
  BY DEF After
<1>2. r.method # "PUT"
  BY <1>1 DEF After, IsBroker
<1>3. r.method # "POST"
  BY <1>1 DEF After, IsBroker, IsRequest
<1>4. r.method = "DELETE"
  BY <1>1, <1>2, <1>3 DEF IsRequest, Methods
<1>5. r.target = "exchange" => ~r.value.if_unused
  BY <1>1, <1>4 DEF StatusOf, Forbidden
<1>6. r.target = "queue" => x.to = "queue"
  BY <1>1, <1>4 DEF After, Removed, IsBroker
<1>7. r.target = "binding" => x \in Matching(r, b)
  BY <1>1, <1>4 DEF After, IsBroker
<1>8. r.target \in {"vhost", "exchange", "queue", "binding"}
  <2>1. r.target # "protection"
    BY <1>1, <1>4 DEF After, IsBroker
  <2>2. r.target # "bindings"
    BY <1>1, <1>4 DEF After, IsBroker
  <2>3. SUFFICES ASSUME r.target \notin {"vhost", "exchange", "queue", "binding"} PROVE FALSE
    OBVIOUS
  <2>4. After(r, b) = Removed(r.target, b)
    BY <1>1, <1>4, <2>1, <2>2, <2>3 DEF After
  <2>5. After(r, b).bindings = b.bindings
    BY <2>3, <2>4 DEF Removed, IsBroker
  <2>6. QED BY <2>5
<1>9. QED BY <1>1, <1>4, <1>5, <1>6, <1>7, <1>8

(* ... and comes only if it is posted.                                     *)
LEMMA BindingsMade ==
  ASSUME NEW b, IsBroker(b), NEW r, IsRequest(r),
         NEW x \in After(r, b).bindings, x \notin b.bindings
  PROVE  StatusOf(r, b) = "ok" /\ r.method = "POST" /\ r.target = "bindings" /\ x = r.value
<1>1. StatusOf(r, b) = "ok" /\ r.method # "GET"
  BY DEF After
<1>2. r.method # "PUT"
  BY <1>1 DEF After, IsBroker
<1>3. r.method # "DELETE"
  <2>1. SUFFICES ASSUME r.method = "DELETE" PROVE FALSE
    OBVIOUS
  <2>2. r.target \notin {"protection", "bindings", "binding"}
    <3>1. r.target # "protection"
      BY <1>1, <2>1 DEF After, IsBroker
    <3>2. r.target # "bindings"
      BY <2>1 DEF IsRequest
    <3>3. r.target # "binding"
      BY <1>1, <2>1 DEF After, IsBroker
    <3>4. QED BY <3>1, <3>2, <3>3
  <2>3. After(r, b) = Removed(r.target, b)
    BY <1>1, <2>1, <2>2 DEF After
  <2>4. After(r, b).bindings \subseteq b.bindings
    BY <2>3 DEF Removed, IsBroker
  <2>5. QED BY <2>4
<1>4. r.method = "POST" /\ r.target \in {"bindings", "protection"}
  BY <1>1, <1>2, <1>3 DEF IsRequest, Methods
<1>5. r.target = "bindings" /\ x = r.value
  BY <1>1, <1>4 DEF After, IsBroker
<1>6. QED BY <1>1, <1>4, <1>5

(* A binding that is posted is there, ...                                  *)
LEMMA PostIsBound ==
  ASSUME NEW b, IsBroker(b), NEW r, IsRequest(r),
         r.method = "POST", r.target = "bindings", StatusOf(r, b) = "ok"
  PROVE  r.value \in After(r, b).bindings
  BY DEF After, IsBroker

(* ... and one that is deleted is not.                                     *)
LEMMA DeleteIsUnbound ==
  ASSUME NEW b, IsBroker(b), NEW r, IsRequest(r),
         r.method = "DELETE", r.target = "binding", StatusOf(r, b) = "ok"
  PROVE  After(r, b).bindings = b.bindings \ Matching(r, b)
  BY DEF After, IsBroker

(* A virtual host is protected only on demand.                             *)
LEMMA ProtectedAfter ==
  ASSUME NEW b, IsBroker(b), NEW r, IsRequest(r), After(r, b).protected
  PROVE  b.protected \/ (r.method = "POST" /\ r.target = "protection")
<1>1. CASE StatusOf(r, b) # "ok" \/ r.method = "GET"
  BY <1>1 DEF After
<1>2. CASE StatusOf(r, b) = "ok" /\ r.method = "PUT"
  BY <1>2 DEF After, IsBroker
<1>3. CASE StatusOf(r, b) = "ok" /\ r.method = "POST"
  BY <1>3 DEF After, IsRequest, IsBroker
<1>4. CASE StatusOf(r, b) = "ok" /\ r.method = "DELETE"
  BY <1>4 DEF After, Removed, IsBroker
<1>5. QED BY <1>1, <1>2, <1>3, <1>4 DEF IsRequest, Methods

-----------------------------------------------------------------------------
(* A request that is carried out was sent as it is, or as the GET a        *)
(* redirect has made of it.                                                *)
LEMMA EffectOfForm ==
  ASSUME NEW b, NEW r, IsRequest(r), NEW effect \in Effects(r, b)
  PROVE  \E sent : /\ IsRequest(sent)
                   /\ sent = r \/ (sent.method = "GET" /\ sent.target = r.target)
                   /\ effect.broker = After(sent, b)
                   /\ effect.answer.status = StatusOf(sent, b)
                   /\ effect.answer.by = sent.method
                   /\ effect.answer.content \in Contents(sent, b)
                   /\ effect.answer = HttpAnswer(effect.answer.status, effect.answer.content,
                                                 effect.answer.by)
<1>1. PICK sent \in Forms(r) : \E content \in Contents(sent, b) :
         effect = [answer |-> HttpAnswer(StatusOf(sent, b), content, sent.method),
                   broker |-> After(sent, b)]
  BY DEF Effects
<1>2. IsRequest(sent) /\ (sent = r \/ (sent.method = "GET" /\ sent.target = r.target))
  BY DEF Forms, HttpRequest, IsRequest, Methods
<1>3. PICK content \in Contents(sent, b) :
         effect = [answer |-> HttpAnswer(StatusOf(sent, b), content, sent.method),
                   broker |-> After(sent, b)]
  BY <1>1
<1>4. /\ effect.broker = After(sent, b) /\ effect.answer.status = StatusOf(sent, b)
      /\ effect.answer.by = sent.method /\ effect.answer.content \in Contents(sent, b)
      /\ effect.answer = HttpAnswer(effect.answer.status, effect.answer.content,
                                    effect.answer.by)
  BY <1>3 DEF HttpAnswer
<1>5. QED BY <1>2, <1>4
=============================================================================
