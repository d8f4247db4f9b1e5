---------------------- MODULE ResourceManagers_proofs ----------------------
(***************************************************************************)
(* Proofs about ResourceManagers: for any callers, threads, brokers and    *)
(* queues and shovels asked for.                                           *)
(***************************************************************************)
EXTENDS ResourceManagers, ManagementApi_proofs

-----------------------------------------------------------------------------
(* A shovel on its way and back *)

(* The keys of a side are not those of the common fields, ...              *)
LEMMA SidesAndCommon ==
  ASSUME NEW key \in Common, NEW side \in Side
  PROVE  key \notin SideKeys(side)
<1>1. PICK a, f : key = <<a, f>> /\ f \in {"uri", "ack-mode", "reconnect-delay", "delete-after"}
  BY DEF Common
<1>2. f # "protocol" /\ \A p \in Protocol : f \notin ResponseFields(side, p)
  BY <1>1 DEF ResponseFields, Fields, QueueOrExchange, Headers
<1>3. f \notin {"protocol"} \cup UNION {ResponseFields(side, p) : p \in Protocol}
  BY <1>2
<1>4. QED BY <1>1, <1>3 DEF SideKeys

(* The keys of one side carry its prefix, ...                              *)
LEMMA FlattenedKeys ==
  ASSUME NEW side \in Side, NEW a, NEW key \in DOMAIN Flattened(side, a)
  PROVE  key = <<side, key[2]>>
<1> DEFINE fields == {"protocol"} \cup DOMAIN Dumped(a.values)
<1>1. DOMAIN Flattened(side, a) = {side} \X fields
  BY DEF Flattened
<1> HIDE DEF fields
<1>2. QED BY <1>1

(* ... and what they lead to is its protocol and what is given of its      *)
(* fields.                                                                 *)
LEMMA FlattenedSide ==
  ASSUME NEW side \in Side, NEW p \in Protocol, NEW a, a.protocol = p,
         a.values = [f \in Fields(side, p) |-> a.values[f]],
         NEW f
  PROVE  LET flat == Flattened(side, a)
             given == f = "protocol" \/ (f \in Fields(side, p) /\ a.values[f] # None)
         IN /\ <<side, f>> \in DOMAIN flat <=> given
            /\ given => flat[<<side, f>>] = IF f = "protocol" THEN p ELSE a.values[f]
<1> DEFINE dumped == Dumped(a.values)
<1>1. /\ DOMAIN dumped = {g \in Fields(side, p) : a.values[g] # None}
      /\ \A g \in DOMAIN dumped : dumped[g] = a.values[g]
  BY DEF Dumped
<1>2. Flattened(side, a) = [key \in {side} \X ({"protocol"} \cup DOMAIN dumped) |->
        IF key[2] = "protocol" THEN p ELSE dumped[key[2]]]
  BY DEF Flattened
<1> HIDE DEF dumped
<1>3. QED BY <1>1, <1>2

(* Nothing of one side gets into the other, and nothing is lost.           *)
LEMMA FlatSide ==
  ASSUME NEW r, IsValid(r), NEW side \in Side, NEW f
  PROVE  LET flat == ToApiValue(r)
             p == r[side].protocol
             given == f = "protocol" \/ (f \in Fields(side, p) /\ r[side].values[f] # None)
         IN /\ <<side, f>> \notin Common => (<<side, f>> \in DOMAIN flat <=> given)
            /\ <<side, f>> \notin Common /\ given =>
                 flat[<<side, f>>] = IF f = "protocol" THEN p ELSE r[side].values[f]
<1> DEFINE common == Dumped(r.common)
           src == Flattened("src", r.src)
           dest == Flattened("dest", r.dest)
           p == r[side].protocol
           given == f = "protocol" \/ (f \in Fields(side, p) /\ r[side].values[f] # None)
<1>1. DOMAIN common \subseteq Common
  BY DEF Dumped, IsValid
<1>2. r["src"] = r.src /\ r["dest"] = r.dest
  BY DEF IsValid
<1>3. /\ \A key \in DOMAIN src : key = <<"src", key[2]>>
      /\ \A key \in DOMAIN dest : key = <<"dest", key[2]>>
  BY FlattenedKeys DEF Side
<1>4. LET flat == Flattened(side, r[side])
      IN /\ <<side, f>> \in DOMAIN flat <=> given
         /\ given => flat[<<side, f>>] = IF f = "protocol" THEN p ELSE r[side].values[f]
  <2>1. p \in Protocol /\ r[side].values = [g \in Fields(side, p) |-> r[side].values[g]]
    BY DEF IsValid
  <2>2. QED BY <2>1, FlattenedSide
<1>5. ToApiValue(r) = Merged(Merged(common, src), dest)
  BY DEF ToApiValue
<1> HIDE DEF common, src, dest, given
<1>6. /\ DOMAIN ToApiValue(r) = (DOMAIN common \cup DOMAIN src) \cup DOMAIN dest
      /\ \A key \in DOMAIN ToApiValue(r) :
           ToApiValue(r)[key] = IF key \in DOMAIN dest THEN dest[key]
                                ELSE IF key \in DOMAIN src THEN src[key] ELSE common[key]
  BY <1>5 DEF Merged
<1>7. SUFFICES ASSUME <<side, f>> \notin Common
               PROVE  /\ <<side, f>> \in DOMAIN ToApiValue(r) <=> given
                      /\ given => ToApiValue(r)[<<side, f>>] =
                           IF f = "protocol" THEN p ELSE r[side].values[f]
  BY DEF given
<1>8. <<side, f>> \notin DOMAIN common
  BY <1>1, <1>7
<1>9. CASE side = "src"
  <2>1. <<side, f>> \notin DOMAIN dest
    BY <1>3, <1>9
  <2>2. Flattened(side, r[side]) = src
    BY <1>2, <1>9 DEF src
  <2>3. QED BY <1>4, <1>6, <1>8, <2>1, <2>2
<1>10. CASE side = "dest"
  <2>1. <<side, f>> \notin DOMAIN src
    BY <1>3, <1>10
  <2>2. Flattened(side, r[side]) = dest
    BY <1>2, <1>10 DEF dest
  <2>3. QED BY <1>4, <1>6, <1>8, <2>1, <2>2
<1>11. QED BY <1>9, <1>10 DEF Side

LEMMA FlatCommon ==
  ASSUME NEW r, IsValid(r), NEW key \in Common
  PROVE  key \in DOMAIN ToApiValue(r) /\ ToApiValue(r)[key] = r.common[key]
<1> DEFINE common == Dumped(r.common)
           src == Flattened("src", r.src)
           dest == Flattened("dest", r.dest)
<1>1. key \in DOMAIN common /\ common[key] = r.common[key]
  BY DEF Dumped, IsValid
<1>2. ASSUME NEW side \in Side, NEW a, a = r[side], key \in DOMAIN Flattened(side, a) PROVE FALSE
  <2> DEFINE f == key[2]
  <2>1. key = <<side, f>>
    BY <1>2, FlattenedKeys
  <2>2. /\ a.protocol \in Protocol
        /\ a.values = [g \in Fields(side, a.protocol) |-> a.values[g]]
    BY <1>2 DEF IsValid
  <2> HIDE DEF f
  <2>3. f = "protocol" \/ f \in Fields(side, a.protocol)
    BY <1>2, <2>1, <2>2, FlattenedSide
  <2>4. f \in {"protocol"} \cup UNION {ResponseFields(side, p) : p \in Protocol}
    BY <2>2, <2>3 DEF ResponseFields
  <2>5. QED BY <2>1, <2>4, SidesAndCommon DEF SideKeys
<1>3. r["src"] = r.src /\ r["dest"] = r.dest
  BY DEF IsValid
<1>4. key \notin DOMAIN src /\ key \notin DOMAIN dest
  BY <1>2, <1>3 DEF Side
<1>5. ToApiValue(r) = Merged(Merged(common, src), dest)
  BY DEF ToApiValue
<1> HIDE DEF common, src, dest
<1>6. QED BY <1>1, <1>4, <1>5 DEF Merged

(* What is read back of a valid shovel says what was written.              *)
LEMMA RoundTrip ==
  ASSUME NEW r, IsValid(r)
  PROVE  Echoes(ToApiValue(r), r)
<1> DEFINE flat == ToApiValue(r)
<1>1. ASSUME NEW side \in Side
      PROVE  LET a == r[side]
                 response == ParsedSide(side, flat)
             IN /\ response.protocol = a.protocol
                /\ DOMAIN response.values = ResponseFields(side, a.protocol)
                /\ \A f \in ResponseFields(side, a.protocol) :
                     response.values[f] =
                       IF f \in Fields(side, a.protocol) THEN a.values[f] ELSE Default(f)
  <2> DEFINE p == r[side].protocol
             given == DOMAIN flat \cap SideKeys(side)
  <2>1. p \in Protocol
    BY DEF IsValid
  <2>2. ASSUME NEW f \in {"protocol"} \cup ResponseFields(side, p)
        PROVE  <<side, f>> \in SideKeys(side) /\ <<side, f>> \notin Common
    <3>1. f \in {"protocol"} \cup UNION {ResponseFields(side, q) : q \in Protocol}
      BY <2>1
    <3>2. <<side, f>> \in SideKeys(side)
      BY <3>1 DEF SideKeys
    <3>3. QED BY <3>2, SidesAndCommon
  <2>3. <<side, "protocol">> \in given /\ flat[<<side, "protocol">>] = p
    BY <2>2, FlatSide
  <2>4. ASSUME NEW f \in ResponseFields(side, p)
        PROVE  (IF <<side, f>> \in given THEN flat[<<side, f>>] ELSE Default(f)) =
                 IF f \in Fields(side, p) THEN r[side].values[f] ELSE Default(f)
    <3>1. f # "protocol"
      BY DEF ResponseFields, Fields, QueueOrExchange, Headers
    <3> DEFINE written == f = "protocol" \/ (f \in Fields(side, p) /\ r[side].values[f] # None)
    <3>2. <<side, f>> \in SideKeys(side) /\ <<side, f>> \notin Common
      BY <2>2
    <3>3. /\ <<side, f>> \in DOMAIN flat <=> written
          /\ written => flat[<<side, f>>] = IF f = "protocol" THEN p ELSE r[side].values[f]
      BY <3>2, FlatSide
    <3>4. <<side, f>> \in given <=> f \in Fields(side, p) /\ r[side].values[f] # None
      BY <3>1, <3>2, <3>3
    <3>5. f \in Fields(side, p) /\ r[side].values[f] = None => Default(f) = None
      BY DEF IsValid
    <3>6. QED BY <3>1, <3>3, <3>4, <3>5
  <2> HIDE DEF flat, p
  <2>5. ParsedSide(side, flat) =
          [protocol |-> p,
           values |-> [f \in ResponseFields(side, p) |->
                         IF <<side, f>> \in given THEN flat[<<side, f>>] ELSE Default(f)]]
    BY <2>3 DEF ParsedSide
  <2>6. QED BY <2>4, <2>5 DEF p, flat
<1>2. ASSUME NEW key \in Common PROVE ParsedCommon(flat)[key] = r.common[key]
  <2>1. key \notin UNION {SideKeys(side) : side \in Side}
    BY SidesAndCommon
  <2>2. QED BY <2>1, FlatCommon DEF ParsedCommon
<1>3. ParsedCommon(flat) = r.common
  <2>1. ParsedCommon(flat) = [key \in Common |-> ParsedCommon(flat)[key]]
    BY DEF ParsedCommon
  <2>2. r.common = [key \in Common |-> r.common[key]]
    BY DEF IsValid
  <2> HIDE DEF flat
  <2>3. QED BY <1>2, <2>1, <2>2
<1>4. \A key \in Common : ParsedCommon(flat)[key] # None
  BY <1>2 DEF IsValid
<1>5. ASSUME NEW side \in Side, ParsedSide(side, flat).protocol = "amqp10"
      PROVE  ParsedSide(side, flat).values["address"] # None
  <2>1. r[side].protocol = "amqp10" /\ r[side].values["address"] # None
    BY <1>1, <1>5 DEF IsValid, IsValidSide
  <2>2. "address" \in Fields(side, "amqp10") /\ "address" \in ResponseFields(side, "amqp10")
    BY DEF Fields, ResponseFields
  <2> HIDE DEF flat
  <2>3. QED BY <1>1, <2>1, <2>2
<1>6. ASSUME NEW side \in Side
      PROVE  DOMAIN r[side].values = Fields(side, r[side].protocol)
  BY DEF IsValid
<1> HIDE DEF flat
<1>7. Fits(flat)
  BY <1>4, <1>5 DEF Fits
<1>8. Echoes(flat, r)
  BY <1>1, <1>3, <1>6, <1>7 DEF Echoes
<1>9. QED BY <1>8 DEF flat

-----------------------------------------------------------------------------
(* The invariant *)

TypeOK ==
  /\ operation \in [Caller -> Operation \cup {None}]
  /\ request \in [Caller -> Sent \cup {None}]
  /\ answers = [c \in Caller |-> answers[c]] /\ outcome = [c \in Caller |-> outcome[c]]
  /\ repeated \in [Caller -> BOOLEAN]
  /\ IsBroker(broker) /\ broker.bindings \subseteq Binding
  /\ IsBroker(initial) /\ initial.bindings \subseteq Binding

(* The request a method makes of what it was called for.                   *)
Carries(r, o) ==
  /\ IsRequest(r)
  /\ \/ /\ o.does = "create" /\ o.kind \in Kind
        /\ r.method = "PUT" /\ r.target = o.kind /\ IsAsAsked(o.kind, r.value, o.asked)
        /\ o.kind = "queue" => r.value.type # "unset"
     \/ /\ o.does = "create" /\ o.kind = "binding" /\ o.asked \in Binding
        /\ r.method = "POST" /\ r.target = "bindings" /\ r.value = o.asked
     \/ o.does = "read" /\ o.kind \in Kind /\ r.method = "GET" /\ r.target = o.kind
     \/ /\ o.does = "delete" /\ o.kind \in Kind /\ r.method = "DELETE" /\ r.target = o.kind
        /\ o.kind = "exchange" => r.value.if_unused = o.asked.if_unused
     \/ /\ o.does = "delete" /\ o.kind = "binding" /\ o.asked \in Binding
        /\ r.method = "DELETE" /\ r.target = "binding"
        /\ r.value.to = o.asked.to /\ r.value.segment = Quoted[o.asked.key]
     \/ o.does = "protect" /\ o.kind = "vhost" /\ r.method = "POST" /\ r.target = "protection"
     \/ o.does = "unprotect" /\ o.kind = "vhost" /\ r.method = "DELETE" /\ r.target = "protection"

(* A call is made in its turn, and told what was answered to it.           *)
CallInv ==
  \A c \in Caller :
    /\ request[c] = None => operation[c] = None /\ answers[c] = {} /\ outcome[c] = None
    /\ request[c] # None => /\ operation[c] # None /\ Carries(request[c], operation[c])
                            /\ \A p \in Before[c] : outcome[p] # None
    /\ outcome[c] # None => outcome[c] \in answers[c] \cup {Failed(f) : f \in Failures}

(* What an answer may carry.                                               *)
Speaks(c, a) ==
  /\ a = HttpAnswer(a.status, a.content, a.by)
  /\ a.status \in Status
  /\ a.status # "refused" => a.by \in {"GET", request[c].method}
  /\ a.by \in {"PUT", "DELETE"} => a.content = None
  /\ Asks(c, "create", "binding") => a.content \in {None, Quoted[operation[c].asked.key]}
  /\ Asks(c, "read", "shovel") /\ a.status = "ok" /\ a.content # initial.held["shovel"] =>
       \E d \in Caller : Asks(d, "create", "shovel") /\ a.content = request[d].value

AnswerInv == \A c \in Caller : \A a \in answers[c] : Speaks(c, a)

(* Nothing is held but what was there or was put.                          *)
IsKnown(kind, held) ==
  \/ held \in {None, initial.held[kind]}
  \/ \E d \in Caller : Asks(d, "create", kind) /\ held = request[d].value

OriginInv ==
  /\ \A kind \in Kind : IsKnown(kind, broker.held[kind])
  /\ \A b \in broker.bindings \ initial.bindings : \E d \in Caller : MayBind(d, b)
  /\ broker.protected => initial.protected \/ \E d \in Caller : Asks(d, "protect", "vhost")

(* What was there or was put is there, or was deleted.                     *)
HasDone(c, method) == \E a \in answers[c] : a.status = "ok" /\ a.by = method

Lives(kind) ==
  \/ broker.held[kind] # None
  \/ \E d \in Caller : MayRemove(d, kind) /\ HasDone(d, "DELETE")

IsBound(b) ==
  \/ b \in broker.bindings
  \/ \E d \in Caller : MayUnbind(d, b) /\ HasDone(d, "DELETE")

PresenceInv ==
  /\ \A kind \in Kind :
       /\ initial.held[kind] # None => Lives(kind)
       /\ \A c \in Caller : Asks(c, "create", kind) /\ HasDone(c, "PUT") => Lives(kind)
  /\ \A b \in Binding :
       /\ b \in initial.bindings => IsBound(b)
       /\ \A c \in Caller : MayBind(c, b) /\ HasDone(c, "POST") => IsBound(b)

(* Errors are true from the moment on they are answered.                   *)
ErrorInv ==
  \A c \in Caller : \A a \in answers[c] :
    /\ a.status = "not_found" => NotFoundIsTrue(c, a.by)
    /\ a.status = "conflict" => ConflictIsTrue(c)

(* What a call has brought about lasts, but for the calls of other threads *)
(* and those that may still be carried out.                                *)
LastInv ==
  \A c \in Caller :
    /\ \A kind \in Kind :
         /\ Asks(c, "create", kind) /\ HasDone(c, "PUT") /\ IsLastOf(c, Writers(kind)) =>
              broker.held[kind] = request[c].value
         /\ Asks(c, "delete", kind) /\ HasDone(c, "DELETE") /\ IsLastOf(c, Writers(kind)) =>
              broker.held[kind] = None
    /\ \A b \in Binding :
         /\ MayBind(c, b) /\ HasDone(c, "POST") /\ IsLastOf(c, Rebinders(b)) =>
              b \in broker.bindings
         /\ Asks(c, "delete", "binding") /\ operation[c].asked = b
            /\ HasDone(c, "DELETE") /\ IsLastOf(c, Rebinders(b)) => b \notin broker.bindings

IInv ==
  /\ TypeOK /\ CallInv /\ AnswerInv /\ OriginInv
  /\ PresenceInv /\ ErrorInv /\ LastInv
-----------------------------------------------------------------------------
(* Calls *)

LEMMA UnquotedQuoted ==
  ASSUME NEW b \in Binding
  PROVE  Unquoted(Quoted[b.key]) = b.key
<1>1. b.key \in {"plain", "a%2Fb"}
  BY DEF Binding
<1>2. b.key \in DOMAIN Quoted
  BY <1>1 DEF Quoted
<1>3. \A key \in DOMAIN Quoted : Quoted[key] = Quoted[b.key] => key = b.key
  BY <1>1 DEF Quoted
<1>4. Unquoted(Quoted[b.key]) \in DOMAIN Quoted
      /\ Quoted[Unquoted(Quoted[b.key])] = Quoted[b.key]
  BY <1>2 DEF Unquoted
<1>5. QED BY <1>3, <1>4

LEMMA QuotedIsInjective ==
  ASSUME NEW b \in Binding, NEW d \in Binding, b.to = d.to, Quoted[b.key] = Quoted[d.key]
  PROVE  b = d
<1>1. b.key = d.key
  BY UnquotedQuoted
<1>2. b = [to |-> b.to, key |-> b.key] /\ d = [to |-> d.to, key |-> d.key]
  BY DEF Binding
<1>3. QED BY <1>1, <1>2

(* Somebody calls a method, which makes one request of it.                 *)
Asking(c, o, r) ==
  /\ o \in Operation /\ r \in Sent /\ Carries(r, o)
  /\ \A p \in Before[c] : outcome[p] # None
  /\ request[c] = None
  /\ request' = [request EXCEPT ![c] = r]
  /\ operation' = [operation EXCEPT ![c] = o]
  /\ UNCHANGED <<broker, answers, outcome, repeated, initial>>

LEMMA AskIsAsking ==
  ASSUME NEW c \in Caller, NEW does, NEW kind, NEW asked, NEW r, HasTurn(c, kind),
         [does |-> does, kind |-> kind, asked |-> asked] \in Operation, r \in Sent,
         Carries(r, [does |-> does, kind |-> kind, asked |-> asked]),
         Ask(c, does, kind, asked, r)
  PROVE  \E o, s : Asking(c, o, s)
<1>1. Asking(c, [does |-> does, kind |-> kind, asked |-> asked], r)
  BY DEF Asking, Ask, Call, HasTurn
<1>2. QED BY <1>1

LEMMA PutIsAsking ==
  ASSUME NEW c \in Caller, NEW kind \in Kind, NEW asked \in Payload \cup ShovelRequests,
         NEW payload \in Payload, HasTurn(c, kind), Put(c, kind, asked, payload),
         IsAsAsked(kind, payload, asked),
         kind = "vhost" => payload.default_queue_type \in QueueType,
         kind = "queue" => payload \in [type : QueueType, overflow : {"drop-head", "reject-publish", "unset"}]
  PROVE  \E o, s : Asking(c, o, s)
<1> DEFINE r == HttpRequest("PUT", kind, payload)
           o == [does |-> "create", kind |-> kind, asked |-> asked]
<1>1. r.method = "PUT" /\ r.target = kind /\ r.value = payload
  BY DEF HttpRequest
<1>2. r \in Sent
  BY DEF HttpRequest, Sent, Methods
<1>3. o \in Operation
  BY DEF Operation
<1>4. payload # None
  BY NoneIsNothing
<1>5. ASSUME NEW t \in QueueType, kind = "queue" PROVE [payload EXCEPT !.type = t] # None
  <2>1. [payload EXCEPT !.type = t] \in
          [type : QueueType, overflow : {"drop-head", "reject-publish", "unset"}]
    BY <1>5
  <2>2. [payload EXCEPT !.type = t] \in Payload
    BY <2>1 DEF Payload
  <2>3. QED BY <2>2, NoneIsNothing
<1>6. kind = "queue" => payload.type # "unset"
  BY DEF QueueType
<1>7. IsRequest(r)
  BY <1>1, <1>4, <1>5 DEF IsRequest, Methods
<1>8. o.does = "create" /\ o.kind = kind /\ o.asked = asked
  OBVIOUS
<1>9. Ask(c, "create", kind, asked, r)
  BY DEF Put
<1> HIDE DEF r
<1>10. Carries(r, o)
  BY <1>1, <1>6, <1>7, <1>8 DEF Carries
<1>11. QED BY <1>2, <1>3, <1>9, <1>10, AskIsAsking

LEMMA ReadIsAsking ==
  ASSUME NEW c \in Caller, NEW kind \in Kind, Read(c, kind)
  PROVE  \E o, s : Asking(c, o, s)
<1> DEFINE r == HttpRequest("GET", kind, None)
           o == [does |-> "read", kind |-> kind, asked |-> None]
<1>1. r.method = "GET" /\ r.target = kind
  BY DEF HttpRequest
<1>2. r \in Sent /\ o \in Operation /\ IsRequest(r)
  BY DEF HttpRequest, Sent, Methods, Operation, IsRequest
<1>3. o.does = "read" /\ o.kind = kind
  OBVIOUS
<1>4. Carries(r, o)
  BY <1>1, <1>2, <1>3 DEF Carries
<1>5. QED BY <1>2, <1>4, AskIsAsking DEF Read

LEMMA DeleteIsAsking ==
  ASSUME NEW c \in Caller, NEW kind \in Kind \ {"exchange"}, Delete(c, kind)
  PROVE  \E o, s : Asking(c, o, s)
<1> DEFINE r == HttpRequest("DELETE", kind, None)
           o == [does |-> "delete", kind |-> kind, asked |-> None]
<1>1. r.method = "DELETE" /\ r.target = kind /\ kind # "bindings"
  BY DEF HttpRequest, Kind
<1>2. r \in Sent /\ o \in Operation /\ IsRequest(r)
  BY <1>1 DEF HttpRequest, Sent, Methods, Operation, IsRequest
<1>3. o.does = "delete" /\ o.kind = kind
  OBVIOUS
<1>4. Carries(r, o)
  BY <1>1, <1>2, <1>3 DEF Carries
<1>5. QED BY <1>2, <1>4, AskIsAsking DEF Delete

(* The calls that do not go to a resource by its kind alone.               *)
LEMMA ExchangeDeleteIsAsking ==
  ASSUME NEW c \in Caller, ExchangeDelete(c)
  PROVE  \E o, s : Asking(c, o, s)
<1>1. PICK if_unused \in BOOLEAN :
        Ask(c, "delete", "exchange", [if_unused |-> if_unused],
            HttpRequest("DELETE", "exchange", [if_unused |-> if_unused]))
  BY DEF ExchangeDelete
<1> DEFINE r == HttpRequest("DELETE", "exchange", [if_unused |-> if_unused])
           o == [does |-> "delete", kind |-> "exchange", asked |-> [if_unused |-> if_unused]]
<1>2. r.method = "DELETE" /\ r.target = "exchange" /\ r.value.if_unused = o.asked.if_unused
  BY DEF HttpRequest
<1>3. r \in Sent /\ o \in Operation /\ IsRequest(r)
  BY <1>2 DEF HttpRequest, Sent, Methods, Operation, IsRequest, Kind
<1>4. o.does = "delete" /\ o.kind = "exchange" /\ "exchange" \in Kind
  BY DEF Kind
<1>5. Carries(r, o)
  BY <1>2, <1>3, <1>4 DEF Carries
<1>6. HasTurn(c, "exchange")
  BY DEF ExchangeDelete
<1>7. QED BY <1>1, <1>3, <1>5, <1>6, AskIsAsking

LEMMA BindingCreateIsAsking ==
  ASSUME NEW c \in Caller, BindingCreate(c)
  PROVE  \E o, s : Asking(c, o, s)
<1>1. PICK b \in Binding : Ask(c, "create", "binding", b, HttpRequest("POST", "bindings", b))
  BY DEF BindingCreate
<1> DEFINE r == HttpRequest("POST", "bindings", b)
           o == [does |-> "create", kind |-> "binding", asked |-> b]
<1>2. r.method = "POST" /\ r.target = "bindings" /\ r.value = b
  BY DEF HttpRequest
<1>3. r \in Sent /\ o \in Operation /\ IsRequest(r)
  BY <1>2 DEF HttpRequest, Sent, Methods, Operation, IsRequest
<1>4. o.does = "create" /\ o.kind = "binding" /\ o.asked = b
  OBVIOUS
<1>5. Carries(r, o)
  BY <1>2, <1>3, <1>4 DEF Carries
<1>6. HasTurn(c, "binding")
  BY DEF BindingCreate
<1>7. QED BY <1>1, <1>3, <1>5, <1>6, AskIsAsking

(* A key that is known is that of its binding.                             *)
LEMMA KnownKey ==
  ASSUME TypeOK, CallInv, AnswerInv, NEW c \in Caller, NEW known \in KnownKeys(c)
  PROVE  known.binding \in Binding /\ known.key = known.binding.key
<1>1. CASE known \in {[binding |-> b, key |-> b.key] : b \in initial.bindings}
  BY <1>1 DEF TypeOK
<1>2. ASSUME NEW p \in Before[c], HasCreatedBinding(p),
             known = [binding |-> operation[p].asked, key |-> PropertiesKey(outcome[p])]
      PROVE  known.binding \in Binding /\ known.key = known.binding.key
  <2> DEFINE b == operation[p].asked
  <2>1. p \in Caller
    BY BeforeAssumption
  <2>2. Asks(p, "create", "binding") /\ outcome[p] # None
        /\ outcome[p].status = "ok" /\ outcome[p].content # None
    BY <1>2 DEF HasCreatedBinding, Asks
  <2>3. request[p] # None
    BY <2>1, <2>2 DEF CallInv
  <2>4. Carries(request[p], operation[p])
    BY <2>1, <2>3 DEF CallInv
  <2>5. b \in Binding
    BY <2>2, <2>4 DEF Carries, Asks, Kind
  <2>6. \A f \in Failures : Failed(f).content = None
    BY DEF Failed, HttpAnswer
  <2>7. outcome[p] \in answers[p] \cup {Failed(f) : f \in Failures}
    BY <2>1, <2>2 DEF CallInv
  <2>8. outcome[p] \in answers[p]
    BY <2>2, <2>6, <2>7
  <2>9. Speaks(p, outcome[p])
    BY <2>1, <2>8 DEF AnswerInv
  <2>10. outcome[p].content = Quoted[b.key]
    BY <2>2, <2>9 DEF Speaks
  <2>11. PropertiesKey(outcome[p]) = b.key
    BY <2>5, <2>10, UnquotedQuoted DEF PropertiesKey
  <2>12. QED BY <1>2, <2>5, <2>11
<1>3. QED BY <1>1, <1>2 DEF KnownKeys

LEMMA BindingDeleteIsAsking ==
  ASSUME TypeOK, CallInv, AnswerInv, NEW c \in Caller, BindingDelete(c)
  PROVE  \E o, s : Asking(c, o, s)
<1>1. PICK known \in KnownKeys(c) :
       Ask(c, "delete", "binding", known.binding,
           HttpRequest("DELETE", "binding", [to |-> known.binding.to, segment |-> Quoted[known.key]]))
  BY DEF BindingDelete
<1> DEFINE b == known.binding
           value == [to |-> b.to, segment |-> Quoted[known.key]]
           r == HttpRequest("DELETE", "binding", value)
           o == [does |-> "delete", kind |-> "binding", asked |-> b]
<1>2. b \in Binding /\ known.key = b.key
  BY KnownKey
<1>3. value \in [to : {"queue", "exchange"}, segment : {Quoted[d.key] : d \in Binding}]
  BY <1>2 DEF Binding
<1>4. value.to = b.to /\ value.segment = Quoted[b.key]
  BY <1>2
<1> HIDE DEF value
<1>5. r.method = "DELETE" /\ r.target = "binding" /\ r.value = value
  BY DEF HttpRequest
<1>6. r \in Sent /\ o \in Operation /\ IsRequest(r)
  BY <1>2, <1>3, <1>5 DEF HttpRequest, Sent, Methods, Operation, IsRequest
<1>7. o.does = "delete" /\ o.kind = "binding" /\ o.asked = b
  OBVIOUS
<1>8. Carries(r, o)
  BY <1>2, <1>4, <1>5, <1>6, <1>7 DEF Carries
<1>9. HasTurn(c, "binding")
  BY DEF BindingDelete
<1>10. QED BY <1>1, <1>6, <1>8, <1>9, AskIsAsking DEF value

LEMMA ProtectionIsAsking ==
  ASSUME NEW c \in Caller, EnableDeletionProtection(c) \/ DisableDeletionProtection(c)
  PROVE  \E o, s : Asking(c, o, s)
<1>1. ASSUME NEW does, NEW method, Protection(c, does, method),
             <<does, method>> \in {<<"protect", "POST">>, <<"unprotect", "DELETE">>}
      PROVE  \E o, s : Asking(c, o, s)
  <2> DEFINE r == HttpRequest(method, "protection", None)
             o == [does |-> does, kind |-> "vhost", asked |-> None]
  <2>1. r.method = method /\ r.target = "protection"
    BY DEF HttpRequest
  <2>2. r \in Sent /\ o \in Operation /\ IsRequest(r)
    BY <1>1, <2>1 DEF HttpRequest, Sent, Methods, Operation, IsRequest, Kind
  <2>3. o.does = does /\ o.kind = "vhost"
    OBVIOUS
  <2>4. Carries(r, o)
    BY <1>1, <2>1, <2>2, <2>3 DEF Carries
  <2>5. HasTurn(c, "vhost") /\ Ask(c, does, "vhost", None, r)
    BY <1>1 DEF Protection
  <2>6. QED BY <2>2, <2>4, <2>5, AskIsAsking
<1>2. QED BY <1>1 DEF EnableDeletionProtection, DisableDeletionProtection

(* What the managers put is as it was asked for.                           *)
LEMMA QueueCreateIsAsking ==
  ASSUME NEW c \in Caller, QueueCreate(c)
  PROVE  \E o, s : Asking(c, o, s)
<1>1. PICK d \in QueueDeclarations, strict \in BOOLEAN :
        HasTurn(c, "queue") /\ Put(c, "queue", d, QueuePayload(d, strict))
  BY DEF QueueCreate
<1> DEFINE payload == QueuePayload(d, strict)
           shape == [type : QueueType, overflow : {"drop-head", "reject-publish", "unset"}]
<1>2. d \in QueueRequest
  BY QueueAssumption
<1>3. d \in shape
  BY <1>2 DEF QueueRequest, QueueType
<1>4. /\ payload \in shape /\ payload.type = d.type
      /\ payload.overflow = d.overflow \/ (payload.overflow = "unset" /\ d.overflow = "drop-head")
  BY <1>3 DEF QueuePayload
<1>5. d \in Payload /\ payload \in Payload
  BY <1>3, <1>4 DEF Payload
<1>6. payload # None
  BY <1>5, NoneIsNothing
<1> HIDE DEF payload
<1>7. IsAsAsked("queue", payload, d)
  BY <1>4, <1>6 DEF IsAsAsked
<1>8. "queue" \in Kind
  BY DEF Kind
<1>9. QED BY <1>1, <1>4, <1>5, <1>7, <1>8, PutIsAsking DEF payload

LEMMA ShovelCreateIsAsking ==
  ASSUME NEW c \in Caller, ShovelCreate(c)
  PROVE  \E o, s : Asking(c, o, s)
<1>1. PICK r \in ShovelRequests : HasTurn(c, "shovel") /\ Put(c, "shovel", r, ToApiValue(r))
  BY DEF ShovelCreate
<1>2. ToApiValue(r) \in Payload
  BY DEF Payload
<1>3. ToApiValue(r) # None
  BY <1>2, NoneIsNothing
<1>4. Echoes(ToApiValue(r), r)
  BY RoundTrip, ShovelAssumption
<1>5. IsAsAsked("shovel", ToApiValue(r), r)
  BY <1>3, <1>4 DEF IsAsAsked
<1>6. "shovel" \in Kind
  BY DEF Kind
<1>7. QED BY <1>1, <1>2, <1>5, <1>6, PutIsAsking

LEMMA PlainCreateIsAsking ==
  ASSUME NEW c \in Caller,
         ExchangeCreate(c) \/ PolicyCreate(c) \/ VhostCreate(c) \/ LimitApply(c)
  PROVE  \E o, s : Asking(c, o, s)
<1>1. ASSUME NEW kind \in Kind \ {"queue", "shovel"}, NEW v \in Payload,
             kind = "vhost" => v.default_queue_type \in QueueType,
             HasTurn(c, kind), Put(c, kind, v, v)
      PROVE  \E o, s : Asking(c, o, s)
  <2>1. v # None
    BY NoneIsNothing
  <2>2. IsAsAsked(kind, v, v)
    BY <1>1, <2>1 DEF IsAsAsked
  <2>3. QED BY <1>1, <2>2, PutIsAsking
<1>2. CASE ExchangeCreate(c)
  <2>1. PICK type \in {"direct", "fanout"} :
          HasTurn(c, "exchange") /\ Put(c, "exchange", [type |-> type], [type |-> type])
    BY <1>2 DEF ExchangeCreate
  <2>2. [type |-> type] \in Payload
    BY DEF Payload
  <2>3. QED BY <1>1, <2>1, <2>2 DEF Kind
<1>3. CASE PolicyCreate(c)
  <2>1. PICK kind \in {"policy", "operator_policy"}, pattern \in {"one", "two"} :
          HasTurn(c, kind) /\ Put(c, kind, [pattern |-> pattern], [pattern |-> pattern])
    BY <1>3 DEF PolicyCreate
  <2>2. [pattern |-> pattern] \in Payload
    BY DEF Payload
  <2>3. kind \in Kind \ {"queue", "shovel"} /\ kind # "vhost"
    BY DEF Kind
  <2>4. QED BY <1>1, <2>1, <2>2, <2>3
<1>4. CASE VhostCreate(c)
  <2>1. PICK type \in {"classic", "quorum"} : HasTurn(c, "vhost") /\
          Put(c, "vhost", [default_queue_type |-> type], [default_queue_type |-> type])
    BY <1>4 DEF VhostCreate
  <2> DEFINE v == [default_queue_type |-> type]
  <2>2. v \in Payload /\ v.default_queue_type \in QueueType
    BY DEF Payload, QueueType
  <2> HIDE DEF v
  <2>3. HasTurn(c, "vhost") /\ Put(c, "vhost", v, v)
    BY <2>1 DEF v
  <2>4. "vhost" \in Kind \ {"queue", "shovel"}
    BY DEF Kind
  <2>5. QED BY <1>1, <2>2, <2>3, <2>4
<1>5. CASE LimitApply(c)
  <2>1. PICK value \in {"0", "1"} :
          HasTurn(c, "limit") /\ Put(c, "limit", [value |-> value], [value |-> value])
    BY <1>5 DEF LimitApply
  <2>2. [value |-> value] \in Payload
    BY DEF Payload
  <2>3. QED BY <1>1, <2>1, <2>2 DEF Kind
<1>6. QED BY <1>2, <1>3, <1>4, <1>5

LEMMA OperateIsAsking ==
  ASSUME TypeOK, CallInv, AnswerInv, NEW c \in Caller, Operate(c)
  PROVE  \E o, s : Asking(c, o, s)
<1>1. CASE \/ QueueCreate(c) \/ ShovelCreate(c) \/ ExchangeCreate(c) \/ PolicyCreate(c)
           \/ VhostCreate(c) \/ LimitApply(c)
  BY <1>1, QueueCreateIsAsking, ShovelCreateIsAsking, PlainCreateIsAsking
<1>2. CASE ExchangeDelete(c) \/ BindingCreate(c) \/ BindingDelete(c)
  BY <1>2, ExchangeDeleteIsAsking, BindingCreateIsAsking, BindingDeleteIsAsking
<1>3. CASE EnableDeletionProtection(c) \/ DisableDeletionProtection(c)
  BY <1>3, ProtectionIsAsking
<1>4. CASE \/ QueueGet(c) \/ ExchangeGet(c) \/ PolicyGet(c) \/ ShovelGet(c)
           \/ VhostGet(c) \/ LimitGet(c)
  BY <1>4, ReadIsAsking DEF QueueGet, ExchangeGet, PolicyGet, ShovelGet, VhostGet, LimitGet, Kind
<1>5. CASE \/ QueueDelete(c) \/ PolicyDelete(c) \/ ShovelDelete(c)
           \/ VhostDelete(c) \/ LimitDelete(c)
  BY <1>5, DeleteIsAsking DEF QueueDelete, PolicyDelete, ShovelDelete, VhostDelete, LimitDelete, Kind
<1>6. QED BY <1>1, <1>2, <1>3, <1>4, <1>5 DEF Operate

-----------------------------------------------------------------------------
(* The steps *)

(* The broker answers a call, or refuses to.                               *)
Answering(c, r, a) ==
  /\ IsOpen(c)
  /\ answers' = [answers EXCEPT ![c] = @ \cup {a}]
  /\ UNCHANGED <<request, operation, outcome, repeated, initial>>
  /\ IsRequest(r) /\ (r = request[c] \/ (r.method = "GET" /\ r.target = request[c].target))
  /\ a = HttpAnswer(a.status, a.content, a.by)
  /\ \/ /\ broker' = After(r, broker)
        /\ a.status = StatusOf(r, broker) /\ a.by = r.method /\ a.content \in Contents(r, broker)
     \/ broker' = broker /\ a.status = "refused" /\ a.by = None /\ a.content = None

(* A call is repeated, or told how it ended.                               *)
Repeating(c) == Repeat(c) /\ UNCHANGED managers
Telling(c) == Tell(c) /\ UNCHANGED managers

LEMMA CarriesSomething ==
  ASSUME TypeOK, CallInv, NEW c \in Caller, request[c] # None
  PROVE  /\ operation[c] \in Operation /\ operation[c] # None
         /\ request[c] \in Sent /\ Carries(request[c], operation[c]) /\ IsRequest(request[c])
  BY DEF TypeOK, CallInv, Carries

LEMMA Steps ==
  ASSUME TypeOK, CallInv, AnswerInv, ManagersNext
  PROVE  \E c \in Caller : \/ \E o, r : Asking(c, o, r)
                           \/ \E r, a : Answering(c, r, a)
                           \/ Repeating(c) \/ Telling(c)
<1>1. PICK c \in Caller : Operate(c) \/ Travel(c)
  BY DEF ManagersNext
<1>2. CASE Operate(c)
  BY <1>2, OperateIsAsking
<1>3. CASE Travel(c)
  <2>1. CASE CarryOut(c)
    <3>1. IsRequest(request[c])
      BY <2>1, CarriesSomething DEF CarryOut, IsOpen
    <3>2. PICK effect \in Effects(request[c], broker) :
            /\ answers' = [answers EXCEPT ![c] = @ \cup {effect.answer}]
            /\ broker' = effect.broker
      BY <2>1 DEF CarryOut
    <3>3. PICK sent : /\ IsRequest(sent)
                      /\ sent = request[c] \/ (sent.method = "GET" /\ sent.target = request[c].target)
                      /\ effect.broker = After(sent, broker)
                      /\ effect.answer.status = StatusOf(sent, broker)
                      /\ effect.answer.by = sent.method
                      /\ effect.answer.content \in Contents(sent, broker)
                      /\ effect.answer = HttpAnswer(effect.answer.status, effect.answer.content,
                                                    effect.answer.by)
      BY <3>1, EffectOfForm
    <3>4. Answering(c, sent, effect.answer)
      BY <1>3, <2>1, <3>2, <3>3 DEF Answering, CarryOut, Travel, managers
    <3>5. QED BY <3>4
  <2>2. CASE Refuse(c)
    <3> DEFINE a == Failed("refused")
    <3>1. a = HttpAnswer(a.status, a.content, a.by)
          /\ a.status = "refused" /\ a.by = None /\ a.content = None
      BY DEF Failed, HttpAnswer
    <3>2. IsRequest(request[c])
      BY <2>2, CarriesSomething DEF Refuse, IsOpen
    <3>3. answers' = [answers EXCEPT ![c] = @ \cup {a}]
      BY <2>2 DEF Refuse
    <3> HIDE DEF a
    <3>4. Answering(c, request[c], a)
      BY <1>3, <2>2, <3>1, <3>2, <3>3 DEF Answering, Refuse, Travel, managers
    <3>5. QED BY <3>4
  <2>3. CASE Repeat(c)
    BY <1>3, <2>3 DEF Repeating, Travel
  <2>4. CASE Tell(c)
    BY <1>3, <2>4 DEF Telling, Travel
  <2>5. QED BY <1>3, <2>1, <2>2, <2>3, <2>4 DEF Travel, Proceed
<1>4. QED BY <1>1, <1>2, <1>3

(* Nothing is forgotten of a call, and what was told does not change.      *)
Grows ==
  /\ initial' = initial
  /\ \A c \in Caller :
       /\ request[c] # None => request'[c] = request[c]
       /\ operation[c] # None => operation'[c] = operation[c]
       /\ answers[c] \subseteq answers'[c]
       /\ outcome[c] # None => outcome'[c] = outcome[c] /\ repeated'[c] = repeated[c]
       /\ repeated[c] => repeated'[c]

LEMMA AskingGrows ==
  ASSUME TypeOK, CallInv, NEW c \in Caller, NEW o, NEW r, Asking(c, o, r)
  PROVE  Grows
<1>1. operation[c] = None
  BY DEF CallInv, Asking
<1>2. QED BY <1>1 DEF Grows, Asking, TypeOK

LEMMA AnsweringGrows ==
  ASSUME TypeOK, NEW c \in Caller, NEW r, NEW a, Answering(c, r, a)
  PROVE  Grows
  BY DEF Grows, Answering, TypeOK

LEMMA WaitingGrows ==
  ASSUME TypeOK, NEW c \in Caller, Repeating(c) \/ Telling(c)
  PROVE  Grows
  BY DEF Grows, Repeating, Repeat, Telling, Tell, managers, TypeOK

LEMMA NextGrows ==
  ASSUME TypeOK, CallInv, AnswerInv, ManagersNext
  PROVE  Grows
  BY Steps, AskingGrows, AnsweringGrows, WaitingGrows

(* Who asks for something, does so from now on.                            *)
LEMMA AsksOn ==
  ASSUME Grows, NEW c \in Caller, NEW does, NEW kind, Asks(c, does, kind)
  PROVE  Asks(c, does, kind)' /\ operation'[c] = operation[c]
  BY DEF Grows, Asks

LEMMA MayRemoveOn ==
  ASSUME Grows, NEW c \in Caller, NEW kind, MayRemove(c, kind)
  PROVE  MayRemove(c, kind)'
  BY AsksOn DEF MayRemove

LEMMA MayUnbindOn ==
  ASSUME Grows, NEW c \in Caller, NEW b, MayUnbind(c, b)
  PROVE  MayUnbind(c, b)'
<1>1. ASSUME NEW does, NEW kind
      PROVE  Asks(c, does, kind) => Asks(c, does, kind)' /\ operation'[c] = operation[c]
  BY AsksOn
<1>2. QED BY <1>1 DEF MayUnbind

LEMMA MayBindOn ==
  ASSUME Grows, NEW c \in Caller, NEW b, MayBind(c, b)
  PROVE  MayBind(c, b)'
  BY AsksOn DEF MayBind

LEMMA HasDoneOn ==
  ASSUME Grows, NEW c \in Caller, NEW method, HasDone(c, method)
  PROVE  HasDone(c, method)'
  BY DEF Grows, HasDone

(* Who asks has made a request, which stays.                               *)
LEMMA RequestOn ==
  ASSUME CallInv, Grows, NEW c \in Caller, operation[c] # None
  PROVE  request[c] # None /\ request'[c] = request[c] /\ operation'[c] = operation[c]
  BY DEF CallInv, Grows

LEMMA AnsweringAsks ==
  ASSUME TypeOK, CallInv, NEW c \in Caller, NEW r, NEW a, Answering(c, r, a)
  PROVE  /\ request[c] # None /\ operation[c] # None /\ Carries(request[c], operation[c])
         /\ IsRequest(r)
  BY CarriesSomething DEF Answering, IsOpen

(* What of a request changes the broker was asked for.                     *)
LEMMA PutWasAsked ==
  ASSUME TypeOK, CallInv, NEW c \in Caller, NEW r, NEW a, Answering(c, r, a), r.method = "PUT"
  PROVE  /\ r = request[c] /\ r.target \in Kind /\ Asks(c, "create", r.target)
         /\ Stored(r, broker) = r.value
<1>1. r = request[c] /\ Carries(r, operation[c]) /\ operation[c] # None
  BY AnsweringAsks DEF Answering
<1>2. operation[c].does = "create" /\ operation[c].kind = r.target /\ r.target \in Kind
  BY <1>1 DEF Carries
<1>3. r.target = "queue" => r.value.type # "unset"
  BY <1>1, <1>2 DEF Carries
<1>4. QED BY <1>1, <1>2, <1>3 DEF Asks, Stored

LEMMA PostWasAsked ==
  ASSUME TypeOK, CallInv, NEW c \in Caller, NEW r, NEW a, Answering(c, r, a), r.method = "POST"
  PROVE  /\ r = request[c]
         /\ r.target = "bindings" => MayBind(c, r.value) /\ r.value \in Binding
         /\ r.target = "protection" => Asks(c, "protect", "vhost")
<1>1. r = request[c] /\ Carries(r, operation[c]) /\ operation[c] # None
  BY AnsweringAsks DEF Answering
<1>2. QED BY <1>1 DEF Carries, MayBind, Asks

LEMMA DeleteWasAsked ==
  ASSUME TypeOK, CallInv, NEW c \in Caller, NEW r, NEW a, Answering(c, r, a), r.method = "DELETE"
  PROVE  /\ r = request[c]
         /\ r.target \in Kind => Asks(c, "delete", r.target)
         /\ r.target = "binding" => Asks(c, "delete", "binding")
<1>1. r = request[c] /\ Carries(r, operation[c]) /\ operation[c] # None
  BY AnsweringAsks DEF Answering
<1>2. QED BY <1>1 DEF Carries, Asks, Kind

(* A binding that goes may be taken away by whoever asked.                 *)
LEMMA UnbindWasAsked ==
  ASSUME TypeOK, CallInv, NEW c \in Caller, NEW r, NEW a, Answering(c, r, a),
         broker' = After(r, broker), NEW b \in broker.bindings, b \notin broker'.bindings
  PROVE  r.method = "DELETE" /\ StatusOf(r, broker) = "ok" /\ r = request[c] /\ MayUnbind(c, b)
<1>1. IsBroker(broker) /\ IsRequest(r)
  BY AnsweringAsks DEF TypeOK
<1>2. /\ StatusOf(r, broker) = "ok" /\ r.method = "DELETE"
      /\ \/ r.target = "vhost"
         \/ r.target = "exchange" /\ ~r.value.if_unused
         \/ r.target = "queue" /\ b.to = "queue"
         \/ r.target = "binding" /\ b \in Matching(r, broker)
  BY <1>1, BindingsLost
<1>3. r = request[c] /\ Carries(r, operation[c]) /\ operation[c] # None
  BY <1>2, AnsweringAsks DEF Answering
<1>4. CASE r.target \in {"vhost", "queue"}
  BY <1>2, <1>4, DeleteWasAsked DEF MayUnbind, Kind
<1>5. CASE r.target = "exchange"
  <2>1. Asks(c, "delete", "exchange")
    BY <1>2, <1>5, DeleteWasAsked DEF Kind
  <2>2. r.value.if_unused = operation[c].asked.if_unused
    BY <1>2, <1>3, <1>5, <2>1 DEF Carries, Asks, Kind
  <2>3. QED BY <1>2, <1>3, <1>5, <2>1, <2>2 DEF MayUnbind
<1>6. CASE r.target = "binding"
  <2>1. Asks(c, "delete", "binding")
    BY <1>2, <1>6, DeleteWasAsked
  <2>2. /\ operation[c].asked \in Binding /\ r.value.to = operation[c].asked.to
        /\ r.value.segment = Quoted[operation[c].asked.key]
    BY <1>2, <1>3, <1>6, <2>1 DEF Carries, Asks, Kind
  <2>3. b.to = r.value.to /\ Quoted[b.key] = r.value.segment
    BY <1>2, <1>6 DEF Matching
  <2>4. b \in Binding
    BY DEF TypeOK
  <2>5. operation[c].asked = b
    BY <2>2, <2>3, <2>4, QuotedIsInjective
  <2>6. QED BY <1>2, <1>3, <2>1, <2>5 DEF MayUnbind
<1>7. QED BY <1>2, <1>4, <1>5, <1>6

-----------------------------------------------------------------------------
(* The invariant holds at first, ... *)

LEMMA InitInv == ManagersInit => IInv
<1> SUFFICES ASSUME ManagersInit PROVE IInv
  OBVIOUS
<1>1. IsBroker(broker) /\ broker.bindings \subseteq Binding /\ initial = broker
  BY ScenariosAssumption DEF ManagersInit
<1>2. \A c \in Caller : /\ operation[c] = None /\ request[c] = None /\ answers[c] = {}
                        /\ outcome[c] = None /\ ~repeated[c]
  BY DEF ManagersInit, Init
<1>3. TypeOK
  BY <1>1 DEF ManagersInit, Init, TypeOK
<1>4. CallInv /\ AnswerInv /\ ErrorInv
  BY <1>2 DEF CallInv, AnswerInv, ErrorInv
<1>5. \A c \in Caller : \A does, kind : ~Asks(c, does, kind)
  BY <1>2 DEF Asks
<1>6. OriginInv
  BY <1>1 DEF OriginInv, IsKnown
<1>7. PresenceInv
  BY <1>1, <1>5 DEF PresenceInv, Lives, IsBound, MayBind
<1>8. LastInv
  BY <1>5 DEF LastInv, MayBind
<1>9. QED BY <1>3, <1>4, <1>6, <1>7, <1>8 DEF IInv

(* ... and is kept, conjunct by conjunct. *)

LEMMA TypeStep == IInv /\ ManagersNext => TypeOK'
<1> SUFFICES ASSUME IInv, ManagersNext PROVE TypeOK'
  OBVIOUS
<1> USE DEF IInv
<1>1. ASSUME NEW c \in Caller, NEW o, NEW r, Asking(c, o, r) PROVE TypeOK'
  BY <1>1 DEF Asking, TypeOK
<1>2. ASSUME NEW c \in Caller, NEW r, NEW a, Answering(c, r, a) PROVE TypeOK'
  <2>1. IsBroker(broker')
    BY <1>2, AfterIsBroker DEF Answering, TypeOK
  <2>2. broker'.bindings \subseteq Binding
    <3>1. SUFFICES ASSUME NEW b \in broker'.bindings, b \notin broker.bindings PROVE b \in Binding
      BY DEF TypeOK
    <3>2. broker' = After(r, broker) /\ IsRequest(r)
      BY <1>2, <3>1 DEF Answering
    <3>3. r.method = "POST" /\ r.target = "bindings" /\ b = r.value
      BY <3>1, <3>2, BindingsMade DEF TypeOK
    <3>4. QED BY <1>2, <3>3, PostWasAsked
  <2>3. QED BY <1>2, <2>1, <2>2 DEF Answering, TypeOK
<1>3. ASSUME NEW c \in Caller, Repeating(c) \/ Telling(c) PROVE TypeOK'
  BY <1>3 DEF Repeating, Repeat, Telling, Tell, managers, TypeOK
<1>4. QED BY <1>1, <1>2, <1>3, Steps

LEMMA CallStep == IInv /\ ManagersNext => CallInv'
<1> SUFFICES ASSUME IInv, ManagersNext PROVE CallInv'
  OBVIOUS
<1> USE DEF IInv
<1>1. ASSUME NEW c \in Caller, NEW o, NEW r, Asking(c, o, r) PROVE CallInv'
  <2>1. o # None /\ r # None
    BY <1>1, NoneIsNothing DEF Asking
  <2>2. QED BY <1>1, <2>1 DEF Asking, TypeOK, CallInv
<1>2. ASSUME NEW c \in Caller, NEW r, NEW a, Answering(c, r, a) PROVE CallInv'
  BY <1>2 DEF Answering, IsOpen, TypeOK, CallInv
<1>3. ASSUME NEW c \in Caller, Repeating(c) PROVE CallInv'
  BY <1>3 DEF Repeating, Repeat, managers, CallInv
<1>4. ASSUME NEW c \in Caller, Telling(c) PROVE CallInv'
  <2>1. PICK o \in answers[c] \cup {Failed(f) : f \in Failures} :
          outcome' = [outcome EXCEPT ![c] = o]
    BY <1>4 DEF Telling, Tell
  <2>2. /\ request[c] # None /\ outcome[c] = None
        /\ UNCHANGED <<request, broker, answers, repeated, operation, initial>>
    BY <1>4 DEF Telling, Tell, managers
  <2>3. \A d \in Caller : outcome'[d] = IF d = c THEN o ELSE outcome[d]
    BY <2>1 DEF TypeOK
  <2>4. \A d \in Caller : Before[d] \subseteq Caller
    BY BeforeAssumption
  <2>5. \A d \in Caller : request[d] # None => \A p \in Before[d] : outcome'[p] # None
    BY <2>2, <2>3, <2>4 DEF CallInv
  <2>6. QED BY <2>1, <2>2, <2>3, <2>5 DEF CallInv
<1>5. QED BY <1>1, <1>2, <1>3, <1>4, Steps

LEMMA KnownOn ==
  ASSUME CallInv, Grows, NEW kind, NEW held, IsKnown(kind, held)
  PROVE  \/ held \in {None, initial'.held[kind]}
         \/ \E d \in Caller : Asks(d, "create", kind)' /\ held = request'[d].value
<1>1. CASE held \in {None, initial.held[kind]}
  BY <1>1 DEF Grows
<1>2. ASSUME NEW d \in Caller, Asks(d, "create", kind), held = request[d].value
      PROVE  Asks(d, "create", kind)' /\ held = request'[d].value
  BY <1>2, AsksOn, RequestOn DEF Asks
<1>3. QED BY <1>1, <1>2 DEF IsKnown

LEMMA OriginStep == IInv /\ ManagersNext => OriginInv'
<1> SUFFICES ASSUME IInv, ManagersNext PROVE OriginInv'
  OBVIOUS
<1> USE DEF IInv
<1>1. Grows
  BY NextGrows
<1>2. ASSUME NEW kind, NEW held, IsKnown(kind, held)
      PROVE  \/ held \in {None, initial'.held[kind]}
             \/ \E d \in Caller : Asks(d, "create", kind)' /\ held = request'[d].value
  BY <1>1, <1>2, KnownOn
<1>3. ASSUME broker' = broker PROVE OriginInv'
  <2>1. \A kind \in Kind : IsKnown(kind, broker.held[kind])'
    <3> SUFFICES ASSUME NEW kind \in Kind PROVE IsKnown(kind, broker.held[kind])'
      OBVIOUS
    <3> DEFINE held == broker.held[kind]
    <3>1. IsKnown(kind, held)
      BY DEF OriginInv
    <3>2. \/ held \in {None, initial'.held[kind]}
          \/ \E d \in Caller : Asks(d, "create", kind)' /\ held = request'[d].value
      BY <1>2, <3>1
    <3>3. QED BY <1>3, <3>2 DEF IsKnown
  <2>2. \A b \in broker'.bindings \ initial'.bindings : \E d \in Caller : MayBind(d, b)'
    BY <1>1, <1>3, MayBindOn DEF OriginInv, Grows
  <2>3. broker'.protected => initial'.protected \/ \E d \in Caller : Asks(d, "protect", "vhost")'
    BY <1>1, <1>3, AsksOn DEF OriginInv, Grows
  <2>4. QED BY <2>1, <2>2, <2>3 DEF OriginInv
<1>4. ASSUME NEW c \in Caller, NEW r, NEW a, Answering(c, r, a), broker' = After(r, broker)
      PROVE  OriginInv'
  <2>1. IsBroker(broker) /\ IsRequest(r)
    BY <1>4 DEF TypeOK, Answering
  <2>2. ASSUME NEW kind \in Kind PROVE IsKnown(kind, broker.held[kind])'
    <3>1. IsKnown(kind, broker'.held[kind])
      <4>1. CASE broker'.held[kind] = broker.held[kind]
        BY <4>1 DEF OriginInv
      <4>2. CASE broker'.held[kind] = None
        BY <4>2 DEF IsKnown
      <4>3. CASE r.method = "PUT" /\ r.target = kind /\ broker'.held[kind] = Stored(r, broker)
        BY <1>4, <4>3, PutWasAsked DEF IsKnown
      <4>4. QED BY <1>4, <2>1, <4>1, <4>2, <4>3, HeldAfter
    <3>2. QED BY <1>2, <3>1 DEF IsKnown
  <2>3. ASSUME NEW b \in broker'.bindings, b \notin initial'.bindings
        PROVE  \E d \in Caller : MayBind(d, b)'
    <3>1. CASE b \in broker.bindings
      BY <1>1, <2>3, <3>1, MayBindOn DEF OriginInv, Grows
    <3>2. CASE b \notin broker.bindings
      <4>1. r.method = "POST" /\ r.target = "bindings" /\ b = r.value
        BY <1>4, <2>1, <3>2, BindingsMade
      <4>2. MayBind(c, b)
        BY <1>4, <4>1, PostWasAsked
      <4>3. QED BY <1>1, <4>2, MayBindOn
    <3>3. QED BY <3>1, <3>2
  <2>4. ASSUME broker'.protected
        PROVE  initial'.protected \/ \E d \in Caller : Asks(d, "protect", "vhost")'
    <3>1. broker.protected \/ (r.method = "POST" /\ r.target = "protection")
      BY <1>4, <2>1, <2>4, ProtectedAfter
    <3>2. initial.protected \/ \E d \in Caller : Asks(d, "protect", "vhost")
      BY <1>4, <3>1, PostWasAsked DEF OriginInv
    <3>3. QED BY <1>1, <3>2, AsksOn DEF Grows
  <2>5. QED BY <2>2, <2>3, <2>4 DEF OriginInv
<1>5. ASSUME NEW c \in Caller, NEW o, NEW r, Asking(c, o, r) PROVE OriginInv'
  BY <1>3, <1>5 DEF Asking
<1>6. ASSUME NEW c \in Caller, NEW r, NEW a, Answering(c, r, a) PROVE OriginInv'
  BY <1>3, <1>4, <1>6 DEF Answering
<1>7. ASSUME NEW c \in Caller, Repeating(c) \/ Telling(c) PROVE OriginInv'
  BY <1>3, <1>7 DEF Repeating, Repeat, Telling, Tell
<1>8. QED BY <1>5, <1>6, <1>7, Steps

(* Only who has asked is answered.                                         *)
LEMMA AnsweredHasAsked ==
  ASSUME TypeOK, CallInv, AnswerInv, ManagersNext, NEW c \in Caller, answers'[c] # {}
  PROVE  /\ request[c] # None /\ operation[c] # None
         /\ request'[c] = request[c] /\ operation'[c] = operation[c]
<1>1. request[c] # None
  <2>1. ASSUME NEW d \in Caller, NEW r, NEW a, Answering(d, r, a) PROVE request[c] # None
    BY <2>1 DEF Answering, IsOpen, TypeOK, CallInv
  <2>2. ASSUME answers' = answers PROVE request[c] # None
    BY <2>2 DEF CallInv
  <2>3. QED BY <2>1, <2>2, Steps DEF Asking, Repeating, Repeat, Telling, Tell
<1>2. Grows
  BY NextGrows
<1>3. QED BY <1>1, <1>2 DEF CallInv, Grows

(* What is done now was done, or is what the broker answers.               *)
LEMMA DoneBefore ==
  ASSUME TypeOK, NEW c \in Caller, NEW r, NEW a, Answering(c, r, a),
         NEW d \in Caller, NEW method \in Methods, HasDone(d, method)'
  PROVE  \/ HasDone(d, method)
         \/ /\ d = c /\ r.method = method /\ StatusOf(r, broker) = "ok"
            /\ broker' = After(r, broker)
<1>1. PICK x \in answers'[d] : x.status = "ok" /\ x.by = method
  BY DEF HasDone
<1>2. x \in answers[d] \/ (d = c /\ x = a)
  BY DEF Answering, TypeOK
<1>3. CASE x \in answers[d]
  BY <1>1, <1>3 DEF HasDone
<1>4. CASE d = c /\ x = a
  BY <1>1, <1>4 DEF Answering
<1>5. QED BY <1>2, <1>3, <1>4

(* What the broker does is done.                                           *)
LEMMA DoneNow ==
  ASSUME TypeOK, NEW c \in Caller, NEW r, NEW a, Answering(c, r, a),
         broker' = After(r, broker), broker' # broker
  PROVE  HasDone(c, r.method)'
<1>1. StatusOf(r, broker) = "ok"
  BY DEF After
<1>2. a.status = "ok" /\ a.by = r.method
  BY <1>1 DEF Answering
<1>3. a \in answers'[c]
  BY DEF Answering, TypeOK
<1>4. QED BY <1>2, <1>3 DEF HasDone

LEMMA LivesOn ==
  ASSUME IInv, NEW kind \in Kind, Lives(kind), ManagersNext
  PROVE  Lives(kind)'
<1> USE DEF IInv
<1>1. Grows
  BY NextGrows
<1>2. CASE \E d \in Caller : MayRemove(d, kind) /\ HasDone(d, "DELETE")
  BY <1>1, <1>2, MayRemoveOn, HasDoneOn DEF Lives
<1>3. CASE broker.held[kind] # None
  <2>1. CASE broker' = broker
    BY <1>3, <2>1 DEF Lives
  <2>2. ASSUME NEW c \in Caller, NEW r, NEW a, Answering(c, r, a), broker' # broker
        PROVE  Lives(kind)'
    <3>1. broker' = After(r, broker) /\ IsRequest(r) /\ IsBroker(broker)
      BY <2>2 DEF Answering, TypeOK
    <3>2. CASE r.method = "DELETE" /\ r.target \in {kind, "vhost"}
      <4>1. Asks(c, "delete", r.target)
        BY <2>2, <3>2, DeleteWasAsked DEF Kind
      <4>2. MayRemove(c, kind)
        BY <3>2, <4>1 DEF MayRemove
      <4>3. MayRemove(c, kind)' /\ HasDone(c, "DELETE")'
        BY <1>1, <2>2, <3>1, <3>2, <4>2, MayRemoveOn, DoneNow
      <4>4. QED BY <4>3 DEF Lives
    <3>3. CASE broker'.held[kind] # None
      BY <3>3 DEF Lives
    <3>4. QED BY <1>3, <3>1, <3>2, <3>3, HeldAfter
  <2>3. QED BY <2>1, <2>2, Steps DEF Asking, Repeating, Repeat, Telling, Tell
<1>4. QED BY <1>2, <1>3 DEF Lives

LEMMA IsBoundOn ==
  ASSUME IInv, NEW b \in Binding, IsBound(b), ManagersNext
  PROVE  IsBound(b)'
<1> USE DEF IInv
<1>1. Grows
  BY NextGrows
<1>2. CASE \E d \in Caller : MayUnbind(d, b) /\ HasDone(d, "DELETE")
  BY <1>1, <1>2, MayUnbindOn, HasDoneOn DEF IsBound
<1>3. CASE b \in broker.bindings
  <2>1. CASE b \in broker'.bindings
    BY <2>1 DEF IsBound
  <2>2. ASSUME NEW c \in Caller, NEW r, NEW a, Answering(c, r, a), b \notin broker'.bindings
        PROVE  IsBound(b)'
    <3>1. broker' = After(r, broker) /\ broker' # broker
      BY <1>3, <2>2 DEF Answering
    <3>2. r.method = "DELETE" /\ MayUnbind(c, b)
      BY <1>3, <2>2, <3>1, UnbindWasAsked
    <3>3. MayUnbind(c, b)' /\ HasDone(c, "DELETE")'
      BY <1>1, <2>2, <3>1, <3>2, MayUnbindOn, DoneNow
    <3>4. QED BY <3>3 DEF IsBound
  <2>3. QED BY <1>3, <2>1, <2>2, Steps DEF Asking, Repeating, Repeat, Telling, Tell
<1>4. QED BY <1>2, <1>3 DEF IsBound

LEMMA PresenceStep == IInv /\ ManagersNext => PresenceInv'
<1> SUFFICES ASSUME IInv, ManagersNext PROVE PresenceInv'
  OBVIOUS
<1> USE DEF IInv
<1>1. Grows
  BY NextGrows
<1>2. ASSUME NEW c \in Caller, NEW method \in Methods, HasDone(c, method)'
      PROVE  \/ HasDone(c, method)
             \/ \E r, a : /\ Answering(c, r, a) /\ r.method = method
                          /\ StatusOf(r, broker) = "ok" /\ broker' = After(r, broker)
  <2>1. ASSUME answers' = answers PROVE HasDone(c, method)
    BY <1>2, <2>1 DEF HasDone
  <2>2. ASSUME NEW d \in Caller, NEW r, NEW a, Answering(d, r, a)
        PROVE  \/ HasDone(c, method)
               \/ /\ Answering(c, r, a) /\ r.method = method
                  /\ StatusOf(r, broker) = "ok" /\ broker' = After(r, broker)
    BY <1>2, <2>2, DoneBefore
  <2>3. QED BY <2>1, <2>2, Steps DEF Asking, Repeating, Repeat, Telling, Tell
<1>3. ASSUME NEW c \in Caller, NEW method, HasDone(c, method)'
      PROVE  operation'[c] = operation[c] /\ operation[c] # None
  <2>1. answers'[c] # {}
    BY <1>3 DEF HasDone
  <2>2. QED BY <2>1, AnsweredHasAsked
<1>4. ASSUME NEW kind \in Kind, initial'.held[kind] # None PROVE Lives(kind)'
  <2>1. Lives(kind)
    BY <1>1, <1>4 DEF PresenceInv, Grows
  <2>2. QED BY <2>1, LivesOn
<1>5. ASSUME NEW kind \in Kind, NEW c \in Caller, Asks(c, "create", kind)', HasDone(c, "PUT")'
      PROVE  Lives(kind)'
  <2>1. Asks(c, "create", kind)
    BY <1>3, <1>5 DEF Asks
  <2>2. CASE HasDone(c, "PUT")
    <3>1. Lives(kind)
      BY <2>1, <2>2 DEF PresenceInv
    <3>2. QED BY <3>1, LivesOn
  <2>3. ASSUME NEW r, NEW a, Answering(c, r, a), r.method = "PUT",
               StatusOf(r, broker) = "ok", broker' = After(r, broker)
        PROVE  Lives(kind)'
    <3>1. r.target = kind /\ IsRequest(r) /\ IsBroker(broker)
      BY <2>1, <2>3, PutWasAsked, AnsweringAsks DEF Asks, TypeOK
    <3>2. Found(kind, broker')
      BY <2>3, <3>1, PutIsFound
    <3>3. QED BY <3>2 DEF Found, Lives
  <2>4. QED BY <1>2, <1>5, <2>2, <2>3 DEF Methods
<1>6. ASSUME NEW b \in Binding, b \in initial'.bindings PROVE IsBound(b)'
  <2>1. IsBound(b)
    BY <1>1, <1>6 DEF PresenceInv, Grows
  <2>2. QED BY <2>1, IsBoundOn
<1>7. ASSUME NEW b \in Binding, NEW c \in Caller, MayBind(c, b)', HasDone(c, "POST")'
      PROVE  IsBound(b)'
  <2>1. MayBind(c, b)
    BY <1>3, <1>7 DEF Asks, MayBind
  <2>2. CASE HasDone(c, "POST")
    <3>1. IsBound(b)
      BY <2>1, <2>2 DEF PresenceInv
    <3>2. QED BY <3>1, IsBoundOn
  <2>3. ASSUME NEW r, NEW a, Answering(c, r, a), r.method = "POST",
               StatusOf(r, broker) = "ok", broker' = After(r, broker)
        PROVE  IsBound(b)'
    <3>1. r = request[c] /\ Carries(r, operation[c]) /\ IsRequest(r) /\ IsBroker(broker)
      BY <2>3, AnsweringAsks, PostWasAsked DEF TypeOK
    <3>2. r.target = "bindings" /\ r.value = b
      BY <2>1, <3>1 DEF Carries, MayBind, Asks, Kind
    <3>3. b \in broker'.bindings
      BY <2>3, <3>1, <3>2, PostIsBound
    <3>4. QED BY <3>3 DEF IsBound
  <2>4. QED BY <1>2, <1>7, <2>2, <2>3 DEF Methods
<1>8. QED BY <1>4, <1>5, <1>6, <1>7 DEF PresenceInv

(* What an answer says stays true of it.                                   *)
LEMMA SpeaksOn ==
  ASSUME CallInv, Grows, NEW c \in Caller, NEW a, Speaks(c, a), request[c] # None
  PROVE  Speaks(c, a)'
<1>1. operation[c] # None /\ operation'[c] = operation[c] /\ request'[c] = request[c]
  BY DEF CallInv, Grows
<1>2. Asks(c, "create", "binding")' <=> Asks(c, "create", "binding")
  BY <1>1 DEF Asks
<1>3. Asks(c, "read", "shovel")' <=> Asks(c, "read", "shovel")
  BY <1>1 DEF Asks
<1>4. ASSUME NEW d \in Caller, Asks(d, "create", "shovel"), a.content = request[d].value
      PROVE  Asks(d, "create", "shovel")' /\ a.content = request'[d].value
  BY <1>4, AsksOn, RequestOn DEF Asks
<1>5. initial' = initial
  BY DEF Grows
<1>6. QED BY <1>1, <1>2, <1>3, <1>4, <1>5 DEF Speaks

LEMMA AnswerSpeaks ==
  ASSUME TypeOK, CallInv, OriginInv, NEW c \in Caller, NEW r, NEW a, Answering(c, r, a)
  PROVE  Speaks(c, a)
<1>1. /\ request[c] # None /\ operation[c] # None /\ Carries(request[c], operation[c])
      /\ IsRequest(r)
  BY AnsweringAsks
<1>2. a = HttpAnswer(a.status, a.content, a.by)
  BY DEF Answering
<1>3. CASE a.status = "refused" /\ a.by = None /\ a.content = None
  <2>1. None \notin {"PUT", "DELETE"}
    BY NoneAssumption DEF Methods
  <2>2. QED BY <1>2, <1>3, <2>1 DEF Speaks, Status
<1>4. CASE a.status = StatusOf(r, broker) /\ a.by = r.method /\ a.content \in Contents(r, broker)
  <2>1. r = request[c] \/ (r.method = "GET" /\ r.target = request[c].target)
    BY DEF Answering
  <2>2. a.status \in {"ok", "not_found", "conflict"}
    BY <1>4 DEF StatusOf
  <2>3. r.method \in {"PUT", "DELETE"} => a.content = None
    BY <1>4 DEF Contents
  <2>4. ASSUME Asks(c, "create", "binding")
        PROVE  a.content \in {None, Quoted[operation[c].asked.key]}
    <3>1. /\ request[c].method = "POST" /\ request[c].target = "bindings"
          /\ request[c].value = operation[c].asked
      BY <1>1, <2>4 DEF Carries, Asks, Kind
    <3>2. CASE r = request[c]
      BY <1>4, <3>1, <3>2 DEF Contents
    <3>3. CASE r.method = "GET" /\ r.target = request[c].target
      BY <1>4, <3>1, <3>3 DEF Contents, Kind
    <3>4. QED BY <2>1, <3>2, <3>3
  <2>5. ASSUME Asks(c, "read", "shovel"), a.status = "ok", a.content # initial.held["shovel"]
        PROVE  \E d \in Caller : Asks(d, "create", "shovel") /\ a.content = request[d].value
    <3>1. request[c].method = "GET" /\ request[c].target = "shovel"
      BY <1>1, <2>5 DEF Carries, Asks, Kind
    <3>2. r.method = "GET" /\ r.target = "shovel" /\ StatusOf(r, broker) = "ok"
      BY <1>4, <2>1, <2>5, <3>1
    <3>3. "shovel" \in Kind
      BY DEF Kind
    <3>4. a.content = broker.held["shovel"]
      BY <1>4, <3>2, <3>3 DEF Contents
    <3>5. broker.held["shovel"] # None
      BY <3>2 DEF StatusOf, Missing, Found, Kind
    <3>6. IsKnown("shovel", broker.held["shovel"])
      BY <3>3 DEF OriginInv
    <3>7. QED BY <2>5, <3>4, <3>5, <3>6 DEF IsKnown
  <2>6. QED BY <1>2, <1>4, <2>1, <2>2, <2>3, <2>4, <2>5 DEF Speaks, Status
<1>5. QED BY <1>3, <1>4 DEF Answering

LEMMA AnswerStep == IInv /\ ManagersNext => AnswerInv'
<1> SUFFICES ASSUME IInv, ManagersNext PROVE AnswerInv'
  OBVIOUS
<1> USE DEF IInv
<1>1. Grows
  BY NextGrows
<1>2. ASSUME NEW c \in Caller, NEW a \in answers[c] PROVE Speaks(c, a)'
  <2>1. Speaks(c, a) /\ request[c] # None
    BY DEF AnswerInv, CallInv
  <2>2. QED BY <1>1, <2>1, SpeaksOn
<1>3. ASSUME NEW c \in Caller, NEW r, NEW a, Answering(c, r, a) PROVE Speaks(c, a)'
  <2>1. Speaks(c, a) /\ request[c] # None
    BY <1>3, AnswerSpeaks, AnsweringAsks
  <2>2. QED BY <1>1, <2>1, SpeaksOn
<1>4. ASSUME NEW c \in Caller, NEW a \in answers'[c] PROVE Speaks(c, a)'
  <2>1. CASE a \in answers[c]
    BY <1>2, <2>1
  <2>2. CASE a \notin answers[c]
    <3>1. ASSUME NEW d \in Caller, NEW r, NEW x, Answering(d, r, x)
          PROVE  c = d /\ a = x
      BY <1>4, <2>2, <3>1 DEF Answering, TypeOK
    <3>2. answers' # answers
      BY <1>4, <2>2
    <3>3. PICK d \in Caller : \E r, x : Answering(d, r, x)
      BY <3>2, Steps DEF Asking, Repeating, Repeat, Telling, Tell
    <3>4. QED BY <1>3, <3>1, <3>3
  <2>3. QED BY <2>1, <2>2
<1>5. QED BY <1>4 DEF AnswerInv

-----------------------------------------------------------------------------
(* Errors *)

(* What a caller has been told of its call, it may rely on.                *)
LEMMA ToldOn ==
  ASSUME CallInv, Grows, NEW p \in Caller, outcome[p] # None
  PROVE  /\ IsDone(p)' <=> IsDone(p)
         /\ \A does, kind : Asks(p, does, kind)' <=> Asks(p, does, kind)
         /\ \A b : MayBind(p, b)' <=> MayBind(p, b)
<1>1. operation'[p] = operation[p] /\ outcome'[p] = outcome[p] /\ request'[p] = request[p]
  BY DEF CallInv, Grows
<1>2. \A does, kind : Asks(p, does, kind)' <=> Asks(p, does, kind)
  BY <1>1 DEF Asks
<1>3. \A b : MayBind(p, b)' <=> MayBind(p, b)
  BY <1>1, <1>2 DEF MayBind
<1>4. IsDone(p)' <=> IsDone(p)
  BY <1>1 DEF IsDone, Told, IsMalformed
<1>5. QED BY <1>2, <1>3, <1>4

LEMMA WasThereOn ==
  ASSUME CallInv, Grows, NEW c \in Caller, request[c] # None, NEW kind
  PROVE  WasThere(c, kind)' => WasThere(c, kind)
<1>1. \A p \in Before[c] : p \in Caller /\ outcome[p] # None
  BY BeforeAssumption DEF CallInv
<1>2. QED BY <1>1, ToldOn DEF WasThere, Grows

LEMMA WasBoundOn ==
  ASSUME CallInv, Grows, NEW c \in Caller, request[c] # None, NEW b
  PROVE  WasBound(c, b)' => WasBound(c, b)
<1>1. \A p \in Before[c] : p \in Caller /\ outcome[p] # None
  BY BeforeAssumption DEF CallInv
<1>2. QED BY <1>1, ToldOn DEF WasBound, Grows

LEMMA NotFoundOn ==
  ASSUME CallInv, Grows, NEW c \in Caller, request[c] # None, NEW by, NotFoundIsTrue(c, by)
  PROVE  NotFoundIsTrue(c, by)'
<1> DEFINE kind == operation[c].kind
           b == operation[c].asked
           gone(k) == ~WasThere(c, k) \/ \E d \in Caller \ {c} : MayRemove(d, k)
<1>1. operation'[c] = operation[c]
  BY DEF CallInv, Grows
<1>2. ASSUME NEW k, gone(k)
      PROVE  ~WasThere(c, k)' \/ \E d \in Caller \ {c} : MayRemove(d, k)'
  BY <1>2, WasThereOn, MayRemoveOn
<1>3. HasDeleted(c) => HasDeleted(c)'
  BY DEF HasDeleted, Grows
<1>4. ~WasBound(c, b) => ~WasBound(c, b)'
  <2>1. \A x : WasBound(c, x)' => WasBound(c, x)
    BY WasBoundOn
  <2>2. QED BY <1>1, <2>1
<1>5. \A d \in Caller : (MayUnbind(d, b) => MayUnbind(d, operation[c].asked)')
  <2>1. ASSUME NEW d \in Caller, NEW x, MayUnbind(d, x) PROVE MayUnbind(d, x)'
    BY <2>1, MayUnbindOn
  <2>2. QED BY <1>1, <2>1
<1>6. CASE kind # "binding"
  BY <1>1, <1>2, <1>3, <1>6 DEF NotFoundIsTrue
<1>7. CASE kind = "binding" /\ operation[c].does = "create"
  BY <1>1, <1>2, <1>7 DEF NotFoundIsTrue
<1>8. CASE kind = "binding" /\ operation[c].does # "create"
  BY <1>1, <1>3, <1>4, <1>5, <1>8, MayRemoveOn DEF NotFoundIsTrue
<1>9. QED BY <1>6, <1>7, <1>8

LEMMA ConflictOn ==
  ASSUME CallInv, Grows, NEW c \in Caller, request[c] # None, ConflictIsTrue(c)
  PROVE  ConflictIsTrue(c)'
<1>1. operation'[c] = operation[c] /\ request'[c] = request[c] /\ initial' = initial
  BY DEF CallInv, Grows
<1>2. ASSUME NEW d \in Caller, NEW does, NEW kind, Asks(d, does, kind)
      PROVE  Asks(d, does, kind)' /\ request'[d] = request[d]
  BY <1>2, AsksOn, RequestOn DEF Asks
<1>3. CASE operation[c].kind = "vhost"
  BY <1>1, <1>2, <1>3 DEF ConflictIsTrue
<1>4. CASE operation[c].kind # "vhost" /\ operation[c].does = "delete"
  BY <1>1, <1>2, <1>4 DEF ConflictIsTrue
<1>5. CASE operation[c].kind # "vhost" /\ operation[c].does # "delete"
  BY <1>1, <1>2, <1>5 DEF ConflictIsTrue
<1>6. QED BY <1>3, <1>4, <1>5

(* What was told of a call that is not a failure on the way was answered.  *)
LEMMA ToldIsAnswered ==
  ASSUME CallInv, NEW c \in Caller, NEW status \in Status, Told(c, status)
  PROVE  request[c] # None /\ operation[c] # None /\ outcome[c] \in answers[c]
<1>1. outcome[c] # None /\ outcome[c] \in answers[c] \cup {Failed(f) : f \in Failures}
  BY DEF CallInv, Told
<1>2. \A f \in Failures : Failed(f).status # status
  BY FailuresAssumption DEF Failure, Retryable, Status, Failed, HttpAnswer
<1>3. outcome[c] \in answers[c]
  BY <1>1, <1>2 DEF Told
<1>4. QED BY <1>1, <1>3 DEF CallInv

LEMMA IsDoneIsDone ==
  ASSUME CallInv, NEW c \in Caller, IsDone(c)
  PROVE  HasDone(c, request[c].method)
  BY ToldIsAnswered DEF IsDone, Told, HasDone, Status

(* Who deletes for the second time has repeated the call.                  *)
LEMMA DeletedTwice ==
  ASSUME CallInv, AnswerInv, NEW c \in Caller, IsOpen(c), HasDone(c, "DELETE")
  PROVE  HasDeleted(c)
<1>1. PICK a \in answers[c] : a.status = "ok" /\ a.by = "DELETE"
  BY DEF HasDone
<1>2. Speaks(c, a)
  BY DEF AnswerInv
<1>3. a = HttpAnswer("ok", None, "DELETE")
  BY <1>1, <1>2 DEF Speaks
<1>4. repeated[c]
  BY <1>1 DEF IsOpen
<1>5. QED BY <1>1, <1>3, <1>4 DEF HasDeleted

(* What is not there was never there, or was deleted.                      *)
LEMMA NotThere ==
  ASSUME IInv, NEW c \in Caller, NEW kind \in Kind, broker.held[kind] = None
  PROVE  \/ ~WasThere(c, kind)
         \/ \E d \in Caller \ {c} : MayRemove(d, kind)
         \/ MayRemove(c, kind) /\ HasDone(c, "DELETE")
<1>1. SUFFICES ASSUME WasThere(c, kind) PROVE Lives(kind)
  BY DEF Lives
<1>2. CASE initial.held[kind] # None
  BY <1>2 DEF IInv, PresenceInv
<1>3. ASSUME NEW p \in Before[c], Asks(p, "create", kind), IsDone(p) PROVE Lives(kind)
  <2>1. p \in Caller
    BY BeforeAssumption
  <2>2. request[p] # None
    BY <1>3, <2>1 DEF IInv, CallInv, Asks
  <2>3. request[p].method = "PUT"
    BY <1>3, <2>1, <2>2, CarriesSomething DEF Carries, Asks, IInv, Kind
  <2>4. HasDone(p, "PUT")
    BY <1>3, <2>1, <2>3, IsDoneIsDone DEF IInv
  <2>5. QED BY <1>3, <2>1, <2>4 DEF IInv, PresenceInv
<1>4. QED BY <1>1, <1>2, <1>3 DEF WasThere

LEMMA NotBound ==
  ASSUME IInv, NEW c \in Caller, NEW b \in Binding, b \notin broker.bindings
  PROVE  \/ ~WasBound(c, b)
         \/ \E d \in Caller \ {c} : MayUnbind(d, b)
         \/ HasDone(c, "DELETE")
<1>1. SUFFICES ASSUME WasBound(c, b) PROVE IsBound(b)
  BY DEF IsBound
<1>2. CASE b \in initial.bindings
  BY <1>2 DEF IInv, PresenceInv
<1>3. ASSUME NEW p \in Before[c], MayBind(p, b), IsDone(p) PROVE IsBound(b)
  <2>1. p \in Caller
    BY BeforeAssumption
  <2>2. request[p] # None
    BY <1>3, <2>1 DEF IInv, CallInv, Asks, MayBind
  <2>3. request[p].method = "POST"
    BY <1>3, <2>1, <2>2, CarriesSomething DEF Carries, Asks, MayBind, IInv, Kind
  <2>4. HasDone(p, "POST")
    BY <1>3, <2>1, <2>3, IsDoneIsDone DEF IInv
  <2>5. QED BY <1>3, <2>1, <2>4 DEF IInv, PresenceInv
<1>4. QED BY <1>1, <1>2, <1>3 DEF WasBound

LEMMA NotFoundAnswer ==
  ASSUME IInv, NEW c \in Caller, NEW r, NEW a, Answering(c, r, a), a.status = "not_found"
  PROVE  NotFoundIsTrue(c, a.by)
<1> USE DEF IInv
<1> DEFINE kind == operation[c].kind
           b == operation[c].asked
           gone(k) == ~WasThere(c, k) \/ \E d \in Caller \ {c} : MayRemove(d, k)
<1>1. /\ IsOpen(c) /\ operation[c] # None /\ Carries(request[c], operation[c])
      /\ IsBroker(broker) /\ broker.bindings \subseteq Binding
  BY AnsweringAsks DEF Answering, TypeOK
<1>2. /\ Missing(r, broker) /\ a.by = r.method
      /\ r = request[c] \/ (r.method = "GET" /\ r.target = request[c].target)
  BY DEF Answering, StatusOf
<1>3. ASSUME NEW k \in Kind, ~Found(k, broker) PROVE gone(k) \/ HasDeleted(c)
  BY <1>1, <1>3, FoundIsHeld, NotThere, DeletedTwice
<1>4. ASSUME NEW k \in Kind, ~Found(k, broker), ~MayRemove(c, k) PROVE gone(k)
  BY <1>1, <1>4, FoundIsHeld, NotThere
<1>5. "vhost" \in Kind /\ "queue" \in Kind /\ "exchange" \in Kind
  BY DEF Kind
<1>6. ASSUME NEW k \in Kind PROVE ~Found("vhost", broker) => ~Found(k, broker)
  BY DEF Found
<1>7. CASE kind # "binding" /\ (operation[c].does \in {"read", "delete"} \/ a.by = "GET")
  <2>1. kind \in Kind /\ (r.target = kind \/ (kind = "vhost" /\ r.target = "protection"))
    BY <1>1, <1>2, <1>5, <1>7 DEF Carries
  <2>2. r.method \in {"GET", "DELETE"}
    BY <1>1, <1>2, <1>7 DEF Carries
  <2>3. ~Found(kind, broker)
    BY <1>2, <1>5, <1>6, <2>1, <2>2 DEF Missing, Kind
  <2>4. gone(kind) \/ HasDeleted(c)
    BY <1>3, <2>1, <2>3
  <2>5. QED BY <1>7, <2>4 DEF NotFoundIsTrue
<1>8. CASE kind # "binding" /\ ~(operation[c].does \in {"read", "delete"} \/ a.by = "GET")
  <2>1. r = request[c] /\ operation[c].does \in {"create", "protect", "unprotect"}
    BY <1>1, <1>2, <1>8 DEF Carries
  <2>2. r.method = "PUT" \/ r.target = "protection"
    BY <1>1, <1>8, <2>1 DEF Carries
  <2>3. ~Found("vhost", broker)
    BY <1>2, <2>2 DEF Missing, Kind
  <2>4. ~MayRemove(c, "vhost")
    BY <2>1 DEF MayRemove, Asks
  <2>5. gone("vhost")
    BY <1>4, <1>5, <2>3, <2>4
  <2>6. QED BY <1>8, <2>5 DEF NotFoundIsTrue
<1>9. CASE kind = "binding" /\ operation[c].does = "create"
  <2>1. /\ request[c].method = "POST" /\ request[c].target = "bindings" /\ request[c].value = b
    BY <1>1, <1>9 DEF Carries, Kind
  <2>2. ~Found("exchange", broker) \/ (b.to = "queue" /\ ~Found("queue", broker))
    BY <1>2, <1>5, <1>6, <2>1 DEF Missing, Kind
  <2>3. \A k : ~MayRemove(c, k)
    BY <1>9 DEF MayRemove, Asks
  <2>4. gone("exchange") \/ (b.to = "queue" /\ gone("queue"))
    BY <1>4, <1>5, <2>2, <2>3
  <2>5. QED BY <1>9, <2>4 DEF NotFoundIsTrue
<1>10. CASE kind = "binding" /\ operation[c].does # "create"
  <2>1. /\ b \in Binding /\ request[c].method = "DELETE" /\ request[c].target = "binding"
        /\ request[c].value.to = b.to /\ request[c].value.segment = Quoted[b.key]
    BY <1>1, <1>10 DEF Carries, Kind
  <2>2. b \notin broker.bindings
    <3>1. CASE ~Found("vhost", broker)
      BY <1>1, <3>1 DEF IsBroker, Found
    <3>2. CASE Found("vhost", broker)
      <4>1. r = request[c] /\ Matching(r, broker) = {}
        BY <1>2, <2>1, <3>2 DEF Missing, Kind
      <4>2. QED BY <2>1, <4>1 DEF Matching
    <3>3. QED BY <3>1, <3>2
  <2>3. ~WasBound(c, b) \/ HasDeleted(c) \/ \E d \in Caller \ {c} : MayUnbind(d, b)
    BY <1>1, <2>1, <2>2, NotBound, DeletedTwice
  <2>4. QED BY <1>10, <2>3 DEF NotFoundIsTrue
<1>11. QED BY <1>7, <1>8, <1>9, <1>10

LEMMA ConflictAnswer ==
  ASSUME IInv, NEW c \in Caller, NEW r, NEW a, Answering(c, r, a), a.status = "conflict"
  PROVE  ConflictIsTrue(c)
<1> USE DEF IInv
<1>1. operation[c] # None /\ Carries(request[c], operation[c])
  BY AnsweringAsks
<1>2. /\ Forbidden(r, broker)
      /\ r = request[c] \/ (r.method = "GET" /\ r.target = request[c].target)
  BY DEF Answering, StatusOf
<1>3. r = request[c]
  BY <1>2 DEF Forbidden
<1>4. CASE r.method = "PUT" /\ r.target \in {"queue", "exchange"}
  <2> DEFINE kind == r.target
  <2>1. operation[c].does = "create" /\ operation[c].kind = kind /\ kind \in Kind
    BY <1>1, <1>3, <1>4 DEF Carries
  <2>2. Stored(r, broker) = r.value
    BY <1>4, PutWasAsked
  <2>3. broker.held[kind] # None /\ broker.held[kind] # r.value
    BY <1>2, <1>4, <2>2 DEF Forbidden
  <2>4. IsKnown(kind, broker.held[kind])
    BY <2>1 DEF OriginInv
  <2>5. QED BY <1>3, <1>4, <2>1, <2>3, <2>4 DEF IsKnown, ConflictIsTrue
<1>5. CASE r.method = "DELETE" /\ r.target = "exchange" /\ broker.bindings # {}
  <2>1. operation[c].does = "delete" /\ operation[c].kind = "exchange"
    BY <1>1, <1>3, <1>5 DEF Carries
  <2>2. initial.bindings # {} \/ \E d \in Caller : Asks(d, "create", "binding")
    BY <1>5 DEF OriginInv, MayBind
  <2>3. QED BY <2>1, <2>2 DEF ConflictIsTrue
<1>6. CASE r.method = "DELETE" /\ r.target = "vhost" /\ broker.protected
  <2>1. operation[c].kind = "vhost"
    BY <1>1, <1>3, <1>6 DEF Carries
  <2>2. initial.protected \/ \E d \in Caller : Asks(d, "protect", "vhost")
    BY <1>6 DEF OriginInv
  <2>3. QED BY <2>1, <2>2 DEF ConflictIsTrue
<1>7. QED BY <1>2, <1>4, <1>5, <1>6 DEF Forbidden

LEMMA ErrorStep == IInv /\ ManagersNext => ErrorInv'
<1> SUFFICES ASSUME IInv, ManagersNext PROVE ErrorInv'
  OBVIOUS
<1> USE DEF IInv
<1>1. Grows
  BY NextGrows
<1>2. ASSUME NEW c \in Caller, NEW a \in answers'[c]
      PROVE  /\ a.status = "not_found" => NotFoundIsTrue(c, a.by)
             /\ a.status = "conflict" => ConflictIsTrue(c)
  <2>1. CASE a \in answers[c]
    BY <2>1 DEF ErrorInv
  <2>2. CASE a \notin answers[c]
    <3>1. ASSUME NEW d \in Caller, NEW r, NEW x, Answering(d, r, x)
          PROVE  c = d /\ a = x
      BY <1>2, <2>2, <3>1 DEF Answering, TypeOK
    <3>2. answers' # answers
      BY <1>2, <2>2
    <3>3. PICK d \in Caller : \E r, x : Answering(d, r, x)
      BY <3>2, Steps DEF Asking, Repeating, Repeat, Telling, Tell
    <3>4. PICK r : Answering(c, r, a)
      BY <3>1, <3>3
    <3>5. QED BY <3>4, NotFoundAnswer, ConflictAnswer
  <2>3. QED BY <2>1, <2>2
<1>3. ASSUME NEW c \in Caller, NEW a \in answers'[c]
      PROVE  /\ a.status = "not_found" => NotFoundIsTrue(c, a.by)'
             /\ a.status = "conflict" => ConflictIsTrue(c)'
  <2>1. request[c] # None
    BY AnsweredHasAsked
  <2>2. QED BY <1>1, <1>2, <2>1, NotFoundOn, ConflictOn
<1>4. QED BY <1>3 DEF ErrorInv


-----------------------------------------------------------------------------
(* What a call has brought about *)

(* Of a call that is settled nothing is on the way any more.               *)
LEMMA SettledIsClosed ==
  ASSUME TypeOK, CallInv, NEW d \in Caller, IsSettled(d)
  PROVE  ~IsOpen(d)
<1>1. outcome[d] \in answers[d] \cup {Failed(f) : f \in Failures}
  BY DEF CallInv, IsSettled
<1>2. \A f \in Failures : Failed(f).status \notin Status
  BY FailuresAssumption DEF Failure, Retryable, Status, Failed, HttpAnswer
<1>3. outcome[d] \in answers[d]
  BY <1>1, <1>2 DEF IsSettled
<1>4. QED BY <1>3 DEF IsSettled, IsOpen

(* Who is the last now, was so before.                                     *)
LEMMA SettledBefore ==
  ASSUME CallInv, Grows, NEW c \in Caller, request[c] # None,
         NEW d \in Before[c], IsSettled(d)'
  PROVE  IsSettled(d)
<1>1. d \in Caller /\ outcome[d] # None
  BY BeforeAssumption DEF CallInv
<1>2. outcome'[d] = outcome[d] /\ repeated'[d] = repeated[d]
  BY <1>1 DEF Grows
<1>3. QED BY <1>1, <1>2 DEF IsSettled

LEMMA LastWriter ==
  ASSUME CallInv, Grows, NEW c \in Caller, request[c] # None, NEW kind,
         IsLastOf(c, Writers(kind))'
  PROVE  /\ \A d \in Caller \ {c} : MayRemove(d, kind) \/ Asks(d, "create", kind) => IsSettled(d)
         /\ IsLastOf(c, Writers(kind))
<1>1. ASSUME NEW d \in Caller \ {c}, MayRemove(d, kind) \/ Asks(d, "create", kind)
      PROVE  d \in Before[c] /\ IsSettled(d)
  <2>1. MayRemove(d, kind)' \/ Asks(d, "create", kind)'
    BY <1>1, AsksOn, MayRemoveOn
  <2>2. d \in Writers(kind)'
    BY <2>1 DEF Writers
  <2>3. d \in Before[c] /\ IsSettled(d)'
    BY <2>2 DEF IsLastOf
  <2>4. QED BY <2>3, SettledBefore
<1>2. QED BY <1>1 DEF IsLastOf, Writers

LEMMA LastRebinder ==
  ASSUME CallInv, Grows, NEW c \in Caller, request[c] # None, NEW b,
         IsLastOf(c, Rebinders(b))'
  PROVE  /\ \A d \in Caller \ {c} : MayUnbind(d, b) \/ MayBind(d, b) => IsSettled(d)
         /\ IsLastOf(c, Rebinders(b))
<1>1. ASSUME NEW d \in Caller \ {c}, MayUnbind(d, b) \/ MayBind(d, b)
      PROVE  d \in Before[c] /\ IsSettled(d)
  <2>1. MayUnbind(d, b)' \/ MayBind(d, b)'
    BY <1>1, MayUnbindOn, MayBindOn
  <2>2. d \in Rebinders(b)'
    BY <2>1 DEF Rebinders
  <2>3. d \in Before[c] /\ IsSettled(d)'
    BY <2>2 DEF IsLastOf
  <2>4. QED BY <2>3, SettledBefore
<1>2. QED BY <1>1 DEF IsLastOf, Rebinders

(* Who changes what is held has asked to.                                  *)
LEMMA HolderAsks ==
  ASSUME TypeOK, CallInv, NEW d \in Caller, NEW r, NEW a, Answering(d, r, a), NEW kind \in Kind,
         broker'.held[kind] # broker.held[kind]
  PROVE  /\ broker' = After(r, broker) /\ r = request[d]
         /\ IF broker'.held[kind] = None THEN MayRemove(d, kind) ELSE Asks(d, "create", kind)
<1>1. IsBroker(broker) /\ IsRequest(r) /\ broker' = After(r, broker)
  BY AnsweringAsks DEF Answering, TypeOK
<1>2. CASE r.method = "PUT" /\ r.target = kind /\ broker'.held[kind] # None
  BY <1>1, <1>2, PutWasAsked
<1>3. CASE r.method = "DELETE" /\ r.target \in {kind, "vhost"} /\ broker'.held[kind] = None
  <2>1. r = request[d] /\ Asks(d, "delete", r.target)
    BY <1>3, DeleteWasAsked DEF Kind
  <2>2. MayRemove(d, kind)
    BY <1>3, <2>1 DEF MayRemove
  <2>3. QED BY <1>1, <1>3, <2>1, <2>2
<1>4. QED BY <1>1, <1>2, <1>3, HeldAfter

LEMMA BinderAsks ==
  ASSUME TypeOK, CallInv, NEW d \in Caller, NEW r, NEW a, Answering(d, r, a), NEW b
  PROVE  /\ b \in broker.bindings \ broker'.bindings => MayUnbind(d, b)
         /\ b \in broker'.bindings \ broker.bindings => MayBind(d, b)
<1>1. IsBroker(broker) /\ IsRequest(r)
  BY AnsweringAsks DEF TypeOK
<1>2. broker' = broker \/ broker' = After(r, broker)
  BY DEF Answering
<1>3. ASSUME b \in broker.bindings, b \notin broker'.bindings PROVE MayUnbind(d, b)
  BY <1>2, <1>3, UnbindWasAsked
<1>4. ASSUME b \in broker'.bindings, b \notin broker.bindings PROVE MayBind(d, b)
  <2>1. r.method = "POST" /\ r.target = "bindings" /\ b = r.value
    BY <1>1, <1>2, <1>4, BindingsMade
  <2>2. QED BY <2>1, PostWasAsked
<1>5. QED BY <1>3, <1>4


(* What the broker does not carry out, and what it reads, changes nothing. *)
LEMMA Unchanging ==
  ASSUME NEW c, NEW r, NEW a, Answering(c, r, a), r.method = "GET" \/ StatusOf(r, broker) # "ok"
  PROVE  broker' = broker
  BY DEF Answering, After

LEMMA LastCreate ==
  ASSUME IInv, ManagersNext, NEW c \in Caller, NEW kind \in Kind,
         Asks(c, "create", kind), HasDone(c, "PUT")', IsLastOf(c, Writers(kind))'
  PROVE  broker'.held[kind] = request[c].value
<1> USE DEF IInv
<1>1. Grows /\ request[c] # None
  BY NextGrows, RequestOn DEF Asks
<1>2. /\ \A d \in Caller \ {c} : MayRemove(d, kind) \/ Asks(d, "create", kind) => IsSettled(d)
      /\ IsLastOf(c, Writers(kind))
  BY <1>1, LastWriter
<1>3. HasDone(c, "PUT") => broker.held[kind] = request[c].value
  BY <1>2 DEF LastInv
<1>4. request[c].method = "PUT" /\ request[c].target = kind
  BY <1>1, CarriesSomething DEF Carries, Asks, Kind
<1>5. ASSUME answers' = answers, broker' = broker PROVE broker'.held[kind] = request[c].value
  BY <1>3, <1>5 DEF HasDone
<1>6. ASSUME NEW d \in Caller, NEW r, NEW a, Answering(d, r, a)
      PROVE  broker'.held[kind] = request[c].value
  <2>1. CASE d # c
    <3>1. broker'.held[kind] = broker.held[kind]
      BY <1>2, <1>6, <2>1, HolderAsks, SettledIsClosed DEF Answering
    <3>2. HasDone(c, "PUT")
      BY <1>6, <2>1, DoneBefore DEF Methods
    <3>3. QED BY <1>3, <3>1, <3>2
  <2>2. CASE d = c /\ r.method = "PUT" /\ StatusOf(r, broker) = "ok" /\ broker' = After(r, broker)
    <3>1. r = request[c] /\ Stored(r, broker) = r.value
      BY <1>6, <2>2, PutWasAsked
    <3>2. broker'.held[kind] = Stored(r, broker)
      BY <1>4, <1>6, <2>2, <3>1, AnsweringAsks, PutIsHeld DEF TypeOK
    <3>3. QED BY <3>1, <3>2
  <2>3. CASE d = c /\ ~(r.method = "PUT" /\ StatusOf(r, broker) = "ok" /\ broker' = After(r, broker))
    <3>1. HasDone(c, "PUT")
      BY <1>6, <2>3, DoneBefore DEF Methods
    <3>2. r.method \in {"GET", "PUT"}
      BY <1>4, <1>6, <2>3 DEF Answering
    <3>3. broker' = broker
      BY <1>6, <2>3, <3>2, Unchanging DEF Answering
    <3>4. QED BY <1>3, <3>1, <3>3
  <2>4. QED BY <2>1, <2>2, <2>3
<1>7. QED BY <1>5, <1>6, Steps DEF Asking, Repeating, Repeat, Telling, Tell

LEMMA LastDelete ==
  ASSUME IInv, ManagersNext, NEW c \in Caller, NEW kind \in Kind,
         Asks(c, "delete", kind), HasDone(c, "DELETE")', IsLastOf(c, Writers(kind))'
  PROVE  broker'.held[kind] = None
<1> USE DEF IInv
<1>1. Grows /\ request[c] # None
  BY NextGrows, RequestOn DEF Asks
<1>2. /\ \A d \in Caller \ {c} : MayRemove(d, kind) \/ Asks(d, "create", kind) => IsSettled(d)
      /\ IsLastOf(c, Writers(kind))
  BY <1>1, LastWriter
<1>3. HasDone(c, "DELETE") => broker.held[kind] = None
  BY <1>2 DEF LastInv
<1>4. request[c].method = "DELETE" /\ request[c].target = kind
  BY <1>1, CarriesSomething DEF Carries, Asks, Kind
<1>5. ASSUME answers' = answers, broker' = broker PROVE broker'.held[kind] = None
  BY <1>3, <1>5 DEF HasDone
<1>6. ASSUME NEW d \in Caller, NEW r, NEW a, Answering(d, r, a)
      PROVE  broker'.held[kind] = None
  <2>1. CASE d # c
    <3>1. broker'.held[kind] = broker.held[kind]
      BY <1>2, <1>6, <2>1, HolderAsks, SettledIsClosed DEF Answering
    <3>2. HasDone(c, "DELETE")
      BY <1>6, <2>1, DoneBefore DEF Methods
    <3>3. QED BY <1>3, <3>1, <3>2
  <2>2. CASE d = c /\ r.method = "DELETE" /\ StatusOf(r, broker) = "ok" /\ broker' = After(r, broker)
    <3>1. r = request[c] /\ IsRequest(r) /\ IsBroker(broker) /\ IsBroker(broker')
      BY <1>6, <2>2, DeleteWasAsked, AnsweringAsks, AfterIsBroker DEF TypeOK
    <3>2. ~Found(kind, broker')
      BY <1>4, <2>2, <3>1, DeleteIsGone
    <3>3. QED BY <3>1, <3>2, FoundIsHeld
  <2>3. CASE d = c /\ ~(r.method = "DELETE" /\ StatusOf(r, broker) = "ok" /\ broker' = After(r, broker))
    <3>1. HasDone(c, "DELETE")
      BY <1>6, <2>3, DoneBefore DEF Methods
    <3>2. r.method \in {"GET", "DELETE"}
      BY <1>4, <1>6, <2>3 DEF Answering
    <3>3. broker' = broker
      BY <1>6, <2>3, <3>2, Unchanging DEF Answering
    <3>4. QED BY <1>3, <3>1, <3>3
  <2>4. QED BY <2>1, <2>2, <2>3
<1>7. QED BY <1>5, <1>6, Steps DEF Asking, Repeating, Repeat, Telling, Tell


LEMMA LastBind ==
  ASSUME IInv, ManagersNext, NEW c \in Caller, NEW b \in Binding, MayBind(c, b),
         HasDone(c, "POST")', IsLastOf(c, Rebinders(b))'
  PROVE  b \in broker'.bindings
<1> USE DEF IInv
<1>1. Grows /\ request[c] # None
  BY NextGrows, RequestOn DEF MayBind, Asks
<1>2. /\ \A d \in Caller \ {c} : MayUnbind(d, b) \/ MayBind(d, b) => IsSettled(d)
      /\ IsLastOf(c, Rebinders(b))
  BY <1>1, LastRebinder
<1>3. HasDone(c, "POST") => b \in broker.bindings
  BY <1>2 DEF LastInv
<1>4. request[c].method = "POST" /\ request[c].target = "bindings" /\ request[c].value = b
  BY <1>1, CarriesSomething DEF Carries, MayBind, Asks, Kind
<1>5. ASSUME answers' = answers, broker' = broker PROVE b \in broker'.bindings
  BY <1>3, <1>5 DEF HasDone
<1>6. ASSUME NEW d \in Caller, NEW r, NEW a, Answering(d, r, a)
      PROVE  b \in broker'.bindings
  <2>1. CASE d # c
    <3>1. HasDone(c, "POST")
      BY <1>6, <2>1, DoneBefore DEF Methods
    <3>2. b \notin broker.bindings \ broker'.bindings
      BY <1>2, <1>6, <2>1, BinderAsks, SettledIsClosed DEF Answering
    <3>3. QED BY <1>3, <3>1, <3>2
  <2>2. CASE d = c /\ r.method = "POST" /\ StatusOf(r, broker) = "ok" /\ broker' = After(r, broker)
    <3>1. r = request[c] /\ IsRequest(r) /\ IsBroker(broker)
      BY <1>6, <2>2, PostWasAsked, AnsweringAsks DEF TypeOK
    <3>2. QED BY <1>4, <2>2, <3>1, PostIsBound
  <2>3. CASE d = c /\ ~(r.method = "POST" /\ StatusOf(r, broker) = "ok" /\ broker' = After(r, broker))
    <3>1. HasDone(c, "POST")
      BY <1>6, <2>3, DoneBefore DEF Methods
    <3>2. r.method \in {"GET", "POST"}
      BY <1>4, <1>6, <2>3 DEF Answering
    <3>3. broker' = broker
      BY <1>6, <2>3, <3>2, Unchanging DEF Answering
    <3>4. QED BY <1>3, <3>1, <3>3
  <2>4. QED BY <2>1, <2>2, <2>3
<1>7. QED BY <1>5, <1>6, Steps DEF Asking, Repeating, Repeat, Telling, Tell

LEMMA LastUnbind ==
  ASSUME IInv, ManagersNext, NEW c \in Caller, NEW b \in Binding, operation[c].asked = b,
         Asks(c, "delete", "binding"), HasDone(c, "DELETE")', IsLastOf(c, Rebinders(b))'
  PROVE  b \notin broker'.bindings
<1> USE DEF IInv
<1>1. Grows /\ request[c] # None
  BY NextGrows, RequestOn DEF Asks
<1>2. /\ \A d \in Caller \ {c} : MayUnbind(d, b) \/ MayBind(d, b) => IsSettled(d)
      /\ IsLastOf(c, Rebinders(b))
  BY <1>1, LastRebinder
<1>3. HasDone(c, "DELETE") => b \notin broker.bindings
  BY <1>2 DEF LastInv
<1>4. /\ request[c].method = "DELETE" /\ request[c].target = "binding"
      /\ request[c].value.to = b.to /\ request[c].value.segment = Quoted[b.key]
  BY <1>1, CarriesSomething DEF Carries, Asks, Kind
<1>5. ASSUME answers' = answers, broker' = broker PROVE b \notin broker'.bindings
  BY <1>3, <1>5 DEF HasDone
<1>6. ASSUME NEW d \in Caller, NEW r, NEW a, Answering(d, r, a)
      PROVE  b \notin broker'.bindings
  <2>1. CASE d # c
    <3>1. HasDone(c, "DELETE")
      BY <1>6, <2>1, DoneBefore DEF Methods
    <3>2. b \notin broker'.bindings \ broker.bindings
      BY <1>2, <1>6, <2>1, BinderAsks, SettledIsClosed DEF Answering
    <3>3. QED BY <1>3, <3>1, <3>2
  <2>2. CASE d = c /\ r.method = "DELETE" /\ StatusOf(r, broker) = "ok" /\ broker' = After(r, broker)
    <3>1. r = request[c] /\ IsRequest(r) /\ IsBroker(broker)
      BY <1>6, <2>2, DeleteWasAsked, AnsweringAsks DEF TypeOK
    <3>2. broker'.bindings = broker.bindings \ Matching(r, broker)
      BY <1>4, <2>2, <3>1, DeleteIsUnbound
    <3>3. QED BY <1>4, <3>1, <3>2 DEF Matching
  <2>3. CASE d = c /\ ~(r.method = "DELETE" /\ StatusOf(r, broker) = "ok" /\ broker' = After(r, broker))
    <3>1. HasDone(c, "DELETE")
      BY <1>6, <2>3, DoneBefore DEF Methods
    <3>2. r.method \in {"GET", "DELETE"}
      BY <1>4, <1>6, <2>3 DEF Answering
    <3>3. broker' = broker
      BY <1>6, <2>3, <3>2, Unchanging DEF Answering
    <3>4. QED BY <1>3, <3>1, <3>3
  <2>4. QED BY <2>1, <2>2, <2>3
<1>7. QED BY <1>5, <1>6, Steps DEF Asking, Repeating, Repeat, Telling, Tell

LEMMA LastStep == IInv /\ ManagersNext => LastInv'
<1> SUFFICES ASSUME IInv, ManagersNext PROVE LastInv'
  OBVIOUS
<1> USE DEF IInv
<1>1. ASSUME NEW c \in Caller, NEW method, HasDone(c, method)'
      PROVE  /\ operation[c] # None
             /\ operation'[c] = operation[c] /\ request'[c] = request[c]
  <2>1. answers'[c] # {}
    BY <1>1 DEF HasDone
  <2>2. QED BY <2>1, AnsweredHasAsked
<1>2. ASSUME NEW c \in Caller, NEW kind \in Kind,
             Asks(c, "create", kind)', HasDone(c, "PUT")', IsLastOf(c, Writers(kind))'
      PROVE  broker'.held[kind] = request'[c].value
  <2>1. Asks(c, "create", kind) /\ request'[c] = request[c]
    BY <1>1, <1>2 DEF Asks
  <2>2. QED BY <1>2, <2>1, LastCreate
<1>3. ASSUME NEW c \in Caller, NEW kind \in Kind,
             Asks(c, "delete", kind)', HasDone(c, "DELETE")', IsLastOf(c, Writers(kind))'
      PROVE  broker'.held[kind] = None
  <2>1. Asks(c, "delete", kind)
    BY <1>1, <1>3 DEF Asks
  <2>2. QED BY <1>3, <2>1, LastDelete
<1>4. ASSUME NEW c \in Caller, NEW b \in Binding,
             MayBind(c, b)', HasDone(c, "POST")', IsLastOf(c, Rebinders(b))'
      PROVE  b \in broker'.bindings
  <2>1. MayBind(c, b)
    BY <1>1, <1>4 DEF MayBind, Asks
  <2>2. QED BY <1>4, <2>1, LastBind
<1>5. ASSUME NEW c \in Caller, NEW b \in Binding, operation'[c].asked = b,
             Asks(c, "delete", "binding")', HasDone(c, "DELETE")', IsLastOf(c, Rebinders(b))'
      PROVE  b \notin broker'.bindings
  <2>1. Asks(c, "delete", "binding") /\ operation[c].asked = b
    BY <1>1, <1>5 DEF Asks
  <2>2. QED BY <1>5, <2>1, LastUnbind
<1>6. QED BY <1>2, <1>3, <1>4, <1>5 DEF LastInv


-----------------------------------------------------------------------------
(* The theorems *)

LEMMA Stuttering == IInv /\ UNCHANGED <<vars, managers>> => IInv'
<1> SUFFICES ASSUME IInv, UNCHANGED <<vars, managers>> PROVE IInv'
  OBVIOUS
<1>1. /\ request' = request /\ broker' = broker /\ answers' = answers
      /\ outcome' = outcome /\ repeated' = repeated
      /\ operation' = operation /\ initial' = initial
  BY DEF vars, managers
<1>2. TypeOK' /\ CallInv'
  BY <1>1 DEF IInv, TypeOK, CallInv
<1>3. AnswerInv' /\ OriginInv'
  BY <1>1 DEF IInv, AnswerInv, Speaks, OriginInv, IsKnown, MayBind, Asks
<1>4. PresenceInv'
  BY <1>1 DEF IInv, PresenceInv, Lives, IsBound, HasDone, MayRemove, MayUnbind, MayBind, Asks
<1>5. ASSUME NEW c \in Caller, NEW by PROVE NotFoundIsTrue(c, by)' <=> NotFoundIsTrue(c, by)
  BY <1>1 DEF NotFoundIsTrue, WasThere, WasBound, HasDeleted, MayRemove, MayUnbind, MayBind, Asks,
              IsDone, Told, IsMalformed
<1>6. ASSUME NEW c \in Caller PROVE ConflictIsTrue(c)' <=> ConflictIsTrue(c)
  BY <1>1 DEF ConflictIsTrue, Asks
<1>7. ErrorInv'
  BY <1>1, <1>5, <1>6 DEF IInv, ErrorInv
<1>8. LastInv'
  BY <1>1 DEF IInv, LastInv, HasDone, IsLastOf, IsSettled, Writers, Rebinders, MayRemove, MayUnbind,
              MayBind, Asks
<1>9. QED BY <1>2, <1>3, <1>4, <1>7, <1>8 DEF IInv

(* The invariant holds in every behaviour of any callers, threads and      *)
(* brokers.                                                                *)
THEOREM ManagersInvariance == ManagersSpec => []IInv
<1>1. IInv /\ [ManagersNext]_<<vars, managers>> => IInv'
  <2>1. IInv /\ ManagersNext => IInv'
    BY TypeStep, CallStep, AnswerStep, OriginStep, PresenceStep, ErrorStep, LastStep DEF IInv
  <2>2. QED BY <2>1, Stuttering
<1>2. QED BY <1>1, InitInv, PTL DEF ManagersSpec


-----------------------------------------------------------------------------
(* What the invariant says of what the callers see                         *)

LEMMA LastCallHasWon == IInv => LastCallWins
<1> SUFFICES ASSUME IInv, NEW c \in Caller, IsDone(c)
             PROVE  LET kind == operation[c].kind
                        asked == operation[c].asked
                    IN CASE kind # "binding" /\ IsLastOf(c, Writers(kind)) /\ operation[c].does = "create" ->
                              IsAsAsked(kind, broker.held[kind], asked)
                         [] kind # "binding" /\ IsLastOf(c, Writers(kind)) /\ operation[c].does = "delete" ->
                              ~Found(kind, broker)
                         [] kind = "binding" /\ IsLastOf(c, Rebinders(asked)) ->
                              (asked \in broker.bindings) = (operation[c].does = "create")
                         [] OTHER -> TRUE
  BY DEF LastCallWins
<1> USE DEF IInv
<1> DEFINE kind == operation[c].kind
           asked == operation[c].asked
<1>1. request[c] # None /\ operation[c] # None /\ Carries(request[c], operation[c])
  BY ToldIsAnswered, CarriesSomething DEF IsDone, Status
<1>2. HasDone(c, request[c].method)
  BY IsDoneIsDone
<1>3. ASSUME kind # "binding", IsLastOf(c, Writers(kind)), operation[c].does = "create"
      PROVE  IsAsAsked(kind, broker.held[kind], asked)
  <2>1. /\ kind \in Kind /\ Asks(c, "create", kind) /\ request[c].method = "PUT"
        /\ IsAsAsked(kind, request[c].value, asked)
    BY <1>1, <1>3 DEF Carries, Asks
  <2>2. broker.held[kind] = request[c].value
    BY <1>2, <1>3, <2>1 DEF LastInv
  <2>3. QED BY <2>1, <2>2
<1>4. ASSUME kind # "binding", IsLastOf(c, Writers(kind)), operation[c].does = "delete"
      PROVE  ~Found(kind, broker)
  <2>1. kind \in Kind /\ Asks(c, "delete", kind) /\ request[c].method = "DELETE"
    BY <1>1, <1>4 DEF Carries, Asks
  <2>2. broker.held[kind] = None
    BY <1>2, <1>4, <2>1 DEF LastInv
  <2>3. QED BY <2>2 DEF Found
<1>5. ASSUME kind = "binding", IsLastOf(c, Rebinders(asked)), operation[c].does = "create"
      PROVE  asked \in broker.bindings
  <2>1. MayBind(c, asked) /\ asked \in Binding /\ request[c].method = "POST"
    BY <1>1, <1>5 DEF Carries, MayBind, Asks, Kind
  <2>2. QED BY <1>2, <1>5, <2>1 DEF LastInv
<1>6. ASSUME kind = "binding", IsLastOf(c, Rebinders(asked)), operation[c].does # "create"
      PROVE  asked \notin broker.bindings
  <2>1. Asks(c, "delete", "binding") /\ asked \in Binding /\ request[c].method = "DELETE"
    BY <1>1, <1>6 DEF Carries, Asks, Kind
  <2>2. QED BY <1>2, <1>6, <2>1 DEF LastInv
<1>7. operation[c].does # "create" \/ operation[c].does # "delete"
  OBVIOUS
<1>8. QED BY <1>3, <1>4, <1>5, <1>6, <1>7

LEMMA ErrorsAreHonest == IInv => HonestErrors
<1> SUFFICES ASSUME IInv, NEW c \in Caller
             PROVE  /\ Told(c, "not_found") => NotFoundIsTrue(c, outcome[c].by)
                    /\ Told(c, "conflict") => ConflictIsTrue(c)
                    /\ IsMalformed(c) /\ outcome[c].by = "POST" =>
                         \/ operation[c].asked \in broker.bindings
                         \/ \E d \in Caller : MayUnbind(d, operation[c].asked)
  BY DEF HonestErrors
<1> USE DEF IInv
<1>1. ASSUME Told(c, "not_found") PROVE NotFoundIsTrue(c, outcome[c].by)
  BY <1>1, ToldIsAnswered DEF Status, Told, ErrorInv
<1>2. ASSUME Told(c, "conflict") PROVE ConflictIsTrue(c)
  BY <1>2, ToldIsAnswered DEF Status, Told, ErrorInv
<1>3. ASSUME IsMalformed(c), outcome[c].by = "POST" PROVE IsBound(operation[c].asked)
  <2>1. Told(c, "ok") /\ Asks(c, "create", "binding")
    BY <1>3 DEF IsMalformed, Told, Asks
  <2>2. request[c] # None /\ outcome[c] \in answers[c]
    BY <2>1, ToldIsAnswered DEF Status
  <2>3. HasDone(c, "POST")
    BY <1>3, <2>1, <2>2 DEF HasDone, Told
  <2>4. operation[c].asked \in Binding
    BY <2>1, <2>2, CarriesSomething DEF Carries, Asks, Kind
  <2>5. MayBind(c, operation[c].asked)
    BY <2>1 DEF MayBind
  <2>6. QED BY <2>3, <2>4, <2>5 DEF PresenceInv
<1>4. QED BY <1>1, <1>2, <1>3 DEF IsBound

LEMMA ShovelsEcho == IInv => ShovelEcho
<1> SUFFICES ASSUME IInv, NEW c \in Caller, Asks(c, "read", "shovel"), Told(c, "ok"),
                    outcome[c].content # initial.held["shovel"]
             PROVE  \E d \in Caller :
                      Asks(d, "create", "shovel") /\ Echoes(outcome[c].content, operation[d].asked)
  BY DEF ShovelEcho
<1> USE DEF IInv
<1>1. outcome[c] \in answers[c] /\ outcome[c].status = "ok"
  BY ToldIsAnswered DEF Status, Told
<1>2. Speaks(c, outcome[c])
  BY <1>1 DEF AnswerInv
<1>3. PICK d \in Caller : Asks(d, "create", "shovel") /\ outcome[c].content = request[d].value
  BY <1>1, <1>2 DEF Speaks
<1>4. Carries(request[d], operation[d])
  BY <1>3, CarriesSomething DEF Asks, CallInv
<1>5. IsAsAsked("shovel", request[d].value, operation[d].asked)
  BY <1>3, <1>4 DEF Carries, Asks, Kind
<1>6. QED BY <1>3, <1>5 DEF IsAsAsked

LEMMA NothingIsCollateral ==
  ASSUME IInv, ManagersNext
  PROVE  /\ \A kind \in Kind : broker'.held[kind] # broker.held[kind] =>
              \E c \in Caller : IF broker'.held[kind] = None THEN MayRemove(c, kind)
                                ELSE Asks(c, "create", kind)
         /\ \A b \in broker.bindings \ broker'.bindings : \E c \in Caller : MayUnbind(c, b)
         /\ \A b \in broker'.bindings \ broker.bindings : \E c \in Caller : MayBind(c, b)
<1> USE DEF IInv
<1>1. CASE broker' = broker
  BY <1>1
<1>2. CASE \E c \in Caller : \E r, a : Answering(c, r, a)
  BY <1>2, HolderAsks, BinderAsks
<1>3. QED BY <1>1, <1>2, Steps DEF Asking, Repeating, Repeat, Telling, Tell


(* The operations, requests and resources of any behaviour are of the      *)
(* shapes the managers make.                                               *)
THEOREM ManagersTypeCorrectness == ManagersSpec => []TypeOK
<1>1. IInv => TypeOK
  BY DEF IInv
<1>2. QED BY <1>1, ManagersInvariance, PTL

(* When a call returns that is the last on its resource, the resource is   *)
(* as the call wants it.                                                   *)
THEOREM TheLastCallWins == ManagersSpec => []LastCallWins
  BY LastCallHasWon, ManagersInvariance, PTL

(* "Not found", "conflict" and a malformed answer say something true.      *)
THEOREM ErrorsAreTrue == ManagersSpec => []HonestErrors
  BY ErrorsAreHonest, ManagersInvariance, PTL

(* A shovel that is read back is one that somebody asked for, in every     *)
(* field.                                                                  *)
THEOREM ShovelsAreEchoed == ManagersSpec => []ShovelEcho
  BY ShovelsEcho, ManagersInvariance, PTL

(* What the broker holds changes only as some caller has asked.            *)
THEOREM NothingChangesUnasked == ManagersSpec => NoCollateral
<1>1. IInv /\ [ManagersNext]_<<vars, managers>> =>
        [ /\ \A kind \in Kind : broker'.held[kind] # broker.held[kind] =>
               \E c \in Caller : IF broker'.held[kind] = None THEN MayRemove(c, kind)
                                 ELSE Asks(c, "create", kind)
          /\ \A b \in broker.bindings \ broker'.bindings : \E c \in Caller : MayUnbind(c, b)
          /\ \A b \in broker'.bindings \ broker.bindings : \E c \in Caller : MayBind(c, b)
        ]_<<vars, managers>>
  BY NothingIsCollateral
<1>2. QED BY <1>1, ManagersInvariance, PTL DEF ManagersSpec, NoCollateral
=============================================================================
