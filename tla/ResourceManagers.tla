-------------------------- MODULE ResourceManagers --------------------------
(***************************************************************************)
(* resources/v4: the managers, whose operations are each one request.      *)
(* Several threads use them on the same resources, each one call after the *)
(* other, over the transport as RemoteCall promises it.                    *)
(*                                                                         *)
(* Listings page by page are the subject of PagedListing.                  *)
(***************************************************************************)
EXTENDS RemoteCall, ShovelSchemas

CONSTANTS
  Before,                \* the calls of its thread before each call
  Flaky,                 \* bound: the calls that meet with any trouble on the way
  Scenarios,             \* bound: the kinds and callers that meet in one behaviour
  QueueDeclarations,     \* bound: the queues asked for
  ShovelRequests         \* bound: the shovels asked for

ASSUME BeforeAssumption == Before \in [Caller -> SUBSET Caller]
(* Overflow stands for the arguments of a queue that have a default.       *)
QueueRequest == [type : {"classic", "quorum"}, overflow : {"drop-head", "reject-publish"}]

ASSUME QueueAssumption == QueueDeclarations \subseteq QueueRequest
ASSUME ShovelAssumption == \A r \in ShovelRequests : IsValid(r)

(* BindingManager: to a queue or to an exchange.                           *)
Binding == [to : {"queue", "exchange"}, key : {"plain", "a%2Fb"}]

ASSUME ScenariosAssumption ==
  \A s \in Scenarios : IsBroker(s.broker) /\ s.broker.bindings \subseteq Binding

(* What is put, what is sent and what a method was called for.             *)
Payload ==
  [type : QueueType, overflow : {"drop-head", "reject-publish", "unset"}] \cup
  [type : {"direct", "fanout"}] \cup [pattern : {"one", "two"}] \cup
  [default_queue_type : {"classic", "quorum"}] \cup [value : {"0", "1"}] \cup
  {ToApiValue(r) : r \in ShovelRequests}

Sent ==
  [method : Methods, target : Kind \cup {"bindings", "binding", "protection"},
   value : {None} \cup Payload \cup Binding \cup [if_unused : BOOLEAN] \cup
           [to : {"queue", "exchange"}, segment : {Quoted[b.key] : b \in Binding}]]

Operation ==
  [does : {"create", "read", "delete", "protect", "unprotect"}, kind : Kind \cup {"binding"},
   asked : {None} \cup Payload \cup Binding \cup [if_unused : BOOLEAN] \cup ShovelRequests]

ASSUME NoneIsNothing == None \notin Payload \cup Sent \cup Operation

VARIABLES
  operation,             \* what each caller called, None yet
  scenario,              \* which of them this behaviour is
  initial                \* what the broker held at the beginning

managers == <<operation, scenario, initial>>

ManagersInit ==
  /\ scenario \in Scenarios
  /\ Init
  /\ broker = scenario.broker
  /\ operation = [c \in Caller |-> None]
  /\ initial = broker

(* A call has its turn after those of its thread before it.                *)
HasTurn(c, kind) ==
  /\ kind \in scenario.kinds /\ c \in scenario.callers
  /\ \A p \in Before[c] : outcome[p] # None

(* A manager's method does something to a kind of resource by one request. *)
Ask(c, does, kind, asked, sent) ==
  /\ operation' = [operation EXCEPT ![c] = [does |-> does, kind |-> kind, asked |-> asked]]
  /\ Call(c, sent)
  /\ UNCHANGED <<scenario, initial>>

Put(c, kind, asked, payload) == Ask(c, "create", kind, asked, HttpRequest("PUT", kind, payload))

Read(c, kind) ==
  /\ HasTurn(c, kind)
  /\ Ask(c, "read", kind, None, HttpRequest("GET", kind, None))

Delete(c, kind) ==
  /\ HasTurn(c, kind)
  /\ Ask(c, "delete", kind, None, HttpRequest("DELETE", kind, None))

-----------------------------------------------------------------------------
(* Faulty QueuePayload: omits the type where it omits other defaults. *)
QueuePayloadWithoutType(declaration, strict) ==
  IF strict THEN declaration
  ELSE [type |-> "unset",
        overflow |-> IF declaration.overflow = "drop-head" THEN "unset" ELSE declaration.overflow]

(* QueueManager._to_http_payload: outside strict mode what is at its       *)
(* default is omitted, but for the type.                                   *)
QueuePayload(declaration, strict) ==
  IF strict \/ declaration.overflow # "drop-head" THEN declaration
  ELSE [declaration EXCEPT !.overflow = "unset"]

QueueCreate(c) ==
  /\ HasTurn(c, "queue")
  /\ \E d \in QueueDeclarations, strict \in BOOLEAN : Put(c, "queue", d, QueuePayload(d, strict))

QueueDelete(c) == Delete(c, "queue")
QueueGet(c) == Read(c, "queue")

(* ExchangeManager, which sends every field.                               *)
ExchangeCreate(c) ==
  /\ HasTurn(c, "exchange")
  /\ \E type \in {"direct", "fanout"} : Put(c, "exchange", [type |-> type], [type |-> type])

(* Faulty ExchangeDelete: the parameter is not sent. *)
ExchangeDeleteAnyway(c) ==
  /\ HasTurn(c, "exchange")
  /\ \E if_unused \in BOOLEAN :
       Ask(c, "delete", "exchange", [if_unused |-> if_unused],
           HttpRequest("DELETE", "exchange", [if_unused |-> FALSE]))

ExchangeDelete(c) ==
  /\ HasTurn(c, "exchange")
  /\ \E if_unused \in BOOLEAN :
       Ask(c, "delete", "exchange", [if_unused |-> if_unused],
           HttpRequest("DELETE", "exchange", [if_unused |-> if_unused]))

ExchangeGet(c) == Read(c, "exchange")

-----------------------------------------------------------------------------
BindingCreate(c) ==
  /\ HasTurn(c, "binding")
  /\ \E b \in Binding : Ask(c, "create", "binding", b, HttpRequest("POST", "bindings", b))

(* Faulty PropertiesKey: the last segment as it is. *)
RawPropertiesKey(answer) == answer.content

(* _properties_key: the last segment of the Location, decoded.             *)
PropertiesKey(answer) == Unquoted(answer.content)

(* Without a Location, a success is a MalformedResponseError.              *)
IsMalformed(c) == /\ operation[c] # None /\ operation[c].kind = "binding"
                  /\ operation[c].does = "create"
                  /\ outcome[c] # None /\ outcome[c].status = "ok" /\ outcome[c].content = None

HasCreatedBinding(c) ==
  /\ operation[c] # None /\ operation[c].kind = "binding" /\ operation[c].does = "create"
  /\ outcome[c] # None /\ outcome[c].status = "ok" /\ outcome[c].content # None

(* A caller knows the keys that were listed before, and those returned to  *)
(* its own thread.                                                         *)
KnownKeys(c) ==
  {[binding |-> b, key |-> b.key] : b \in initial.bindings} \cup
  {[binding |-> operation[p].asked, key |-> PropertiesKey(outcome[p])] :
     p \in {q \in Before[c] : HasCreatedBinding(q)}}

(* Faulty BindingDelete: the key is put into the path as it is. *)
BindingDeleteRaw(c) ==
  /\ HasTurn(c, "binding")
  /\ \E known \in KnownKeys(c) :
       Ask(c, "delete", "binding", known.binding,
           HttpRequest("DELETE", "binding", [to |-> known.binding.to, segment |-> known.key]))

BindingDelete(c) ==
  /\ HasTurn(c, "binding")
  /\ \E known \in KnownKeys(c) :
       Ask(c, "delete", "binding", known.binding,
           HttpRequest("DELETE", "binding", [to |-> known.binding.to, segment |-> Quoted[known.key]]))

-----------------------------------------------------------------------------
(* PolicyManager and OperatorPolicyManager: every field is required, so    *)
(* strict mode makes no difference.                                        *)
PolicyCreate(c) ==
  \E kind \in {"policy", "operator_policy"}, pattern \in {"one", "two"} :
    HasTurn(c, kind) /\ Put(c, kind, [pattern |-> pattern], [pattern |-> pattern])

PolicyDelete(c) == \E kind \in {"policy", "operator_policy"} : Delete(c, kind)
PolicyGet(c) == \E kind \in {"policy", "operator_policy"} : Read(c, kind)

(* ShovelManager.                                                          *)
ShovelCreate(c) ==
  /\ HasTurn(c, "shovel")
  /\ \E r \in ShovelRequests : Put(c, "shovel", r, ToApiValue(r))

ShovelDelete(c) == Delete(c, "shovel")
ShovelGet(c) == Read(c, "shovel")

(* AdminManager.  A request names the default queue type even if the       *)
(* caller does not.                                                        *)
VhostCreate(c) ==
  /\ HasTurn(c, "vhost")
  /\ \E type \in {"classic", "quorum"} :
       Put(c, "vhost", [default_queue_type |-> type], [default_queue_type |-> type])

VhostDelete(c) == Delete(c, "vhost")
VhostGet(c) == Read(c, "vhost")

Protection(c, does, method) ==
  /\ HasTurn(c, "vhost")
  /\ Ask(c, does, "vhost", None, HttpRequest(method, "protection", None))

EnableDeletionProtection(c) == Protection(c, "protect", "POST")
DisableDeletionProtection(c) == Protection(c, "unprotect", "DELETE")

LimitApply(c) ==
  /\ HasTurn(c, "limit")
  /\ \E value \in {"0", "1"} : Put(c, "limit", [value |-> value], [value |-> value])

LimitDelete(c) == Delete(c, "limit")
LimitGet(c) == Read(c, "limit")

-----------------------------------------------------------------------------
Operate(c) ==
  \/ QueueCreate(c) \/ QueueDelete(c) \/ QueueGet(c)
  \/ ExchangeCreate(c) \/ ExchangeDelete(c) \/ ExchangeGet(c)
  \/ BindingCreate(c) \/ BindingDelete(c)
  \/ PolicyCreate(c) \/ PolicyDelete(c) \/ PolicyGet(c)
  \/ ShovelCreate(c) \/ ShovelDelete(c) \/ ShovelGet(c)
  \/ VhostCreate(c) \/ VhostDelete(c) \/ VhostGet(c)
  \/ EnableDeletionProtection(c) \/ DisableDeletionProtection(c)
  \/ LimitApply(c) \/ LimitDelete(c) \/ LimitGet(c)

(* The others are carried out as they are and told the answer.             *)
IsSmooth(c) ==
  /\ \A a \in answers'[c] : a.by = request[c].method
  /\ outcome'[c] \in {None} \cup answers[c]
  /\ ~repeated'[c]

Travel(c) ==
  /\ Proceed(c)
  /\ c \in Flaky \/ IsSmooth(c)
  /\ UNCHANGED managers

ManagersNext == \E c \in Caller : Operate(c) \/ Travel(c)

ManagersSpec == ManagersInit /\ [][ManagersNext]_<<vars, managers>>

-----------------------------------------------------------------------------
Asks(c, does, kind) ==
  operation[c] # None /\ operation[c].does = does /\ operation[c].kind = kind

Told(c, status) == outcome[c] # None /\ outcome[c].status = status

(* Told so by an answer to the request itself, not to a redirected one.    *)
IsDone(c) == Told(c, "ok") /\ outcome[c].by = request[c].method /\ ~IsMalformed(c)

(* May the call take away the resource, or the binding, with all it has?   *)
MayRemove(c, kind) == Asks(c, "delete", kind) \/ Asks(c, "delete", "vhost")

MayUnbind(c, b) ==
  \/ Asks(c, "delete", "binding") /\ operation[c].asked = b
  \/ Asks(c, "delete", "exchange") /\ ~operation[c].asked.if_unused
  \/ b.to = "queue" /\ Asks(c, "delete", "queue")
  \/ Asks(c, "delete", "vhost")

MayBind(c, b) == Asks(c, "create", "binding") /\ operation[c].asked = b

(***************************************************************************)
(* Whatever is repeated, redirected or late, what the broker holds changes *)
(* only as some caller has asked: no policy is lost to the deletion of an  *)
(* operator policy of its name, no binding to the deletion of one parallel *)
(* to it, and none to the deletion of an exchange if it is unused.         *)
(***************************************************************************)
NoCollateral ==
  [][ /\ \A kind \in Kind : broker'.held[kind] # broker.held[kind] =>
           \E c \in Caller : IF broker'.held[kind] = None THEN MayRemove(c, kind)
                             ELSE Asks(c, "create", kind)
      /\ \A b \in broker.bindings \ broker'.bindings : \E c \in Caller : MayUnbind(c, b)
      /\ \A b \in broker'.bindings \ broker.bindings : \E c \in Caller : MayBind(c, b)
    ]_<<vars, managers>>

(***************************************************************************)
(* When a call returns, and all others on its resource came before it in   *)
(* its thread and were settled, the resource is as the call wants it:      *)
(* a queue is of the type asked for, whatever the default of the virtual   *)
(* host (README, "Strict vs. compatibility mode"), a binding deleted by    *)
(* the key its creation returned is gone.  A call that was repeated, or    *)
(* that timed out, is not settled: it may yet undo what came after it.     *)
(***************************************************************************)
IsAsAsked(kind, held, asked) ==
  /\ held # None
  /\ CASE kind = "queue"  -> /\ held.type = asked.type
                             /\ \/ held.overflow = asked.overflow
                                \/ held.overflow = "unset" /\ asked.overflow = "drop-head"
       [] kind = "shovel" -> Echoes(held, asked)
       [] OTHER           -> held = asked

(* An answer to the only attempt: no trace of the call is left on the way. *)
IsSettled(d) == outcome[d] # None /\ outcome[d].status \in Status /\ ~repeated[d]

Writers(kind) == {d \in Caller : MayRemove(d, kind) \/ Asks(d, "create", kind)}

Rebinders(b) == {d \in Caller : MayUnbind(d, b) \/ MayBind(d, b)}

IsLastOf(c, callers) == \A d \in callers \ {c} : d \in Before[c] /\ IsSettled(d)

LastCallWins ==
  \A c \in Caller : IsDone(c) =>
    LET kind == operation[c].kind
        asked == operation[c].asked
    IN CASE kind # "binding" /\ IsLastOf(c, Writers(kind)) /\ operation[c].does = "create" ->
              IsAsAsked(kind, broker.held[kind], asked)
         [] kind # "binding" /\ IsLastOf(c, Writers(kind)) /\ operation[c].does = "delete" ->
              ~Found(kind, broker)
         [] kind = "binding" /\ IsLastOf(c, Rebinders(asked)) ->
              (asked \in broker.bindings) = (operation[c].does = "create")
         [] OTHER -> TRUE

(***************************************************************************)
(* An error says something true.  "Not found": it was never there, or      *)
(* somebody else removed it, or this very call did, whose answer was lost  *)
(* and which was repeated.  "Conflict": there was something different, be  *)
(* it only that one client is strict and the other is not.  A malformed    *)
(* answer to the creation of a binding does not mean there is none.        *)
(***************************************************************************)
WasThere(c, kind) ==
  \/ initial.held[kind] # None
  \/ \E p \in Before[c] : Asks(p, "create", kind) /\ IsDone(p)

WasBound(c, b) == b \in initial.bindings \/ \E p \in Before[c] : MayBind(p, b) /\ IsDone(p)

HasDeleted(c) == repeated[c] /\ HttpAnswer("ok", None, "DELETE") \in answers[c]

NotFoundIsTrue(c, by) ==
  LET kind == operation[c].kind
      b == operation[c].asked
      Others == Caller \ {c}
      Gone(k) == ~WasThere(c, k) \/ \E d \in Others : MayRemove(d, k)
  IN IF kind # "binding"
     THEN IF operation[c].does \in {"read", "delete"} \/ by = "GET"
          THEN Gone(kind) \/ HasDeleted(c)
          ELSE Gone("vhost")
     ELSE IF operation[c].does = "create"
          THEN Gone("exchange") \/ (b.to = "queue" /\ Gone("queue"))
          ELSE \/ ~WasBound(c, b) \/ HasDeleted(c)
               \/ \E d \in Others : MayUnbind(d, b) \/ MayRemove(d, "exchange")

ConflictIsTrue(c) ==
  IF operation[c].kind = "vhost"
  THEN initial.protected \/ \E d \in Caller : Asks(d, "protect", "vhost")
  ELSE IF operation[c].does = "delete"
  THEN initial.bindings # {} \/ \E d \in Caller : Asks(d, "create", "binding")
  ELSE \/ initial.held[operation[c].kind] \notin {None, request[c].value}
       \/ \E d \in Caller : /\ Asks(d, "create", operation[c].kind)
                            /\ request[d].value # request[c].value

HonestErrors ==
  \A c \in Caller :
    /\ Told(c, "not_found") => NotFoundIsTrue(c, outcome[c].by)
    /\ Told(c, "conflict") => ConflictIsTrue(c)
    /\ IsMalformed(c) /\ outcome[c].by = "POST" =>
         \/ operation[c].asked \in broker.bindings
         \/ \E d \in Caller : MayUnbind(d, operation[c].asked)

(***************************************************************************)
(* A shovel that is read back is one that somebody asked for, in every     *)
(* field, unless it has been there from the beginning: flattening and      *)
(* splitting lose and mix up nothing.                                      *)
(***************************************************************************)
ShovelEcho ==
  \A c \in Caller :
    Asks(c, "read", "shovel") /\ Told(c, "ok") /\ outcome[c].content # initial.held["shovel"] =>
      \E d \in Caller :
        Asks(d, "create", "shovel") /\ Echoes(outcome[c].content, operation[d].asked)
=============================================================================
