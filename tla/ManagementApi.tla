--------------------------- MODULE ManagementApi ---------------------------
(***************************************************************************)
(* The Management API as this client uses it.  The broker is not part of   *)
(* the repository: it is modelled by what the managers rely on.            *)
(*                                                                         *)
(* One resource of each kind is enough; its name is left out.  The broker  *)
(* holds, of each kind, the definition it was given, or None.  Everything  *)
(* lives in the virtual host.  Bindings lead from the exchange to the      *)
(* queue or to a second exchange that is always there; a binding is told   *)
(* from its parallels by the properties key the broker gives it.           *)
(***************************************************************************)
CONSTANT None

Kind == {"vhost", "queue", "exchange", "policy", "operator_policy", "limit", "shovel"}

(* What a call asks: the target is a kind, or "overview" (the version),    *)
(* "bindings" (all of them), "binding" (one, by its key) or "protection"   *)
(* (of the virtual host against deletion).                                 *)
HttpRequest(method, target, value) == [method |-> method, target |-> target, value |-> value]

Overview == HttpRequest("GET", "overview", None)

(* An answer says which method was carried out in the end, see Forms.      *)
HttpAnswer(status, content, by) == [status |-> status, content |-> content, by |-> by]

(* Success, 404, the statuses by which the broker says that what it holds  *)
(* stands in the way, or any other status of 400 or more.                  *)
Status == {"ok", "not_found", "conflict", "refused"}

(* What a call may end with instead of an answer.  A RuntimeError is what  *)
(* HTTPX raises for a request on a client closed meanwhile.                *)
Retryable == {"timeout", "connection_error"}
Failure == Retryable \cup {"transport_error", "runtime_error"}

Failed(failure) == HttpAnswer(failure, None, None)

Methods == {"GET", "PUT", "POST", "DELETE"}

ASSUME NoneAssumption ==
  None \notin Methods /\ \A f \in Status \cup Failure : None # Failed(f)

(* quote_path_segment, for the properties keys used here: that of a plain  *)
(* routing key, and that of one with a slash, which the broker has         *)
(* escaped once to make the key.                                           *)
Quoted == [key \in {"plain", "a%2Fb", "a%252Fb"} |->
             CASE key = "plain" -> "plain"
               [] key = "a%2Fb" -> "a%252Fb"
               [] key = "a%252Fb" -> "a%25252Fb"]

Unquoted(segment) == CHOOSE key \in DOMAIN Quoted : Quoted[key] = segment

-----------------------------------------------------------------------------
QueueType == {"classic", "quorum", "stream"}

(* The calls there are: what is put is something, a queue whatever its     *)
(* type will be, only bindings and the protection take a POST, and no      *)
(* request deletes all bindings.                                           *)
IsRequest(r) ==
  /\ r.method \in Methods
  /\ r.method = "POST" => r.target \in {"bindings", "protection"}
  /\ r.method = "DELETE" => r.target # "bindings"
  /\ r.method = "PUT" =>
       /\ r.target \in Kind /\ r.value # None
       /\ r.target = "vhost" => r.value.default_queue_type \in QueueType
       /\ r.target = "queue" => \A t \in QueueType : [r.value EXCEPT !.type = t] # None

(* A broker holds nothing of a virtual host that is not there.             *)
IsBroker(b) ==
  /\ b = [held |-> b.held, bindings |-> b.bindings, protected |-> b.protected]
  /\ b.held = [k \in Kind |-> b.held[k]]
  /\ IF b.held["vhost"] = None THEN b.bindings = {} /\ \A k \in Kind : b.held[k] = None
     ELSE b.held["vhost"].default_queue_type \in QueueType

Found(kind, broker) == broker.held["vhost"] # None /\ broker.held[kind] # None

Matching(sent, broker) ==
  {b \in broker.bindings : b.to = sent.value.to /\ Quoted[b.key] = sent.value.segment}

(* A queue declared without a type is of the default type of its vhost.    *)
Stored(sent, broker) ==
  IF sent.target = "queue" /\ sent.value.type = "unset"
  THEN [sent.value EXCEPT !.type = broker.held["vhost"].default_queue_type]
  ELSE sent.value

Missing(sent, broker) ==
  \/ sent.target \notin {"overview", "vhost"} /\ ~Found("vhost", broker)
  \/ /\ sent.method \in {"DELETE", "GET"}
     /\ sent.target \in Kind \ {"limit"}
     /\ ~Found(sent.target, broker)
  \/ /\ sent.method = "POST" /\ sent.target = "bindings"
     /\ ~(Found("exchange", broker) /\ (sent.value.to = "queue" => Found("queue", broker)))
  \/ sent.method = "DELETE" /\ sent.target = "binding" /\ Matching(sent, broker) = {}

(* Queues and exchanges are never redefined.                               *)
Forbidden(sent, broker) ==
  \/ /\ sent.method = "PUT" /\ sent.target \in {"queue", "exchange"}
     /\ broker.held[sent.target] \notin {None, Stored(sent, broker)}
  \/ /\ sent.method = "DELETE" /\ sent.target = "exchange"
     /\ sent.value.if_unused /\ broker.bindings # {}
  \/ sent.method = "DELETE" /\ sent.target = "vhost" /\ broker.protected

StatusOf(sent, broker) ==
  IF Missing(sent, broker) THEN "not_found"
  ELSE IF Forbidden(sent, broker) THEN "conflict"
  ELSE "ok"

Removed(target, broker) ==
  CASE target = "vhost" ->
         [held |-> [k \in Kind |-> None], bindings |-> {}, protected |-> FALSE]
    [] target = "exchange" ->
         [broker EXCEPT !.held[target] = None, !.bindings = {}]
    [] target = "queue" ->
         [broker EXCEPT !.held[target] = None, !.bindings = {b \in @ : b.to # "queue"}]
    [] OTHER -> [broker EXCEPT !.held[target] = None]

(* The broker after it has carried out a request.                          *)
After(sent, broker) ==
  IF StatusOf(sent, broker) # "ok" \/ sent.method = "GET" THEN broker
  ELSE IF sent.method = "PUT" THEN [broker EXCEPT !.held[sent.target] = Stored(sent, broker)]
  ELSE CASE sent.target = "protection" -> [broker EXCEPT !.protected = (sent.method = "POST")]
         [] sent.target = "bindings" -> [broker EXCEPT !.bindings = @ \cup {sent.value}]
         [] sent.target = "binding" -> [broker EXCEPT !.bindings = @ \ Matching(sent, broker)]
         [] OTHER -> Removed(sent.target, broker)

(* What the answer carries: the definition read, or the Location of a new  *)
(* binding, which a proxy may have removed.                                *)
Contents(sent, broker) ==
  IF StatusOf(sent, broker) # "ok" THEN {None}
  ELSE CASE sent.method = "GET" /\ sent.target \in Kind -> {broker.held[sent.target]}
         [] sent.method = "POST" /\ sent.target = "bindings" -> {Quoted[sent.value.key], None}
         [] OTHER -> {None}

(* The adapter follows redirects.  HTTPX asks for the new place by GET,    *)
(* without a body, after a 302 or 303, and after a 301 of a POST.          *)
Forms(request) == {request, HttpRequest("GET", request.target, None)}

(* What may come of a request the broker carries out.                      *)
Effects(request, broker) ==
  UNION { {[answer |-> HttpAnswer(StatusOf(sent, broker), content, sent.method),
            broker |-> After(sent, broker)] : content \in Contents(sent, broker)} :
          sent \in Forms(request) }
=============================================================================
