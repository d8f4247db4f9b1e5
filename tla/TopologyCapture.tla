--------------------------- MODULE TopologyCapture ---------------------------
(***************************************************************************)
(* Capturing a cluster and parsing what was captured: the caller exports   *)
(* the definitions and lists queues and exchanges by separate requests, in *)
(* any order, while other clients of the broker change it; then            *)
(* ClusterAuditor builds the topology from what came back.  A listing is   *)
(* one step here, its pages are the subject of PagedListing.               *)
(*                                                                         *)
(* How the broker selects policies is the subject of PolicySelection.      *)
(***************************************************************************)
EXTENDS TopologyParser, PolicySelection

CONSTANTS
  Queue, Exchange, Policy,   \* what the broker may hold, as records
  Binding,               \* bound whenever both ends are there
  Vhosts,                \* the virtual hosts with their default queue type
  System,                \* broker-created exchanges that exports omit, too
  MaxChanges             \* bound on the changes other clients make

VARIABLES
  queues, exchanges, policies,   \* what the broker holds
  selected,              \* the policy it selected for each resource, or None
  captured,              \* the requests answered so far
  capture,               \* their answers, the input of the parser
  outcome,               \* "pending", "parsed" or "error"
  effective,             \* history: the hops in effect at each request
  seen,                  \* history: everything the broker held meanwhile
  changes                \* counts the changes since the first answer

broker == <<queues, exchanges, policies, selected>>
vars == <<broker, captured, capture, outcome, effective, seen, changes>>

Requests == {"definitions", "queues", "exchanges"}

Omitted(x) == x.id \in System \/ x.id.name \in PredeclaredNames

ASSUME KindAssumption ==
  /\ \A q \in Queue : q.id.kind = "queue"
  /\ \A x \in Exchange : x.id.kind = "exchange"
ASSUME VhostsAssumption ==
  /\ \A q \in Queue : OrElse(q.queue_type, Vhosts[q.id.vhost]) # None
  /\ \A x \in Exchange : x.id.vhost \in DOMAIN Vhosts
ASSUME PolicyAssumption == \A p \in Policy : p.name # None

-----------------------------------------------------------------------------
TypeOf(q) == OrElse(q.queue_type, Vhosts[q.id.vhost])

(* What the broker may have selected, given what it holds.                 *)
PolicyNames == {p.name : p \in Policy} \cup {None}

MaySelectAll(Q, X, P) ==
  {s \in [Ids(Q) \cup Ids(X) -> PolicyNames] :
     /\ \A q \in Q : s[q.id] \in MaySelect(P, q.id, TypeOf(q))
     /\ \A x \in X : s[x.id] \in MaySelect(P, x.id, None)}

(* What a resource does about a setting.                                   *)
InEffect(r, field) == EffectOf(policies, selected, r, field)

EffectiveHops ==
  {Hop(q.id, NodeIdAt(q.id.vhost, InEffect(q, "dead_letter_exchange"), "exchange"),
       "dead_letter", InEffect(q, "dead_letter_routing_key")) :
     q \in {r \in queues : InEffect(r, "dead_letter_exchange") # None}} \cup
  {Hop(x.id, NodeIdAt(x.id.vhost, InEffect(x, "alternate_exchange"), "exchange"),
       "alternate_exchange", None) :
     x \in {r \in exchanges : InEffect(r, "alternate_exchange") # None}}

Nothing ==
  [vhosts |-> Vhosts, queues |-> {}, exchanges |-> {}, bindings |-> {}, policies |-> {},
   shovels |-> {}, observed_queues |-> {}, observed_exchanges |-> {},
   observing |-> FALSE, hosts |-> {}]

Init ==
  /\ queues \in {S \in SUBSET Queue : UniqueIds(S)}
  /\ exchanges \in {S \in SUBSET Exchange :
       UniqueIds(S) /\ {x \in Exchange : x.id.name \in PredeclaredNames} \subseteq S}
  /\ policies \in {S \in SUBSET Policy : UniqueNames(S)}
  /\ selected \in MaySelectAll(queues, exchanges, policies)
  /\ captured = {} /\ capture = Nothing /\ outcome = "pending"
  /\ effective = [r \in Requests |-> {}]
  /\ seen = [queues |-> queues, exchanges |-> exchanges, policies |-> policies]
  /\ changes = 0

-----------------------------------------------------------------------------
(* Another client changes the broker, between two answers: before the      *)
(* first it makes another initial state, after the last it is not seen.    *)
(* New policies may be selected anywhere, a new resource gets any policy   *)
(* that covers it, and nothing else is selected anew.                      *)
Change ==
  /\ outcome = "pending"
  /\ captured \notin {{}, Requests}
  /\ changes < MaxChanges
  /\ changes' = changes + 1
  /\ selected' \in MaySelectAll(queues', exchanges', policies')
  /\ policies' = policies =>
       \A id \in DOMAIN selected \cap DOMAIN selected' : selected'[id] = selected[id]
  /\ seen' = [queues |-> seen.queues \cup queues', exchanges |-> seen.exchanges \cup exchanges',
              policies |-> seen.policies \cup policies']
  /\ UNCHANGED <<captured, capture, outcome, effective>>

PutPolicy(p) ==
  /\ policies' = {r \in policies : r.vhost # p.vhost \/ r.name # p.name} \cup {p}
  /\ UNCHANGED <<queues, exchanges>>
  /\ Change

DeletePolicy(p) ==
  /\ p \in policies
  /\ policies' = policies \ {p}
  /\ UNCHANGED <<queues, exchanges>>
  /\ Change

DeclareQueue(q) ==
  /\ q.id \notin Ids(queues)
  /\ queues' = queues \cup {q}
  /\ UNCHANGED <<exchanges, policies>>
  /\ Change

DeleteQueue(q) ==
  /\ q \in queues
  /\ queues' = queues \ {q}
  /\ UNCHANGED <<exchanges, policies>>
  /\ Change

DeclareExchange(x) ==
  /\ x.id \notin Ids(exchanges)
  /\ exchanges' = exchanges \cup {x}
  /\ UNCHANGED <<queues, policies>>
  /\ Change

DeleteExchange(x) ==
  /\ x \in exchanges
  /\ x.id.name \notin PredeclaredNames
  /\ exchanges' = exchanges \ {x}
  /\ UNCHANGED <<queues, policies>>
  /\ Change

-----------------------------------------------------------------------------
(* The broker answers one of the requests of the capture.                  *)
Answer(request, answer) ==
  /\ outcome = "pending"
  /\ request \notin captured
  /\ captured' = captured \cup {request}
  /\ capture' = answer
  /\ effective' = [effective EXCEPT ![request] = EffectiveHops]
  /\ UNCHANGED <<broker, outcome, seen, changes>>

ExportDefinitions ==
  Answer("definitions",
         [capture EXCEPT
            !.queues = queues, !.exchanges = {x \in exchanges : ~Omitted(x)},
            !.policies = policies,
            !.bindings = {b \in Binding : b.source \in Ids(exchanges) /\
                                          b.target \in Ids(queues) \cup Ids(exchanges)}])

ListQueues ==
  Answer("queues",
         [capture EXCEPT !.observed_queues =
            {[id |-> q.id, queue_type |-> TypeOf(q), policy |-> selected[q.id]] : q \in queues}])

ListExchanges ==
  Answer("exchanges",
         [capture EXCEPT !.observed_exchanges =
            {[id |-> x.id, type |-> x.type, internal |-> x.internal, policy |-> selected[x.id],
              alternate_exchange |-> x.alternate_exchange] : x \in exchanges}])

(* ClusterAuditor.__init__: both listings or neither.                      *)
Audit ==
  /\ outcome = "pending"
  /\ "definitions" \in captured
  /\ capture' = [capture EXCEPT !.observing = "queues" \in captured]
  /\ outcome' = IF (("queues" \in captured) # ("exchanges" \in captured)) \/ Rejects(capture')
                THEN "error" ELSE "parsed"
  /\ UNCHANGED <<broker, captured, effective, seen, changes>>

Next ==
  \/ \E p \in Policy : PutPolicy(p) \/ DeletePolicy(p)
  \/ \E q \in Queue : DeclareQueue(q) \/ DeleteQueue(q)
  \/ \E x \in Exchange : DeclareExchange(x) \/ DeleteExchange(x)
  \/ ExportDefinitions \/ ListQueues \/ ListExchanges
  \/ Audit

Spec == Init /\ [][Next]_vars

-----------------------------------------------------------------------------
TypeOK ==
  /\ queues \subseteq Queue /\ exchanges \subseteq Exchange /\ policies \subseteq Policy
  /\ selected \in MaySelectAll(queues, exchanges, policies)
  /\ captured \subseteq Requests
  /\ outcome \in {"pending", "parsed", "error"}
  /\ changes \in 0 .. MaxChanges
  /\ outcome = "parsed" => \A e \in Edges(capture) : WellFormedHop(e)

(* The hops that arguments and policies decide, as parsed.                 *)
ParsedHops == DeadLetterEdges(capture) \cup AlternateExchangeEdges(capture)

HopsFrom(hops, id) == {e \in hops : e.source = id}

(***************************************************************************)
(* Without listings a successful parse guesses nothing: the hops of every  *)
(* exported queue and exchange are those in effect at the export, whatever *)
(* policies the broker had selected.                                       *)
(***************************************************************************)
UnobservedNeverGuesses ==
  outcome = "parsed" /\ captured = {"definitions"} =>
    \A id \in Ids(capture.queues) \cup Ids(capture.exchanges) :
      HopsFrom(ParsedHops, id) = HopsFrom(effective["definitions"], id)

(***************************************************************************)
(* A complete capture of a broker that nobody changed meanwhile is parsed, *)
(* and gives exactly the hops in effect, those of exchanges that the       *)
(* export omits included.                                                  *)
(***************************************************************************)
QuietCaptureExact ==
  outcome # "pending" /\ captured = Requests /\ changes = 0 =>
    outcome = "parsed" /\ ParsedHops = EffectiveHops

(***************************************************************************)
(* A complete capture may be torn by changes, but as long as no name came  *)
(* to mean something else it invents nothing: every hop was in effect when *)
(* one of the three requests was answered.                                 *)
(***************************************************************************)
NothingRenamed == UniqueIds(seen.queues) /\ UniqueIds(seen.exchanges) /\ UniqueNames(seen.policies)

HopsWereEffective ==
  outcome = "parsed" /\ captured = Requests /\ NothingRenamed =>
    ParsedHops \subseteq UNION {effective[r] : r \in Requests}

(***************************************************************************)
(* In a quiet capture an edge dangles only if the broker does not hold the *)
(* missing resource, or if that is a system exchange and no listing could  *)
(* supply it.                                                              *)
(***************************************************************************)
DanglingIsAbsent ==
  outcome = "parsed" /\ changes = 0 =>
    \A e \in DanglingEdges(capture) :
      \A id \in {e.source, e.target} \ NodeIds(capture) :
        \/ id \notin Ids(queues) \cup Ids(exchanges)
        \/ id \in System /\ captured = {"definitions"}

(***************************************************************************)
(* parser.py:395: where direct arguments do not settle a routing value, a  *)
(* relevant policy requires a selection record.  Nothing in the graph has  *)
(* a setting that a policy of the export could decide unseen.              *)
(***************************************************************************)
RelevantPolicyRequiresSelection ==
  outcome = "parsed" /\ captured = {"definitions"} =>
    \A id \in NodeIds(capture) :
      /\ id.kind = "exchange"
      /\ \A x \in capture.exchanges : x.id = id => x.alternate_exchange = None
      => PoliciesThatCanSet(id, None, capture.policies, "alternate_exchange") = {}
=============================================================================
