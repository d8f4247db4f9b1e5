--------------------------- MODULE TopologyParser ---------------------------
(***************************************************************************)
(* topology/parser.py: _TopologyBuilder, which turns a definitions export  *)
(* and optional observations into nodes and edges, or raises.              *)
(*                                                                         *)
(* The inputs are one record, capture:                                     *)
(*   vhosts              the exported virtual hosts with their default     *)
(*                       queue type, a function                            *)
(*   queues              [id, queue_type, dead_letter_exchange,            *)
(*                        dead_letter_routing_key]                         *)
(*   exchanges           [id, type, internal, alternate_exchange]          *)
(*   bindings            [source, target]                                  *)
(*   policies            [vhost, name, apply_to] and the three settings    *)
(*   shovels             [id, src, dest], see ShovelEndpoints              *)
(*   observed_queues     [id, queue_type, policy]                          *)
(*   observed_exchanges  [id, type, internal, alternate_exchange, policy]  *)
(*   observing           were the observations supplied?                   *)
(*   hosts               in_cluster_amqp_hosts                             *)
(* Durability, replication factors and the keys and arguments that tell    *)
(* parallel bindings apart are left out.                                   *)
(***************************************************************************)
EXTENDS PolicyRoutes, ShovelEndpoints

(* _PREDECLARED_EXCHANGE_TYPES; definitions exports omit these exchanges.  *)
PredeclaredNames ==
  {"", "amq.direct", "amq.fanout", "amq.headers", "amq.match", "amq.topic"}

PredeclaredType(name) ==
  CASE name = "amq.fanout"                  -> "fanout"
    [] name = "amq.topic"                   -> "topic"
    [] name \in {"amq.headers", "amq.match"} -> "headers"
    [] OTHER                                -> "direct"

-----------------------------------------------------------------------------
(* build_user_policy_selections: who was observed, with which policy.      *)
Selections(capture) ==
  [id \in IF capture.observing
          THEN Ids(capture.observed_queues) \cup Ids(capture.observed_exchanges) ELSE {} |->
     (CHOOSE r \in capture.observed_queues \cup capture.observed_exchanges : r.id = id).policy]

ResolvedQueueType(capture, queue) ==
  OrElse(queue.queue_type, capture.vhosts[queue.id.vhost])

(* _queue_node raises: no type, or not the observed one.                   *)
QueueTypeUnknown(capture, queue) ==
  \/ ResolvedQueueType(capture, queue) = None
  \/ \E o \in capture.observed_queues :
       o.id = queue.id /\ o.queue_type # ResolvedQueueType(capture, queue)

(* Faulty AlternateSources: only what the export declares.                 *)
DeclaredSources(capture) == capture.exchanges

(* The exchanges whose alternate exchange is looked for.                   *)
AlternateSources(capture) ==
  capture.exchanges
    \cup {o \in capture.observed_exchanges : o.id \notin Ids(capture.exchanges)}

DuplicateObservations(observed) ==
  \E o, p \in observed : o.id = p.id /\ o # p

(* parse_cluster_topology raises.                                          *)
Rejects(capture) ==
  LET selections == Selections(capture)
  IN  \/ DuplicateObservations(capture.observed_queues)
      \/ DuplicateObservations(capture.observed_exchanges)
      \/ \E q \in capture.queues :
           \/ QueueTypeUnknown(capture, q)
           \/ DeadLetterUnknown(q, ResolvedQueueType(capture, q), capture.policies, selections)
      \/ \E x \in AlternateSources(capture) :
           AlternateExchangeUnknown(x, capture.policies, selections)

BindingEdges(capture) ==
  {Hop(b.source, b.target, "binding", None) : b \in capture.bindings}

DeadLetterEdges(capture) ==
  LET value(q, field) == DeadLetterValue(q, capture.policies, Selections(capture), field)
  IN  {Hop(q.id, NodeIdAt(q.id.vhost, value(q, "dead_letter_exchange"), "exchange"),
           "dead_letter", value(q, "dead_letter_routing_key")) :
         q \in {r \in capture.queues : value(r, "dead_letter_exchange") # None}}

AlternateExchangeEdges(capture) ==
  LET value(x) == AlternateExchangeValue(x, capture.policies, Selections(capture))
  IN  {Hop(x.id, NodeIdAt(x.id.vhost, value(x), "exchange"), "alternate_exchange", None) :
         x \in {y \in AlternateSources(capture) : value(y) # None}}

(* One edge for each side that is confirmed local and fixed.               *)
ShovelEdges(capture) ==
  {Hop(LocalResource(s.src), s.id, "shovel", None) :
     s \in {t \in capture.shovels : HasLocalResource(t.src, capture.hosts)}} \cup
  {Hop(s.id, LocalResource(s.dest), "shovel", None) :
     s \in {t \in capture.shovels : HasLocalResource(t.dest, capture.hosts)}}

Edges(capture) ==
  BindingEdges(capture) \cup DeadLetterEdges(capture)
    \cup AlternateExchangeEdges(capture) \cup ShovelEdges(capture)

(* Faulty SupplementIds: nothing is synthesized. *)
ObservedSupplementIds(capture) ==
  {id \in UNION {{e.source, e.target} : e \in Edges(capture)} :
     /\ id.kind = "exchange"
     /\ id.vhost \in DOMAIN capture.vhosts
     /\ id \in Ids(capture.observed_exchanges)}

(* _referenced_exchange_supplements: exchanges of a declared virtual host  *)
(* that an edge names and the export omits, if observed or predeclared.    *)
SupplementIds(capture) ==
  {id \in UNION {{e.source, e.target} : e \in Edges(capture)} :
     /\ id.kind = "exchange"
     /\ id.vhost \in DOMAIN capture.vhosts
     /\ \/ id \in Ids(capture.observed_exchanges)
        \/ id.name \in PredeclaredNames}

(* ClusterTopology.all_node_ids                                            *)
NodeIds(capture) ==
  Ids(capture.queues) \cup Ids(capture.exchanges) \cup Ids(capture.shovels)
    \cup SupplementIds(capture)

(* ClusterTopology.dangling_edges                                          *)
DanglingEdges(capture) ==
  {e \in Edges(capture) : ~ {e.source, e.target} \subseteq NodeIds(capture)}
=============================================================================
