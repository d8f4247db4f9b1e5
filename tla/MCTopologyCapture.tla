-------------------------- MODULE MCTopologyCapture --------------------------
(* Bounded inputs for TopologyCapture: one virtual host beside another    *)
(* that only holds a policy; a quorum or classic queue, an exchange, a     *)
(* predeclared exchange and a system exchange.                             *)
EXTENDS AuditorFiles

MCVhosts == [v |-> "quorum", w |-> None]

Q(type, dlx, key) ==
  [id |-> NodeIdAt("v", "q", "queue"), queue_type |-> type,
   dead_letter_exchange |-> dlx, dead_letter_routing_key |-> key]

X(name, ae) ==
  [id |-> NodeIdAt("v", name, "exchange"), type |-> "topic", internal |-> FALSE,
   alternate_exchange |-> ae]

P(vhost, name, apply_to, dlx, key, ae) ==
  [vhost |-> vhost, name |-> name, apply_to |-> apply_to, dead_letter_exchange |-> dlx,
   dead_letter_routing_key |-> key, alternate_exchange |-> ae]

MCQueue == {Q(None, None, None), Q("classic", "amq.topic", None)}
MCExchange == {X("e", None), X("e", "sys"), X("amq.topic", None), X("sys", None)}
MCPolicy == {P("v", "p", "all", "e", "k", "sys"), P("v", "p", "quorum_queues", "amq.topic", None, None),
             P("v", "r", "exchanges", None, None, "e"), P("w", "r", "all", "amq.topic", "k", None)}
MCBinding == {[source |-> NodeIdAt("v", "amq.topic", "exchange"), target |-> NodeIdAt("v", "q", "queue")]}
MCSystem == {NodeIdAt("v", "sys", "exchange")}
=============================================================================
