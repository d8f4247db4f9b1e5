--------------------------- MODULE TopologyModels ---------------------------
(***************************************************************************)
(* topology/models.py: the values that the parser and the findings share.  *)
(* One cluster is modelled at a time, so cluster_id is left out.           *)
(***************************************************************************)
CONSTANT None            \* Python's None

OrElse(v, w) == IF v # None THEN v ELSE w

(* NodeId: queues and exchanges of a virtual host may share a name.        *)
NodeIdAt(vhost, name, kind) == [vhost |-> vhost, name |-> name, kind |-> kind]

Ids(S) == {r.id : r \in S}
UniqueIds(S) == \A r, s \in S : r.id = s.id => r = s

(* TopologyEdge *)
Hop(source, target, kind, routing_key) ==
  [source |-> source, target |-> target, kind |-> kind, routing_key |-> routing_key]

(* TopologyEdge.__post_init__: what it accepts.                            *)
WellFormedHop(e) ==
  /\ <<e.source.kind, e.kind, e.target.kind>> \in
       {<<"exchange", "binding", "exchange">>, <<"exchange", "binding", "queue">>,
        <<"queue", "dead_letter", "exchange">>,
        <<"exchange", "alternate_exchange", "exchange">>,
        <<"exchange", "shovel", "shovel">>, <<"queue", "shovel", "shovel">>,
        <<"shovel", "shovel", "exchange">>, <<"shovel", "shovel", "queue">>}
  /\ e.kind # "shovel" => e.source.vhost = e.target.vhost
  /\ e.kind = "alternate_exchange" => e.routing_key = None
=============================================================================
