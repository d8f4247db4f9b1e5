--------------------------- MODULE ShovelEndpoints ---------------------------
(***************************************************************************)
(* topology/shovel.py: what is concluded about one side of a shovel.       *)
(*                                                                         *)
(* A side is a record [protocol, uris, resource].  The grammar of URIs and *)
(* addresses is left out: only what is read off them is kept.              *)
(***************************************************************************)
EXTENDS Integers, Sequences, TopologyModels

Protocol == {"amqp091", "amqp10", "local"}

(* _parse_uri_candidate: is a URI of the failover list understood, and if  *)
(* so which virtual host and which host does it name?  Only AMQP 1.0 URIs  *)
(* leave out the former.                                                   *)
UriCandidate(vhosts, hosts) ==
  [valid : BOOLEAN, vhost : vhosts \cup {None}, host : hosts \cup {None}]

(* shovel_side_resource: a queue or an exchange, unless none is fixed.     *)
SideResource(names) == [name : names, kind : {"queue", "exchange"}] \cup {None}

Side(vhosts, hosts, names) ==
  [protocol : Protocol, uris : Seq(UriCandidate(vhosts, hosts)), resource : SideResource(names)]

(* _protocol_uri_evidence: a single bad candidate spoils the whole list.   *)
IsResolved(side) ==
  /\ side.protocol \in Protocol
  /\ side.uris # <<>>
  /\ \A i \in DOMAIN side.uris : side.uris[i].valid

(* Faulty EndpointVhost: the first candidate decides.                      *)
FirstCandidateVhost(side) == IF IsResolved(side) THEN side.uris[1].vhost ELSE None

(* The vhost all candidates agree on.                                      *)
EndpointVhost(side) ==
  IF IsResolved(side) /\ \A i \in DOMAIN side.uris : side.uris[i].vhost = side.uris[1].vhost
  THEN side.uris[1].vhost ELSE None

(* _endpoint_is_confirmed_local: every host of the list is one of ours.    *)
IsConfirmedLocal(side, in_cluster_amqp_hosts) ==
  /\ EndpointVhost(side) # None
  /\ \/ side.protocol = "local"
     \/ \A i \in DOMAIN side.uris :
          side.uris[i].host = None \/ side.uris[i].host \in in_cluster_amqp_hosts

(* The resource at which the side takes part in the graph, if any:         *)
(* ResourceEndpoint with a fixed, confirmed-local resource.                *)
HasLocalResource(side, hosts) == IsConfirmedLocal(side, hosts) /\ side.resource # None

LocalResource(side) ==
  NodeIdAt(EndpointVhost(side), side.resource.name, side.resource.kind)

(* ShovelNode.has_unconfirmed_endpoint and is_cross_vhost.                 *)
HasUnconfirmedEndpoint(shovel, hosts) ==
  ~IsConfirmedLocal(shovel.src, hosts) \/ ~IsConfirmedLocal(shovel.dest, hosts)
=============================================================================
