-------------------------- MODULE TopologyFindings --------------------------
(***************************************************************************)
(* The sections of TopologyAuditReport that topology/reachability.py,      *)
(* topology/shovel_audit.py and topology/fanout.py compute, and the        *)
(* message-loop candidates by what CycleSearch shows of them: a            *)
(* republishing hop lies on a reported cycle if and only if it stays       *)
(* inside one component.                                                   *)
(***************************************************************************)
EXTENDS TopologyParser, FiniteSets

Graph(N) == INSTANCE DirectedGraph WITH Node <- N

ExchangeIds(capture) == {id \in NodeIds(capture) : id.kind = "exchange"}

(* Exchanges that are published to by other exchanges only; a supplement   *)
(* is internal if it was observed to be.                                   *)
InternalIds(capture) ==
  {x.id : x \in {y \in AlternateSources(capture) : y.internal}} \cap ExchangeIds(capture)

Sources(edges) == {e.source : e \in edges}
Targets(edges) == {e.target : e \in edges}

BlackHoleExchanges(capture) ==
  {id \in ExchangeIds(capture) : id.name # ""} \ Sources(Edges(capture))

UnreachableInternalExchanges(capture) == InternalIds(capture) \ Targets(Edges(capture))

(* Faulty QueuesWithoutDeclaredIngress: counts what leaves a queue.        *)
QueuesWithoutDeclaredEgress(capture) == Ids(capture.queues) \ Sources(Edges(capture))

QueuesWithoutDeclaredIngress(capture) == Ids(capture.queues) \ Targets(Edges(capture))

CrossVhostShovels(capture) ==
  {s.id : s \in {t \in capture.shovels :
     {EndpointVhost(t.src), EndpointVhost(t.dest)} \cap {None} = {}
     /\ EndpointVhost(t.src) # EndpointVhost(t.dest)}}

ShovelsWithUnresolvedVhost(capture) ==
  {s.id : s \in {t \in capture.shovels : None \in {EndpointVhost(t.src), EndpointVhost(t.dest)}}}

ShovelsWithUnconfirmedEndpoints(capture) ==
  {s.id : s \in {t \in capture.shovels : HasUnconfirmedEndpoint(t, capture.hosts)}}

(* Faulty Consumers: the queue is looked for beside the shovel.            *)
ConsumersByShovelVhost(capture, queue) ==
  {s.id : s \in {t \in capture.shovels :
     /\ HasLocalResource(t.src, capture.hosts)
     /\ [LocalResource(t.src) EXCEPT !.vhost = t.id.vhost] = queue}}

(* _source_queue_id: the shovels whose source is confirmed to be queue.    *)
Consumers(capture, queue) ==
  {s.id : s \in {t \in capture.shovels :
     HasLocalResource(t.src, capture.hosts) /\ LocalResource(t.src) = queue}}

StreamIds(capture) ==
  Ids({q \in capture.queues : ResolvedQueueType(capture, q) = "stream"})

(* Two and more of them, unless the queue is known to be a stream.         *)
CompetingShovelConsumers(capture) ==
  {S \in {Consumers(capture, q) : q \in {LocalResource(s.src) : s \in
            {t \in capture.shovels : /\ HasLocalResource(t.src, capture.hosts)
                                     /\ t.src.resource.kind = "queue"}} \ StreamIds(capture)} :
     Cardinality(S) >= 2}

(* Of an exchange in the graph: declared, observed or predeclared.         *)
ExchangeType(capture, id) ==
  LET known == {x \in AlternateSources(capture) : x.id = id}
  IN  IF known = {} THEN PredeclaredType(id.name) ELSE (CHOOSE x \in known : TRUE).type

(* FanoutQueue: a queue that dangles keeps its identity, without a type.   *)
FanoutQueue(capture, id) ==
  [id |-> id,
   queue_type |-> IF id \notin Ids(capture.queues) THEN None
                  ELSE ResolvedQueueType(capture, CHOOSE q \in capture.queues : q.id = id)]

(* Faulty FanoutExchangeBindings: of the declared exchanges. *)
DeclaredFanoutBindings(capture) ==
  [id \in {x.id : x \in {y \in capture.exchanges : y.type = "fanout"}} |->
     {FanoutQueue(capture, e.target) : e \in
        {f \in BindingEdges(capture) : f.source = id /\ f.target.kind = "queue"}}]

FanoutExchangeBindings(capture) ==
  [id \in {y \in ExchangeIds(capture) : ExchangeType(capture, y) = "fanout"} |->
     {FanoutQueue(capture, e.target) : e \in
        {f \in Edges(capture) :
           f.kind = "binding" /\ f.source = id /\ f.target.kind = "queue"}}]

Adjacency(capture) ==
  [v \in NodeIds(capture) |-> {e.target : e \in {f \in Edges(capture) : f.source = v}}
                                \cap NodeIds(capture)]

(* Faulty Republishes: shovels are forgotten. *)
DeadLetters(e) == e.kind = "dead_letter"

Republishes(e) == e.kind \in {"dead_letter", "shovel"}

(* The hops of the message-loop candidates that republish.                 *)
LoopHops(capture) ==
  {<<e.source, e.target>> : e \in
     {f \in Edges(capture) :
        /\ Republishes(f)
        /\ {f.source, f.target} \subseteq NodeIds(capture)
        /\ Graph(NodeIds(capture))!Reaches(Adjacency(capture), f.target, f.source)}}

(* ClusterAuditor.audit, with the graph itself.                            *)
Report(capture) ==
  [edges |-> {<<e.source, e.target>> : e \in Edges(capture)},
   loops |-> LoopHops(capture),
   dangling_edges |-> {<<e.source, e.target>> : e \in DanglingEdges(capture)},
   black_hole_exchanges |-> BlackHoleExchanges(capture),
   unreachable_internal_exchanges |-> UnreachableInternalExchanges(capture),
   queues_without_declared_ingress |-> QueuesWithoutDeclaredIngress(capture),
   cross_vhost_shovels |-> CrossVhostShovels(capture),
   shovels_with_unresolved_vhost |-> ShovelsWithUnresolvedVhost(capture),
   shovels_with_unconfirmed_endpoints |-> ShovelsWithUnconfirmedEndpoints(capture),
   competing_shovel_consumers |-> CompetingShovelConsumers(capture),
   fanout_exchange_bindings |-> FanoutExchangeBindings(capture)]
=============================================================================
