----------------------------- MODULE MessageWalk -----------------------------
(***************************************************************************)
(* What the audit is for: one message on its way through a broker whose    *)
(* configuration was captured and does not change, and the report that the *)
(* audit makes of that configuration.                                      *)
(*                                                                         *)
(* The broker is modelled from what the documentation of topology/ relies  *)
(* on: each hop of a message is optional; the broker suppresses a message  *)
(* that comes back to an exchange before it was published again; the       *)
(* default exchange reaches every queue of its virtual host; a shovel may  *)
(* use any candidate of a failover list at any time; and every resource,   *)
(* exported or not, does what its arguments and its policy say.            *)
(* Without listings it has no exchanges but those exported and the         *)
(* predeclared ones; with listings it has what they list.                  *)
(***************************************************************************)
EXTENDS TopologyFindings, PolicySelection

CONSTANTS
  Captures,              \* the captures to consider
  Host, Name,            \* the hosts and names in them
  OwnHost                \* the hosts that resolve to this cluster

(* A node of the graph, or what will be one. *)
NodeId(vhosts, kind) == [vhost : vhosts, name : Name \cup PredeclaredNames, kind : {kind}]

(* Where a message is when it has left the cluster. *)
Elsewhere == NodeIdAt(None, None, "elsewhere")

ASSUME NoneIsNoNode ==
  /\ None # Elsewhere
  /\ \A c \in Captures : \A kind \in {"queue", "exchange", "shovel"} :
       None \notin NodeId(DOMAIN c.vhosts, kind)

(* The exchanges of the broker: those listed or, without a listing, those  *)
(* exported and the predeclared ones, which exports omit.                  *)
PredeclaredIds(c) ==
  {NodeIdAt(v, name, "exchange") : v \in DOMAIN c.vhosts, name \in PredeclaredNames}

PredeclaredExchanges(c) ==
  {[id |-> id, type |-> PredeclaredType(id.name), internal |-> FALSE,
    alternate_exchange |-> None] : id \in PredeclaredIds(c)}

ExchangesOf(c) ==
  IF c.observing THEN c.observed_exchanges ELSE c.exchanges \cup PredeclaredExchanges(c)

(* Listings, if there are any, show what the export shows and what it      *)
(* omits.                                                                  *)
ListingsFit(c) ==
  IF ~c.observing THEN c.observed_queues = {} /\ c.observed_exchanges = {}
  ELSE /\ Ids(c.observed_queues) = Ids(c.queues)
       /\ Ids(c.exchanges) \cup PredeclaredIds(c) \subseteq Ids(c.observed_exchanges)
       /\ \A o \in c.observed_exchanges :
            /\ \A x \in c.exchanges : x.id = o.id =>
                 /\ x.type = o.type /\ x.internal = o.internal
                 /\ x.alternate_exchange = o.alternate_exchange
            /\ o.id.name \in PredeclaredNames => o.type = PredeclaredType(o.id.name)

(* Captures of one broker that the parser accepts; whatever hosts the      *)
(* caller vouches for are its own.                                         *)
ASSUME CapturesAssumption ==
  \A c \in Captures :
    /\ ListingsFit(c) /\ ~Rejects(c)
    /\ c.hosts \subseteq OwnHost /\ OwnHost \subseteq Host
    /\ IsFiniteSet(c.shovels)
    /\ UniqueIds(c.queues) /\ UniqueIds(c.exchanges) /\ UniqueIds(c.shovels)
    /\ UniqueNames(c.policies) /\ \A p \in c.policies : p.name # None
    /\ Ids(c.queues) \subseteq NodeId(DOMAIN c.vhosts, "queue")
    /\ Ids(c.exchanges) \cup Ids(c.observed_exchanges) \subseteq
         NodeId(DOMAIN c.vhosts, "exchange")
    /\ Ids(c.shovels) \subseteq NodeId(DOMAIN c.vhosts, "shovel")
    /\ \A x \in c.exchanges : x.id.name \notin PredeclaredNames
    /\ \A s \in c.shovels :
         {s.src, s.dest} \subseteq Side(DOMAIN c.vhosts, Host, Name \cup PredeclaredNames)
    /\ \A b \in c.bindings :
         /\ b.source \in NodeId(DOMAIN c.vhosts, "exchange")
         /\ b.target \in NodeId(DOMAIN c.vhosts, "exchange") \cup NodeId(DOMAIN c.vhosts, "queue")

(* The policies it may have selected: for what was listed, those listed.   *)
MayHaveSelected(c) ==
  {s \in [Ids(c.queues) \cup Ids(ExchangesOf(c)) -> {p.name : p \in c.policies} \cup {None}] :
     /\ \A o \in c.observed_queues \cup c.observed_exchanges : s[o.id] = o.policy
     /\ \A q \in c.queues : s[q.id] \in MaySelect(c.policies, q.id, ResolvedQueueType(c, q))
     /\ \A x \in ExchangesOf(c) : s[x.id] \in MaySelect(c.policies, x.id, None)}

VARIABLES
  configuration,
  policy_of,             \* the policy selected for each resource, or None
  report,                \* what the audit says of it
  at,                    \* the node the message is at, None before it is sent
  visited,               \* the exchanges since it was last published
  origin,                \* the virtual host a shovel took it from
  marked                 \* a republishing hop the message took, or None

walk_vars == <<configuration, policy_of, report, at, visited, origin, marked>>

WalkInit ==
  /\ configuration \in Captures
  /\ policy_of \in MayHaveSelected(configuration)
  /\ report = Report(configuration)
  /\ at = None /\ visited = {} /\ origin = None /\ marked = None

-----------------------------------------------------------------------------
Exists(id) == id \in Ids(configuration.queues) \cup Ids(ExchangesOf(configuration))

Effect(r, field) == EffectOf(configuration.policies, policy_of, r, field)

DefaultExchange(vhost) == NodeIdAt(vhost, "", "exchange")

(* The message gets to id, by a new publication or within one.             *)
Enter(id, publication) ==
  /\ id.kind \in {"shovel", "elsewhere"} \/ Exists(id)
  /\ at' = id
  /\ visited' = IF id.kind # "exchange" THEN {}
                ELSE (IF publication THEN {} ELSE visited) \cup {id}

(* A republishing hop may be marked, to be recognised when it is taken     *)
(* again; a hop outside the graph ends that.                               *)
Mark(in_graph) ==
  \/ in_graph /\ marked = None /\ marked' = <<at, at'>>
  \/ marked' = IF in_graph THEN marked ELSE None

InGraph(source, target) == <<source, target>> \in report.edges

-----------------------------------------------------------------------------
Publish ==
  /\ at = None
  /\ \E x \in ExchangesOf(configuration) : ~x.internal /\ Enter(x.id, TRUE)
  /\ UNCHANGED <<configuration, policy_of, report, origin, marked>>

Route ==
  /\ \E b \in configuration.bindings :
       b.source = at /\ b.target \notin visited /\ Enter(b.target, FALSE)
  /\ UNCHANGED <<configuration, policy_of, report, origin, marked>>

RouteByDefault ==
  /\ \E q \in configuration.queues : at = DefaultExchange(q.id.vhost) /\ Enter(q.id, FALSE)
  /\ marked' = None
  /\ UNCHANGED <<configuration, policy_of, report, origin>>

UseAlternateExchange ==
  /\ \E x \in ExchangesOf(configuration) :
       /\ x.id = at /\ Effect(x, "alternate_exchange") # None
       /\ LET target == NodeIdAt(x.id.vhost, Effect(x, "alternate_exchange"), "exchange")
          IN  target \notin visited /\ Enter(target, FALSE)
  /\ marked' = IF InGraph(at, at') THEN marked ELSE None
  /\ UNCHANGED <<configuration, policy_of, report, origin>>

DeadLetter ==
  /\ \E q \in configuration.queues :
       /\ q.id = at /\ Effect(q, "dead_letter_exchange") # None
       /\ Enter(NodeIdAt(q.id.vhost, Effect(q, "dead_letter_exchange"), "exchange"), TRUE)
  /\ Mark(InGraph(at, at'))
  /\ UNCHANGED <<configuration, policy_of, report, origin>>

(* Where a shovel side gets to with one of its candidates: a node, or      *)
(* Elsewhere.  The local protocol stays in the cluster, and so does a URI  *)
(* without a host or with a host of the cluster; without a fixed address   *)
(* the message metadata decides.                                           *)
Leads(side, node) ==
  \E i \in DOMAIN side.uris :
    LET uri == side.uris[i]
        here == side.protocol = "local" \/ uri.host \in OwnHost \cup {None}
    IN  /\ uri.valid
        /\ IF ~here THEN node = Elsewhere
           ELSE /\ node # Elsewhere
                /\ uri.vhost # None => node.vhost = uri.vhost
                /\ side.resource # None =>
                     node.name = side.resource.name /\ node.kind = side.resource.kind

(* A source needs a fixed resource, a destination does not.                *)
Takes(shovel, node) == shovel.src.resource # None /\ Leads(shovel.src, node)

Consume ==
  /\ at # None
  /\ \E s \in configuration.shovels :
       /\ at.kind # "shovel"
       /\ Takes(s, at)
       /\ Enter(s.id, TRUE)
  /\ origin' = at.vhost
  /\ Mark(InGraph(at, at'))
  /\ UNCHANGED <<configuration, policy_of, report>>

Deliver ==
  /\ \E s \in configuration.shovels :
       /\ s.id = at
       /\ \E id \in Ids(configuration.queues) \cup Ids(ExchangesOf(configuration))
                      \cup {Elsewhere} :
            Leads(s.dest, id) /\ Enter(id, TRUE)
  /\ origin' = None
  /\ Mark(InGraph(at, at'))
  /\ UNCHANGED <<configuration, policy_of, report>>

WalkNext ==
  \/ Publish \/ Route \/ RouteByDefault \/ UseAlternateExchange
  \/ DeadLetter \/ Consume \/ Deliver

WalkSpec == WalkInit /\ [][WalkNext]_walk_vars

-----------------------------------------------------------------------------
(* The shovel whose hop this step is, if the report says that one of its   *)
(* ends is unconfirmed, or if it keeps an address open.                    *)
ByOpenShovel ==
  \E s \in configuration.shovels :
    /\ s.id \in {at, at'}
    /\ \/ s.id \in report.shovels_with_unconfirmed_endpoints
       \/ None \in {s.src.resource, s.dest.resource}

ByDefault == at \in {DefaultExchange(v) : v \in DOMAIN configuration.vhosts}

(* The step follows the alternate exchange that a policy gives a           *)
(* predeclared exchange, and nobody listed which policies were selected.   *)
ByUnseenPolicy ==
  /\ ~configuration.observing
  /\ \E x \in PredeclaredExchanges(configuration) :
       x.id = at /\ at' = NodeIdAt(at.vhost, Effect(x, "alternate_exchange"), "exchange")

(***************************************************************************)
(* Every hop of the message is an edge of the graph, and the message stays *)
(* in the cluster, but for default exchanges, for shovels that are listed  *)
(* as unconfirmed or address nothing fixed, and for policies of            *)
(* predeclared exchanges that nobody listed.  So no failover list may be   *)
(* taken for local that can lead elsewhere, and no setting of a policy     *)
(* that was selected may be missed.                                        *)
(***************************************************************************)
HopsAreCaptured ==
  [][at # None /\ ~ByDefault /\ ~ByOpenShovel /\ ~ByUnseenPolicy =>
       <<at, at'>> \in report.edges]_walk_vars

(***************************************************************************)
(* A message that goes in a circle through the graph, from one             *)
(* republishing hop back to the same hop, was announced: the hop lies on a *)
(* message-loop candidate.                                                 *)
(***************************************************************************)
LoopsAreReported ==
  [][marked # None /\ marked = <<at, at'>> => marked \in report.loops]_walk_vars

(***************************************************************************)
(* The findings hold of the message: it does not leave a black hole, does  *)
(* not reach an unreachable internal exchange, reaches a queue without     *)
(* declared ingress through a default exchange only, never takes a         *)
(* dangling edge, and crosses from one virtual host to another only with a *)
(* shovel listed for that; open shovels and unseen policies apart.         *)
(***************************************************************************)
FindingsHold ==
  [][at # None =>
       /\ ~ByOpenShovel /\ ~ByUnseenPolicy => at \notin report.black_hole_exchanges
       /\ ~ByOpenShovel /\ ~ByUnseenPolicy => at' \notin report.unreachable_internal_exchanges
       /\ ~ByOpenShovel /\ ~ByDefault => at' \notin report.queues_without_declared_ingress
       /\ <<at, at'>> \notin report.dangling_edges
       /\ origin # None /\ at' # Elsewhere /\ at'.vhost # origin =>
            at \in report.cross_vhost_shovels \cup report.shovels_with_unresolved_vhost]_walk_vars

(* An exchange that copies a message to everything that is bound to it.    *)
IsFanout(id) == \E x \in ExchangesOf(configuration) : x.id = id /\ x.type = "fanout"

(***************************************************************************)
(* A message that a fanout exchange, predeclared or not, puts into a queue *)
(* was foretold: the queue is among those described for the exchange, and  *)
(* with its type; no queue that is not there is described with one.        *)
(***************************************************************************)
FanoutDescribed ==
  [][at # None /\ at.kind = "exchange" /\ at' # at /\ at'.kind = "queue" /\ IsFanout(at) =>
       /\ at \in DOMAIN report.fanout_exchange_bindings
       /\ at' \in Ids(report.fanout_exchange_bindings[at])
       /\ \A q \in report.fanout_exchange_bindings[at] : Exists(q.id) = (q.queue_type # None)]_walk_vars

(***************************************************************************)
(* When two shovels could take the message from a queue that is no stream, *)
(* they are reported as competing, or one of them as unconfirmed.          *)
(***************************************************************************)
CompetitorsReported ==
  \A q \in {r \in configuration.queues : r.id = at /\ r.id \notin StreamIds(configuration)} :
    \A s, t \in {u \in configuration.shovels : Takes(u, q.id)} :
      \/ s = t
      \/ {s.id, t.id} \cap report.shovels_with_unconfirmed_endpoints # {}
      \/ \E S \in report.competing_shovel_consumers : {s.id, t.id} \subseteq S
=============================================================================
