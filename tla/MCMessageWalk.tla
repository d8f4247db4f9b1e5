--------------------------- MODULE MCMessageWalk ---------------------------
(* Bounded inputs for MessageWalk: two virtual hosts that each hold a      *)
(* queue named q, two exchanges, one of them internal, and two shovels; or *)
(* one virtual host with a policy for some of the resources it covers.     *)
EXTENDS MessageWalk

X(name) == NodeIdAt("v", name, "exchange")
Q(vhost) == NodeIdAt(vhost, "q", "queue")
S(vhost, name) == NodeIdAt(vhost, name, "shovel")

Uri(host, vhost) == [valid |-> TRUE, host |-> host, vhost |-> vhost]
Invalid == [valid |-> FALSE, host |-> None, vhost |-> None]
From(protocol, uris, resource) == [protocol |-> protocol, uris |-> uris, resource |-> resource]
To(name, kind) == [name |-> name, kind |-> kind]

(* Hostless, a host of ours, failover to another cluster or virtual host,  *)
(* an unknown virtual host, a list that is not understood.                 *)
Connection ==
  {<<"local", <<Uri("there", "w")>>>>,
   <<"amqp091", <<Uri("here", "v"), Uri(None, "v")>>>>,
   <<"amqp091", <<Uri("here", "v"), Uri("there", "v")>>>>,
   <<"amqp091", <<Uri(None, "v"), Uri("here", "w")>>>>,
   <<"amqp10", <<Uri("here", None)>>>>,
   <<"amqp10", <<Uri("here", "v"), Invalid>>>>}

Sides(resources) == {From(c[1], c[2], r) : c \in Connection, r \in resources}

T == [id |-> S("v", "t"),
      src |-> From("local", <<Uri(None, "w")>>, To("q", "queue")),
      dest |-> From("amqp091", <<Uri("here", "v")>>, To("x", "exchange"))]

(* From x to y by an alternate exchange, from y on by bindings.            *)
YtoX == [source |-> X("y"), target |-> X("x")]
YtoQ == [source |-> X("y"), target |-> Q("v")]

(* What the export omits, and what it names although it is not there.      *)
Predeclared == [source |-> X("amq.fanout"), target |-> Q("v")]
Dangling == [source |-> X("amq.fanout"), target |-> NodeIdAt("v", "gone", "queue")]

Routes == {<<None, {}>>, <<"y", {YtoQ}>>, <<None, {YtoX, YtoQ}>>, <<"y", {YtoX}>>,
           <<"gone", {Predeclared, Dangling}>>}

Unpoliced ==
  {[vhosts |-> [v |-> "quorum", w |-> t[1]],
    queues |-> {[id |-> Q("v"), queue_type |-> None, dead_letter_exchange |-> dlx,
                 dead_letter_routing_key |-> None],
                [id |-> Q("w"), queue_type |-> None, dead_letter_exchange |-> None,
                 dead_letter_routing_key |-> None]},
    exchanges |-> {[id |-> X("x"), type |-> "direct", internal |-> FALSE, alternate_exchange |-> r[1]],
                   [id |-> X("y"), type |-> "fanout", internal |-> TRUE, alternate_exchange |-> None]},
    bindings |-> r[2], policies |-> {},
    shovels |-> {[id |-> S("v", "s"), src |-> src, dest |-> dest]} \cup t[2],
    observed_queues |-> {}, observed_exchanges |-> {}, observing |-> FALSE,
    hosts |-> hosts] :
    hosts \in {{}, {"here"}},
    dlx \in {None, "y", ""},
    r \in Routes,
    src \in Sides({To("q", "queue"), To("x", "exchange")}),
    dest \in Sides({None, To("q", "queue"), To("x", "exchange"), To("amq.fanout", "exchange")}),
    t \in {<<"quorum", {}>>, <<"quorum", {T}>>, <<"stream", {T}>>}}

(* With a policy nothing is listed, and then an exported resource decides  *)
(* for itself; or everything is, L says what was selected for it, and the  *)
(* export may omit an exchange that the broker created.                    *)
Resources == {Q("v"), X("x"), X("y")} \cup {X(name) : name \in PredeclaredNames}

Listings == {L \in [Resources -> {None, "p"}] :
               \A name \in {"", "amq.headers", "amq.topic"} : L[X(name)] = None}

Policed(apply_to, dlx, ae, omitted, listed, L) ==
  LET declared == {[id |-> X("x"), type |-> "direct", internal |-> FALSE, alternate_exchange |-> ae[1]],
                   [id |-> X("y"), type |-> "fanout", internal |-> TRUE, alternate_exchange |-> ae[2]]}
      predeclared == {[id |-> X(name), type |-> PredeclaredType(name), internal |-> FALSE,
                       alternate_exchange |-> None] : name \in PredeclaredNames}
  IN  [vhosts |-> [v |-> "quorum"],
       queues |-> {[id |-> Q("v"), queue_type |-> None, dead_letter_exchange |-> dlx,
                    dead_letter_routing_key |-> None]},
       exchanges |-> {x \in declared : x.id.name \notin omitted}, bindings |-> {YtoQ},
       policies |-> {[vhost |-> "v", name |-> "p", apply_to |-> apply_to,
                      dead_letter_exchange |-> "amq.direct", dead_letter_routing_key |-> None,
                      alternate_exchange |-> "y"]},
       shovels |-> {[id |-> S("v", "s"), src |-> From("amqp091", <<Uri(None, "v")>>, To("q", "queue")),
                     dest |-> From("amqp091", <<Uri(None, "v")>>, To("amq.topic", "exchange"))]},
       observed_queues |-> IF listed THEN {[id |-> Q("v"), queue_type |-> "quorum", policy |-> L[Q("v")]]}
                                     ELSE {},
       observed_exchanges |-> IF ~listed THEN {}
         ELSE {[id |-> x.id, type |-> x.type, internal |-> x.internal,
                alternate_exchange |-> x.alternate_exchange, policy |-> L[x.id]] :
               x \in declared \cup predeclared},
       observing |-> listed, hosts |-> {}]

MCCaptures ==
  Unpoliced
    \cup {Policed("all", "amq.fanout", <<"amq.match", "x">>, {}, FALSE, <<>>),
          Policed("exchanges", None, <<"amq.match", "x">>, {}, FALSE, <<>>)}
    \cup {Policed("all", dlx, <<ae, None>>, omitted, TRUE, L) : omitted \in {{}, {"y"}},
            dlx \in {None, "amq.fanout"}, ae \in {None, "amq.match"}, L \in Listings}
=============================================================================
