------------------------- MODULE MCResourceManagers -------------------------
(* Bounded inputs for ResourceManagers: two calls of one thread and one of *)
(* another; the first of them is the one that meets with trouble.          *)
EXTENDS ResourceManagers

CONSTANTS c1, c2, c3

FirstThenSecond == [c \in {c1, c2, c3} |-> IF c = c2 THEN {c1} ELSE {}]

(* Nothing but the virtual host, or one of everything but a shovel.        *)
Held(type) == [k \in Kind |-> IF k = "vhost" THEN [default_queue_type |-> type] ELSE None]

Bare == [held |-> Held("quorum"), bindings |-> {}, protected |-> FALSE]

Full ==
  [held |-> [Held("classic") EXCEPT !["queue"] = [type |-> "classic", overflow |-> "unset"],
                                    !["exchange"] = [type |-> "direct"],
                                    !["policy"] = [pattern |-> "one"],
                                    !["operator_policy"] = [pattern |-> "one"],
                                    !["limit"] = [value |-> "0"]],
   bindings |-> {[to |-> "queue", key |-> "a%2Fb"]}, protected |-> FALSE]

Scenario(kinds, callers, b) == [kinds |-> kinds, callers |-> callers, broker |-> b]

(* Three calls on one kind; two, of one thread or of two, on several.      *)
MCScenarios ==
  {Scenario({"queue"}, {c1, c2, c3}, Bare)} \cup
  {Scenario({kind}, {c1, c2, c3}, Full) : kind \in {"binding", "vhost"}} \cup
  {Scenario(kinds, {c1, c}, b) : c \in {c2, c3}, b \in {Bare, Full}, kinds \in
     {{"queue", "vhost"}, {"exchange", "binding"}, {"queue", "binding"}, {"limit", "vhost"}}} \cup
  {Scenario({"policy", "operator_policy"}, {c1, c}, Full) : c \in {c2, c3}} \cup
  {Scenario({"shovel"}, {c1, c}, Bare) : c \in {c2, c3}}

MCBrokers == {Bare, Full}

MCQueueDeclarations ==
  {[type |-> "classic", overflow |-> "drop-head"], [type |-> "quorum", overflow |-> "drop-head"],
   [type |-> "classic", overflow |-> "reject-publish"]}

(* Sides of every protocol, with defaults and without.                     *)
Ends ==
  {<<Arguments("src", "amqp091", [queue |-> "q"]),
     Arguments("dest", "amqp10", ("address" :> "a" @@ "properties" :> "p"))>>,
   <<Arguments("src", "local", ("queue" :> "q" @@ "prefetch-count" :> "10")),
     Arguments("dest", "amqp091", <<>>)>>,
   <<Arguments("src", "amqp10", [address |-> "a"]),
     Arguments("dest", "local", ("exchange" :> "x" @@ "add-timestamp-header" :> "true"))>>,
   <<Arguments("src", "amqp091", ("exchange" :> "x" @@ "exchange-key" :> "k" @@ "predeclared" :> "true")),
     Arguments("dest", "amqp091", ("queue" :> "q" @@ "publish-properties" :> "p"))>>}

Uris == <<"src", "uri">> :> "uri" @@ <<"dest", "uri">> :> "uri"

MCShovelRequests ==
  {ShovelRequest(<<"src", "delete-after">> :> (IF ends[1].protocol = "local" THEN "5" ELSE "never") @@ Uris,
                 ends[1], ends[2]) : ends \in Ends}
=============================================================================
