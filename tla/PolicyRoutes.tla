---------------------------- MODULE PolicyRoutes ----------------------------
(***************************************************************************)
(* topology/policy_routes.py: which dead-letter and alternate exchange the *)
(* parser concludes for a resource, from its own arguments, the exported   *)
(* policies and the policies the broker was seen to have selected.         *)
(*                                                                         *)
(* Patterns are left out as they are in the code, which never evaluates    *)
(* one.                                                                    *)
(***************************************************************************)
EXTENDS TopologyModels

(* _apply_to_matches: does the scope of a policy cover the resource?       *)
ApplyToMatches(apply_to, kind, queue_type) ==
  \/ kind # "shovel" /\ apply_to = "all"
  \/ kind = "exchange" /\ apply_to = "exchanges"
  \/ kind = "queue" /\ apply_to = "queues"
  \/ kind = "queue" /\ <<queue_type, apply_to>> \in {<<"classic", "classic_queues">>,
       <<"quorum", "quorum_queues">>, <<"stream", "streams">>}

(* user_policy_selections: a function from the resources that were         *)
(* observed to the name of their policy, or None.                          *)
Observed(id, selections) == id \in DOMAIN selections

Selected(id, policies, selections) ==
  {p \in policies : p.vhost = id.vhost /\ p.name = selections[id]}

(* _observed_user_policy raises: the policy seen at the resource is not in *)
(* the export, or does not cover it there.                                 *)
ObservationConflicts(id, queue_type, policies, selections) ==
  /\ selections[id] # None
  /\ ~ \E p \in policies : /\ Selected(id, policies, selections) = {p}
                           /\ ApplyToMatches(p.apply_to, id.kind, queue_type)

(* What the observed policy says of a definition field.                    *)
PolicyValue(id, policies, selections, field) ==
  IF \E p \in Selected(id, policies, selections) : p[field] # None
  THEN (CHOOSE p \in Selected(id, policies, selections) : p[field] # None)[field]
  ELSE None

PoliciesThatCanSet(id, queue_type, policies, field) ==
  {p \in policies : /\ p.vhost = id.vhost
                    /\ ApplyToMatches(p.apply_to, id.kind, queue_type)
                    /\ p[field] # None}

(* Faulty DeadLetterUnknown: only the exchange is asked for.               *)
DeadLetterExchangeUnknown(queue, queue_type, policies, selections) ==
  IF Observed(queue.id, selections)
  THEN ObservationConflicts(queue.id, queue_type, policies, selections)
  ELSE /\ queue.dead_letter_exchange = None
       /\ PoliciesThatCanSet(queue.id, queue_type, policies, "dead_letter_exchange") # {}

(* resolve_dead_letter_values raises.  Without an observation a routing    *)
(* key matters only when the exchange is declared.                         *)
DeadLetterUnknown(queue, queue_type, policies, selections) ==
  IF Observed(queue.id, selections)
  THEN ObservationConflicts(queue.id, queue_type, policies, selections)
  ELSE LET open == IF queue.dead_letter_exchange = None THEN "dead_letter_exchange"
                                                        ELSE "dead_letter_routing_key"
       IN  /\ queue[open] = None
           /\ PoliciesThatCanSet(queue.id, queue_type, policies, open) # {}

(* Faulty DeadLetterValue: the policy goes first. *)
PolicyBeforeArgument(queue, policies, selections, field) ==
  IF Observed(queue.id, selections)
  THEN OrElse(PolicyValue(queue.id, policies, selections, field), queue[field])
  ELSE queue[field]

(* The values it returns otherwise.                                        *)
DeadLetterValue(queue, policies, selections, field) ==
  IF Observed(queue.id, selections)
  THEN OrElse(queue[field], PolicyValue(queue.id, policies, selections, field))
  ELSE queue[field]

(* resolve_alternate_exchange, in the same way.                            *)
AlternateExchangeUnknown(exchange, policies, selections) ==
  IF Observed(exchange.id, selections)
  THEN ObservationConflicts(exchange.id, None, policies, selections)
  ELSE /\ exchange.alternate_exchange = None
       /\ PoliciesThatCanSet(exchange.id, None, policies, "alternate_exchange") # {}

AlternateExchangeValue(exchange, policies, selections) ==
  IF Observed(exchange.id, selections)
  THEN OrElse(exchange.alternate_exchange,
              PolicyValue(exchange.id, policies, selections, "alternate_exchange"))
  ELSE exchange.alternate_exchange
=============================================================================
