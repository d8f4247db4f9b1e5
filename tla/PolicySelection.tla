--------------------------- MODULE PolicySelection ---------------------------
(***************************************************************************)
(* What the broker does with policies, from what the code relies on: it    *)
(* selects at most one policy for a resource, of its virtual host, by      *)
(* patterns and priorities that only it evaluates, and an argument of the  *)
(* resource goes before the policy.                                        *)
(***************************************************************************)
EXTENDS TopologyModels

UniqueNames(P) == \A p, r \in P : p.vhost = r.vhost /\ p.name = r.name => p = r

(* The scopes under which a policy covers a queue or an exchange.          *)
Scopes(kind, queue_type) ==
  {"all"} \cup CASE kind = "exchange" -> {"exchanges"}
                 [] kind = "queue" -> {"queues"} \cup
                      CASE queue_type = "classic" -> {"classic_queues"}
                        [] queue_type = "quorum" -> {"quorum_queues"}
                        [] queue_type = "stream" -> {"streams"}
                        [] OTHER -> {}

(* The name of the policy it selects for id when it holds P, or None.      *)
MaySelect(P, id, queue_type) ==
  {None} \cup {p.name : p \in {r \in P : /\ r.vhost = id.vhost
                                          /\ r.apply_to \in Scopes(id.kind, queue_type)}}

(* What a resource does about a setting, when s says what was selected.    *)
EffectOf(P, s, r, field) ==
  OrElse(r[field],
         IF s[r.id] = None THEN None
         ELSE (CHOOSE p \in P : p.vhost = r.id.vhost /\ p.name = s[r.id])[field])
=============================================================================
