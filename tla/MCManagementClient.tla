------------------------- MODULE MCManagementClient -------------------------
(* Bounded inputs for ManagementClient: one queue is asked for. *)
EXTENDS ManagementClient, TLC

CONSTANTS init, c1, t1, t2

Interchangeable == Permutations({t1, t2})

Classic == [type |-> "classic", overflow |-> "unset"]

ClientRequests ==
  {Overview, HttpRequest("PUT", "queue", Classic), HttpRequest("DELETE", "queue", None)}

EmptyBroker ==
  [held |-> [k \in Kind |-> IF k = "vhost" THEN [default_queue_type |-> "quorum"] ELSE None],
   bindings |-> {}, protected |-> FALSE]

ClientBrokers == {EmptyBroker}
=============================================================================
