-------------------------- MODULE MCRetryTransport --------------------------
(* Bounded inputs for RetryTransport: few callers, few attempts, one queue. *)
EXTENDS RetryTransport, TLC

CONSTANTS c1, c2

Two == {c1, c2}
Interchangeable == Permutations(Two)

Classic == [type |-> "classic", overflow |-> "unset"]

QueueRequests ==
  {HttpRequest("PUT", "queue", Classic), HttpRequest("DELETE", "queue", None),
   HttpRequest("GET", "queue", None)}

(* A virtual host with the queue or without it. *)
QueueBrokers ==
  {[held |-> [k \in Kind |-> CASE k = "vhost" -> [default_queue_type |-> "quorum"]
                                [] k = "queue" -> queue
                                [] OTHER -> None],
    bindings |-> {}, protected |-> FALSE] : queue \in {None, Classic}}
=============================================================================
