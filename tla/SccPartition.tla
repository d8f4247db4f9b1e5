---------------------------- MODULE SccPartition ----------------------------
(***************************************************************************)
(* What the component search promises its callers, find_cyclic_components  *)
(* and _johnson: the strongly connected components of the graph come out   *)
(* one at a time, each once and whole, and a component only after every    *)
(* component it can reach.                                                 *)
(***************************************************************************)
EXTENDS DirectedGraph

CONSTANT Graph           \* the graphs a search may be given

VARIABLES
  adj,                   \* the graph of this search
  components             \* the components yielded so far

vars == <<adj, components>>

Init == adj \in Graph /\ components = {}

Yield(C) ==
  /\ \E v \in C : C = SccOf(adj, v)
  /\ C \notin components
  /\ Closed(adj, C \cup UNION components)
  /\ components' = components \cup {C}
  /\ UNCHANGED adj

Next == \E C \in SUBSET Node : Yield(C)

Spec == Init /\ [][Next]_vars
=============================================================================
