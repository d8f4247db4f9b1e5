--------------------------- MODULE DirectedGraph ---------------------------
(***************************************************************************)
(* Reference definitions on directed graphs.  A graph over the nodes Node  *)
(* is a function adj that maps a node to the set of its successors, the    *)
(* shape of topology/_cycle_algorithms.py:Adjacency.                       *)
(*                                                                         *)
(* Reachability is defined without paths: b is reachable from a when no    *)
(* set of nodes that is closed under successors holds a without b.  For a  *)
(* finite graph this is the usual notion, and its consequences need no     *)
(* induction over path lengths.                                            *)
(***************************************************************************)
CONSTANT Node

Adjacencies == [Node -> SUBSET Node]

Closed(adj, S) == \A u \in S : adj[u] \subseteq S

Reaches(adj, a, b) ==
  \A S \in SUBSET Node : a \in S /\ Closed(adj, S) => b \in S

SccOf(adj, v) == {u \in Node : Reaches(adj, u, v) /\ Reaches(adj, v, u)}

(* The successors of v inside S: one row of _induced_adjacency. *)
Induced(adj, S) == [v \in Node |-> IF v \in S THEN adj[v] \cap S ELSE {}]

(* A component that holds a cycle: several nodes, or a self-loop. *)
IsCyclic(adj, C) == (\E u, v \in C : u # v) \/ (\E v \in C : v \in adj[v])
=============================================================================
