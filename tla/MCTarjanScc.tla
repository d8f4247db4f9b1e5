---------------------------- MODULE MCTarjanScc ----------------------------
(* Bounded inputs for TarjanScc: graphs on the nodes 1 .. N. *)
EXTENDS TarjanScc

CONSTANT N

MCNode == 1 .. N

(* Every graph without self-loops: a node is on the stack when its own     *)
(* edge is looked at, and its own number lowers nothing.                   *)
LooplessGraphs ==
  {g \in [MCNode -> SUBSET MCNode] : \A v \in MCNode : v \notin g[v]}
=============================================================================
