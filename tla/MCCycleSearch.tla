--------------------------- MODULE MCCycleSearch ---------------------------
(* Bounded inputs for CycleSearch: graphs on 1 .. N. *)
EXTENDS CycleSearch

CONSTANT N

MCNode == 1 .. N

(* Only the last node has a self-loop, so that it is a cyclic component    *)
(* wherever it is alone, and the other nodes are acyclic ones.             *)
Graphs ==
  {g \in [MCNode -> SUBSET MCNode] : \A v \in MCNode : v \in g[v] <=> v = N}

(* No filter, nothing required, or one required edge. *)
Filters == {MCNode \X MCNode, {}, {<<2, 3>>}}
=============================================================================
