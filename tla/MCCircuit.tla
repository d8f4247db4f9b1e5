----------------------------- MODULE MCCircuit -----------------------------
(* Bounded inputs for Circuit: strongly connected graphs on 1 .. N. *)
EXTENDS Circuit

CONSTANT N

MCNode == 1 .. N

Strong(S) == {g \in S : \A u, v \in MCNode : Reaches(g, u, v)}

(* Few edges: long paths that fail and cascades of several releases. *)
SparseStrong ==
  Strong({g \in [MCNode -> {S \in SUBSET MCNode : Cardinality(S) \in 1 .. 2}] :
            g[1] \in {{2}, {1, 2}} /\ \A v \in MCNode \ {1} : v \notin g[v]})

(* No filter, or two required edges that many cycles do not take. *)
SomeEdges == {MCNode \X MCNode, {<<1, 1>>, <<2, 3>>}}

SmallBudgets == {-1, 0, 1}
=============================================================================
