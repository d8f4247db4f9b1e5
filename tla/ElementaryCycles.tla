-------------------------- MODULE ElementaryCycles --------------------------
(***************************************************************************)
(* Reference definitions: the elementary cycles of a graph, and what a     *)
(* bounded search for them may answer.  A cycle is written as the tuple of *)
(* its nodes from the least one on; the hop back to the first is implied,  *)
(* as in topology/cycles.py:Cycle.                                         *)
(***************************************************************************)
EXTENDS Integers, Sequences, FiniteSets, FiniteSetsExt, DirectedGraph

Least(v, S) == v \in S /\ \A u \in S : v <= u
LeastOf(S) == CHOOSE v \in S : \A u \in S : v <= u

NodesOf(p) == {p[i] : i \in DOMAIN p}

(* The hops of a node path, the return to its first node included.         *)
Hops(p) == {<<p[i], p[IF i = Len(p) THEN 1 ELSE i + 1]>> : i \in DOMAIN p}

(* The sequences of at most n members of S. *)
UpTo(n, S) == UNION {[1 .. m -> S] : m \in 0 .. n}

(* The paths from s that repeat no node.                                   *)
ElementaryPaths(adj, s) ==
  {p \in {<<s>> \o q : q \in UpTo(Cardinality(Node) - 1, Node \ {s})} :
     /\ \A i, j \in DOMAIN p : p[i] = p[j] => i = j
     /\ \A i \in 1 .. Len(p) - 1 : p[i + 1] \in adj[p[i]]}

(* The elementary cycles through s that take a required edge.              *)
CyclesThrough(adj, s, required) ==
  {p \in ElementaryPaths(adj, s) :
     s \in adj[p[Len(p)]] /\ Hops(p) \cap required # {}}

(* All the elementary cycles of a graph, each from its least node on.      *)
AllCycles(adj, required) ==
  UNION {CyclesThrough(Induced(adj, {u \in Node : s <= u}), s, required) : s \in Node}

(***************************************************************************)
(* What a search for at most limit of the cycles all may answer: all of    *)
(* them; or, when there are more, any limit of them, marked as truncated.  *)
(***************************************************************************)
NoLimit == -1

SearchResults(all, limit) ==
  IF limit = NoLimit \/ Cardinality(all) <= limit
  THEN {[cycles |-> all, truncated |-> FALSE]}
  ELSE {[cycles |-> S, truncated |-> TRUE] : S \in kSubset(limit, all)}

(* The entry points take zero for no limit.                                *)
LimitOf(max_cycles) == IF max_cycles = 0 THEN NoLimit ELSE max_cycles
=============================================================================
