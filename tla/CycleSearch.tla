---------------------------- MODULE CycleSearch ----------------------------
(***************************************************************************)
(* The bounded search for cycles: topology/cycles.py, _find_cycles, over   *)
(* topology/_cycle_algorithms.py, _johnson.  The loop over the components, *)
(* the worklist of vertex sets inside one and the three nested limits are  *)
(* modelled step by step.  The component search and the circuit search are *)
(* taken by their contracts, which TarjanScc and Circuit establish: the    *)
(* exact components, and any max_cycles of the matching circuits if there  *)
(* are more.                                                               *)
(*                                                                         *)
(* Every local adjacency is the graph restricted to its vertex set, so the *)
(* worklist holds vertex sets.  A search without filter is the case where  *)
(* any edge will do: required = Node \X Node.                              *)
(*                                                                         *)
(* A list of cycles is kept by its members and its length.  Its order does *)
(* not matter, for the result is sorted; a cycle that is in it twice shows *)
(* in its length.                                                          *)
(***************************************************************************)
EXTENDS ElementaryCycles, SequencesExt

CONSTANTS
  Graph,                 \* the adjacencies of the topologies searched
  Filter,                \* the sets of required edges
  Limit                  \* the max_cycles of the caller, zero for no limit

ASSUME NodeAssumption == Node \subseteq Nat /\ IsFiniteSet(Node)
ASSUME GraphAssumption == Graph \subseteq Adjacencies
ASSUME FilterAssumption == Filter \subseteq SUBSET (Node \X Node)
ASSUME LimitAssumption == Limit \subseteq Nat

VARIABLES
  adjacency, required, max_cycles,  \* the arguments, never changed
  components,            \* the components the outer loop has not reached
  worklist,              \* _johnson's stack of vertex sets
  budget,                \* _johnson's limit for this component
  all_cycles,            \* what _johnson found in this component
  node_paths,            \* what the finished components brought
  truncated

args == <<adjacency, required, max_cycles>>
vars == <<args, components, worklist, budget, all_cycles, node_paths, truncated>>

Nil == [members |-> {}, length |-> 0]

ListOf(S) == [members |-> S, length |-> Cardinality(S)]

Extended(list, other) ==
  [members |-> list.members \cup other.members, length |-> list.length + other.length]

Sccs(adj, S) == {SccOf(adj, v) \cap S : v \in S}

(* Vertex sets in the order of _component_sort_key, which for disjoint     *)
(* sets is the order of their least members.                               *)
Earlier(C, D) == LeastOf(C) < LeastOf(D)

Running == ~truncated /\ (components # {} \/ worklist # <<>>)

(* Where nothing can be required, nothing is searched.                     *)
ToSearch(adj, req) == IF req = {} THEN {} ELSE Sccs(adj, Node)

(* The search starts on the arguments it is called with.                   *)
Called ==
  /\ components = ToSearch(adjacency, required)
  /\ worklist = <<>>
  /\ budget = NoLimit
  /\ all_cycles = Nil
  /\ node_paths = Nil
  /\ truncated = FALSE

Init ==
  /\ adjacency \in Graph /\ required \in Filter /\ max_cycles \in Limit
  /\ Called

-----------------------------------------------------------------------------
HasRequiredEdge(C) == \E s, t \in C : <<s, t>> \in required

(* The outer loop takes the next component when _johnson has none left.    *)
NextComponent(C) ==
  /\ ~truncated /\ worklist = <<>>
  /\ C \in components /\ \A D \in components \ {C} : Earlier(C, D)
  /\ components' = components \ {C}
  /\ UNCHANGED <<args, truncated>>

(* Faulty SkipComponent: the outer loop does not advance. *)
SkipComponentForever ==
  \E C \in components : NextComponent(C) /\ ~IsCyclic(adjacency, C) /\ UNCHANGED vars

(* Faulty EnterComponent: each component gets the whole limit. *)
EnterComponentAfresh ==
  \E C \in components :
    /\ NextComponent(C)
    /\ IsCyclic(adjacency, C) /\ HasRequiredEdge(C)
    /\ worklist' = <<C>>
    /\ budget' = LimitOf(max_cycles)
    /\ all_cycles' = Nil
    /\ UNCHANGED node_paths

SkipComponent ==
  \E C \in components :
    /\ NextComponent(C)
    /\ ~IsCyclic(adjacency, C) \/ ~HasRequiredEdge(C)
    /\ UNCHANGED <<worklist, budget, all_cycles, node_paths>>

EnterComponent ==
  \E C \in components :
    /\ NextComponent(C)
    /\ IsCyclic(adjacency, C) /\ HasRequiredEdge(C)
    /\ worklist' = <<C>>
    /\ budget' = IF max_cycles = 0 THEN NoLimit
               ELSE max_cycles - node_paths.length
    /\ all_cycles' = Nil
    /\ UNCHANGED node_paths

(* What _circuit may answer for the vertex set V and its limit.            *)
CircuitAnswers(V, limit) ==
  SearchResults(CyclesThrough(Induced(adjacency, V), LeastOf(V), required), limit)

(* Faulty Pieces: components of two nodes are taken for acyclic. *)
LargePieces(V) ==
  LET rest == V \ {LeastOf(V)}
      induced == Induced(adjacency, rest)
  IN {C \in Sccs(induced, rest) : Cardinality(C) > 2}

(* The cyclic components that are left of V without its least node.        *)
Pieces(V) ==
  LET rest == V \ {LeastOf(V)}
      induced == Induced(adjacency, rest)
  IN {C \in Sccs(induced, rest) : IsCyclic(induced, C)}

(* The order to push the sets of S in, for the earliest to be popped first. *)
LatestFirst(S) ==
  {s \in [1 .. Cardinality(S) -> S] : \A i, j \in DOMAIN s : i < j => Earlier(s[j], s[i])}

(* One iteration of _johnson's loop.  Its result joins node_paths when the *)
(* worklist runs dry, or at once when the limit is hit.                    *)
SearchVertices ==
  /\ ~truncated /\ worklist # <<>>
  /\ LET V == Last(worklist)
         remaining == IF budget = NoLimit THEN NoLimit ELSE budget - all_cycles.length
     IN \E r \in CircuitAnswers(V, remaining), pushed \in LatestFirst(Pieces(V)) :
          LET found == Extended(all_cycles, ListOf(r.cycles))
              left == IF r.truncated THEN Front(worklist) ELSE Front(worklist) \o pushed
              returns == r.truncated \/ left = <<>>
          IN /\ truncated' = r.truncated
             /\ worklist' = left
             /\ all_cycles' = IF returns THEN Nil ELSE found
             /\ node_paths' = IF returns THEN Extended(node_paths, found) ELSE node_paths
  /\ UNCHANGED <<args, components, budget>>

Next == SkipComponent \/ EnterComponent \/ SearchVertices

Spec == Init /\ [][Next]_vars /\ WF_vars(Next)

-----------------------------------------------------------------------------
Expected == AllCycles(adjacency, required)
Reported == node_paths.members \cup all_cycles.members
Pending == components \cup ToSet(worklist)
Result == [cycles |-> node_paths.members, truncated |-> truncated]

CycleList == [members : SUBSET Seq(Node), length : Nat]

TypeOK ==
  /\ adjacency \in Adjacencies /\ required \in SUBSET (Node \X Node) /\ max_cycles \in Nat
  /\ components \subseteq SUBSET Node
  /\ worklist \in Seq(SUBSET Node)
  /\ budget \in Nat \cup {NoLimit}
  /\ all_cycles \in CycleList /\ node_paths \in CycleList
  /\ truncated \in BOOLEAN

(***************************************************************************)
(* Splitting a component loses no cycle: until the limit is hit, every     *)
(* matching cycle not yet reported lies inside one pending vertex set, and *)
(* in one only.                                                            *)
(***************************************************************************)
NothingLost ==
  ~truncated => \A p \in Expected \ Reported :
                  Cardinality({V \in Pending : NodesOf(p) \subseteq V}) = 1

(***************************************************************************)
(* The contract of find_structural_cycles and find_message_loop_candidates *)
(* as CycleSearchResult documents it: no cycle twice; complete unless      *)
(* truncated; and truncated only if the limit was reached and there was at *)
(* least one more matching cycle.                                          *)
(***************************************************************************)
ResultExact ==
  ~Running => /\ Cardinality(node_paths.members) = node_paths.length
              /\ Result \in SearchResults(Expected, LimitOf(max_cycles))

(* The search of any graph ends. *)
Terminates == <>~Running
=============================================================================
