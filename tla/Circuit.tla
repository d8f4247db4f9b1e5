------------------------------ MODULE Circuit ------------------------------
(***************************************************************************)
(* Johnson's circuit search of topology/_cycle_algorithms.py, _circuit:    *)
(* the elementary cycles through the least node of one strongly connected  *)
(* component, one action per loop iteration.                               *)
(*                                                                         *)
(* The frames of work and the nodes of path are pushed and popped          *)
(* together, so path stands for both; a frame's iterator and its found     *)
(* flag are kept by node, for a node is on the path at most once.          *)
(*                                                                         *)
(* cycle_filter is the one the callers pass: it accepts a path that takes  *)
(* a required edge.  No filter at all accepts what requiring any edge      *)
(* accepts, so it is the case required = Node \X Node.                     *)
(***************************************************************************)
EXTENDS ElementaryCycles

CONSTANTS
  Graph,                 \* the component adjacencies a search may be given
  Filter,                \* the sets of required edges
  Budget                 \* the limits max_cycles, NoLimit or a number

ASSUME NodeAssumption == Node \subseteq Nat /\ Node # {} /\ IsFiniteSet(Node)
ASSUME GraphAssumption ==
  Graph \subseteq {g \in Adjacencies : \A u, v \in Node : Reaches(g, u, v)}
ASSUME FilterAssumption == Filter \subseteq SUBSET (Node \X Node)
ASSUME BudgetAssumption == Budget \subseteq Nat \cup {NoLimit}

VARIABLES
  scc_adjacency, required, max_cycles,   \* the arguments, never changed
  path,                  \* the nodes of the open frames, least first
  children,              \* what is left of each frame's iterator
  found,                 \* the open frames that have closed a cycle
  blocked,               \* nodes the path must not enter
  block_map,             \* for u: the nodes to unblock together with u
  cycles,                \* the accepted cycles, in the order found
  truncated              \* did max_cycles end the search?

args == <<scc_adjacency, required, max_cycles>>
vars == <<args, path, children, found, blocked, block_map, cycles, truncated>>

least == LeastOf(Node)
Top == path[Len(path)]
OnPath == NodesOf(path)
Running == path # <<>> /\ ~truncated

Accepts(p) == Hops(p) \cap required # {}

Init ==
  /\ scc_adjacency \in Graph /\ required \in Filter /\ max_cycles \in Budget
  /\ path = <<least>>
  /\ children = [v \in Node |-> IF v = least THEN scc_adjacency[v] ELSE {}]
  /\ found = {}
  /\ blocked = {least}
  /\ block_map = [v \in Node |-> {}]
  /\ cycles = <<>>
  /\ truncated = FALSE

-----------------------------------------------------------------------------
NextChild(c) == Running /\ Least(c, children[Top])

Consume(c) == children' = [children EXCEPT ![Top] = @ \ {c}]

(* Faulty Close: one cycle more than the limit. *)
CloseOneMore ==
  /\ NextChild(least)
  /\ Accepts(path) => max_cycles = NoLimit \/ Len(cycles) <= max_cycles
  /\ cycles' = IF Accepts(path) THEN Append(cycles, path) ELSE cycles
  /\ found' = found \cup {Top}
  /\ Consume(least)
  /\ UNCHANGED <<args, path, blocked, block_map, truncated>>

(* The path closes a cycle, and the filter or the limit may refuse it.     *)
Close ==
  /\ NextChild(least)
  /\ Accepts(path) => max_cycles = NoLimit \/ Len(cycles) < max_cycles
  /\ cycles' = IF Accepts(path) THEN Append(cycles, path) ELSE cycles
  /\ found' = found \cup {Top}
  /\ Consume(least)
  /\ UNCHANGED <<args, path, blocked, block_map, truncated>>

(* One matching cycle more than the limit: the search returns at once.     *)
Truncate ==
  /\ NextChild(least)
  /\ Accepts(path) /\ max_cycles # NoLimit /\ Len(cycles) >= max_cycles
  /\ truncated' = TRUE
  /\ Consume(least)
  /\ UNCHANGED <<args, path, found, blocked, block_map, cycles>>

(* push: the path enters a child that is not blocked.                      *)
Push ==
  \E c \in Node \ {least} :
    /\ NextChild(c)
    /\ c \notin blocked
    /\ path' = Append(path, c)
    /\ blocked' = blocked \cup {c}
    /\ children' = [children EXCEPT ![Top] = @ \ {c}, ![c] = scc_adjacency[c]]
    /\ found' = found \ {c}
    /\ UNCHANGED <<args, block_map, cycles, truncated>>

(* Faulty SkipBlocked: the iterator does not advance. *)
SkipBlockedForever ==
  \E c \in Node \ {least} : NextChild(c) /\ c \in blocked /\ UNCHANGED vars

SkipBlocked ==
  \E c \in Node \ {least} :
    /\ NextChild(c)
    /\ c \in blocked
    /\ Consume(c)
    /\ UNCHANGED <<args, path, found, blocked, block_map, cycles, truncated>>

(* Faulty Released: unblock does not cascade. *)
ReleasedAlone(v) == {v}

(* What unblock(v) releases: v and, by cascade, the blocked nodes that     *)
(* were waiting for a node it releases.                                    *)
Released(v) ==
  {w \in Node : Reaches([u \in Node |-> block_map[u] \cap blocked], v, w)}

Pop == path' = SubSeq(path, 1, Len(path) - 1)

(* The frame lies on a cycle: it is unblocked, and so is its parent's.     *)
PopFound ==
  /\ Running /\ children[Top] = {}
  /\ Top \in found
  /\ Pop
  /\ blocked' = blocked \ Released(Top)
  /\ block_map' = [u \in Node |-> IF u \in Released(Top) THEN {} ELSE block_map[u]]
  /\ found' = IF Len(path) = 1 THEN found ELSE found \cup {path[Len(path) - 1]}
  /\ UNCHANGED <<args, children, cycles, truncated>>

(* Faulty PopFailed: the children are not told to release it. *)
PopFailedAlone ==
  /\ Running /\ children[Top] = {}
  /\ Top \notin found
  /\ Pop
  /\ UNCHANGED <<args, children, found, blocked, block_map, cycles, truncated>>

(* The frame closed nothing: it stays blocked until a child is released.   *)
PopFailed ==
  /\ Running /\ children[Top] = {}
  /\ Top \notin found
  /\ Pop
  /\ block_map' = [u \in Node |-> IF u \in scc_adjacency[Top]
                                  THEN block_map[u] \cup {Top} ELSE block_map[u]]
  /\ UNCHANGED <<args, children, found, blocked, cycles, truncated>>

Next == Close \/ Truncate \/ Push \/ SkipBlocked \/ PopFound \/ PopFailed

Spec == Init /\ [][Next]_vars /\ WF_vars(Next)

Finished == ~Running
-----------------------------------------------------------------------------
TypeOK ==
  /\ scc_adjacency \in Graph /\ required \in Filter /\ max_cycles \in Budget
  /\ path \in Seq(Node)
  /\ children \in [Node -> SUBSET Node]
  /\ found \subseteq Node
  /\ blocked \subseteq Node
  /\ block_map \in [Node -> SUBSET Node]
  /\ cycles \in Seq(Seq(Node))
  /\ truncated \in BOOLEAN
  /\ max_cycles # NoLimit => Len(cycles) <= max_cycles

(***************************************************************************)
(* The open path is an elementary path from least along edges of the       *)
(* component, and all its nodes are blocked.                               *)
(***************************************************************************)
PathElementary ==
  /\ \A i, j \in DOMAIN path : path[i] = path[j] => i = j
  /\ path # <<>> => path[1] = least
  /\ \A i \in 1 .. Len(path) - 1 : path[i + 1] \in scc_adjacency[path[i]]
  /\ OnPath \subseteq blocked

(***************************************************************************)
(* A node that is blocked although it is not on the path has only blocked  *)
(* successors, is registered with each of them for release, and does not   *)
(* return to least itself: unblocking is never forgotten.                  *)
(***************************************************************************)
BlockedWait ==
  \A v \in blocked \ OnPath :
    /\ least \notin scc_adjacency[v]
    /\ \A c \in scc_adjacency[v] : c \in blocked /\ v \in block_map[c]

(* The bookkeeping of the search, which is inductive.                      *)
BlockingInv == TypeOK /\ PathElementary /\ BlockedWait

(***************************************************************************)
(* Blocking prunes no cycle: from a blocked node off the path, least       *)
(* cannot be reached except through the path.                              *)
(***************************************************************************)
AvoidingPath ==
  [v \in Node |-> scc_adjacency[v] \ (OnPath \ {least})]

BlockedIsHopeless ==
  Running => \A v \in blocked \ OnPath : ~Reaches(AvoidingPath, v, least)

Matching == CyclesThrough(scc_adjacency, least, required)

Reported == {cycles[i] : i \in DOMAIN cycles}

(***************************************************************************)
(* The contract _johnson relies on, and CycleSearch takes for granted.  A  *)
(* search that ends untruncated has reported every matching cycle, once; a *)
(* truncated one exactly max_cycles of them, and there was one more.       *)
(***************************************************************************)
SearchContract ==
  Finished => /\ Cardinality(Reported) = Len(cycles)
              /\ [cycles |-> Reported, truncated |-> truncated]
                   \in SearchResults(Matching, max_cycles)

Terminates == <>Finished
=============================================================================
