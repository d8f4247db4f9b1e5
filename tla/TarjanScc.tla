----------------------------- MODULE TarjanScc -----------------------------
(***************************************************************************)
(* The iterative depth-first search of topology/_cycle_algorithms.py,      *)
(* _tarjan: one action per loop iteration.  A node stands for a NodeId and *)
(* its number for its place in the order of node_sort_key, so that a       *)
(* sorted iteration takes the least number first.                          *)
(*                                                                         *)
(* Node is vertex_set: both callers pass an adjacency that does not leave  *)
(* the vertices they pass, so the filter on vertex_set selects everything. *)
(***************************************************************************)
EXTENDS Integers, Sequences, DirectedGraph

CONSTANT Graph           \* the graphs a search may be given

ASSUME NodeAssumption == Node \subseteq Nat
ASSUME GraphAssumption == Graph \subseteq Adjacencies

VARIABLES
  adj,                   \* the adjacency, constant during a search
  components,            \* the components yielded so far
  index,                 \* discovery number, or Unindexed
  lowlink,               \* least number known to be reached on the stack
  index_counter,         \* the next discovery number
  tarjan_stack,          \* discovered nodes of components not yet yielded
  on_stack,              \* the same nodes, as a set
  work,                  \* the nodes of the suspended frames, outermost first
  children               \* what is left of the iterator of a node's frame

vars == <<adj, components, index, lowlink, index_counter, tarjan_stack,
           on_stack, work, children>>

Unindexed == -1
Indexed == {v \in Node : index[v] # Unindexed}

Least(v, S) == v \in S /\ \A u \in S : v <= u
Smaller(a, b) == IF a <= b THEN a ELSE b
Top == work[Len(work)]
Parent == work[Len(work) - 1]
Frames == {work[i] : i \in DOMAIN work}

Init ==
  /\ adj \in Graph
  /\ components = {}
  /\ index = [v \in Node |-> Unindexed]
  /\ lowlink = [v \in Node |-> Unindexed]
  /\ index_counter = 0
  /\ tarjan_stack = <<>>
  /\ on_stack = {}
  /\ work = <<>>
  /\ children = [v \in Node |-> {}]

-----------------------------------------------------------------------------
(* Number v and open a frame for it on the stacks. *)
Discover(v) ==
  /\ index' = [index EXCEPT ![v] = index_counter]
  /\ lowlink' = [lowlink EXCEPT ![v] = index_counter]
  /\ index_counter' = index_counter + 1
  /\ tarjan_stack' = Append(tarjan_stack, v)
  /\ on_stack' = on_stack \cup {v}
  /\ work' = Append(work, v)
  /\ UNCHANGED <<adj, components>>

(* The outer loop: the next start that no earlier search has numbered. *)
StartRoot ==
  /\ work = <<>>
  /\ \E v \in Node :
       /\ Least(v, Node \ Indexed)
       /\ Discover(v)
       /\ children' = [children EXCEPT ![v] = adj[v]]

(* The top frame takes its next child c. *)
NextChild(c) ==
  /\ work # <<>>
  /\ Least(c, children[Top])

Descend ==
  \E c \in Node :
    /\ NextChild(c)
    /\ c \notin Indexed
    /\ Discover(c)
    /\ children' = [children EXCEPT ![Top] = @ \ {c}, ![c] = adj[c]]

(* Faulty LowerLink: a sealed node lowers it, too. *)
LowerLinkAlways ==
  \E c \in Node :
    /\ NextChild(c)
    /\ c \in Indexed
    /\ lowlink' = [lowlink EXCEPT ![Top] = Smaller(@, index[c])]
    /\ children' = [children EXCEPT ![Top] = @ \ {c}]
    /\ UNCHANGED <<adj, components, index, index_counter, tarjan_stack,
                   on_stack, work>>

(* Faulty LowerLink: a back edge is looked at and forgotten. *)
LowerLinkNever ==
  \E c \in Node :
    /\ NextChild(c)
    /\ c \in Indexed /\ c \in on_stack
    /\ children' = [children EXCEPT ![Top] = @ \ {c}]
    /\ UNCHANGED <<adj, components, index, lowlink, index_counter,
                   tarjan_stack, on_stack, work>>

LowerLink ==
  \E c \in Node :
    /\ NextChild(c)
    /\ c \in Indexed /\ c \in on_stack
    /\ lowlink' = [lowlink EXCEPT ![Top] = Smaller(@, index[c])]
    /\ children' = [children EXCEPT ![Top] = @ \ {c}]
    /\ UNCHANGED <<adj, components, index, index_counter, tarjan_stack,
                   on_stack, work>>

(* Faulty SkipSealed: the iterator does not advance. *)
SkipSealedForever ==
  \E c \in Node :
    /\ NextChild(c)
    /\ c \in Indexed /\ c \notin on_stack
    /\ UNCHANGED vars

(* A completed child belongs to a component that is already sealed. *)
SkipSealed ==
  \E c \in Node :
    /\ NextChild(c)
    /\ c \in Indexed /\ c \notin on_stack
    /\ children' = [children EXCEPT ![Top] = @ \ {c}]
    /\ UNCHANGED <<adj, components, index, lowlink, index_counter,
                   tarjan_stack, on_stack, work>>

(* Faulty PopFrame: the parent does not learn the lowlink. *)
PopFrameAlone ==
  /\ work # <<>> /\ children[Top] = {}
  /\ work' = SubSeq(work, 1, Len(work) - 1)
  /\ UNCHANGED <<adj, index, lowlink, index_counter, children>>

(* The exhausted top frame is popped and hands its lowlink to its parent. *)
PopFrame ==
  /\ work # <<>> /\ children[Top] = {}
  /\ work' = SubSeq(work, 1, Len(work) - 1)
  /\ lowlink' = IF Len(work) = 1 THEN lowlink
                ELSE [lowlink EXCEPT ![Parent] = Smaller(@, lowlink[Top])]
  /\ UNCHANGED <<adj, index, index_counter, children>>

Return ==
  /\ PopFrame
  /\ lowlink[Top] # index[Top]
  /\ UNCHANGED <<components, tarjan_stack, on_stack>>

(* The popped node is a root: the stack is unwound down to it, and what    *)
(* comes off is yielded as one component.                                  *)
Seal ==
  /\ PopFrame
  /\ lowlink[Top] = index[Top]
  /\ \E k \in DOMAIN tarjan_stack :
       LET C == {tarjan_stack[i] : i \in k .. Len(tarjan_stack)} IN
       /\ tarjan_stack[k] = Top
       /\ tarjan_stack' = SubSeq(tarjan_stack, 1, k - 1)
       /\ on_stack' = on_stack \ C
       /\ components' = components \cup {C}

Next ==
  StartRoot \/ Descend \/ LowerLink \/ SkipSealed \/ Return \/ Seal

Exhausted == work = <<>> /\ Indexed = Node

(* The generator runs alone: nothing but its own steps is waited for. *)
Spec == Init /\ [][Next]_vars /\ WF_vars(Next)

-----------------------------------------------------------------------------
TypeOK ==
  /\ adj \in Graph
  /\ components \subseteq SUBSET Node
  /\ index \in [Node -> Nat \cup {Unindexed}]
  /\ lowlink \in [Node -> Nat \cup {Unindexed}]
  /\ index_counter \in Nat
  /\ tarjan_stack \in Seq(Node)
  /\ on_stack \subseteq Node
  /\ work \in Seq(Node)
  /\ children \in [Node -> SUBSET Node]

Sealed == UNION components

(***************************************************************************)
(* The two stacks agree: on_stack is the content of tarjan_stack, which    *)
(* holds each node once in the order of discovery; every numbered node is  *)
(* either on it or in a yielded component; and the suspended frames are    *)
(* nodes of the stack, oldest first.                                       *)
(***************************************************************************)
StacksAgree ==
  /\ \A v \in Indexed : index[v] < index_counter
  /\ on_stack = {tarjan_stack[i] : i \in DOMAIN tarjan_stack}
  /\ \A i, j \in DOMAIN tarjan_stack :
       i < j => index[tarjan_stack[i]] < index[tarjan_stack[j]]
  /\ \A i, j \in DOMAIN work : i < j => index[work[i]] < index[work[j]]
  /\ Frames \subseteq on_stack
  /\ on_stack \cap Sealed = {}
  /\ on_stack \cup Sealed = Indexed

(***************************************************************************)
(* The stack is held together by the frames: a frame reaches every stack   *)
(* node discovered after it, and every stack node reaches a frame no       *)
(* younger than itself.  So a stack node never waits for a root that has   *)
(* already been popped.                                                    *)
(***************************************************************************)
StackConnected ==
  /\ \A f \in Frames, u \in on_stack :
       index[f] <= index[u] => Reaches(adj, f, u)
  /\ \A u \in on_stack :
       \E f \in Frames : index[f] <= index[u] /\ Reaches(adj, u, f)

(***************************************************************************)
(* The lowlink of a frame is the number of a stack node it reaches, and it *)
(* is low enough: no successor already taken from the nodes the frame owns *)
(* (those no later frame precedes) lies below it on the stack.             *)
(***************************************************************************)
Owns(f, u) ==
  /\ index[f] <= index[u]
  /\ \A g \in Frames : index[g] <= index[u] => index[g] <= index[f]

LowlinkExact ==
  /\ \A f \in Frames :
       \E u \in on_stack : /\ lowlink[f] = index[u]
                           /\ index[u] <= index[f]
                           /\ Reaches(adj, f, u)
  /\ \A f \in Frames, u \in on_stack :
       Owns(f, u) => \A c \in adj[u] \ children[u] :
                        c \in Sealed \/ (c \in on_stack /\ lowlink[f] <= index[c])

(***************************************************************************)
(* No edge leads out of what has been yielded, and only a suspended frame  *)
(* has children left to look at.                                           *)
(***************************************************************************)
SealedIsFinal ==
  /\ Closed(adj, Sealed)
  /\ \A v \in Node : children[v] \subseteq adj[v]
  /\ \A v \in Node \ Frames : children[v] = {}

(* Every yielded component is a strongly connected component, whole. *)
ComponentsAreSccs == \A C \in components : \E v \in C : C = SccOf(adj, v)

(***************************************************************************)
(* All of these together are inductive: a sealed component is exact        *)
(* because the lowlink of its root is, and that rests on the frames        *)
(* holding the stack together.                                             *)
(***************************************************************************)
SearchInv ==
  /\ TypeOK
  /\ StacksAgree
  /\ SealedIsFinal
  /\ StackConnected
  /\ LowlinkExact
  /\ ComponentsAreSccs

(***************************************************************************)
(* What the yielded components are when the generator is exhausted: the    *)
(* partition of all the nodes into strongly connected components.          *)
(***************************************************************************)
CompletePartition ==
  Exhausted => components = {SccOf(adj, v) : v \in Node}

(* Components come out whole, each once, and after all they reach. *)
Scc == INSTANCE SccPartition
YieldsInOrder == Scc!Spec

(* The search of any graph ends. *)
Terminates == <>Exhausted
=============================================================================
