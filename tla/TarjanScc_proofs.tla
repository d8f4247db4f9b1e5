-------------------------- MODULE TarjanScc_proofs --------------------------
(***************************************************************************)
(* Proofs about the component search, for every finite or infinite set of  *)
(* numbered nodes and every set of graphs on them.                         *)
(***************************************************************************)
EXTENDS TarjanScc, TLAPS

-----------------------------------------------------------------------------
(* Reachability: reflexive, transitive, holds along an edge, and never     *)
(* leaves a closed set.                                                    *)

LEMMA ReachesSelf ==
  ASSUME NEW g, NEW a
  PROVE  Reaches(g, a, a)
BY DEF Reaches

LEMMA ReachesTrans ==
  ASSUME NEW g, NEW a, NEW b, NEW c,
         Reaches(g, a, b), Reaches(g, b, c)
  PROVE  Reaches(g, a, c)
BY DEF Reaches

LEMMA ReachesEdge ==
  ASSUME NEW g, NEW a, NEW b, b \in g[a]
  PROVE  Reaches(g, a, b)
BY DEF Reaches, Closed

LEMMA ReachesStaysInClosed ==
  ASSUME NEW g, NEW S \in SUBSET Node, Closed(g, S),
         NEW a \in S, NEW b, Reaches(g, a, b)
  PROVE  b \in S
BY DEF Reaches

-----------------------------------------------------------------------------
(* Every variable keeps its type. *)

LEMMA InitType == Init => TypeOK
<1>1. Unindexed \in Nat \cup {Unindexed}
  OBVIOUS
<1> QED
  BY <1>1, GraphAssumption DEF Init, TypeOK

LEMMA DiscoverType ==
  ASSUME TypeOK, NEW v \in Node, Discover(v)
  PROVE  /\ adj' \in Graph
         /\ components' \subseteq SUBSET Node
         /\ index' \in [Node -> Nat \cup {Unindexed}]
         /\ lowlink' \in [Node -> Nat \cup {Unindexed}]
         /\ index_counter' \in Nat
         /\ tarjan_stack' \in Seq(Node)
         /\ on_stack' \subseteq Node
         /\ work' \in Seq(Node)
BY DEF TypeOK, Discover

LEMMA TopType ==
  ASSUME TypeOK, work # <<>>
  PROVE  /\ Len(work) \in Nat \ {0}
         /\ Top \in Node
         /\ Len(work) > 1 => Parent \in Node
BY DEF TypeOK, Top, Parent

LEMMA PopFrameType ==
  ASSUME TypeOK, PopFrame
  PROVE  /\ work' \in Seq(Node)
         /\ lowlink' \in [Node -> Nat \cup {Unindexed}]
<1>1. work' \in Seq(Node)
  BY DEF TypeOK, PopFrame
<1>2. lowlink' \in [Node -> Nat \cup {Unindexed}]
  <2>1. CASE Len(work) = 1
    BY <2>1 DEF TypeOK, PopFrame
  <2>2. CASE Len(work) # 1
    <3>1. Top \in Node /\ Len(work) \in Nat \ {0} /\ (Len(work) > 1 => Parent \in Node)
      BY TopType DEF PopFrame
    <3>4. Parent \in Node
      BY <2>2, <3>1
    <3>2. Smaller(lowlink[Parent], lowlink[Top]) \in Nat \cup {Unindexed}
      BY <3>1, <3>4 DEF TypeOK, Smaller
    <3>3. lowlink' = [lowlink EXCEPT ![Parent] =
                        Smaller(lowlink[Parent], lowlink[Top])]
      BY <2>2 DEF PopFrame
    <3> QED BY <3>1, <3>4, <3>2, <3>3 DEF TypeOK
  <2> QED BY <2>1, <2>2
<1> QED BY <1>1, <1>2

LEMMA NextType == TypeOK /\ [Next]_vars => TypeOK'
<1> SUFFICES ASSUME TypeOK, [Next]_vars PROVE TypeOK'
  OBVIOUS
<1>0. adj \in [Node -> SUBSET Node]
  BY GraphAssumption DEF TypeOK, Adjacencies
<1>1. CASE StartRoot
  BY <1>0, <1>1, DiscoverType DEF StartRoot, TypeOK
<1>2. CASE Descend
  <2>1. PICK c \in Node : /\ Discover(c)
                          /\ children' = [children EXCEPT ![Top] = @ \ {c},
                                                          ![c] = adj[c]]
    BY <1>2 DEF Descend
  <2>2. children' \in [Node -> SUBSET Node]
    BY <1>0, <2>1 DEF TypeOK
  <2> QED BY <2>1, <2>2, DiscoverType DEF TypeOK
<1>3. CASE LowerLink
  <2>1. PICK c \in Node :
          /\ NextChild(c)
          /\ lowlink' = [lowlink EXCEPT ![Top] = Smaller(@, index[c])]
          /\ children' = [children EXCEPT ![Top] = @ \ {c}]
    BY <1>3 DEF LowerLink
  <2>2. Top \in Node
    BY <2>1, TopType DEF NextChild
  <2>3. Smaller(lowlink[Top], index[c]) \in Nat \cup {Unindexed}
    BY <2>2 DEF TypeOK, Smaller
  <2>4. /\ children' \in [Node -> SUBSET Node]
        /\ lowlink' \in [Node -> Nat \cup {Unindexed}]
    BY <2>1, <2>2, <2>3 DEF TypeOK
  <2> QED BY <1>3, <2>4 DEF LowerLink, TypeOK
<1>4. CASE SkipSealed
  <2>1. PICK c \in Node : /\ NextChild(c)
                          /\ children' = [children EXCEPT ![Top] = @ \ {c}]
    BY <1>4 DEF SkipSealed
  <2>2. Top \in Node
    BY <2>1, TopType DEF NextChild
  <2>3. children' \in [Node -> SUBSET Node]
    BY <2>1, <2>2 DEF TypeOK
  <2> QED BY <1>4, <2>3 DEF SkipSealed, TypeOK
<1>5. CASE Return
  <2>1. PopFrame
    BY <1>5 DEF Return
  <2> QED BY <1>5, <2>1, PopFrameType DEF Return, PopFrame, TypeOK
<1>6. CASE Seal
  <2>1. PopFrame
    BY <1>6 DEF Seal
  <2>2. PICK k \in DOMAIN tarjan_stack :
          LET C == {tarjan_stack[i] : i \in k .. Len(tarjan_stack)} IN
          /\ tarjan_stack[k] = Top
          /\ tarjan_stack' = SubSeq(tarjan_stack, 1, k - 1)
          /\ on_stack' = on_stack \ C
          /\ components' = components \cup {C}
    BY <1>6 DEF Seal
  <2>3. tarjan_stack' \in Seq(Node)
    BY <2>2 DEF TypeOK
  <2>4. {tarjan_stack[i] : i \in k .. Len(tarjan_stack)} \subseteq Node
    BY <2>2 DEF TypeOK
  <2>5. components' \subseteq SUBSET Node /\ on_stack' \subseteq Node
    BY <2>2, <2>4 DEF TypeOK
  <2> QED BY <2>1, <2>3, <2>5, PopFrameType DEF PopFrame, TypeOK
<1>7. CASE UNCHANGED vars
  BY <1>7 DEF vars, TypeOK
<1> QED
  BY <1>1, <1>2, <1>3, <1>4, <1>5, <1>6, <1>7 DEF Next

(***************************************************************************)
(* In every reachable state of the search each variable has its type.      *)
(***************************************************************************)
THEOREM TypeCorrect == Spec => []TypeOK
BY InitType, NextType, PTL DEF Spec
-----------------------------------------------------------------------------
(* The two stacks: what an action does to them as sets. *)

LEMMA StackIndexInjective ==
  ASSUME TypeOK, StacksAgree,
         NEW u \in on_stack, NEW w \in on_stack, index[u] = index[w]
  PROVE  u = w
<1>1. PICK i \in DOMAIN tarjan_stack : u = tarjan_stack[i]
  BY DEF StacksAgree
<1>2. PICK j \in DOMAIN tarjan_stack : w = tarjan_stack[j]
  BY DEF StacksAgree
<1>3. i \in Int /\ j \in Int /\ index[u] \in Int
  BY <1>1, <1>2 DEF TypeOK, Unindexed
<1>4. ~(i < j) /\ ~(j < i)
  BY <1>1, <1>2, <1>3 DEF StacksAgree
<1> QED BY <1>1, <1>2, <1>3, <1>4

LEMMA OnStackIndexed ==
  ASSUME TypeOK, StacksAgree
  PROVE  /\ \A u \in on_stack : u \in Node /\ index[u] \in Nat
         /\ \A u \in on_stack : index[u] < index_counter
         /\ \A f \in Frames : f \in on_stack
BY DEF TypeOK, StacksAgree, Indexed

LEMMA TopIsYoungest ==
  ASSUME TypeOK, StacksAgree, work # <<>>
  PROVE  /\ Top \in Frames
         /\ \A f \in Frames : index[f] <= index[Top]
         /\ \A f \in Frames : f # Top => index[f] < index[Top]
<1>1. Len(work) \in DOMAIN work /\ Len(work) \in Nat
  BY DEF TypeOK
<1>2. ASSUME NEW f \in Frames, f # Top PROVE index[f] < index[Top]
  <2>1. PICK i \in DOMAIN work : f = work[i]
    BY DEF Frames
  <2>2. i \in Nat /\ i < Len(work)
    BY <1>2, <2>1, <1>1 DEF TypeOK, Top
  <2> QED BY <1>1, <2>1, <2>2 DEF StacksAgree, Top
<1>3. index[Top] \in Nat /\ \A f \in Frames : index[f] \in Nat
  BY <1>1, OnStackIndexed DEF Frames, Top
<1> QED BY <1>1, <1>2, <1>3 DEF Frames, Top

LEMMA DiscoverStacks ==
  ASSUME TypeOK, StacksAgree, NEW v \in Node, v \notin Indexed, Discover(v)
  PROVE  /\ StacksAgree'
         /\ Frames' = Frames \cup {v}
         /\ Top' = v
         /\ index'[v] = index_counter /\ lowlink'[v] = index_counter
         /\ \A u \in Node \ {v} : index'[u] = index[u] /\ lowlink'[u] = lowlink[u]
         /\ v \notin on_stack /\ v \notin Frames /\ v \notin Sealed
<1>1. v \notin on_stack /\ v \notin Frames /\ v \notin Sealed
  BY OnStackIndexed DEF StacksAgree
<1>2. /\ index'[v] = index_counter /\ lowlink'[v] = index_counter
      /\ \A u \in Node \ {v} : index'[u] = index[u] /\ lowlink'[u] = lowlink[u]
  BY DEF Discover, TypeOK
<1>3. /\ Len(work') = Len(work) + 1 /\ Len(work) \in Nat
      /\ \A i \in 1 .. Len(work) : work'[i] = work[i]
      /\ work'[Len(work) + 1] = v
      /\ DOMAIN work = 1 .. Len(work) /\ DOMAIN work' = 1 .. Len(work) + 1
  BY DEF Discover, TypeOK
<1>4. /\ Len(tarjan_stack') = Len(tarjan_stack) + 1 /\ Len(tarjan_stack) \in Nat
      /\ \A i \in 1 .. Len(tarjan_stack) : tarjan_stack'[i] = tarjan_stack[i]
      /\ tarjan_stack'[Len(tarjan_stack) + 1] = v
      /\ DOMAIN tarjan_stack = 1 .. Len(tarjan_stack)
      /\ DOMAIN tarjan_stack' = 1 .. Len(tarjan_stack) + 1
  BY DEF Discover, TypeOK
<1>5. Frames' = Frames \cup {v}
  <2>1. \A i \in DOMAIN work' : work'[i] \in Frames \cup {v}
    BY <1>3 DEF Frames
  <2>2. \A f \in Frames \cup {v} : \E i \in DOMAIN work' : f = work'[i]
    BY <1>3 DEF Frames
  <2> QED BY <2>1, <2>2 DEF Frames
<1>6. Top' = v
  BY <1>3 DEF Top
<1>7. on_stack' = {tarjan_stack'[i] : i \in DOMAIN tarjan_stack'}
  <2>1. \A i \in DOMAIN tarjan_stack' : tarjan_stack'[i] \in on_stack'
    BY <1>4 DEF StacksAgree, Discover
  <2>2. \A u \in on_stack' : \E i \in DOMAIN tarjan_stack' : u = tarjan_stack'[i]
    BY <1>4 DEF StacksAgree, Discover
  <2> QED BY <2>1, <2>2
<1>8. /\ \A u \in on_stack : u # v /\ u \in Node /\ index[u] \in Nat
      /\ \A u \in on_stack : index'[u] = index[u] /\ index[u] < index_counter
      /\ index_counter \in Nat
  BY <1>1, <1>2, OnStackIndexed DEF TypeOK
<1>9. \A i, j \in DOMAIN tarjan_stack' :
        i < j => index'[tarjan_stack'[i]] < index'[tarjan_stack'[j]]
  BY <1>2, <1>4, <1>8 DEF StacksAgree
<1>10. \A i, j \in DOMAIN work' : i < j => index'[work'[i]] < index'[work'[j]]
  <2>1. \A i \in DOMAIN work : work[i] \in on_stack
    BY DEF StacksAgree, Frames
  <2> QED BY <1>2, <1>3, <1>8, <2>1 DEF StacksAgree
<1>11. Indexed' = Indexed \cup {v}
  BY <1>2 DEF Indexed, TypeOK, Unindexed
<1>12. /\ Sealed' = Sealed
       /\ on_stack' = on_stack \cup {v}
       /\ index_counter' = index_counter + 1
  BY DEF Sealed, Discover
<1>13. \A u \in Indexed' : index'[u] < index_counter'
  BY <1>2, <1>8, <1>11, <1>12 DEF StacksAgree, TypeOK, Indexed, Unindexed
<1>14. StacksAgree'
  BY <1>1, <1>5, <1>7, <1>9, <1>10, <1>11, <1>12, <1>13 DEF StacksAgree
<1> QED BY <1>1, <1>2, <1>5, <1>6, <1>14

LEMMA PopFrameStacks ==
  ASSUME TypeOK, StacksAgree, PopFrame
  PROVE  /\ Frames' = Frames \ {Top}
         /\ \A i \in DOMAIN work' : i \in DOMAIN work /\ work'[i] = work[i]
         /\ Len(work) = 1 => Frames' = {}
         /\ Len(work) # 1 => /\ Parent \in Frames'
                             /\ \A f \in Frames' : index[f] <= index[Parent]
<1>1. /\ Len(work) \in Nat \ {0} /\ DOMAIN work = 1 .. Len(work)
      /\ DOMAIN work' = 1 .. Len(work) - 1
      /\ \A i \in 1 .. Len(work) - 1 : work'[i] = work[i]
  BY DEF TypeOK, PopFrame
<1>2. \A i \in 1 .. Len(work) - 1 : work[i] \in Frames /\ index[work[i]] < index[Top]
  BY <1>1 DEF StacksAgree, Top, Frames
<1>3. \A f \in Frames : index[f] \in Nat
  BY OnStackIndexed
<1>4. Top \in Frames
  BY <1>1 DEF Frames, Top
<1>5. \A i \in 1 .. Len(work) - 1 : work[i] # Top
  BY <1>2, <1>3, <1>4
<1>6. Frames' = Frames \ {Top}
  <2>1. \A i \in DOMAIN work' : work'[i] \in Frames \ {Top}
    BY <1>1, <1>2, <1>5
  <2>2. \A f \in Frames \ {Top} : \E i \in DOMAIN work' : f = work'[i]
    <3> SUFFICES ASSUME NEW f \in Frames \ {Top}
                 PROVE  \E i \in DOMAIN work' : f = work'[i]
      OBVIOUS
    <3>1. PICK i \in 1 .. Len(work) : f = work[i]
      BY <1>1 DEF Frames
    <3>2. i # Len(work)
      BY <3>1 DEF Top
    <3>3. Len(work) \in Nat
      BY <1>1
    <3>4. i \in 1 .. Len(work) - 1
      BY <3>2, <3>3
    <3> QED BY <1>1, <3>1, <3>4
  <2> QED BY <2>1, <2>2 DEF Frames
<1>7. Len(work) = 1 => Frames' = {}
  BY <1>1 DEF Frames
<1>8. ASSUME Len(work) # 1
      PROVE  Parent \in Frames' /\ \A f \in Frames' : index[f] <= index[Parent]
  <2>1. Len(work) - 1 \in DOMAIN work' /\ Parent = work'[Len(work) - 1]
    BY <1>1, <1>8 DEF Parent
  <2>2. Parent \in Frames'
    BY <2>1 DEF Frames
  <2>3. ASSUME NEW f \in Frames' PROVE index[f] <= index[Parent]
    <3>1. PICK i \in DOMAIN work' : f = work'[i]
      BY DEF Frames
    <3>2. CASE i = Len(work) - 1
      BY <1>3, <1>6, <2>1, <2>2, <3>1, <3>2
    <3>3. CASE i # Len(work) - 1
      <4>1. index[work[i]] < index[work[Len(work) - 1]]
        BY <1>1, <1>8, <3>1, <3>3 DEF StacksAgree
      <4> QED BY <1>1, <1>3, <1>6, <2>1, <2>2, <3>1, <4>1
    <3> QED BY <3>2, <3>3
  <2> QED BY <2>2, <2>3
<1> QED BY <1>1, <1>6, <1>7, <1>8
(* What comes off the stack when the root t is sealed: the nodes that were *)
(* discovered no earlier than t.                                           *)
LEMMA SealStacks ==
  ASSUME TypeOK, StacksAgree, Seal
  PROVE  LET C == {u \in on_stack : index[Top] <= index[u]} IN
         /\ StacksAgree'
         /\ on_stack' = on_stack \ C
         /\ components' = components \cup {C}
         /\ Sealed' = Sealed \cup C
<1> DEFINE C == {u \in on_stack : index[Top] <= index[u]}
           n == Len(tarjan_stack)
<1>1. PICK k \in DOMAIN tarjan_stack :
        LET D == {tarjan_stack[i] : i \in k .. Len(tarjan_stack)} IN
        /\ tarjan_stack[k] = Top
        /\ tarjan_stack' = SubSeq(tarjan_stack, 1, k - 1)
        /\ on_stack' = on_stack \ D
        /\ components' = components \cup {D}
  BY DEF Seal
<1>2. PopFrame
  BY DEF Seal
<1>3. n \in Nat /\ k \in 1 .. n /\ DOMAIN tarjan_stack = 1 .. n
  BY DEF TypeOK
<1>4. \A i \in 1 .. n : tarjan_stack[i] \in on_stack /\ index[tarjan_stack[i]] \in Nat
  BY <1>3, OnStackIndexed DEF StacksAgree
<1>5. C = {tarjan_stack[i] : i \in k .. n}
  <2>1. ASSUME NEW i \in k .. n PROVE tarjan_stack[i] \in C
    <3>1. CASE i = k
      BY <1>1, <1>3, <1>4, <3>1
    <3>2. CASE i # k
      <4>1. index[tarjan_stack[k]] < index[tarjan_stack[i]]
        BY <1>3, <3>2 DEF StacksAgree
      <4> QED BY <1>1, <1>3, <1>4, <4>1
    <3> QED BY <3>1, <3>2
  <2>2. ASSUME NEW u \in C PROVE \E i \in k .. n : u = tarjan_stack[i]
    <3>1. PICK i \in 1 .. n : u = tarjan_stack[i]
      BY <1>3 DEF StacksAgree
    <3>2. CASE i < k
      <4>1. index[tarjan_stack[i]] < index[tarjan_stack[k]]
        BY <1>3, <3>2 DEF StacksAgree
      <4> QED BY <1>1, <1>3, <1>4, <3>1, <4>1
    <3>3. CASE ~(i < k)
      <4>1. i \in k .. n
        BY <1>3, <3>3
      <4> QED BY <3>1, <4>1
    <3> QED BY <3>2, <3>3
  <2> QED BY <2>1, <2>2
<1>6. on_stack' = on_stack \ C /\ components' = components \cup {C}
  BY <1>1, <1>5
<1>7. Sealed' = Sealed \cup C
  BY <1>6 DEF Sealed
<1>8. /\ DOMAIN tarjan_stack' = 1 .. k - 1
      /\ \A i \in 1 .. k - 1 : tarjan_stack'[i] = tarjan_stack[i]
  BY <1>1, <1>3 DEF TypeOK
<1>9. \A i \in 1 .. k - 1 : index[tarjan_stack[i]] < index[Top]
  BY <1>1, <1>3 DEF StacksAgree
<1>10. on_stack' = {tarjan_stack'[i] : i \in DOMAIN tarjan_stack'}
  <2>1. ASSUME NEW i \in DOMAIN tarjan_stack' PROVE tarjan_stack'[i] \in on_stack'
    <3>1. i \in 1 .. n /\ tarjan_stack'[i] = tarjan_stack[i]
      BY <1>3, <1>8
    <3>2. tarjan_stack[k] = Top /\ index[Top] \in Nat
      BY <1>1, <1>3, <1>4
    <3>3. ~(index[Top] <= index[tarjan_stack[i]])
      BY <1>4, <1>8, <1>9, <3>1, <3>2
    <3> QED BY <1>4, <1>6, <3>1, <3>3
  <2>2. ASSUME NEW u \in on_stack'
        PROVE  \E i \in DOMAIN tarjan_stack' : u = tarjan_stack'[i]
    <3>1. PICK i \in 1 .. n : u = tarjan_stack[i]
      BY <1>3, <1>6 DEF StacksAgree
    <3>2. ~(i \in k .. n)
      BY <1>5, <1>6, <3>1
    <3>3. i \in 1 .. k - 1
      BY <1>3, <3>2
    <3> QED BY <1>8, <3>1, <3>3
  <2> QED BY <2>1, <2>2
<1>11. index' = index /\ index_counter' = index_counter /\ Indexed' = Indexed
  BY <1>2 DEF PopFrame, Indexed
<1>12. \A i, j \in DOMAIN tarjan_stack' :
         i < j => index'[tarjan_stack'[i]] < index'[tarjan_stack'[j]]
  BY <1>3, <1>8, <1>11 DEF StacksAgree
<1>13. \A i, j \in DOMAIN work' : i < j => index'[work'[i]] < index'[work'[j]]
  BY <1>2, <1>11, PopFrameStacks DEF StacksAgree
<1>14. Frames' \subseteq on_stack'
  <2>1. Frames' = Frames \ {Top}
    BY <1>2, PopFrameStacks
  <2>2. \A f \in Frames' : f \in on_stack /\ index[f] < index[Top]
    BY <1>2, <2>1, TopIsYoungest, OnStackIndexed DEF PopFrame
  <2>3. index[Top] \in Nat /\ \A f \in on_stack : index[f] \in Nat
    BY <1>1, <1>3, <1>4, OnStackIndexed
  <2>4. \A f \in Frames' : f \notin C
    BY <2>2, <2>3
  <2> QED BY <1>6, <2>2, <2>4
<1>15. C \subseteq on_stack
  OBVIOUS
<1>16. on_stack' \cap Sealed' = {} /\ on_stack' \cup Sealed' = Indexed'
  BY <1>6, <1>7, <1>11, <1>15 DEF StacksAgree
<1>17. \A v \in Indexed' : index'[v] < index_counter'
  BY <1>11 DEF StacksAgree
<1>18. StacksAgree'
  BY <1>10, <1>12, <1>13, <1>14, <1>16, <1>17 DEF StacksAgree
<1> QED BY <1>6, <1>7, <1>18

LEMMA ReturnStacks ==
  ASSUME TypeOK, StacksAgree, Return
  PROVE  StacksAgree'
<1>1. /\ PopFrame
      /\ UNCHANGED <<index, index_counter, components, tarjan_stack, on_stack>>
  BY DEF Return, PopFrame
<1>2. Frames' = Frames \ {Top} /\ Sealed' = Sealed /\ Indexed' = Indexed
  BY <1>1, PopFrameStacks DEF Sealed, Indexed
<1>3. \A i, j \in DOMAIN work' : i < j => index'[work'[i]] < index'[work'[j]]
  BY <1>1, PopFrameStacks DEF StacksAgree
<1> QED BY <1>1, <1>2, <1>3 DEF StacksAgree

LEMMA NextStacks ==
  TypeOK /\ StacksAgree /\ [Next]_vars => StacksAgree'
<1> SUFFICES ASSUME TypeOK, StacksAgree, [Next]_vars PROVE StacksAgree'
  OBVIOUS
<1>1. CASE StartRoot
  <2>1. PICK v \in Node : v \notin Indexed /\ Discover(v)
    BY <1>1 DEF StartRoot, Least
  <2> QED BY <2>1, DiscoverStacks
<1>2. CASE Descend
  <2>1. PICK c \in Node : c \notin Indexed /\ Discover(c)
    BY <1>2 DEF Descend
  <2> QED BY <2>1, DiscoverStacks
<1>3. CASE LowerLink \/ SkipSealed \/ UNCHANGED vars
  <2>1. UNCHANGED <<index, index_counter, components, tarjan_stack, on_stack, work>>
    BY <1>3 DEF LowerLink, SkipSealed, vars
  <2>2. Frames' = Frames /\ Sealed' = Sealed /\ Indexed' = Indexed
    BY <2>1 DEF Frames, Sealed, Indexed
  <2> QED BY <2>1, <2>2 DEF StacksAgree
<1>4. CASE Return
  BY <1>4, ReturnStacks
<1>5. CASE Seal
  BY <1>5, SealStacks
<1> QED
  BY <1>1, <1>2, <1>3, <1>4, <1>5 DEF Next

LEMMA InitStacks == Init => StacksAgree
BY DEF Init, StacksAgree, Frames, Indexed, Sealed

(***************************************************************************)
(* The list and the set that _tarjan keeps of its open nodes never differ, *)
(* and every numbered node is in exactly one of the stack and the sealed   *)
(* components.                                                             *)
(***************************************************************************)
THEOREM StacksAlwaysAgree == Spec => []StacksAgree
<1>1. Init => TypeOK /\ StacksAgree
  BY InitType, InitStacks
<1>2. TypeOK /\ StacksAgree /\ [Next]_vars => (TypeOK /\ StacksAgree)'
  BY NextType, NextStacks
<1> QED
  BY <1>1, <1>2, PTL DEF Spec
-----------------------------------------------------------------------------
(* The inductive invariant.  What makes a sealed component exact is that   *)
(* its root's lowlink is exact, and that in turn rests on the frames       *)
(* holding the stack together, so the parts are proved as one.             *)

LEMMA InitSearchInv == Init => SearchInv
<1> SUFFICES ASSUME Init PROVE SearchInv
  OBVIOUS
<1>1. TypeOK /\ StacksAgree
  BY InitType, InitStacks
<1>2. on_stack = {} /\ Frames = {} /\ Sealed = {}
  BY DEF Init, Frames, Sealed
<1>3. SealedIsFinal
  BY <1>2 DEF Init, SealedIsFinal, Closed
<1> QED
  BY <1>1, <1>2, <1>3
  DEF SearchInv, Init, StackConnected, LowlinkExact, ComponentsAreSccs

(* Without frames the stack is empty, so a new root starts from scratch.   *)
LEMMA NoFramesNoStack ==
  ASSUME StackConnected, work = <<>>
  PROVE  on_stack = {} /\ Frames = {}
<1>1. Frames = {}
  BY DEF Frames
<1> QED
  BY <1>1 DEF StackConnected

(* A frame's lowlink is a stack number, no higher than its own.            *)
LEMMA LowlinkRange ==
  ASSUME SearchInv, NEW f \in Frames
  PROVE  lowlink[f] \in Nat /\ lowlink[f] <= index[f] /\ index[f] \in Nat
BY OnStackIndexed DEF SearchInv, LowlinkExact

LEMMA StartRootStep ==
  ASSUME SearchInv, StartRoot
  PROVE  SealedIsFinal' /\ StackConnected' /\ LowlinkExact' /\ ComponentsAreSccs'
<1>1. PICK v \in Node : /\ v \notin Indexed /\ Discover(v)
                        /\ children' = [children EXCEPT ![v] = adj[v]]
  BY DEF StartRoot, Least
<1>2. work = <<>> /\ on_stack = {} /\ Frames = {}
  BY NoFramesNoStack DEF StartRoot, SearchInv
<1>3. /\ on_stack' = {v} /\ Frames' = {v} /\ lowlink'[v] = index'[v]
      /\ index'[v] \in Nat
      /\ adj' = adj /\ components' = components /\ Sealed' = Sealed
  BY <1>1, <1>2, DiscoverStacks DEF SearchInv, Discover, Sealed, TypeOK
<1>4. /\ children' \in [Node -> SUBSET Node]
      /\ children'[v] = adj[v]
      /\ \A u \in Node \ {v} : children'[u] = {}
  BY <1>1, <1>2, <1>3, NextType DEF SearchInv, SealedIsFinal, TypeOK, Next
<1>5. SealedIsFinal'
  BY <1>3, <1>4 DEF SearchInv, SealedIsFinal, Closed
<1>6. Reaches(adj, v, v)
  BY ReachesSelf
<1>7. StackConnected'
  BY <1>3, <1>6 DEF StackConnected
<1>8. LowlinkExact'
  BY <1>3, <1>4, <1>6 DEF LowlinkExact, Owns
<1>9. ComponentsAreSccs'
  BY <1>3 DEF SearchInv, ComponentsAreSccs
<1> QED BY <1>5, <1>7, <1>8, <1>9

LEMMA DescendStep ==
  ASSUME SearchInv, Descend
  PROVE  SealedIsFinal' /\ StackConnected' /\ LowlinkExact' /\ ComponentsAreSccs'
<1> USE DEF SearchInv
<1> DEFINE t == Top
<1>1. PICK c \in Node : /\ NextChild(c) /\ c \notin Indexed /\ Discover(c)
                        /\ children' = [children EXCEPT ![Top] = @ \ {c},
                                                        ![c] = adj[c]]
  BY DEF Descend
<1>2. /\ t \in Frames /\ t \in on_stack /\ t \in Node /\ t # c /\ c \in children[t]
      /\ \A f \in Frames : index[f] <= index[t]
  BY <1>1, TopIsYoungest, OnStackIndexed, DiscoverStacks DEF NextChild, Least
<1>3. c \in adj[t] /\ Reaches(adj, t, c)
  BY <1>2, ReachesEdge DEF SealedIsFinal
<1>4. /\ on_stack' = on_stack \cup {c} /\ Frames' = Frames \cup {c}
      /\ c \notin on_stack /\ c \notin Frames
      /\ adj' = adj /\ components' = components /\ Sealed' = Sealed
      /\ index'[c] = index_counter /\ lowlink'[c] = index_counter
  BY <1>1, DiscoverStacks DEF Discover, Sealed
<1>5. /\ index_counter \in Nat
      /\ \A u \in on_stack : /\ u \in Node /\ u # c
                             /\ index'[u] = index[u] /\ lowlink'[u] = lowlink[u]
                             /\ index[u] \in Nat /\ index[u] < index_counter
      /\ Frames \subseteq on_stack
  BY <1>1, <1>4, DiscoverStacks, OnStackIndexed DEF TypeOK
<1>6. /\ children'[c] = adj[c] /\ children'[t] = children[t] \ {c}
      /\ \A u \in Node \ {c, t} : children'[u] = children[u]
  BY <1>1, <1>2 DEF TypeOK
<1>7. SealedIsFinal'
  BY <1>2, <1>4, <1>6 DEF SealedIsFinal, Closed
<1>8. \A f \in Frames : Reaches(adj, f, c)
  <2> TAKE f \in Frames
  <2>1. Reaches(adj, f, t)
    BY <1>2 DEF StackConnected
  <2> QED BY <1>3, <2>1, ReachesTrans
<1>9. StackConnected'
  <2>1. ASSUME NEW f \in Frames', NEW u \in on_stack', index'[f] <= index'[u]
        PROVE  Reaches(adj, f, u)
    <3>1. CASE u = c
      BY <1>4, <1>8, <3>1, ReachesSelf
    <3>2. CASE u # c
      <4>1. f # c
        BY <1>4, <1>5, <2>1, <3>2
      <4> QED BY <1>4, <1>5, <2>1, <3>2, <4>1 DEF StackConnected
    <3> QED BY <3>1, <3>2
  <2>2. ASSUME NEW u \in on_stack'
        PROVE  \E f \in Frames' : index'[f] <= index'[u] /\ Reaches(adj, u, f)
    <3>1. CASE u = c
      BY <1>4, <1>5, <3>1, ReachesSelf
    <3>2. CASE u # c
      <4>1. PICK f \in Frames : index[f] <= index[u] /\ Reaches(adj, u, f)
        BY <1>4, <3>2 DEF StackConnected
      <4> QED BY <1>4, <1>5, <3>2, <4>1
    <3> QED BY <3>1, <3>2
  <2> QED BY <1>4, <2>1, <2>2 DEF StackConnected
<1>10. LowlinkExact'
  <2>1. ASSUME NEW f \in Frames'
        PROVE  \E u \in on_stack' : /\ lowlink'[f] = index'[u]
                                    /\ index'[u] <= index'[f]
                                    /\ Reaches(adj, f, u)
    <3>1. CASE f = c
      BY <1>4, <1>5, <3>1, ReachesSelf
    <3>2. CASE f # c
      <4>1. PICK u \in on_stack : /\ lowlink[f] = index[u]
                                 /\ index[u] <= index[f]
                                 /\ Reaches(adj, f, u)
        BY <1>4, <3>2 DEF LowlinkExact
      <4> QED BY <1>4, <1>5, <3>2, <4>1
    <3> QED BY <3>1, <3>2
  <2>2. ASSUME NEW f \in Frames', NEW u \in on_stack', Owns(f, u)',
               NEW b \in adj[u] \ children'[u]
        PROVE  b \in Sealed \/ (b \in on_stack' /\ lowlink'[f] <= index'[b])
    <3>1. u # c
      BY <1>6
    <3>2. u \in on_stack /\ u \in Node
      BY <1>4, <1>5, <3>1
    <3>3. f # c /\ f \in Frames
      BY <1>4, <1>5, <2>2, <3>2 DEF Owns
    <3>4. Owns(f, u)
      BY <1>4, <1>5, <2>2, <3>2, <3>3 DEF Owns
    <3>5. CASE u = t /\ b = c
      <4>1. f = t
        BY <1>2, <1>5, <3>3, <3>4, <3>5, StackIndexInjective DEF Owns
      <4>2. lowlink[t] <= index[t] /\ lowlink[t] \in Nat
        BY <1>2, LowlinkRange
      <4> QED BY <1>2, <1>4, <1>5, <3>5, <4>1, <4>2
    <3>6. CASE ~(u = t /\ b = c)
      <4>1. b \in adj[u] \ children[u]
        BY <1>6, <3>1, <3>2, <3>6
      <4>2. b \in Sealed \/ (b \in on_stack /\ lowlink[f] <= index[b])
        BY <3>2, <3>3, <3>4, <4>1 DEF LowlinkExact
      <4> QED BY <1>4, <1>5, <3>3, <4>2
    <3> QED BY <3>5, <3>6
  <2> QED BY <1>4, <2>1, <2>2 DEF LowlinkExact
<1>11. ComponentsAreSccs'
  BY <1>4 DEF ComponentsAreSccs
<1> QED BY <1>7, <1>9, <1>10, <1>11
(* A child already on the stack lowers the top frame's link; a sealed one  *)
(* is passed over.                                                         *)
LEMMA TakeChildStep ==
  ASSUME SearchInv, LowerLink \/ SkipSealed
  PROVE  SealedIsFinal' /\ StackConnected' /\ LowlinkExact' /\ ComponentsAreSccs'
<1> USE DEF SearchInv
<1> DEFINE t == Top
<1>1. PICK c \in Node :
        /\ NextChild(c)
        /\ children' = [children EXCEPT ![Top] = @ \ {c}]
        /\ \/ /\ c \in on_stack
              /\ lowlink' = [lowlink EXCEPT ![Top] = Smaller(@, index[c])]
           \/ c \in Sealed /\ lowlink' = lowlink
  BY DEF LowerLink, SkipSealed, StacksAgree
<1>2. /\ UNCHANGED <<adj, components, index, on_stack, work>>
      /\ Frames' = Frames /\ Sealed' = Sealed
  BY DEF LowerLink, SkipSealed, Frames, Sealed
<1>3. /\ t \in Frames /\ t \in on_stack /\ t \in Node /\ c \in children[t]
      /\ Frames \subseteq on_stack /\ on_stack \subseteq Node
      /\ \A u \in on_stack : index[u] \in Nat
  BY <1>1, TopIsYoungest, OnStackIndexed DEF NextChild, Least
<1>4. c \in adj[t] /\ Reaches(adj, t, c)
  BY <1>3, ReachesEdge DEF SealedIsFinal
<1>5. /\ children'[t] = children[t] \ {c}
      /\ \A u \in Node \ {t} : children'[u] = children[u]
  BY <1>1, <1>3 DEF TypeOK
<1>6. /\ \A f \in Frames \ {t} : lowlink'[f] = lowlink[f]
      /\ \/ lowlink'[t] = lowlink[t]
         \/ c \in on_stack /\ lowlink'[t] = index[c]
      /\ lowlink'[t] \in Nat /\ lowlink[t] \in Nat
      /\ lowlink'[t] <= lowlink[t] /\ lowlink[t] <= index[t]
      /\ c \in on_stack => lowlink'[t] <= index[c]
      /\ c \in Sealed \/ c \in on_stack
  <2>1. lowlink[t] \in Nat /\ lowlink[t] <= index[t]
    BY <1>3, LowlinkRange
  <2>2. CASE /\ c \in on_stack
             /\ lowlink' = [lowlink EXCEPT ![Top] = Smaller(@, index[c])]
    <3>1. lowlink'[t] = Smaller(lowlink[t], index[c])
      BY <1>3, <2>2 DEF TypeOK
    <3>2. \A f \in Frames \ {t} : lowlink'[f] = lowlink[f]
      BY <1>3, <2>2 DEF TypeOK
    <3> QED BY <1>3, <2>1, <2>2, <3>1, <3>2 DEF Smaller
  <2>3. CASE c \in Sealed /\ lowlink' = lowlink
    <3>1. c \notin on_stack
      BY <2>3 DEF StacksAgree
    <3> QED BY <2>1, <2>3, <3>1
  <2> QED BY <1>1, <2>2, <2>3
<1>7. SealedIsFinal'
  BY <1>2, <1>3, <1>5 DEF SealedIsFinal, Closed
<1>8. StackConnected'
  BY <1>2 DEF StackConnected
<1>9. LowlinkExact'
  <2>1. ASSUME NEW f \in Frames
        PROVE  \E u \in on_stack : /\ lowlink'[f] = index[u]
                                   /\ index[u] <= index[f]
                                   /\ Reaches(adj, f, u)
    <3>1. CASE lowlink'[f] = lowlink[f]
      BY <3>1 DEF LowlinkExact
    <3>2. CASE lowlink'[f] # lowlink[f]
      BY <1>3, <1>4, <1>6, <3>2
    <3> QED BY <3>1, <3>2
  <2>2. ASSUME NEW f \in Frames, NEW u \in on_stack, Owns(f, u),
               NEW b \in adj[u] \ children'[u]
        PROVE  b \in Sealed \/ (b \in on_stack /\ lowlink'[f] <= index[b])
    <3>0. lowlink'[f] \in Nat /\ lowlink'[f] <= lowlink[f] /\ lowlink[f] \in Nat
      BY <1>6, LowlinkRange
    <3>1. CASE u = t /\ b = c
      <4>1. f = t
        BY <1>3, <2>2, <3>1, TopIsYoungest, StackIndexInjective DEF Owns, NextChild
      <4> QED BY <1>3, <1>6, <3>1, <4>1
    <3>2. CASE ~(u = t /\ b = c)
      <4>1. b \in adj[u] \ children[u]
        BY <1>3, <1>5, <2>2, <3>2
      <4>2. b \in Sealed \/ (b \in on_stack /\ lowlink[f] <= index[b])
        BY <2>2, <4>1 DEF LowlinkExact
      <4> QED BY <1>3, <3>0, <4>2
    <3> QED BY <3>1, <3>2
  <2>3. \A f \in Frames, u \in on_stack : Owns(f, u)' <=> Owns(f, u)
    BY <1>2 DEF Owns
  <2> QED BY <1>2, <2>1, <2>2, <2>3 DEF LowlinkExact
<1>10. ComponentsAreSccs'
  BY <1>2 DEF ComponentsAreSccs
<1> QED BY <1>7, <1>8, <1>9, <1>10

(* The pop of the top frame, as far as Return and Seal share it.           *)
LEMMA PopFrameLinks ==
  ASSUME SearchInv, PopFrame
  PROVE  /\ Top \in Frames /\ Top \in on_stack /\ Top \in Node
         /\ Frames' = Frames \ {Top}
         /\ \A f \in Frames' : index[f] < index[Top]
         /\ \A f \in Frames' : \/ lowlink'[f] = lowlink[f]
                                \/ /\ f = Parent /\ lowlink'[f] = lowlink[Top]
                                   /\ lowlink[Top] < lowlink[f]
         /\ \A f \in Frames' : f = Parent => lowlink'[f] <= lowlink[Top]
         /\ Frames' # {} => /\ Parent \in Frames'
                            /\ \A f \in Frames' : index[f] <= index[Parent]
<1> USE DEF SearchInv
<1>1. work # <<>>
  BY DEF PopFrame
<1>2. /\ Top \in Frames /\ Top \in on_stack /\ Top \in Node
      /\ Frames' = Frames \ {Top}
      /\ \A f \in Frames' : index[f] < index[Top]
  BY <1>1, TopIsYoungest, PopFrameStacks, OnStackIndexed
<1>3. \A f \in Frames : f \in Node /\ lowlink[f] \in Nat
  BY LowlinkRange, OnStackIndexed
<1>4. CASE Len(work) = 1
  BY <1>2, <1>4, PopFrameStacks
<1>5. CASE Len(work) # 1
  <2>1. /\ Parent \in Frames' /\ Parent \in Frames
        /\ \A f \in Frames' : index[f] <= index[Parent]
    BY <1>2, <1>5, PopFrameStacks
  <2>2. lowlink' = [lowlink EXCEPT ![Parent] = Smaller(lowlink[Parent], lowlink[Top])]
    BY <1>5 DEF PopFrame
  <2>3. /\ lowlink'[Parent] = Smaller(lowlink[Parent], lowlink[Top])
        /\ \A f \in Frames' : f # Parent => lowlink'[f] = lowlink[f]
    BY <1>2, <1>3, <2>1, <2>2 DEF TypeOK
  <2>4. /\ lowlink'[Parent] <= lowlink[Top]
        /\ \/ lowlink'[Parent] = lowlink[Parent]
           \/ lowlink'[Parent] = lowlink[Top] /\ lowlink[Top] < lowlink[Parent]
    BY <1>2, <1>3, <2>1, <2>3 DEF Smaller
  <2> QED BY <1>2, <2>1, <2>3, <2>4
<1> QED BY <1>4, <1>5
(* A popped node that is not a root leaves its nodes to its parent.        *)
LEMMA ReturnStep ==
  ASSUME SearchInv, Return
  PROVE  SealedIsFinal' /\ StackConnected' /\ LowlinkExact' /\ ComponentsAreSccs'
<1> USE DEF SearchInv
<1> DEFINE t == Top
           p == Parent
<1>1. /\ PopFrame /\ lowlink[t] # index[t] /\ children[t] = {}
      /\ UNCHANGED <<adj, components, index, on_stack, children>>
      /\ Sealed' = Sealed
  BY DEF Return, PopFrame, Sealed
<1>2. /\ t \in Frames /\ t \in on_stack /\ t \in Node
      /\ Frames' = Frames \ {t}
      /\ \A f \in Frames' : index[f] < index[t]
      /\ \A f \in Frames' : \/ lowlink'[f] = lowlink[f]
                             \/ /\ f = p /\ lowlink'[f] = lowlink[t]
                                /\ lowlink[t] < lowlink[f]
      /\ \A f \in Frames' : f = p => lowlink'[f] <= lowlink[t]
      /\ Frames' # {} => p \in Frames' /\ \A f \in Frames' : index[f] <= index[p]
  BY <1>1, PopFrameLinks
<1>3. /\ \A u \in on_stack : index[u] \in Nat /\ u \in Node
      /\ \A f \in Frames : f \in on_stack
      /\ \A f \in Frames : lowlink[f] \in Nat /\ lowlink[f] <= index[f]
  BY OnStackIndexed, LowlinkRange
<1>4. PICK w \in on_stack : /\ lowlink[t] = index[w] /\ index[w] < index[t]
                            /\ Reaches(adj, t, w)
  BY <1>1, <1>2, <1>3 DEF LowlinkExact
<1>5. PICK g \in Frames : index[g] <= index[w] /\ Reaches(adj, w, g)
  BY DEF StackConnected
<1>6. g \in Frames' /\ Reaches(adj, t, g) /\ index[g] < index[t]
  BY <1>2, <1>3, <1>4, <1>5, ReachesTrans
<1>7. SealedIsFinal'
  BY <1>1, <1>2 DEF SealedIsFinal
<1>8. StackConnected'
  <2>1. ASSUME NEW u \in on_stack
        PROVE  \E f \in Frames' : index[f] <= index[u] /\ Reaches(adj, u, f)
    <3>1. PICK f \in Frames : index[f] <= index[u] /\ Reaches(adj, u, f)
      BY DEF StackConnected
    <3>2. CASE f = t
      <4>1. Reaches(adj, u, g)
        BY <1>6, <3>1, <3>2, ReachesTrans
      <4> QED BY <1>2, <1>3, <1>6, <3>1, <3>2, <4>1
    <3>3. CASE f # t
      BY <1>2, <3>1, <3>3
    <3> QED BY <3>2, <3>3
  <2> QED BY <1>1, <1>2, <2>1 DEF StackConnected
<1>9. LowlinkExact'
  <2>1. ASSUME NEW f \in Frames'
        PROVE  \E u \in on_stack : /\ lowlink'[f] = index[u]
                                   /\ index[u] <= index[f]
                                   /\ Reaches(adj, f, u)
    <3>1. CASE lowlink'[f] = lowlink[f]
      BY <1>2, <3>1 DEF LowlinkExact
    <3>2. CASE f = p /\ lowlink'[f] = lowlink[t] /\ lowlink[t] < lowlink[f]
      <4>1. Reaches(adj, f, t)
        BY <1>2, <1>3 DEF StackConnected
      <4>2. Reaches(adj, f, w)
        BY <1>4, <4>1, ReachesTrans
      <4> QED BY <1>2, <1>3, <1>4, <3>2, <4>2
    <3> QED BY <1>2, <3>1, <3>2
  <2>2. ASSUME NEW f \in Frames', NEW u \in on_stack, Owns(f, u)',
               NEW b \in adj[u] \ children[u]
        PROVE  b \in Sealed \/ (b \in on_stack /\ lowlink'[f] <= index[b])
    <3>0. lowlink'[f] \in Nat /\ lowlink'[f] <= lowlink[f]
      BY <1>2, <1>3
    <3>1. CASE Owns(f, u)
      <4>1. b \in Sealed \/ (b \in on_stack /\ lowlink[f] <= index[b])
        BY <1>2, <2>2, <3>1 DEF LowlinkExact
      <4> QED BY <1>2, <1>3, <3>0, <4>1
    <3>2. CASE ~Owns(f, u)
      <4>1. index[t] <= index[u]
        BY <1>1, <1>2, <1>3, <2>2, <3>2 DEF Owns
      <4>2. Owns(t, u)
        BY <1>2, <1>3, <4>1 DEF Owns
      <4>3. f = p
        <5>1. p \in Frames' /\ index[f] <= index[p] /\ index[p] < index[t]
          BY <1>2
        <5>2. index[p] <= index[u]
          BY <1>2, <1>3, <4>1, <5>1
        <5>3. index[p] <= index[f]
          BY <1>1, <2>2, <5>1, <5>2 DEF Owns
        <5> QED BY <1>2, <1>3, <5>1, <5>3, StackIndexInjective
      <4>4. b \in Sealed \/ (b \in on_stack /\ lowlink[t] <= index[b])
        BY <1>2, <2>2, <4>2 DEF LowlinkExact
      <4> QED BY <1>2, <1>3, <3>0, <4>3, <4>4
    <3> QED BY <3>1, <3>2
  <2> QED BY <1>1, <2>1, <2>2 DEF LowlinkExact
<1>10. ComponentsAreSccs'
  BY <1>1 DEF ComponentsAreSccs
<1> QED BY <1>7, <1>8, <1>9, <1>10

(* The heart of the matter: what lies on the stack from a root upwards is  *)
(* the root's strongly connected component, and nothing leaves it but into *)
(* components already sealed.                                              *)
LEMMA RootSegmentIsScc ==
  ASSUME SearchInv, Seal
  PROVE  LET C == {u \in on_stack : index[Top] <= index[u]} IN
         /\ C = SccOf(adj, Top)
         /\ Closed(adj, C \cup Sealed)
         /\ Top \in C
<1> USE DEF SearchInv
<1> DEFINE t == Top
           C == {u \in on_stack : index[t] <= index[u]}
<1>1. PopFrame /\ lowlink[t] = index[t] /\ children[t] = {}
  BY DEF Seal, PopFrame
<1>2. /\ t \in Frames /\ t \in on_stack /\ t \in Node
      /\ \A f \in Frames : f # t => index[f] < index[t]
  BY <1>1, PopFrameLinks
<1>3. /\ \A u \in on_stack : index[u] \in Nat /\ u \in Node
      /\ \A f \in Frames : f \in on_stack
  BY OnStackIndexed
<1>4. t \in C
  BY <1>2, <1>3
<1>5. ASSUME NEW u \in C, NEW b \in adj[u] PROVE b \in C \cup Sealed
  <2>1. Owns(t, u)
    BY <1>2, <1>3 DEF Owns
  <2>2. children[u] = {}
    <3>1. CASE u = t
      BY <1>1, <3>1
    <3>2. CASE u # t
      <4>1. u \notin Frames
        BY <1>2, <1>3, <3>2
      <4> QED BY <1>3, <4>1 DEF SealedIsFinal
    <3> QED BY <3>1, <3>2
  <2>3. b \in Sealed \/ (b \in on_stack /\ lowlink[t] <= index[b])
    BY <1>2, <1>5, <2>1, <2>2 DEF LowlinkExact
  <2> QED BY <1>1, <2>3
<1>6. Closed(adj, C \cup Sealed)
  BY <1>5 DEF SealedIsFinal, Closed
<1>7. C \cup Sealed \in SUBSET Node /\ Sealed \in SUBSET Node
  BY <1>3 DEF TypeOK, Sealed
<1>8. ASSUME NEW u \in C PROVE u \in SccOf(adj, t)
  <2>1. Reaches(adj, t, u)
    BY <1>2 DEF StackConnected
  <2>2. PICK f \in Frames : index[f] <= index[u] /\ Reaches(adj, u, f)
    BY DEF StackConnected
  <2>3. f \in C \cup Sealed
    BY <1>6, <1>7, <2>2, ReachesStaysInClosed
  <2>4. f \in C
    BY <1>3, <2>3 DEF StacksAgree
  <2>5. f = t
    BY <1>2, <1>3, <2>4
  <2> QED BY <1>3, <2>1, <2>2, <2>5 DEF SccOf
<1>9. ASSUME NEW u \in SccOf(adj, t) PROVE u \in C
  <2>1. Reaches(adj, t, u) /\ Reaches(adj, u, t)
    BY DEF SccOf
  <2>2. u \in C \cup Sealed
    BY <1>4, <1>6, <1>7, <2>1, ReachesStaysInClosed
  <2>3. u \notin Sealed
    <3> SUFFICES ASSUME u \in Sealed PROVE FALSE
      OBVIOUS
    <3>1. t \in Sealed
      BY <1>7, <2>1, ReachesStaysInClosed DEF SealedIsFinal
    <3> QED BY <1>2, <3>1 DEF StacksAgree
  <2> QED BY <2>2, <2>3
<1> QED BY <1>4, <1>6, <1>8, <1>9
(* A sealed root takes its whole component off the stack and nothing the   *)
(* remaining frames depend on.                                             *)
LEMMA SealStep ==
  ASSUME SearchInv, Seal
  PROVE  SealedIsFinal' /\ StackConnected' /\ LowlinkExact' /\ ComponentsAreSccs'
<1> USE DEF SearchInv
<1> DEFINE t == Top
           C == {u \in on_stack : index[t] <= index[u]}
<1>1. /\ PopFrame /\ lowlink[t] = index[t] /\ children[t] = {}
      /\ UNCHANGED <<adj, index, children>>
  BY DEF Seal, PopFrame
<1>2. /\ t \in Frames /\ t \in on_stack /\ t \in Node
      /\ Frames' = Frames \ {t}
      /\ \A f \in Frames' : index[f] < index[t]
      /\ \A f \in Frames' : \/ lowlink'[f] = lowlink[f]
                             \/ lowlink[t] < lowlink[f]
  BY <1>1, PopFrameLinks
<1>3. /\ \A u \in on_stack : index[u] \in Nat /\ u \in Node
      /\ \A f \in Frames : f \in on_stack
      /\ \A f \in Frames : lowlink[f] \in Nat /\ lowlink[f] <= index[f]
  BY OnStackIndexed, LowlinkRange
<1>4. /\ on_stack' = on_stack \ C /\ components' = components \cup {C}
      /\ Sealed' = Sealed \cup C
  BY SealStacks
<1>5. C = SccOf(adj, t) /\ Closed(adj, C \cup Sealed) /\ t \in C
  BY RootSegmentIsScc
<1>6. \A f \in Frames' : lowlink'[f] = lowlink[f]
  <2> TAKE f \in Frames'
  <2>1. lowlink[f] <= index[f] /\ index[f] < lowlink[t] /\ lowlink[f] \in Nat
    BY <1>1, <1>2, <1>3
  <2> QED BY <1>1, <1>2, <1>3, <2>1
<1>7. \A u \in on_stack' : u \in on_stack /\ index[u] < index[t]
  BY <1>2, <1>3, <1>4
<1>8. \A u \in on_stack : index[u] < index[t] => u \in on_stack'
  BY <1>2, <1>3, <1>4
<1>9. SealedIsFinal'
  <2>1. Sealed' = C \cup Sealed
    BY <1>4
  <2> QED BY <1>1, <1>2, <1>5, <2>1 DEF SealedIsFinal
<1>10. StackConnected'
  <2>1. ASSUME NEW u \in on_stack'
        PROVE  \E f \in Frames' : index[f] <= index[u] /\ Reaches(adj, u, f)
    <3>1. PICK f \in Frames : index[f] <= index[u] /\ Reaches(adj, u, f)
      BY <1>7 DEF StackConnected
    <3>2. f # t
      BY <1>2, <1>3, <1>7, <3>1
    <3> QED BY <1>2, <3>1, <3>2
  <2>2. \A f \in Frames', u \in on_stack' : index[f] <= index[u] => Reaches(adj, f, u)
    BY <1>2, <1>7 DEF StackConnected
  <2> QED BY <1>1, <2>1, <2>2 DEF StackConnected
<1>11. LowlinkExact'
  <2>1. ASSUME NEW f \in Frames'
        PROVE  \E u \in on_stack' : /\ lowlink'[f] = index[u]
                                    /\ index[u] <= index[f]
                                    /\ Reaches(adj, f, u)
    <3>1. PICK u \in on_stack : /\ lowlink[f] = index[u]
                               /\ index[u] <= index[f]
                               /\ Reaches(adj, f, u)
      BY <1>2 DEF LowlinkExact
    <3>2. index[u] < index[t]
      BY <1>2, <1>3, <3>1
    <3> QED BY <1>6, <1>8, <3>1, <3>2
  <2>2. ASSUME NEW f \in Frames', NEW u \in on_stack', Owns(f, u)',
               NEW b \in adj[u] \ children[u]
        PROVE  b \in Sealed' \/ (b \in on_stack' /\ lowlink'[f] <= index[b])
    <3>1. Owns(f, u)
      <4>1. ~(index[t] <= index[u])
        BY <1>2, <1>3, <1>7
      <4> QED BY <1>1, <1>2, <2>2, <4>1 DEF Owns
    <3>2. b \in Sealed \/ (b \in on_stack /\ lowlink[f] <= index[b])
      BY <1>2, <1>7, <2>2, <3>1 DEF LowlinkExact
    <3> QED BY <1>4, <1>6, <3>2
  <2> QED BY <1>1, <2>1, <2>2 DEF LowlinkExact
<1>12. ComponentsAreSccs'
  BY <1>1, <1>4, <1>5 DEF ComponentsAreSccs
<1> QED BY <1>9, <1>10, <1>11, <1>12

LEMMA NextSearchInv == SearchInv /\ [Next]_vars => SearchInv'
<1> SUFFICES ASSUME SearchInv, [Next]_vars PROVE SearchInv'
  OBVIOUS
<1>1. TypeOK' /\ StacksAgree'
  BY NextType, NextStacks DEF SearchInv
<1>2. SealedIsFinal' /\ StackConnected' /\ LowlinkExact' /\ ComponentsAreSccs'
  <2>1. CASE UNCHANGED vars
    BY <2>1 DEF vars, SearchInv, SealedIsFinal, StackConnected, LowlinkExact,
                ComponentsAreSccs, Frames, Sealed, Owns
  <2> QED
    BY <2>1, StartRootStep, DescendStep, TakeChildStep, ReturnStep, SealStep
    DEF Next
<1> QED BY <1>1, <1>2 DEF SearchInv

(***************************************************************************)
(* On every graph the invariant of the component search holds after every  *)
(* iteration of _tarjan's loops.                                           *)
(***************************************************************************)
THEOREM SearchInvariant == Spec => []SearchInv
BY InitSearchInv, NextSearchInv, PTL DEF Spec

(***************************************************************************)
(* On every graph the frames hold the stack together, so that a popped     *)
(* root never leaves a stack node without a frame it can reach.            *)
(***************************************************************************)
THEOREM StackAlwaysConnected == Spec => []StackConnected
BY SearchInvariant, PTL DEF SearchInv

(***************************************************************************)
(* On every graph the lowlinks of the frames are exact.                    *)
(***************************************************************************)
THEOREM LowlinkAlwaysExact == Spec => []LowlinkExact
BY SearchInvariant, PTL DEF SearchInv

(***************************************************************************)
(* No edge leads out of what _tarjan has yielded, so a caller that stops   *)
(* at a component, as has_cycle does, has seen it whole.                   *)
(***************************************************************************)
THEOREM SealedAlwaysFinal == Spec => []SealedIsFinal
BY SearchInvariant, PTL DEF SearchInv

(***************************************************************************)
(* On every graph whatever _tarjan yields is one strongly connected        *)
(* component, no more and no less.                                         *)
(***************************************************************************)
THEOREM ComponentsAlwaysSccs == Spec => []ComponentsAreSccs
BY SearchInvariant, PTL DEF SearchInv

(***************************************************************************)
(* When the generator is exhausted its components are the complete         *)
(* partition of the nodes that find_strongly_connected_components returns. *)
(***************************************************************************)
THEOREM PartitionComplete == Spec => []CompletePartition
<1>1. SearchInv => CompletePartition
  <2> SUFFICES ASSUME SearchInv, Exhausted
               PROVE  components = {SccOf(adj, v) : v \in Node}
    BY DEF CompletePartition
  <2> USE DEF SearchInv
  <2>1. Sealed = Node
    BY NoFramesNoStack DEF Exhausted, StacksAgree
  <2>2. ASSUME NEW C \in components, NEW v \in C
        PROVE  C = SccOf(adj, v)
    <3>1. PICK r \in C : C = SccOf(adj, r)
      BY DEF ComponentsAreSccs
    <3>2. Reaches(adj, v, r) /\ Reaches(adj, r, v)
      BY <3>1, <2>2 DEF SccOf
    <3>3. ASSUME NEW u \in Node
          PROVE  u \in SccOf(adj, r) <=> u \in SccOf(adj, v)
      BY <3>2, ReachesTrans DEF SccOf
    <3> QED BY <3>1, <3>3 DEF SccOf
  <2>3. \A C \in components : \E v \in Node : C = SccOf(adj, v)
    BY DEF ComponentsAreSccs, TypeOK
  <2>4. ASSUME NEW v \in Node PROVE SccOf(adj, v) \in components
    <3>1. PICK C \in components : v \in C
      BY <2>1 DEF Sealed
    <3> QED BY <2>2, <3>1
  <2> QED BY <2>3, <2>4
<1> QED BY <1>1, SearchInvariant, PTL

(***************************************************************************)
(* The search implements the abstract promise: components come out whole,  *)
(* each once, and only after every component they reach.                   *)
(***************************************************************************)
THEOREM TarjanYieldsInOrder == Spec => YieldsInOrder
<1>1. Init => Scc!Init
  BY DEF Init, Scc!Init
<1>2. SearchInv /\ [Next]_vars => [Scc!Next]_(Scc!vars)
  <2> SUFFICES ASSUME SearchInv, [Next]_vars PROVE [Scc!Next]_(Scc!vars)
    OBVIOUS
  <2>1. CASE Seal
    <3> DEFINE C == {u \in on_stack : index[Top] <= index[u]}
    <3>1. components' = components \cup {C} /\ adj' = adj
      BY <2>1, SealStacks DEF SearchInv, Seal, PopFrame
    <3>2. C = SccOf(adj, Top) /\ Closed(adj, C \cup Sealed) /\ Top \in C
      BY <2>1, RootSegmentIsScc
    <3>3. C \notin components
      BY <3>2 DEF SearchInv, StacksAgree, Sealed
    <3>4. C \in SUBSET Node
      BY DEF SearchInv, TypeOK
    <3>5. C = Scc!SccOf(adj, Top) /\ Scc!Closed(adj, C \cup UNION components)
      BY <3>2 DEF SccOf, Scc!SccOf, Reaches, Scc!Reaches, Closed, Scc!Closed, Sealed
    <3>6. Scc!Yield(C)
      BY <3>1, <3>2, <3>3, <3>5 DEF Scc!Yield
    <3> QED BY <3>4, <3>6 DEF Scc!Next
  <2>2. CASE ~Seal
    <3>1. UNCHANGED <<adj, components>>
      BY <2>2 DEF Next, StartRoot, Descend, Discover, LowerLink, SkipSealed,
                  Return, PopFrame, vars
    <3> QED BY <3>1 DEF Scc!vars
  <2> QED BY <2>1, <2>2
<1> QED
  BY <1>1, <1>2, SearchInvariant, PTL DEF Spec, YieldsInOrder, Scc!Spec
=============================================================================
