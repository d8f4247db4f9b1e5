--------------------------- MODULE Circuit_proofs ---------------------------
(***************************************************************************)
(* Proofs about Circuit, for every finite set of nodes, strongly connected *)
(* graph, filter and limit: blocking keeps its books and prunes nothing,   *)
(* and the search answers what it promises.                                *)
(***************************************************************************)
EXTENDS Circuit, FiniteSetTheorems, FunctionTheorems, SequenceTheorems, WellFoundedInduction, TLAPS

-----------------------------------------------------------------------------
(* Reachability, and the least node.                                       *)

LEMMA ReachesEdge ==
  ASSUME NEW g, NEW a, NEW b, b \in g[a]
  PROVE  Reaches(g, a, b)
BY DEF Reaches, Closed

LEMMA ReachesBack ==
  ASSUME NEW g, NEW a \in Node, NEW b \in g[a], NEW c, Reaches(g, b, c)
  PROVE  Reaches(g, a, c)
BY DEF Reaches, Closed

LEMMA ReachesStays ==
  ASSUME NEW g, NEW S \in SUBSET Node, Closed(g, S), NEW a \in S, NEW b, Reaches(g, a, b)
  PROVE  b \in S
BY DEF Reaches

(* What is reached is closed, so what leads nowhere leads nowhere new in a *)
(* graph that has the same edges there.                                    *)
LEMMA ReachesSame ==
  ASSUME NEW g \in Adjacencies, NEW h, NEW a \in Node, NEW b,
         \A v \in Node : Reaches(g, a, v) => h[v] \subseteq g[v],
         Reaches(h, a, b)
  PROVE  Reaches(g, a, b)
<1> DEFINE R == {v \in Node : Reaches(g, a, v)}
<1>1. Closed(h, R)
  BY DEF Closed, Reaches, Adjacencies
<1>2. a \in R
  BY DEF Reaches
<1> QED
  BY <1>1, <1>2, ReachesStays

(* A set of natural numbers that is not empty has a least member.          *)
LEMMA LeastNumber ==
  ASSUME NEW T \in SUBSET Nat, T # {}
  PROVE  \E k \in T : \A m \in T : k <= m
<1> DEFINE R == OpToRel(<, Nat)
<1>1. IsWellFoundedOn(R, Nat)
  BY NatLessThanWellFounded
<1>2. \A k, m \in Nat : m < k => <<m, k>> \in R
  BY DEF OpToRel
<1> HIDE DEF R
<1>3. PICK k \in T : \A m \in T : <<m, k>> \notin R
  BY <1>1, WFMin
<1>4. \A m \in T : ~(m < k)
  BY <1>2, <1>3
<1>5. \A m \in T : k <= m
  BY <1>4
<1> QED
  BY <1>5

LEMMA GreatestNumber ==
  ASSUME NEW n \in Nat, NEW T \in SUBSET (0 .. n), T # {}
  PROVE  \E k \in T : \A m \in T : m <= k
<1> DEFINE U == {d \in 0 .. n : n - d \in T}
<1>1. U \in SUBSET Nat /\ U # {}
  <2>1. PICK m \in T : TRUE
    OBVIOUS
  <2>2. n - (n - m) = m /\ n - m \in 0 .. n
    OBVIOUS
  <2> QED
    BY <2>1, <2>2
<1>2. PICK d \in U : \A e \in U : d <= e
  BY <1>1, LeastNumber
<1>3. \A m \in T : n - m \in U
  <2> TAKE m \in T
  <2>1. n - (n - m) = m /\ n - m \in 0 .. n
    OBVIOUS
  <2> QED
    BY <2>1
<1>4. \A m \in T : m <= n - d
  BY <1>2, <1>3
<1> QED
  BY <1>2, <1>4

LEMMA LeastType == least \in Node /\ \A v \in Node : least <= v
BY NodeAssumption, LeastNumber DEF least, LeastOf

-----------------------------------------------------------------------------
(* What the frames know.  Until a frame or one above it closes a cycle,    *)
(* each child it has taken is blocked, and is not least.                   *)
FrameInv ==
  ~truncated => \A i \in DOMAIN path :
    (\A j \in DOMAIN path : j >= i => path[j] \notin found) =>
      \A c \in scc_adjacency[path[i]] \ children[path[i]] : c # least /\ c \in blocked

(* An iterator yields successors only, and not the open child again.       *)
ChildrenInv ==
  /\ \A v \in Node : children[v] \subseteq scc_adjacency[v]
  /\ \A i \in 1 .. Len(path) - 1 : path[i + 1] \notin children[path[i]]

(* Who waits for whom: only nodes with a name in their adjacency, only for *)
(* blocked nodes, and on the path only the nodes behind one for it.        *)
BlockMapInv ==
  /\ \A u, w \in Node : w \in block_map[u] => u \in scc_adjacency[w] /\ u \in blocked
  /\ \A i, j \in DOMAIN path : path[j] \in block_map[path[i]] => i < j

(* Where a node that is blocked off the path can get to by such nodes.     *)
Waits == [v \in Node |-> IF v \in blocked \ OnPath THEN scc_adjacency[v] ELSE {}]

(* A stale entry, of a node that is back on the path, is out of the reach  *)
(* of all that may be released while it is there.                          *)
StaleInv ==
  \A u \in blocked \ OnPath : \A i \in DOMAIN path :
    path[i] \in block_map[u] =>
      \A j \in DOMAIN path : j >= i => ~Reaches(Waits, u, path[j])

IInv == BlockingInv /\ ChildrenInv /\ FrameInv /\ BlockMapInv /\ StaleInv

-----------------------------------------------------------------------------
(* Every variable keeps its type.                                          *)

LEMMA GraphType == TypeOK => scc_adjacency \in [Node -> SUBSET Node]
BY GraphAssumption DEF TypeOK, Adjacencies

LEMMA TopType ==
  ASSUME TypeOK, path # <<>>
  PROVE  /\ Len(path) \in Nat \ {0}
         /\ DOMAIN path = 1 .. Len(path)
         /\ Top \in Node
         /\ \A i \in DOMAIN path : path[i] \in Node
BY DEF TypeOK, Top

LEMMA PopType ==
  ASSUME TypeOK, path # <<>>, Pop
  PROVE  /\ path' \in Seq(Node)
         /\ Len(path') = Len(path) - 1
         /\ DOMAIN path' = 1 .. Len(path) - 1
         /\ \A i \in 1 .. Len(path) - 1 : path'[i] = path[i]
<1>1. path \in Seq(Node) /\ path' = SubSeq(path, 1, Len(path) - 1)
  BY DEF TypeOK, Pop
<1>2. Len(path) \in Nat \ {0} /\ \A i \in 1 .. Len(path) - 1 : path[i] \in Node
  BY <1>1
<1> DEFINE n == Len(path) - 1
           p == SubSeq(path, 1, n)
<1>3. n \in Nat
  BY <1>2
<1> HIDE DEF n
<1>4. /\ p \in Seq(Node)
      /\ Len(p) = IF 1 <= n THEN n - 1 + 1 ELSE 0
      /\ \A i \in 1 .. n - 1 + 1 : p[i] = path[1 + i - 1]
  BY <1>2, <1>3, SubSeqProperties DEF n
<1> HIDE DEF p
<1>5. Len(p) = n /\ DOMAIN p = 1 .. n /\ \A i \in 1 .. n : p[i] = path[i]
  BY <1>3, <1>4
<1>6. p = path'
  BY <1>1 DEF p, n
<1> QED
  BY <1>4, <1>5, <1>6 DEF n

LEMMA InitType == Init => TypeOK
<1> SUFFICES ASSUME Init PROVE TypeOK
  OBVIOUS
<1>1. scc_adjacency \in [Node -> SUBSET Node]
  BY GraphAssumption DEF Init, Adjacencies
<1>2. path \in Seq(Node) /\ cycles \in Seq(Seq(Node)) /\ Len(cycles) = 0
  BY LeastType DEF Init
<1>3. max_cycles # NoLimit => max_cycles \in Nat
  BY BudgetAssumption DEF Init
<1>4. truncated \in BOOLEAN
  BY DEF Init
<1>5. children \in [Node -> SUBSET Node]
  BY <1>1 DEF Init
<1> QED
  BY <1>1, <1>2, <1>3, <1>4, <1>5, LeastType DEF Init, TypeOK

LEMMA NextType == TypeOK /\ [Next]_vars => TypeOK'
<1> SUFFICES ASSUME TypeOK, [Next]_vars PROVE TypeOK'
  OBVIOUS
<1>1. scc_adjacency \in [Node -> SUBSET Node] /\ path \in Seq(Node) /\ cycles \in Seq(Seq(Node))
  BY GraphType DEF TypeOK
<1>2. max_cycles # NoLimit => max_cycles \in Nat
  BY BudgetAssumption DEF TypeOK
<1>3. CASE Close
  <2>1. Top \in Node
    BY <1>3, TopType DEF Close, NextChild, Running
  <2>2. cycles' \in Seq(Seq(Node)) /\ (max_cycles # NoLimit => Len(cycles') <= max_cycles)
    BY <1>3, <1>1, <1>2 DEF Close, TypeOK
  <2> QED
    BY <1>3, <2>1, <2>2 DEF Close, Consume, TypeOK, args
<1>4. CASE Truncate
  BY <1>4, TopType DEF Truncate, Consume, NextChild, Running, TypeOK, args
<1>5. CASE Push
  <2>1. PICK c \in Node \ {least} :
          /\ path' = Append(path, c)
          /\ blocked' = blocked \cup {c}
          /\ children' = [children EXCEPT ![Top] = @ \ {c}, ![c] = scc_adjacency[c]]
          /\ found' = found \ {c}
          /\ UNCHANGED <<args, block_map, cycles, truncated>>
    BY <1>5 DEF Push
  <2>2. path' \in Seq(Node)
    BY <2>1, <1>1
  <2>3. children' \in [Node -> SUBSET Node]
    BY <2>1, <1>1 DEF TypeOK
  <2>4. truncated' \in BOOLEAN
    BY <2>1 DEF TypeOK
  <2> QED
    BY <2>1, <2>2, <2>3, <2>4 DEF TypeOK, args
<1>6. CASE SkipBlocked
  BY <1>6, TopType DEF SkipBlocked, Consume, NextChild, Running, TypeOK, args
<1>7. CASE PopFound
  <2>1. path # <<>> /\ path' \in Seq(Node)
    BY <1>7, PopType DEF PopFound, Running
  <2>2. found' \subseteq Node
    <3>1. Len(path) # 1 => path[Len(path) - 1] \in Node
      BY <2>1, TopType
    <3> QED
      BY <1>7, <3>1 DEF PopFound, TypeOK
  <2>3. block_map' \in [Node -> SUBSET Node] /\ blocked' \subseteq Node
    BY <1>7 DEF PopFound, TypeOK
  <2> QED
    BY <1>7, <2>1, <2>2, <2>3 DEF PopFound, TypeOK, args
<1>8. CASE PopFailed
  <2>1. path # <<>> /\ path' \in Seq(Node)
    BY <1>8, PopType DEF PopFailed, Running
  <2>2. block_map' \in [Node -> SUBSET Node]
    BY <1>8, <2>1, TopType DEF PopFailed, TypeOK
  <2> QED
    BY <1>8, <2>1, <2>2 DEF PopFailed, TypeOK, args
<1>9. CASE UNCHANGED vars
  BY <1>9 DEF vars, args, TypeOK
<1> QED
  BY <1>3, <1>4, <1>5, <1>6, <1>7, <1>8, <1>9 DEF Next

THEOREM TypeCorrectness == Spec => []TypeOK
<1> QED
  BY InitType, NextType, PTL DEF Spec
-----------------------------------------------------------------------------
(* How a step changes the path.                                            *)

LEMMA PushPath ==
  ASSUME TypeOK, PathElementary, NEW c \in Node, path # <<>>, c \notin blocked,
         path' = Append(path, c)
  PROVE  /\ Len(path) \in Nat \ {0}
         /\ DOMAIN path = 1 .. Len(path)
         /\ DOMAIN path' = 1 .. Len(path) + 1
         /\ \A i \in 1 .. Len(path) : path'[i] = path[i]
         /\ path'[Len(path) + 1] = c
         /\ c \notin OnPath
         /\ OnPath' = OnPath \cup {c}
<1>1. path \in Seq(Node)
  BY DEF TypeOK
<1>2. /\ Len(path) \in Nat \ {0} /\ DOMAIN path = 1 .. Len(path)
      /\ DOMAIN path' = 1 .. Len(path) + 1
      /\ \A i \in 1 .. Len(path) : path'[i] = path[i]
      /\ path'[Len(path) + 1] = c
  BY <1>1
<1>3. c \notin OnPath
  BY DEF PathElementary
<1>4. OnPath' = OnPath \cup {c}
  BY <1>2 DEF OnPath, NodesOf
<1> QED
  BY <1>2, <1>3, <1>4

LEMMA PopPath ==
  ASSUME TypeOK, PathElementary, path # <<>>, Pop
  PROVE  /\ Len(path) \in Nat \ {0}
         /\ DOMAIN path = 1 .. Len(path)
         /\ DOMAIN path' = 1 .. Len(path) - 1
         /\ \A i \in 1 .. Len(path) - 1 : path'[i] = path[i]
         /\ path[Len(path)] = Top
         /\ Top \in OnPath
         /\ OnPath' = OnPath \ {Top}
<1>1. /\ Len(path) \in Nat \ {0} /\ DOMAIN path = 1 .. Len(path)
      /\ path[Len(path)] = Top
  BY TopType DEF Top
<1>2. DOMAIN path' = 1 .. Len(path) - 1 /\ \A i \in 1 .. Len(path) - 1 : path'[i] = path[i]
  BY PopType
<1>3. \A i \in 1 .. Len(path) - 1 : path[i] # Top
  BY <1>1 DEF PathElementary
<1>4. OnPath' = OnPath \ {Top}
  BY <1>1, <1>2, <1>3 DEF OnPath, NodesOf
<1>5. Top \in OnPath
  BY <1>1 DEF OnPath, NodesOf
<1> QED
  BY <1>1, <1>2, <1>4, <1>5

(* What is blocked can wait only for what is blocked.                      *)
LEMMA WaitsWithinBlocked ==
  ASSUME TypeOK, BlockedWait, NEW u \in blocked, NEW v, Reaches(Waits, u, v)
  PROVE  v \in blocked
<1>1. Closed(Waits, blocked)
  BY DEF Closed, Waits, BlockedWait, TypeOK
<1> QED
  BY <1>1, ReachesStays DEF TypeOK

LEMMA WaitsType == TypeOK => Waits \in Adjacencies
BY GraphType DEF Waits, Adjacencies

(* What a found frame releases is off the path, but for the frame itself.  *)
LEMMA ReleasedOffPath ==
  ASSUME IInv, path # <<>>
  PROVE  Released(Top) \cap OnPath \subseteq {Top}
<1> DEFINE t == Top
           Waiting == {v \in blocked \ OnPath : Reaches(Waits, v, t)}
           X == {t} \cup Waiting
           g == [u \in Node |-> block_map[u] \cap blocked]
<1>1. /\ Len(path) \in Nat \ {0} /\ DOMAIN path = 1 .. Len(path)
      /\ t \in Node /\ t = path[Len(path)] /\ Len(path) \in DOMAIN path
      /\ X \subseteq Node /\ block_map \in [Node -> SUBSET Node]
  BY TopType DEF IInv, BlockingInv, TypeOK, Top
<1>2. ASSUME NEW u \in X, NEW w \in g[u]
      PROVE  w \in X
  <2>1. u \in Node /\ w \in block_map[u] /\ w \in blocked /\ w \in Node
    BY <1>1, <1>2
  <2>2. u \in scc_adjacency[w]
    BY <2>1 DEF IInv, BlockMapInv
  <2>3. w \notin OnPath
    <3> SUFFICES ASSUME NEW i \in DOMAIN path, w = path[i] PROVE FALSE
      BY DEF OnPath, NodesOf
    <3>1. CASE u = t
      <4>1. Len(path) < i
        BY <1>1, <2>1, <3>1 DEF IInv, BlockMapInv
      <4> QED
        BY <1>1, <4>1
    <3>2. CASE u \in Waiting
      BY <1>1, <2>1, <3>2 DEF IInv, StaleInv
    <3> QED
      BY <3>1, <3>2
  <2>4. Waits[w] = scc_adjacency[w]
    BY <2>1, <2>3 DEF Waits
  <2>5. Reaches(Waits, u, t)
    BY DEF Reaches
  <2>6. Reaches(Waits, w, t)
    BY <2>1, <2>2, <2>4, <2>5, ReachesBack
  <2> QED
    BY <2>1, <2>3, <2>6
<1>3. Closed(g, X)
  BY <1>2 DEF Closed
<1>4. Released(t) \subseteq X
  BY <1>1, <1>3, ReachesStays DEF Released
<1> QED
  BY <1>4

-----------------------------------------------------------------------------
(* The inductive invariant: initially, and one lemma for each action.      *)

LEMMA InitInv == Init => IInv
<1> SUFFICES ASSUME Init PROVE IInv
  OBVIOUS
<1>1. TypeOK
  BY InitType
<1>2. path = <<least>> /\ Len(path) = 1 /\ DOMAIN path = {1} /\ path[1] = least
  BY DEF Init
<1>3. OnPath = {least} /\ blocked = {least}
  BY <1>2 DEF Init, OnPath, NodesOf
<1>4. PathElementary
  BY <1>2, <1>3 DEF PathElementary
<1>5. BlockedWait /\ StaleInv
  BY <1>3 DEF BlockedWait, StaleInv
<1>6. FrameInv
  <2>1. children[least] = scc_adjacency[least]
    BY LeastType DEF Init
  <2> QED
    BY <1>2, <2>1 DEF FrameInv
<1>7. BlockMapInv
  BY <1>2, LeastType DEF Init, BlockMapInv
<1>8. ChildrenInv
  BY <1>2, LeastType DEF Init, ChildrenInv
<1> QED
  BY <1>1, <1>4, <1>5, <1>6, <1>7, <1>8 DEF IInv, BlockingInv

(* Consuming a child changes neither the path nor what is blocked.         *)
LEMMA SameBooks ==
  ASSUME IInv, UNCHANGED <<args, path, blocked, block_map>>
  PROVE  PathElementary' /\ BlockedWait' /\ BlockMapInv' /\ StaleInv'
<1>1. OnPath' = OnPath
  BY DEF OnPath
<1>2. Waits' = Waits
  BY <1>1 DEF Waits, args
<1>3. PathElementary'
  BY <1>1 DEF IInv, BlockingInv, PathElementary, args
<1>4. BlockedWait'
  BY <1>1 DEF IInv, BlockingInv, BlockedWait, args
<1>5. BlockMapInv'
  BY DEF IInv, BlockMapInv, args
<1>6. StaleInv'
  BY <1>1, <1>2 DEF IInv, StaleInv
<1> QED
  BY <1>3, <1>4, <1>5, <1>6

LEMMA CloseStep ==
  ASSUME IInv, Close
  PROVE  FrameInv'
<1>1. /\ Len(path) \in DOMAIN path /\ path[Len(path)] \in found'
      /\ \A i \in DOMAIN path : Len(path) >= i
  BY TopType DEF Close, NextChild, Running, Top, IInv, BlockingInv
<1>2. path' = path
  BY DEF Close
<1> QED
  BY <1>1, <1>2 DEF FrameInv

LEMMA SkipStep ==
  ASSUME IInv, SkipBlocked
  PROVE  FrameInv'
<1>1. PICK c \in Node \ {least} :
        /\ path # <<>> /\ ~truncated /\ c \in blocked
        /\ children' = [children EXCEPT ![Top] = @ \ {c}]
        /\ UNCHANGED <<args, path, found, blocked, block_map, cycles, truncated>>
  BY DEF SkipBlocked, NextChild, Running, Consume
<1>2. /\ Top \in Node /\ children \in [Node -> SUBSET Node]
      /\ \A i \in DOMAIN path : path[i] \in Node
  BY <1>1, TopType DEF IInv, BlockingInv, TypeOK
<1>3. \A v \in Node : children[v] \subseteq children'[v] \cup {c}
  BY <1>1, <1>2
<1>4. SUFFICES ASSUME NEW i \in DOMAIN path, \A j \in DOMAIN path : j >= i => path[j] \notin found,
                      NEW d \in scc_adjacency[path[i]] \ children'[path[i]]
               PROVE  d # least /\ d \in blocked
  BY <1>1 DEF FrameInv, args
<1>5. d = c \/ d \notin children[path[i]]
  BY <1>2, <1>3
<1> QED
  BY <1>1, <1>4, <1>5 DEF IInv, FrameInv

(* Consuming a child.                                                      *)
LEMMA ConsumeStep ==
  ASSUME IInv, path # <<>>, NEW c, Consume(c), UNCHANGED <<args, path>>
  PROVE  ChildrenInv'
<1>1. \A v \in Node : children'[v] \subseteq children[v]
  BY TopType DEF Consume, IInv, BlockingInv, TypeOK
<1>2. \A i \in 1 .. Len(path) - 1 : path[i] \in Node
  BY TopType DEF IInv, BlockingInv
<1> QED
  BY <1>1, <1>2 DEF IInv, ChildrenInv, args

LEMMA PushStep ==
  ASSUME IInv, Push
  PROVE  /\ PathElementary' /\ BlockedWait'
         /\ ChildrenInv' /\ FrameInv' /\ BlockMapInv' /\ StaleInv'
<1>1. PICK c \in Node \ {least} :
        /\ path # <<>> /\ ~truncated /\ c \in children[Top] /\ c \notin blocked
        /\ path' = Append(path, c)
        /\ blocked' = blocked \cup {c}
        /\ children' = [children EXCEPT ![Top] = @ \ {c}, ![c] = scc_adjacency[c]]
        /\ found' = found \ {c}
        /\ UNCHANGED <<args, block_map, cycles, truncated>>
  BY DEF Push, NextChild, Running, Least
<1> DEFINE n == Len(path)
<1>2. /\ n \in Nat \ {0} /\ DOMAIN path = 1 .. n /\ DOMAIN path' = 1 .. n + 1
      /\ \A i \in 1 .. n : path'[i] = path[i]
      /\ path'[n + 1] = c /\ c \notin OnPath /\ OnPath' = OnPath \cup {c}
  BY <1>1, PushPath DEF IInv, BlockingInv
<1>3. /\ TypeOK /\ scc_adjacency \in [Node -> SUBSET Node] /\ scc_adjacency' = scc_adjacency
      /\ Top = path[n] /\ \A i \in 1 .. n : path[i] \in Node /\ path[i] # c
  BY <1>1, <1>2, TopType, GraphType DEF IInv, BlockingInv, args, Top, OnPath, NodesOf
<1>4. blocked' \ OnPath' = blocked \ OnPath
  BY <1>1, <1>2
<1>5. Waits' = Waits
  BY <1>3, <1>4 DEF Waits
<1> HIDE DEF n
<1>6. PathElementary'
  <2>1. \A i, j \in 1 .. n + 1 : path'[i] = path'[j] => i = j
    <3> SUFFICES ASSUME NEW i \in 1 .. n + 1, NEW j \in 1 .. n + 1, path'[i] = path'[j]
                 PROVE  i = j
      OBVIOUS
    <3>1. CASE i \in 1 .. n /\ j \in 1 .. n
      BY <1>2, <3>1 DEF IInv, BlockingInv, PathElementary
    <3>2. CASE i = n + 1 \/ j = n + 1
      BY <1>2, <1>3, <3>2
    <3> QED
      BY <1>2, <3>1, <3>2
  <2>2. path'[1] = least
    BY <1>1, <1>2 DEF IInv, BlockingInv, PathElementary
  <2>3. c \in scc_adjacency[path[n]]
    BY <1>1, <1>2, <1>3 DEF IInv, ChildrenInv
  <2>4. \A i \in 1 .. n : path'[i + 1] \in scc_adjacency'[path'[i]]
    <3> SUFFICES ASSUME NEW i \in 1 .. n PROVE path'[i + 1] \in scc_adjacency[path[i]]
      BY <1>2, <1>3
    <3>1. CASE i = n
      BY <1>2, <2>3, <3>1
    <3>2. CASE i \in 1 .. n - 1
      <4>1. path[i + 1] \in scc_adjacency[path[i]]
        BY <3>2 DEF IInv, BlockingInv, PathElementary, n
      <4> QED
        BY <1>2, <3>2, <4>1
    <3> QED
      BY <1>2, <3>1, <3>2
  <2>5. OnPath' \subseteq blocked'
    BY <1>1, <1>2 DEF IInv, BlockingInv, PathElementary
  <2>6. Len(path') = n + 1
    BY <1>1, <1>2, <1>3 DEF TypeOK, n
  <2> QED
    BY <1>2, <2>1, <2>2, <2>4, <2>5, <2>6 DEF PathElementary
<1>7. BlockedWait'
  BY <1>1, <1>3, <1>4 DEF IInv, BlockingInv, BlockedWait
<1>8. FrameInv'
  <2> SUFFICES ASSUME NEW i \in 1 .. n + 1,
                      \A j \in 1 .. n + 1 : j >= i => path'[j] \notin found',
                      NEW d \in scc_adjacency[path'[i]] \ children'[path'[i]]
               PROVE  d # least /\ d \in blocked'
    BY <1>2, <1>3 DEF FrameInv
  <2>1. CASE i = n + 1
    BY <1>1, <1>2, <1>3, <2>1 DEF TypeOK
  <2>2. CASE i \in 1 .. n
    <3>1. path'[i] = path[i] /\ path[i] \in Node /\ path[i] # c
      BY <1>2, <1>3, <2>2
    <3>2. \A j \in 1 .. n : j >= i => path[j] \notin found
      BY <1>1, <1>2, <1>3
    <3>3. children[path[i]] \subseteq children'[path[i]] \cup {c}
      BY <1>1, <1>3, <3>1 DEF TypeOK
    <3>4. d = c \/ d \notin children[path[i]]
      BY <3>1, <3>3
    <3> QED
      BY <1>1, <1>2, <2>2, <3>1, <3>2, <3>4 DEF IInv, FrameInv
  <2> QED
    BY <1>2, <2>1, <2>2
<1>9. BlockMapInv'
  <2>1. \A u, w \in Node : w \in block_map'[u] => u \in scc_adjacency'[w] /\ u \in blocked'
    BY <1>1, <1>3 DEF IInv, BlockMapInv
  <2>2. ASSUME NEW i \in 1 .. n + 1, NEW j \in 1 .. n + 1, path'[j] \in block_map[path'[i]]
        PROVE  i < j
    <3>1. path'[i] \in blocked /\ path'[i] # c
      BY <1>1, <1>2, <1>3, <2>2 DEF IInv, BlockMapInv
    <3>2. i \in 1 .. n
      BY <1>2, <3>1
    <3>3. CASE j \in 1 .. n
      BY <1>2, <2>2, <3>2, <3>3 DEF IInv, BlockMapInv
    <3>4. CASE j = n + 1
      BY <1>2, <3>2, <3>4
    <3> QED
      BY <1>2, <3>3, <3>4
  <2> QED
    BY <1>1, <1>2, <2>1, <2>2 DEF BlockMapInv
<1>10. StaleInv'
  <2> SUFFICES ASSUME NEW u \in blocked \ OnPath, NEW i \in 1 .. n + 1, path'[i] \in block_map[u],
                      NEW j \in 1 .. n + 1, j >= i, Reaches(Waits, u, path'[j])
               PROVE  FALSE
    BY <1>1, <1>2, <1>4, <1>5 DEF StaleInv
  <2>1. path'[j] # c
    BY <1>1, <1>3, WaitsWithinBlocked DEF IInv, BlockingInv
  <2>2. i \in 1 .. n /\ j \in 1 .. n
    BY <1>2, <2>1
  <2> QED
    BY <1>2, <2>2 DEF IInv, StaleInv
<1>11. ChildrenInv'
  <2>1. \A v \in Node : v # c => children'[v] \subseteq children[v]
    BY <1>1 DEF IInv, BlockingInv, TypeOK
  <2>2. children'[c] = scc_adjacency[c] /\ c \notin children'[path[n]]
    BY <1>1, <1>2, <1>3 DEF TypeOK
  <2>3. \A i \in 1 .. n - 1 : path[i + 1] \notin children[path[i]]
    BY DEF IInv, ChildrenInv, n
  <2>4. \A i \in 1 .. n : path'[i + 1] \notin children'[path'[i]]
    <3> SUFFICES ASSUME NEW i \in 1 .. n PROVE path'[i + 1] \notin children'[path[i]]
      BY <1>2
    <3>1. CASE i = n
      BY <1>2, <2>2, <3>1
    <3>2. CASE i \in 1 .. n - 1
      BY <1>2, <1>3, <2>1, <2>3, <3>2
    <3> QED
      BY <1>2, <3>1, <3>2
  <2>5. Len(path') = n + 1
    BY <1>1, <1>2, <1>3 DEF TypeOK, n
  <2>6. \A v \in Node : children'[v] \subseteq scc_adjacency[v]
    BY <2>1, <2>2 DEF IInv, ChildrenInv
  <2> QED
    BY <1>2, <1>3, <2>4, <2>5, <2>6 DEF ChildrenInv
<1> QED
  BY <1>6, <1>7, <1>8, <1>9, <1>10, <1>11

LEMMA PopChildren ==
  ASSUME IInv, path # <<>>, Pop, UNCHANGED <<args, children>>
  PROVE  ChildrenInv'
<1>1. Len(path) \in Nat /\ Len(path') = Len(path) - 1
  BY TopType, PopType DEF IInv, BlockingInv
<1>2. \A i \in 1 .. Len(path) - 1 : path'[i] = path[i]
  BY PopType DEF IInv, BlockingInv
<1>3. \A i \in 1 .. Len(path') - 1 : path'[i + 1] \notin children[path'[i]]
  BY <1>1, <1>2 DEF IInv, ChildrenInv
<1> QED
  BY <1>3 DEF IInv, ChildrenInv, args

LEMMA PopElementary ==
  ASSUME IInv, path # <<>>, Pop, UNCHANGED args, OnPath' \subseteq blocked'
  PROVE  PathElementary'
<1>1. Len(path) \in Nat /\ Len(path') = Len(path) - 1
  BY TopType, PopType DEF IInv, BlockingInv
<1>2. /\ DOMAIN path = 1 .. Len(path) /\ DOMAIN path' = 1 .. Len(path) - 1
      /\ \A i \in 1 .. Len(path) - 1 : path'[i] = path[i]
  BY PopPath DEF IInv, BlockingInv
<1>3. path' # <<>> => path'[1] = least
  <2>1. path' # <<>> => 1 \in 1 .. Len(path) - 1
    BY <1>1, PopType DEF IInv, BlockingInv
  <2> QED
    BY <1>2, <2>1 DEF IInv, BlockingInv, PathElementary
<1>4. \A i \in 1 .. Len(path') - 1 : path'[i + 1] \in scc_adjacency[path'[i]]
  BY <1>1, <1>2 DEF IInv, BlockingInv, PathElementary
<1>5. \A i, j \in DOMAIN path' : path'[i] = path'[j] => i = j
  BY <1>1, <1>2 DEF IInv, BlockingInv, PathElementary
<1> QED
  BY <1>3, <1>4, <1>5 DEF PathElementary, args

(* The cascade frees what waited for the frame and nothing on the path, so *)
(* that what is still blocked still waits for something blocked.           *)
LEMMA PopFoundStep ==
  ASSUME IInv, PopFound
  PROVE  /\ PathElementary' /\ BlockedWait'
         /\ ChildrenInv' /\ FrameInv' /\ BlockMapInv' /\ StaleInv'
<1> DEFINE n == Len(path)
           R == Released(Top)
<1>1. /\ path # <<>> /\ ~truncated /\ Pop /\ Top \in found
      /\ blocked' = blocked \ R
      /\ block_map' = [u \in Node |-> IF u \in R THEN {} ELSE block_map[u]]
      /\ found' = IF n = 1 THEN found ELSE found \cup {path[n - 1]}
      /\ UNCHANGED <<args, children, cycles, truncated>>
  BY DEF PopFound, Running
<1>2. /\ n \in Nat \ {0} /\ DOMAIN path = 1 .. n /\ DOMAIN path' = 1 .. n - 1
      /\ \A i \in 1 .. n - 1 : path'[i] = path[i]
      /\ path[n] = Top /\ Top \in OnPath /\ OnPath' = OnPath \ {Top}
  BY <1>1, PopPath DEF IInv, BlockingInv
<1>3. /\ TypeOK /\ scc_adjacency \in [Node -> SUBSET Node] /\ scc_adjacency' = scc_adjacency
      /\ \A i \in 1 .. n : path[i] \in Node
      /\ block_map \in [Node -> SUBSET Node] /\ blocked \subseteq Node
  BY <1>1, <1>2, TopType, GraphType DEF IInv, BlockingInv, args, TypeOK
<1>4. Top \in R /\ R \cap OnPath \subseteq {Top}
  BY <1>1, <1>2, <1>3, ReleasedOffPath DEF Released, Reaches
<1>5. \A u \in R, v \in Node : v \in block_map[u] /\ v \in blocked => v \in R
  BY <1>3 DEF Released, Reaches, Closed
<1>6. \A u \in Node : u \notin R => block_map'[u] = block_map[u]
  BY <1>1
<1>7. \A u \in Node : block_map'[u] \subseteq block_map[u]
  BY <1>1
<1> HIDE DEF n, R
<1>8. blocked' \ OnPath' \subseteq blocked \ OnPath
  BY <1>1, <1>2, <1>4
<1>9. PathElementary'
  <2>1. OnPath' \subseteq blocked'
    BY <1>1, <1>2, <1>4 DEF IInv, BlockingInv, PathElementary
  <2> QED
    BY <1>1, <2>1, PopElementary
<1>10. BlockedWait'
  <2> SUFFICES ASSUME NEW v \in blocked' \ OnPath'
               PROVE  /\ least \notin scc_adjacency[v]
                      /\ \A c \in scc_adjacency[v] : c \in blocked' /\ v \in block_map'[c]
    BY <1>3 DEF BlockedWait
  <2>1. v \in blocked \ OnPath /\ v \notin R /\ v \in Node
    BY <1>1, <1>3, <1>8
  <2>2. least \notin scc_adjacency[v]
    BY <2>1 DEF IInv, BlockingInv, BlockedWait
  <2>3. ASSUME NEW c \in scc_adjacency[v]
        PROVE  c \in blocked' /\ v \in block_map'[c]
    <3>1. c \in blocked /\ v \in block_map[c] /\ c \in Node
      BY <1>3, <2>1 DEF IInv, BlockingInv, BlockedWait
    <3>2. c \notin R
      BY <1>5, <2>1, <3>1
    <3> QED
      BY <1>1, <1>6, <3>1, <3>2
  <2> QED
    BY <2>2, <2>3
<1>11. ChildrenInv'
  BY <1>1, PopChildren
<1>12. FrameInv'
  <2> SUFFICES ASSUME NEW i \in 1 .. n - 1,
                      \A j \in 1 .. n - 1 : j >= i => path'[j] \notin found'
               PROVE  FALSE
    BY <1>2 DEF FrameInv
  <2>1. n # 1 /\ n - 1 \in 1 .. n - 1 /\ n - 1 >= i
    BY <1>2
  <2> QED
    BY <1>1, <1>2, <2>1
<1>13. BlockMapInv'
  <2>1. ASSUME NEW u \in Node, NEW w \in Node, w \in block_map'[u]
        PROVE  u \in scc_adjacency'[w] /\ u \in blocked'
    <3>1. u \notin R
      BY <1>1, <2>1
    <3>2. w \in block_map[u]
      BY <1>7, <2>1
    <3> QED
      BY <1>1, <1>3, <3>1, <3>2 DEF IInv, BlockMapInv
  <2>2. ASSUME NEW i \in 1 .. n - 1, NEW j \in 1 .. n - 1, path'[j] \in block_map'[path'[i]]
        PROVE  i < j
    <3>1. path[j] \in block_map[path[i]] /\ i \in 1 .. n /\ j \in 1 .. n
      BY <1>2, <1>3, <1>7, <2>2
    <3> QED
      BY <1>2, <3>1 DEF IInv, BlockMapInv
  <2> QED
    BY <1>2, <2>1, <2>2 DEF BlockMapInv
<1>14. StaleInv'
  <2> SUFFICES ASSUME NEW u \in blocked' \ OnPath', NEW i \in 1 .. n - 1, path'[i] \in block_map'[u],
                      NEW j \in 1 .. n - 1, j >= i, Reaches(Waits', u, path'[j])
               PROVE  FALSE
    BY <1>2 DEF StaleInv
  <2>1. u \in blocked \ OnPath /\ u \in Node /\ path[i] \in block_map[u]
    BY <1>2, <1>3, <1>7, <1>8
  <2>2. \A v \in Node : Waits'[v] \subseteq Waits[v]
    BY <1>3, <1>8 DEF Waits
  <2>3. Reaches(Waits, u, path[j])
    <3>1. Reaches(Waits', u, path[j])
      BY <1>2
    <3> HIDE DEF Waits
    <3>2. Waits \in Adjacencies
      BY <1>3, WaitsType
    <3> QED
      BY <2>1, <2>2, <3>1, <3>2, ReachesSame
  <2>4. i \in 1 .. n /\ j \in 1 .. n
    BY <1>2
  <2> QED
    BY <1>2, <2>1, <2>3, <2>4 DEF IInv, StaleInv
<1> QED
  BY <1>9, <1>10, <1>11, <1>12, <1>13, <1>14

(* A frame that closed nothing stays blocked: it may, because all its      *)
(* children are, and it has told each of them.                             *)
LEMMA PopFailedStep ==
  ASSUME IInv, PopFailed
  PROVE  /\ PathElementary' /\ BlockedWait'
         /\ ChildrenInv' /\ FrameInv' /\ BlockMapInv' /\ StaleInv'
<1> DEFINE n == Len(path)
           t == Top
<1>1. /\ path # <<>> /\ ~truncated /\ Pop /\ t \notin found /\ children[t] = {}
      /\ block_map' = [u \in Node |-> IF u \in scc_adjacency[t]
                                      THEN block_map[u] \cup {t} ELSE block_map[u]]
      /\ UNCHANGED <<args, children, found, blocked, cycles, truncated>>
  BY DEF PopFailed, Running
<1>2. /\ n \in Nat \ {0} /\ DOMAIN path = 1 .. n /\ DOMAIN path' = 1 .. n - 1
      /\ \A i \in 1 .. n - 1 : path'[i] = path[i]
      /\ path[n] = t /\ t \in OnPath /\ OnPath' = OnPath \ {t}
  BY <1>1, PopPath DEF IInv, BlockingInv
<1>3. /\ TypeOK /\ scc_adjacency \in [Node -> SUBSET Node] /\ scc_adjacency' = scc_adjacency
      /\ \A i \in 1 .. n : path[i] \in Node
      /\ block_map \in [Node -> SUBSET Node] /\ blocked \subseteq Node /\ t \in Node
  BY <1>1, <1>2, TopType, GraphType DEF IInv, BlockingInv, args, TypeOK
<1>4. t \in blocked /\ OnPath \subseteq blocked
  BY <1>2 DEF IInv, BlockingInv, PathElementary
<1>5. \A u \in Node, w \in Node : w \in block_map'[u] /\ w # t => w \in block_map[u]
  BY <1>1
<1> HIDE DEF n, t
<1>6. \A c \in scc_adjacency[t] : c # least /\ c \in blocked
  <2>1. \A j \in DOMAIN path : j >= n => path[j] \notin found
    BY <1>1, <1>2
  <2> QED
    BY <1>1, <1>2, <2>1 DEF IInv, FrameInv
<1>7. \A i \in 1 .. n - 1 : path[i] # t
  BY <1>2 DEF IInv, BlockingInv, PathElementary
<1>8. blocked' \ OnPath' = (blocked \ OnPath) \cup {t}
  BY <1>1, <1>2, <1>4
<1>9. PathElementary'
  <2>1. OnPath' \subseteq blocked'
    BY <1>1, <1>2, <1>4
  <2> QED
    BY <1>1, <2>1, PopElementary
<1>10. BlockedWait'
  <2>1. \A u \in Node : block_map[u] \subseteq block_map'[u]
    BY <1>1
  <2>2. \A c \in scc_adjacency[t] : t \in block_map'[c]
    BY <1>1, <1>3
  <2> SUFFICES ASSUME NEW v \in (blocked \ OnPath) \cup {t}
               PROVE  /\ least \notin scc_adjacency[v]
                      /\ \A c \in scc_adjacency[v] : c \in blocked /\ v \in block_map'[c]
    BY <1>1, <1>3, <1>8 DEF BlockedWait
  <2>3. CASE v = t
    BY <1>6, <2>2, <2>3
  <2>4. CASE v \in blocked \ OnPath
    BY <1>3, <2>1, <2>4 DEF IInv, BlockingInv, BlockedWait
  <2> QED
    BY <2>3, <2>4
<1>11. ChildrenInv'
  BY <1>1, PopChildren
<1>12. FrameInv'
  <2> SUFFICES ASSUME NEW i \in 1 .. n - 1,
                      \A j \in 1 .. n - 1 : j >= i => path'[j] \notin found,
                      NEW d \in scc_adjacency[path'[i]] \ children[path'[i]]
               PROVE  d # least /\ d \in blocked
    BY <1>1, <1>2, <1>3 DEF FrameInv
  <2>1. \A j \in DOMAIN path : j >= i => path[j] \notin found
    BY <1>1, <1>2
  <2>2. i \in DOMAIN path /\ path'[i] = path[i]
    BY <1>2
  <2> QED
    BY <1>1, <2>1, <2>2 DEF IInv, FrameInv
<1>13. BlockMapInv'
  <2>1. ASSUME NEW u \in Node, NEW w \in Node, w \in block_map'[u]
        PROVE  u \in scc_adjacency[w] /\ u \in blocked
    <3>1. CASE w \in block_map[u]
      BY <3>1 DEF IInv, BlockMapInv
    <3>2. CASE w \notin block_map[u]
      BY <1>1, <1>6, <2>1, <3>2
    <3> QED
      BY <3>1, <3>2
  <2>2. ASSUME NEW i \in 1 .. n - 1, NEW j \in 1 .. n - 1, path'[j] \in block_map'[path'[i]]
        PROVE  i < j
    <3>1. path[j] \in block_map[path[i]] /\ i \in 1 .. n /\ j \in 1 .. n
      BY <1>2, <1>3, <1>5, <1>7, <2>2
    <3> QED
      BY <1>2, <3>1 DEF IInv, BlockMapInv
  <2> QED
    BY <1>1, <1>2, <1>3, <2>1, <2>2 DEF BlockMapInv
<1>14. StaleInv'
  <2> SUFFICES ASSUME NEW u \in (blocked \ OnPath) \cup {t}, NEW i \in 1 .. n - 1, path'[i] \in block_map'[u],
                      NEW j \in 1 .. n - 1, j >= i, Reaches(Waits', u, path'[j])
               PROVE  FALSE
    BY <1>2, <1>8 DEF StaleInv
  <2>1. u \in Node /\ path[i] \in block_map[u] /\ i \in 1 .. n /\ j \in 1 .. n
    BY <1>2, <1>3, <1>5, <1>7
  <2>2. CASE u = t
    <3>1. n < i
      BY <1>2, <2>1, <2>2 DEF IInv, BlockMapInv
    <3> QED
      BY <1>2, <3>1
  <2>3. CASE u \in blocked \ OnPath
    <3>1. \A k \in DOMAIN path : k >= i => ~Reaches(Waits, u, path[k])
      BY <1>2, <2>1, <2>3 DEF IInv, StaleInv
    <3>2. ~Reaches(Waits, u, t) /\ ~Reaches(Waits, u, path[j])
      BY <1>2, <2>1, <3>1
    <3>3. \A v \in Node : v # t => Waits'[v] = Waits[v]
      BY <1>3, <1>8 DEF Waits
    <3>4. Waits \in Adjacencies
      BY <1>3, WaitsType
    <3>5. Reaches(Waits', u, path[j])
      BY <1>2
    <3>6. \A v \in Node : Reaches(Waits, u, v) => Waits'[v] \subseteq Waits[v]
      BY <3>2, <3>3
    <3> HIDE DEF Waits
    <3>7. Reaches(Waits, u, path[j])
      BY <2>1, <3>4, <3>5, <3>6, ReachesSame
    <3> QED
      BY <3>2, <3>7
  <2> QED
    BY <2>2, <2>3
<1> QED
  BY <1>9, <1>10, <1>11, <1>12, <1>13, <1>14

LEMMA NextInv == IInv /\ [Next]_vars => IInv'
<1> SUFFICES ASSUME IInv, [Next]_vars PROVE IInv'
  OBVIOUS
<1>1. TypeOK'
  BY NextType DEF IInv, BlockingInv
<1>2. /\ PathElementary' /\ BlockedWait'
      /\ ChildrenInv' /\ FrameInv' /\ BlockMapInv' /\ StaleInv'
  <2>1. CASE Close
    BY <2>1, SameBooks, CloseStep, ConsumeStep DEF Close, NextChild, Running
  <2>2. CASE Truncate
    <3>1. FrameInv'
      BY <2>2 DEF Truncate, FrameInv
    <3> QED
      BY <2>2, <3>1, SameBooks, ConsumeStep DEF Truncate, NextChild, Running
  <2>3. CASE Push
    BY <2>3, PushStep
  <2>4. CASE SkipBlocked
    BY <2>4, SameBooks, SkipStep, ConsumeStep DEF SkipBlocked, NextChild, Running
  <2>5. CASE PopFound
    BY <2>5, PopFoundStep
  <2>6. CASE PopFailed
    BY <2>6, PopFailedStep
  <2>7. CASE UNCHANGED vars
    <3>1. FrameInv' /\ ChildrenInv'
      BY <2>7 DEF vars, args, IInv, FrameInv, ChildrenInv
    <3> QED
      BY <2>7, <3>1, SameBooks DEF vars
  <2> QED
    BY <2>1, <2>2, <2>3, <2>4, <2>5, <2>6, <2>7 DEF Next
<1> QED
  BY <1>1, <1>2 DEF IInv, BlockingInv

THEOREM Invariance == Spec => []IInv
<1> QED
  BY InitInv, NextInv, PTL DEF Spec

(* The books are kept: the path is elementary and blocked, and what is     *)
(* blocked off it is registered with all it waits for.                     *)
THEOREM BlockingIsKept == Spec => []BlockingInv
<1>1. IInv => BlockingInv
  BY DEF IInv
<1> QED
  BY <1>1, Invariance, PTL

-----------------------------------------------------------------------------
(* Blocking prunes nothing.                                                *)

(* The nodes blocked off the path are closed under the edges that avoid    *)
(* the path, and least is not one of them.                                 *)
LEMMA NothingIsPruned == IInv => BlockedIsHopeless
<1> SUFFICES ASSUME IInv, Running, NEW v \in blocked \ OnPath, Reaches(AvoidingPath, v, least)
             PROVE  FALSE
  BY DEF BlockedIsHopeless
<1> DEFINE S == blocked \ OnPath
<1>1. least \in OnPath
  BY TopType DEF IInv, BlockingInv, PathElementary, Running, OnPath, NodesOf
<1>2. Closed(AvoidingPath, S)
  BY DEF Closed, AvoidingPath, IInv, BlockingInv, BlockedWait, TypeOK
<1>3. S \in SUBSET Node
  BY DEF IInv, BlockingInv, TypeOK
<1>4. least \in S
  BY <1>2, <1>3, ReachesStays
<1> QED
  BY <1>1, <1>4

(* Whatever the graph, no node is blocked that could still lead to least.  *)
THEOREM BlockingIsHarmless == Spec => []BlockedIsHopeless
<1> QED
  BY NothingIsPruned, Invariance, PTL

-----------------------------------------------------------------------------
(* The contract.  A matching cycle has been reported or is still ahead: it *)
(* leaves the path at some frame by a child that is not yet taken.         *)

After(q, i) == q[IF i = Len(q) THEN 1 ELSE i + 1]

AheadAt(q, i) ==
  i \in DOMAIN q /\ (\A j \in 1 .. i : q[j] = path[j]) /\ After(q, i) \in children[path[i]]

Ahead(q) == \E i \in DOMAIN path : AheadAt(q, i)

SearchInv ==
  /\ Reported \subseteq Matching
  /\ \A i, j \in DOMAIN cycles : cycles[i] = cycles[j] => i = j
  /\ ~truncated => \A q \in Matching : q \in Reported <=> ~Ahead(q)
  /\ truncated => /\ path \in Matching \ Reported
                  /\ max_cycles # NoLimit /\ Len(cycles) = max_cycles

(* The cycles of Matching, in terms of their hops.                         *)
IsMatching(q) ==
  /\ q \in Seq(Node) /\ q # <<>> /\ q[1] = least
  /\ \A i, j \in DOMAIN q : q[i] = q[j] => i = j
  /\ \A i \in DOMAIN q : After(q, i) \in scc_adjacency[q[i]]
  /\ Accepts(q)

LEMMA MatchingCycles ==
  ASSUME NEW q \in Matching
  PROVE  IsMatching(q)
<1>1. /\ q \in ElementaryPaths(scc_adjacency, least)
      /\ least \in scc_adjacency[q[Len(q)]] /\ Accepts(q)
  BY DEF Matching, CyclesThrough, Accepts
<1>2. PICK r \in UpTo(Cardinality(Node) - 1, Node \ {least}) :
        /\ q = <<least>> \o r
        /\ \A i, j \in DOMAIN q : q[i] = q[j] => i = j
        /\ \A i \in 1 .. Len(q) - 1 : q[i + 1] \in scc_adjacency[q[i]]
  BY <1>1 DEF ElementaryPaths
<1>3. r \in Seq(Node)
  <2>1. PICK m \in 0 .. Cardinality(Node) - 1 : r \in [1 .. m -> Node \ {least}]
    BY <1>2 DEF UpTo
  <2>2. m \in Nat /\ r \in [1 .. m -> Node]
    BY <2>1, NodeAssumption, FS_CardinalityType
  <2> QED
    BY <2>2
<1>4. <<least>> \in Seq(Node) /\ Len(<<least>>) = 1 /\ <<least>>[1] = least
  BY LeastType
<1>5. q \in Seq(Node) /\ Len(q) = 1 + Len(r) /\ q[1] = least
  BY <1>2, <1>3, <1>4, ConcatProperties
<1>6. Len(q) \in Nat \ {0} /\ DOMAIN q = 1 .. Len(q) /\ q # <<>>
  BY <1>3, <1>5
<1>7. \A i \in DOMAIN q : After(q, i) \in scc_adjacency[q[i]]
  <2> TAKE i \in DOMAIN q
  <2>1. CASE i = Len(q)
    BY <1>1, <1>5, <2>1 DEF After
  <2>2. CASE i # Len(q)
    <3>1. i \in 1 .. Len(q) - 1
      BY <1>6, <2>2
    <3> QED
      BY <1>2, <2>2, <3>1 DEF After
  <2> QED
    BY <2>1, <2>2
<1> QED
  BY <1>1, <1>2, <1>5, <1>6, <1>7 DEF IsMatching

(* An elementary path is no longer than there are nodes.                   *)
LEMMA ElementaryIsBounded ==
  ASSUME NEW q \in Seq(Node), \A i, j \in DOMAIN q : q[i] = q[j] => i = j
  PROVE  Len(q) <= Cardinality(Node)
<1>1. Len(q) \in Nat /\ DOMAIN q = 1 .. Len(q) /\ q \in [1 .. Len(q) -> Node]
  OBVIOUS
<1>2. q \in Injection(1 .. Len(q), Node)
  BY <1>1, Fun_IsInj
<1>3. Cardinality(1 .. Len(q)) <= Cardinality(Node)
  BY <1>2, NodeAssumption, FS_Injection
<1>4. Cardinality(1 .. Len(q)) = Len(q)
  BY <1>1, FS_Interval
<1> QED
  BY <1>3, <1>4

LEMMA CyclesMatch ==
  ASSUME NEW q, IsMatching(q)
  PROVE  q \in Matching
<1> DEFINE n == Len(q)
           r == Tail(q)
<1>1. /\ q \in Seq(Node) /\ q # <<>> /\ q[1] = least
      /\ n \in Nat \ {0} /\ DOMAIN q = 1 .. n
      /\ \A i, j \in DOMAIN q : q[i] = q[j] => i = j
  BY DEF IsMatching
<1>2. n <= Cardinality(Node) /\ Cardinality(Node) \in Nat
  BY <1>1, ElementaryIsBounded, NodeAssumption, FS_CardinalityType
<1>3. /\ r \in Seq(Node) /\ Len(r) = n - 1
      /\ \A i \in 1 .. Len(r) : r[i] = q[i + 1]
  BY <1>1, HeadTailProperties
<1>4. q = <<least>> \o r
  <2>1. <<least>> \in Seq(Node) /\ Len(<<least>>) = 1 /\ <<least>>[1] = least
    BY LeastType
  <2> DEFINE p == <<least>> \o r
             one == <<least>>
  <2>2. one \in Seq(Node) /\ Len(one) = 1 /\ one[1] = least /\ p = one \o r
    BY <2>1
  <2> HIDE DEF one, r
  <2>3. /\ p \in Seq(Node) /\ Len(p) = 1 + Len(r)
        /\ \A i \in 1 .. 1 + Len(r) : p[i] = IF i <= 1 THEN one[i] ELSE r[i - 1]
    BY <1>3, <2>2, ConcatProperties
  <2> HIDE DEF p
  <2>4. \A i \in 1 .. n : p[i] = q[i]
    <3> SUFFICES ASSUME NEW i \in 1 .. n PROVE p[i] = q[i]
      OBVIOUS
    <3>1. CASE i = 1
      BY <1>1, <1>3, <2>2, <2>3, <3>1
    <3>2. CASE i # 1
      <4>1. i - 1 \in 1 .. Len(r) /\ (i - 1) + 1 = i
        BY <1>1, <1>3, <3>2
      <4>2. r[i - 1] = q[i]
        BY <1>3, <4>1
      <4> QED
        BY <1>1, <1>3, <2>3, <3>2, <4>2
    <3> QED
      BY <3>1, <3>2
  <2>5. p = q
    BY <1>1, <1>3, <2>3, <2>4, SeqEqual
  <2> QED
    BY <2>5 DEF p
<1>5. r \in UpTo(Cardinality(Node) - 1, Node \ {least})
  <2>1. \A i \in 1 .. n - 1 : r[i] \in Node \ {least}
    <3> SUFFICES ASSUME NEW i \in 1 .. n - 1 PROVE r[i] \in Node \ {least}
      OBVIOUS
    <3>1. r[i] = q[i + 1] /\ i + 1 \in 1 .. n /\ i + 1 # 1
      BY <1>1, <1>3
    <3> QED
      BY <1>1, <3>1
  <2>2. r \in [1 .. n - 1 -> Node \ {least}]
    <3> HIDE DEF r, n
    <3>1. r \in [1 .. n - 1 -> Node]
      BY <1>1, <1>3
    <3> QED
      BY <2>1, <3>1
  <2>3. n - 1 \in 0 .. Cardinality(Node) - 1
    BY <1>1, <1>2
  <2> QED
    BY <2>2, <2>3 DEF UpTo
<1>6. \A i \in 1 .. n - 1 : q[i + 1] \in scc_adjacency[q[i]]
  BY <1>1 DEF IsMatching, After
<1>7. q[1] \in scc_adjacency[q[n]]
  BY <1>1 DEF IsMatching, After
<1>8. q \in ElementaryPaths(scc_adjacency, least)
  BY <1>1, <1>4, <1>5, <1>6 DEF ElementaryPaths
<1> QED
  BY <1>1, <1>7, <1>8 DEF Matching, CyclesThrough, Accepts, IsMatching

LEMMA MatchingIsFinite == IsFiniteSet(Matching)
<1> DEFINE N == Cardinality(Node)
           B == SUBSET ((1 .. N) \X Node)
           G(q) == {<<i, q[i]>> : i \in DOMAIN q}
           F == [q \in Matching |-> G(q)]
<1>1. N \in Nat /\ IsFiniteSet(1 .. N) /\ IsFiniteSet(Node)
  BY NodeAssumption, FS_CardinalityType, FS_Interval
<1>2. IsFiniteSet(B)
  BY <1>1, FS_Product, FS_SUBSET
<1>3. ASSUME NEW q \in Matching
      PROVE  q \in Seq(Node) /\ DOMAIN q = 1 .. Len(q) /\ Len(q) \in 0 .. N
  BY <1>1, MatchingCycles, ElementaryIsBounded DEF IsMatching
<1>4. \A q \in Matching : G(q) \in B
  <2> SUFFICES ASSUME NEW q \in Matching, NEW i \in DOMAIN q PROVE i \in 1 .. N /\ q[i] \in Node
    OBVIOUS
  <2> QED
    BY <1>1, <1>3
<1>5. ASSUME NEW p \in Matching, NEW q \in Matching, G(p) = G(q)
      PROVE  p = q
  <2>1. \A i \in DOMAIN p : i \in DOMAIN q /\ p[i] = q[i]
    <3> TAKE i \in DOMAIN p
    <3>1. <<i, p[i]>> \in G(q)
      BY <1>5
    <3> QED
      BY <3>1
  <2>2. \A i \in DOMAIN q : i \in DOMAIN p
    <3> TAKE i \in DOMAIN q
    <3>1. <<i, q[i]>> \in G(p)
      BY <1>5
    <3> QED
      BY <3>1
  <2>3. DOMAIN p = DOMAIN q
    BY <2>1, <2>2
  <2>4. Len(p) = Len(q)
    BY <1>3, <2>3
  <2> QED
    BY <1>3, <2>1, <2>4, SeqEqual
<1>6. F \in Injection(Matching, B)
  <2>1. F \in [Matching -> B]
    BY <1>4
  <2>2. \A p, q \in Matching : F[p] = F[q] => p = q
    BY <1>5
  <2> HIDE DEF F
  <2> QED
    BY <2>1, <2>2, Fun_IsInj
<1> QED
  BY <1>2, <1>6, FS_Injection

(* A blocked child never hides a matching cycle: from there to the return  *)
(* to least, the cycle would run through nodes blocked off the path.       *)
LEMMA SkippedIsOff ==
  ASSUME IInv, Running, NEW q \in Matching, NEW n \in DOMAIN q, n = Len(path),
         \A j \in 1 .. n : q[j] = path[j],
         After(q, n) \in blocked, After(q, n) # least
  PROVE  FALSE
<1> DEFINE S == blocked \ OnPath
           T == {k \in n + 1 .. Len(q) : q[k] \in S}
<1>1. /\ q \in Seq(Node) /\ q[1] = least /\ DOMAIN q = 1 .. Len(q) /\ Len(q) \in Nat
      /\ \A i, j \in DOMAIN q : q[i] = q[j] => i = j
      /\ \A i \in DOMAIN q : After(q, i) \in scc_adjacency[q[i]]
  BY MatchingCycles DEF IsMatching
<1>2. DOMAIN path = 1 .. n
  BY TopType DEF IInv, BlockingInv, Running
<1>3. \A k \in n + 1 .. Len(q) : q[k] \notin OnPath
  <2> SUFFICES ASSUME NEW k \in n + 1 .. Len(q), NEW j \in 1 .. n, q[k] = path[j]
               PROVE  FALSE
    BY <1>2 DEF OnPath, NodesOf
  <2>1. q[k] = q[j] /\ k \in DOMAIN q /\ j \in DOMAIN q /\ k # j
    BY <1>1
  <2> QED
    BY <1>1, <2>1
<1>4. n + 1 \in T
  <2>1. n # Len(q)
    BY <1>1 DEF After
  <2>2. n + 1 \in n + 1 .. Len(q) /\ After(q, n) = q[n + 1]
    BY <1>1, <2>1 DEF After
  <2> QED
    BY <1>3, <2>2
<1>5. PICK k \in T : \A m \in T : m <= k
  <2>1. T \in SUBSET (0 .. Len(q)) /\ T # {}
    BY <1>1, <1>4
  <2> QED
    BY <1>1, <2>1, GreatestNumber
<1>6. /\ q[k] \in S /\ k \in DOMAIN q /\ k \in n + 1 .. Len(q)
  BY <1>1, <1>5
<1>7. After(q, k) # least /\ After(q, k) \in blocked
  BY <1>1, <1>6 DEF IInv, BlockingInv, BlockedWait
<1>8. k # Len(q)
  BY <1>1, <1>7 DEF After
<1>9. k + 1 \in n + 1 .. Len(q) /\ After(q, k) = q[k + 1]
  BY <1>1, <1>6, <1>8 DEF After
<1>10. k + 1 \in T
  BY <1>3, <1>7, <1>9
<1> QED
  BY <1>1, <1>5, <1>6, <1>10

(* The path that closes a cycle is one that is ahead.                      *)
LEMMA ClosedPath ==
  ASSUME IInv, Running, least \in children[Top]
  PROVE  /\ path \in Matching <=> Accepts(path)
         /\ Ahead(path)
<1> DEFINE n == Len(path)
<1>1. /\ path \in Seq(Node) /\ n \in Nat \ {0} /\ DOMAIN path = 1 .. n /\ Top = path[n] /\ path # <<>>
      /\ path[1] = least /\ Top \in Node
  BY TopType DEF IInv, BlockingInv, Running, TypeOK, Top, PathElementary
<1>2. Ahead(path)
  BY <1>1 DEF Ahead, AheadAt, After
<1>3. \A i \in DOMAIN path : After(path, i) \in scc_adjacency[path[i]]
  <2> TAKE i \in DOMAIN path
  <2>1. CASE i = n
    BY <1>1, <2>1 DEF After, IInv, ChildrenInv
  <2>2. CASE i # n
    <3>1. i \in 1 .. Len(path) - 1
      BY <1>1, <2>2
    <3> QED
      BY <2>2, <3>1 DEF After, IInv, BlockingInv, PathElementary
  <2> QED
    BY <2>1, <2>2
<1>4. Accepts(path) => IsMatching(path)
  BY <1>1, <1>3 DEF IsMatching, IInv, BlockingInv, PathElementary
<1>5. path \in Matching => Accepts(path)
  BY MatchingCycles DEF IsMatching
<1> QED
  BY <1>2, <1>4, <1>5, CyclesMatch

-----------------------------------------------------------------------------
(* No step but Close changes which matching cycles are ahead.              *)

LEMMA PopKeepsAhead ==
  ASSUME IInv, PopFound \/ PopFailed, NEW q
  PROVE  Ahead(q)' <=> Ahead(q)
<1>1. path # <<>> /\ Pop /\ children[Top] = {} /\ children' = children
  BY DEF PopFound, PopFailed, Running
<1> DEFINE n == Len(path)
<1>2. /\ n \in Nat \ {0} /\ DOMAIN path = 1 .. n /\ DOMAIN path' = 1 .. n - 1
      /\ \A i \in 1 .. n - 1 : path'[i] = path[i]
      /\ path[n] = Top
  BY <1>1, PopPath DEF IInv, BlockingInv
<1> HIDE DEF n
<1>3. ~AheadAt(q, n)
  BY <1>1, <1>2 DEF AheadAt
<1>4. ASSUME NEW i \in 1 .. n - 1
      PROVE  AheadAt(q, i)' <=> AheadAt(q, i)
  <2>1. i \in 1 .. n - 1 /\ \A j \in 1 .. i : j \in 1 .. n - 1
    BY <1>2
  <2> QED
    BY <1>1, <1>2, <2>1 DEF AheadAt, After
<1>5. Ahead(q)' <=> \E i \in 1 .. n - 1 : AheadAt(q, i)'
  BY <1>2 DEF Ahead
<1>6. Ahead(q) <=> \E i \in 1 .. n - 1 : AheadAt(q, i)
  BY <1>2, <1>3 DEF Ahead
<1> QED
  BY <1>4, <1>5, <1>6

LEMMA PushKeepsAhead ==
  ASSUME IInv, Push, NEW q \in Matching
  PROVE  Ahead(q)' <=> Ahead(q)
<1>1. PICK c \in Node \ {least} :
        /\ path # <<>> /\ ~truncated /\ c \in children[Top] /\ c \notin blocked
        /\ path' = Append(path, c)
        /\ children' = [children EXCEPT ![Top] = @ \ {c}, ![c] = scc_adjacency[c]]
  BY DEF Push, NextChild, Running, Least
<1>0. PICK n \in Nat : n = Len(path)
  BY <1>1, TopType DEF IInv, BlockingInv
<1>2. /\ n \in Nat \ {0} /\ DOMAIN path = 1 .. n /\ DOMAIN path' = 1 .. n + 1
      /\ \A i \in 1 .. n : path'[i] = path[i]
      /\ path'[n + 1] = c /\ c \notin OnPath
  BY <1>0, <1>1, PushPath DEF IInv, BlockingInv
<1>3. /\ children \in [Node -> SUBSET Node] /\ Top = path[n]
      /\ \A i \in 1 .. n : path[i] \in Node /\ path[i] # c
      /\ \A i \in 1 .. n - 1 : path[i] # Top
  <2>1. /\ children \in [Node -> SUBSET Node] /\ Top = path[n]
        /\ \A i \in 1 .. n : path[i] \in Node
    BY <1>0, <1>1, <1>2, TopType DEF IInv, BlockingInv, TypeOK, Top
  <2>2. \A i \in 1 .. n : path[i] # c
    BY <1>2 DEF OnPath, NodesOf
  <2>3. \A i \in 1 .. n - 1 : path[i] # Top
    BY <1>2, <2>1 DEF IInv, BlockingInv, PathElementary
  <2> QED
    BY <2>1, <2>2, <2>3
<1>4. /\ q \in Seq(Node) /\ q[1] = least /\ DOMAIN q = 1 .. Len(q) /\ Len(q) \in Nat
      /\ \A i \in DOMAIN q : After(q, i) \in scc_adjacency[q[i]]
  BY MatchingCycles DEF IsMatching
<1>5. /\ children'[Top] = children[Top] \ {c} /\ children'[c] = scc_adjacency[c]
      /\ \A i \in 1 .. n - 1 : children'[path[i]] = children[path[i]]
  BY <1>1, <1>2, <1>3
<1>6. ASSUME NEW i \in 1 .. n
      PROVE  AheadAt(q, i)' <=> /\ i \in DOMAIN q /\ \A j \in 1 .. i : q[j] = path[j]
                                /\ After(q, i) \in children'[path[i]]
  <2>1. \A j \in 1 .. i : path'[j] = path[j]
    BY <1>2
  <2>2. path'[i] = path[i]
    BY <1>2
  <2> QED
    BY <2>1, <2>2 DEF AheadAt, After
(* The cycle goes on to the child just taken, or it does not.              *)
<1>7. AheadAt(q, n + 1)' <=> n \in DOMAIN q /\ (\A j \in 1 .. n : q[j] = path[j]) /\ After(q, n) = c
  <2>1. ASSUME AheadAt(q, n + 1)'
        PROVE  n \in DOMAIN q /\ (\A j \in 1 .. n : q[j] = path[j]) /\ After(q, n) = c
    <3>1. n + 1 \in DOMAIN q /\ \A j \in 1 .. n + 1 : q[j] = path'[j]
      BY <2>1 DEF AheadAt
    <3>2. n + 1 \in 1 .. n + 1 /\ n + 1 \in 1 .. Len(q)
      BY <1>2, <1>4, <3>1
    <3>3. q[n + 1] = c
      BY <1>2, <3>1, <3>2
    <3>4. n \in DOMAIN q /\ n # Len(q)
      <4>1. n \in Nat \ {0} /\ Len(q) \in Nat
        BY <1>2, <1>4
      <4>2. n \in 1 .. Len(q) /\ n # Len(q)
        BY <3>2, <4>1
      <4> QED
        BY <1>4, <4>2
    <3>5. \A j \in 1 .. n : q[j] = path[j]
      BY <1>2, <3>1
    <3> QED
      BY <3>3, <3>4, <3>5 DEF After
  <2>2. ASSUME n \in DOMAIN q, \A j \in 1 .. n : q[j] = path[j], After(q, n) = c
        PROVE  AheadAt(q, n + 1)'
    <3>0. n # Len(q) /\ c # least
      BY <1>4, <2>2 DEF After
    <3>1. q[n + 1] = c /\ n + 1 \in DOMAIN q
      <4>1. q[n + 1] = c
        BY <2>2, <3>0 DEF After
      <4>2. n \in 1 .. Len(q) /\ Len(q) \in Nat
        BY <1>4, <2>2
      <4>3. n + 1 \in 1 .. Len(q)
        BY <3>0, <4>2
      <4> QED
        BY <1>4, <4>1, <4>3
    <3>2. \A j \in 1 .. n + 1 : q[j] = path'[j]
      BY <1>2, <2>2, <3>1
    <3>3. After(q, n + 1) \in children'[path'[n + 1]]
      BY <1>2, <1>4, <1>5, <3>1
    <3> QED
      BY <3>1, <3>2, <3>3 DEF AheadAt, After
  <2> QED
    BY <2>1, <2>2
<1>8. AheadAt(q, n) <=> AheadAt(q, n)' \/ AheadAt(q, n + 1)'
  <2>1. n \in 1 .. n
    BY <1>2
  <2>2. AheadAt(q, n) <=> /\ n \in DOMAIN q /\ \A j \in 1 .. n : q[j] = path[j]
                          /\ After(q, n) \in children[Top]
    BY <1>3 DEF AheadAt
  <2>3. AheadAt(q, n)' <=> /\ n \in DOMAIN q /\ \A j \in 1 .. n : q[j] = path[j]
                           /\ After(q, n) \in children'[Top]
    BY <1>3, <1>6, <2>1
  <2> QED
    BY <1>1, <1>5, <1>7, <2>2, <2>3
<1>9. \A i \in 1 .. n - 1 : AheadAt(q, i)' <=> AheadAt(q, i)
  <2> SUFFICES ASSUME NEW i \in 1 .. n - 1 PROVE AheadAt(q, i)' <=> AheadAt(q, i)
    OBVIOUS
  <2>1. i \in 1 .. n
    BY <1>2
  <2> QED
    BY <1>5, <1>6, <2>1 DEF AheadAt
<1>10. Ahead(q)' <=> AheadAt(q, n)' \/ AheadAt(q, n + 1)' \/ \E i \in 1 .. n - 1 : AheadAt(q, i)'
  <2>1. Ahead(q)' <=> \E i \in 1 .. n + 1 : AheadAt(q, i)'
    BY <1>2 DEF Ahead
  <2>2. \A i : i \in 1 .. n + 1 <=> i = n \/ i = n + 1 \/ i \in 1 .. n - 1
    BY <1>2
  <2> QED
    BY <2>1, <2>2
<1>11. Ahead(q) <=> AheadAt(q, n) \/ \E i \in 1 .. n - 1 : AheadAt(q, i)
  <2>1. \A i : i \in 1 .. n <=> i = n \/ i \in 1 .. n - 1
    BY <1>2
  <2> QED
    BY <1>2, <2>1 DEF Ahead
<1> QED
  BY <1>8, <1>9, <1>10, <1>11

(* Taking the child c makes a difference only to what goes on with c.      *)
LEMMA ConsumeKeepsAhead ==
  ASSUME IInv, Running, NEW c, Consume(c), UNCHANGED path, NEW q,
         ~(Len(path) \in DOMAIN q /\ (\A j \in 1 .. Len(path) : q[j] = path[j]) /\ After(q, Len(path)) = c)
  PROVE  Ahead(q)' <=> Ahead(q)
<1> DEFINE n == Len(path)
<1>1. /\ n \in Nat \ {0} /\ DOMAIN path = 1 .. n /\ Top = path[n] /\ Top \in Node
      /\ \A i \in 1 .. n : path[i] \in Node /\ (path[i] = Top => i = n)
      /\ children \in [Node -> SUBSET Node]
  BY TopType DEF Running, IInv, BlockingInv, TypeOK, Top, PathElementary
<1>2. ASSUME NEW i \in 1 .. n
      PROVE  AheadAt(q, i)' <=> AheadAt(q, i)
  <2>1. CASE i = n
    <3>1. children'[Top] = children[Top] \ {c}
      BY <1>1 DEF Consume
    <3> QED
      BY <1>1, <2>1, <3>1 DEF AheadAt, After
  <2>2. CASE i # n
    <3>1. children'[path[i]] = children[path[i]]
      BY <1>1, <2>2 DEF Consume
    <3> QED
      BY <3>1 DEF AheadAt, After
  <2> QED
    BY <2>1, <2>2
<1> QED
  BY <1>1, <1>2 DEF Ahead

-----------------------------------------------------------------------------
(* The inductive invariant of the contract.                                *)

LEMMA InitSearch == Init => SearchInv
<1> SUFFICES ASSUME Init PROVE SearchInv
  OBVIOUS
<1>1. Reported = {} /\ DOMAIN cycles = {} /\ ~truncated
  BY DEF Init, Reported
<1>2. ASSUME NEW q \in Matching
      PROVE  Ahead(q)
  <2>1. /\ q \in Seq(Node) /\ q # <<>> /\ q[1] = least
        /\ \A i \in DOMAIN q : After(q, i) \in scc_adjacency[q[i]]
    BY MatchingCycles DEF IsMatching
  <2>2. /\ DOMAIN path = {1} /\ path[1] = least /\ 1 \in DOMAIN q
        /\ children[least] = scc_adjacency[least]
    BY <2>1, LeastType DEF Init
  <2>3. AheadAt(q, 1)
    BY <2>1, <2>2 DEF AheadAt
  <2> QED
    BY <2>2, <2>3 DEF Ahead
<1> QED
  BY <1>1, <1>2 DEF SearchInv

LEMMA SameSearch ==
  ASSUME IInv, SearchInv, ~truncated, UNCHANGED <<args, cycles, truncated>>,
         \A q \in Matching : Ahead(q)' <=> Ahead(q)
  PROVE  SearchInv'
<1>1. Matching' = Matching /\ Reported' = Reported
  BY DEF Matching, Reported, args
<1>2. \A q \in Matching' : q \in Reported' <=> ~Ahead(q)'
  BY <1>1 DEF SearchInv
<1> QED
  BY <1>1, <1>2 DEF SearchInv

LEMMA CloseSearch ==
  ASSUME IInv, SearchInv, Close
  PROVE  SearchInv'
<1>1. /\ Running /\ path # <<>> /\ ~truncated /\ least \in children[Top]
      /\ cycles' = IF Accepts(path) THEN Append(cycles, path) ELSE cycles
      /\ Consume(least)
      /\ UNCHANGED <<args, path, truncated>>
  BY DEF Close, NextChild, Running, Least
<1>2. /\ path \in Seq(Node) /\ Len(path) \in Nat \ {0} /\ DOMAIN path = 1 .. Len(path)
      /\ Top = path[Len(path)] /\ Top \in Node /\ cycles \in Seq(Seq(Node))
      /\ children \in [Node -> SUBSET Node] /\ \A i \in DOMAIN path : path[i] \in Node
  BY <1>1, TopType DEF IInv, BlockingInv, TypeOK, Top
<1>3. (path \in Matching <=> Accepts(path)) /\ Ahead(path)
  BY <1>1, ClosedPath
<1>4. Matching' = Matching
  BY <1>1 DEF Matching, args
<1>5. Reported' = IF Accepts(path) THEN Reported \cup {path} ELSE Reported
  <2>1. CASE Accepts(path)
    <3>1. /\ Len(cycles) \in Nat /\ DOMAIN cycles = 1 .. Len(cycles)
          /\ DOMAIN cycles' = 1 .. Len(cycles) + 1
          /\ cycles'[Len(cycles) + 1] = path
          /\ \A i \in 1 .. Len(cycles) : cycles'[i] = cycles[i]
      BY <1>1, <1>2, <2>1
    <3> QED
      BY <2>1, <3>1 DEF Reported
  <2>2. CASE ~Accepts(path)
    BY <1>1, <2>2 DEF Reported
  <2> QED
    BY <2>1, <2>2
<1>6. path \in Matching => path \notin Reported
  BY <1>1, <1>3 DEF SearchInv
(* A matching cycle that agrees with the path and returns is the path.     *)
<1>7. ASSUME NEW q \in Matching, q # path
      PROVE  ~(/\ Len(path) \in DOMAIN q /\ \A j \in 1 .. Len(path) : q[j] = path[j]
               /\ After(q, Len(path)) = least)
  <2> SUFFICES ASSUME Len(path) \in DOMAIN q, \A j \in 1 .. Len(path) : q[j] = path[j],
                      After(q, Len(path)) = least
               PROVE  FALSE
    OBVIOUS
  <2>1. /\ q \in Seq(Node) /\ q[1] = least /\ q # <<>>
        /\ \A i, j \in DOMAIN q : q[i] = q[j] => i = j
    BY MatchingCycles DEF IsMatching
  <2>2. Len(path) # Len(q)
    <3> SUFFICES ASSUME Len(path) = Len(q) PROVE FALSE
      OBVIOUS
    <3>1. \A i \in 1 .. Len(path) : path[i] = q[i]
      OBVIOUS
    <3>2. path = q
      BY <1>2, <2>1, <3>1, SeqEqual
    <3> QED
      BY <1>7, <3>2
  <2>3. q[Len(path) + 1] = least
    BY <2>2 DEF After
  <2>4. DOMAIN q = 1 .. Len(q) /\ Len(q) \in Nat
    BY <2>1
  <2>5. Len(path) + 1 \in DOMAIN q /\ 1 \in DOMAIN q /\ Len(path) + 1 # 1
    <3>1. Len(path) \in Nat \ {0} /\ Len(path) \in 1 .. Len(q)
      BY <1>2, <2>4
    <3> QED
      BY <2>2, <2>4, <3>1
  <2> QED
    BY <2>1, <2>3, <2>5
<1>8. ASSUME NEW q \in Matching, q # path
      PROVE  Ahead(q)' <=> Ahead(q)
  BY <1>1, <1>7, <1>8, ConsumeKeepsAhead
<1>9. ASSUME NEW q, q = path
      PROVE  ~Ahead(q)'
  <2>1. children'[Top] = children[Top] \ {least} /\ \A v \in Node : children'[v] \subseteq children[v]
    BY <1>1, <1>2 DEF Consume
  <2>2. ASSUME NEW i \in DOMAIN path
        PROVE  After(path, i) \notin children'[path[i]]
    <3>1. CASE i = Len(path)
      BY <1>2, <2>1, <3>1 DEF After, IInv, BlockingInv, PathElementary
    <3>2. CASE i # Len(path)
      <4>1. i \in 1 .. Len(path) - 1
        BY <1>2, <3>2
      <4>2. path[i + 1] \notin children[path[i]]
        BY <4>1 DEF IInv, ChildrenInv
      <4> QED
        BY <1>2, <2>1, <3>2, <4>2 DEF After
    <3> QED
      BY <3>1, <3>2
  <2> QED
    BY <1>1, <1>9, <2>2 DEF Ahead, AheadAt, After
<1>10. Reported' \subseteq Matching'
  BY <1>3, <1>4, <1>5 DEF SearchInv
<1>11. \A i, j \in DOMAIN cycles' : cycles'[i] = cycles'[j] => i = j
  <2>1. CASE ~Accepts(path)
    BY <1>1, <2>1 DEF SearchInv
  <2>2. CASE Accepts(path)
    <3>1. /\ Len(cycles) \in Nat /\ DOMAIN cycles = 1 .. Len(cycles)
          /\ DOMAIN cycles' = 1 .. Len(cycles) + 1
          /\ cycles'[Len(cycles) + 1] = path
          /\ \A i \in 1 .. Len(cycles) : cycles'[i] = cycles[i]
      BY <1>1, <1>2, <2>2
    <3>2. \A i \in 1 .. Len(cycles) : cycles[i] # path
      BY <1>3, <1>6, <2>2, <3>1 DEF Reported
    <3> SUFFICES ASSUME NEW i \in 1 .. Len(cycles) + 1, NEW j \in 1 .. Len(cycles) + 1,
                        cycles'[i] = cycles'[j]
                 PROVE  i = j
      BY <3>1
    <3>3. CASE i \in 1 .. Len(cycles) /\ j \in 1 .. Len(cycles)
      BY <3>1, <3>3 DEF SearchInv
    <3>4. CASE i = Len(cycles) + 1 \/ j = Len(cycles) + 1
      <4>1. \A k \in 1 .. Len(cycles) + 1 : cycles'[k] = path => k = Len(cycles) + 1
        BY <3>1, <3>2
      <4> QED
        BY <3>1, <3>4, <4>1
    <3> QED
      BY <3>1, <3>3, <3>4
  <2> QED
    BY <2>1, <2>2
<1>12. \A q \in Matching' : q \in Reported' <=> ~Ahead(q)'
  <2> SUFFICES ASSUME NEW q \in Matching PROVE q \in Reported' <=> ~Ahead(q)'
    BY <1>4
  <2>1. CASE q = path
    BY <1>3, <1>5, <1>9, <2>1
  <2>2. CASE q # path
    BY <1>1, <1>5, <1>8, <2>2 DEF SearchInv
  <2> QED
    BY <2>1, <2>2
<1> QED
  BY <1>1, <1>10, <1>11, <1>12 DEF SearchInv

LEMMA NextSearch == IInv /\ SearchInv /\ [Next]_vars => SearchInv'
<1> SUFFICES ASSUME IInv, SearchInv, [Next]_vars PROVE SearchInv'
  OBVIOUS
<1>1. CASE Close
  BY <1>1, CloseSearch
<1>2. CASE Truncate
  <2>1. /\ Running /\ ~truncated /\ truncated' = TRUE /\ Accepts(path) /\ least \in children[Top]
        /\ max_cycles # NoLimit /\ Len(cycles) >= max_cycles
        /\ UNCHANGED <<args, path, cycles>>
    BY <1>2 DEF Truncate, NextChild, Running, Least
  <2>2. path \in Matching /\ Ahead(path)
    BY <2>1, ClosedPath
  <2>3. path \notin Reported
    BY <2>1, <2>2 DEF SearchInv
  <2>4. Len(cycles) = max_cycles
    <3>1. cycles \in Seq(Seq(Node)) /\ Len(cycles) <= max_cycles /\ max_cycles \in Nat
      BY <2>1, BudgetAssumption DEF IInv, BlockingInv, TypeOK
    <3>2. Len(cycles) \in Nat
      BY <3>1
    <3> QED
      BY <2>1, <3>1, <3>2
  <2>5. Matching' = Matching /\ Reported' = Reported
    BY <2>1 DEF Matching, Reported, args
  <2> QED
    BY <2>1, <2>2, <2>3, <2>4, <2>5 DEF SearchInv, args
<1>3. CASE Push
  BY <1>3, PushKeepsAhead, SameSearch DEF Push, NextChild, Running
<1>4. CASE SkipBlocked
  <2>1. PICK c \in Node \ {least} :
          /\ Running /\ c \in blocked /\ Consume(c)
          /\ UNCHANGED <<args, path, cycles, truncated>>
    BY <1>4 DEF SkipBlocked, NextChild
  <2>2. ASSUME NEW q \in Matching
        PROVE  Ahead(q)' <=> Ahead(q)
    <3>1. ~(Len(path) \in DOMAIN q /\ (\A j \in 1 .. Len(path) : q[j] = path[j]) /\ After(q, Len(path)) = c)
      BY <2>1, SkippedIsOff
    <3> QED
      BY <2>1, <3>1, ConsumeKeepsAhead
  <2> QED
    BY <2>1, <2>2, SameSearch DEF Running
<1>5. CASE PopFound
  BY <1>5, PopKeepsAhead, SameSearch DEF PopFound, Running
<1>6. CASE PopFailed
  BY <1>6, PopKeepsAhead, SameSearch DEF PopFailed, Running
<1>7. CASE UNCHANGED vars
  <2>1. Matching' = Matching /\ Reported' = Reported
    BY <1>7 DEF vars, Matching, Reported, args
  <2>2. \A q : Ahead(q)' <=> Ahead(q)
    BY <1>7 DEF vars, Ahead, AheadAt, After
  <2> QED
    BY <1>7, <2>1, <2>2 DEF vars, args, SearchInv
<1> QED
  BY <1>1, <1>2, <1>3, <1>4, <1>5, <1>6, <1>7 DEF Next

LEMMA ContractHolds == IInv /\ SearchInv => SearchContract
<1> SUFFICES ASSUME IInv, SearchInv, Finished PROVE SearchContract
  BY DEF SearchContract
<1> DEFINE n == Len(cycles)
<1>1. n \in Nat /\ DOMAIN cycles = 1 .. n /\ cycles \in [1 .. n -> Reported]
  <2>1. cycles \in Seq(Seq(Node))
    BY DEF IInv, BlockingInv, TypeOK
  <2>2. n \in Nat /\ DOMAIN cycles = 1 .. n /\ cycles = [i \in 1 .. n |-> cycles[i]]
    BY <2>1
  <2>3. \A i \in 1 .. n : cycles[i] \in Reported
    BY <2>2 DEF Reported
  <2> HIDE DEF n
  <2> QED
    BY <2>2, <2>3
<1>2. cycles \in Injection(1 .. n, Reported)
  <2> HIDE DEF n
  <2> QED
    BY <1>1, Fun_IsInj DEF SearchInv
<1>3. cycles \in Surjection(1 .. n, Reported)
  BY <1>1 DEF Surjection, Reported
<1>4. IsFiniteSet(1 .. n) /\ Cardinality(1 .. n) = n
  <2> HIDE DEF n
  <2> QED
    BY <1>1, FS_Interval
<1>5. IsFiniteSet(Reported) /\ Cardinality(Reported) = n
  <2> HIDE DEF n
  <2> QED
    BY <1>2, <1>3, <1>4, FS_Surjection
<1> HIDE DEF n
<1>6. CASE truncated
  <2>1. path \in Matching \ Reported /\ max_cycles # NoLimit /\ max_cycles = n
    BY <1>6 DEF SearchInv, n
  <2>2. /\ Cardinality(Matching) \in Nat
        /\ Cardinality(Reported) <= Cardinality(Matching)
        /\ Cardinality(Reported) # Cardinality(Matching)
    BY <2>1, MatchingIsFinite, FS_Subset, FS_CardinalityType DEF SearchInv
  <2>3. ~(max_cycles = NoLimit \/ Cardinality(Matching) <= max_cycles)
    BY <1>1, <1>5, <2>1, <2>2
  <2>4. Reported \in kSubset(max_cycles, Matching)
    BY <1>5, <2>1 DEF kSubset, SearchInv
  <2>5. truncated = TRUE
    BY <1>6 DEF IInv, BlockingInv, TypeOK
  <2> QED
    BY <1>5, <2>3, <2>4, <2>5 DEF SearchContract, SearchResults, n
<1>7. CASE ~truncated
  <2>1. path = <<>>
    BY <1>7 DEF Finished, Running
  <2>2. \A q : ~Ahead(q)
    BY <2>1 DEF Ahead
  <2>3. Reported = Matching
    BY <1>7, <2>2 DEF SearchInv
  <2>4. max_cycles = NoLimit \/ Cardinality(Matching) <= max_cycles
    BY <1>5, <2>3 DEF IInv, BlockingInv, TypeOK, n
  <2>5. truncated = FALSE
    BY <1>7 DEF IInv, BlockingInv, TypeOK
  <2> QED
    BY <1>5, <2>3, <2>4, <2>5 DEF SearchContract, SearchResults, n
<1> QED
  BY <1>6, <1>7

THEOREM SearchInvariance == Spec => [](IInv /\ SearchInv)
<1> QED
  BY InitInv, InitSearch, NextInv, NextSearch, PTL DEF Spec

(* For every graph, filter and limit: a search that comes to its end has   *)
(* reported every matching cycle once, or exactly max_cycles of more.      *)
THEOREM ContractIsKept == Spec => []SearchContract
<1> QED
  BY SearchInvariance, ContractHolds, PTL

=============================================================================
