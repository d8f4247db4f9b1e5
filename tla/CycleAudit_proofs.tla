------------------------- MODULE CycleAudit_proofs -------------------------
(***************************************************************************)
(* Proofs about the cycle search and the audit that runs it, for every     *)
(* finite graph, filter and limit.                                         *)
(*                                                                         *)
(* The search is exact: splitting components loses no cycle, repeats none, *)
(* and one limit holds for all of them.                                    *)
(*                                                                         *)
(* The audit's shortcut is exact: if the structural search was complete,   *)
(* picking the candidates by the edges that represent the hops of a cycle  *)
(* gives what searching again with the filter of                           *)
(* find_message_loop_candidates would give.  The two sides look at         *)
(* different edges.  The search asks whether any edge between two nodes    *)
(* republishes, the shortcut whether the first one does.  They agree       *)
(* because the kinds of the endpoints decide whether the edges between two *)
(* nodes republish (SameEndpointsRepublishAlike).                          *)
(***************************************************************************)
EXTENDS CycleAudit, FiniteSetTheorems, FunctionTheorems, SequenceTheorems,
        WellFoundedInduction, TLAPS

-----------------------------------------------------------------------------
(* Numbers.                                                                *)

(* A set of natural numbers that is not empty has a least member.          *)
LEMMA LeastNumber ==
  ASSUME NEW T \in SUBSET Nat, T # {}
  PROVE  \E k \in T : \A m \in T : k <= m
<1> DEFINE R == OpToRel(<, Nat)
<1>1. IsWellFoundedOn(R, Nat)
  BY NatLessThanWellFounded
<1>2. \A k, m \in Nat : m < k => <<m, k>> \in R
  BY DEF OpToRel
<1> HIDE DEF R
<1>3. PICK k \in T : \A m \in T : <<m, k>> \notin R
  BY <1>1, WFMin
<1>4. \A m \in T : ~(m < k)
  BY <1>2, <1>3
<1>5. \A m \in T : k <= m
  BY <1>4
<1> QED
  BY <1>5

LEMMA GreatestNumber ==
  ASSUME NEW n \in Nat, NEW T \in SUBSET (0 .. n), T # {}
  PROVE  \E k \in T : \A m \in T : m <= k
<1> DEFINE U == {d \in 0 .. n : n - d \in T}
<1>1. U \in SUBSET Nat /\ U # {}
  <2>1. PICK m \in T : TRUE
    OBVIOUS
  <2>2. n - (n - m) = m /\ n - m \in 0 .. n
    OBVIOUS
  <2> QED
    BY <2>1, <2>2
<1>2. PICK d \in U : \A e \in U : d <= e
  BY <1>1, LeastNumber
<1>3. \A m \in T : n - m \in U
  <2> TAKE m \in T
  <2>1. n - (n - m) = m /\ n - m \in 0 .. n
    OBVIOUS
  <2> QED
    BY <2>1
<1>4. \A m \in T : m <= n - d
  BY <1>2, <1>3
<1> QED
  BY <1>2, <1>4

LEMMA LeastOfType ==
  ASSUME NEW S \in SUBSET Node, S # {}
  PROVE  LeastOf(S) \in S /\ \A v \in S : LeastOf(S) <= v
BY NodeAssumption, LeastNumber DEF LeastOf

-----------------------------------------------------------------------------
(* Reachability.                                                           *)

LEMMA ReachesSelf == \A g, a : Reaches(g, a, a)
BY DEF Reaches

LEMMA ReachesTransitive ==
  ASSUME NEW g, NEW a, NEW b, NEW d, Reaches(g, a, b), Reaches(g, b, d)
  PROVE  Reaches(g, a, d)
BY DEF Reaches

(* Two components that share a node are one.                               *)
LEMMA SccsAreDisjoint ==
  ASSUME NEW g, NEW S \in SUBSET Node, NEW C \in Sccs(g, S), NEW D \in Sccs(g, S), C \cap D # {}
  PROVE  C = D
<1>1. PICK c \in S : C = SccOf(g, c) \cap S
  BY DEF Sccs
<1>2. PICK d \in S : D = SccOf(g, d) \cap S
  BY DEF Sccs
<1>3. PICK u \in Node : u \in SccOf(g, c) /\ u \in SccOf(g, d)
  BY <1>1, <1>2 DEF SccOf
<1>4. Reaches(g, c, d) /\ Reaches(g, d, c)
  BY <1>3, ReachesTransitive DEF SccOf
<1>5. \A v \in Node : v \in SccOf(g, c) <=> v \in SccOf(g, d)
  BY <1>4, ReachesTransitive DEF SccOf
<1> QED
  BY <1>1, <1>2, <1>5

LEMMA SccsType ==
  ASSUME NEW g, NEW S \in SUBSET Node, NEW C \in Sccs(g, S)
  PROVE  C \subseteq S /\ C # {}
<1>1. PICK c \in S : C = SccOf(g, c) \cap S
  BY DEF Sccs
<1>2. c \in C
  BY <1>1, ReachesSelf DEF SccOf
<1> QED
  BY <1>1, <1>2

-----------------------------------------------------------------------------
(* Elementary cycles, in terms of their hops.                              *)

After(p, i) == p[IF i = Len(p) THEN 1 ELSE i + 1]

IsCycle(g, req, p) ==
  /\ p \in Seq(Node) /\ p # <<>>
  /\ \A i, j \in DOMAIN p : p[i] = p[j] => i = j
  /\ \A i \in DOMAIN p : After(p, i) \in g[p[i]]
  /\ Hops(p) \cap req # {}

LEMMA CyclesThroughAre ==
  ASSUME NEW g, NEW req, NEW s \in Node, NEW q \in CyclesThrough(g, s, req)
  PROVE  IsCycle(g, req, q) /\ q[1] = s
<1>1. /\ q \in ElementaryPaths(g, s)
      /\ s \in g[q[Len(q)]] /\ Hops(q) \cap req # {}
  BY DEF CyclesThrough
<1>2. PICK r \in UpTo(Cardinality(Node) - 1, Node \ {s}) :
        /\ q = <<s>> \o r
        /\ \A i, j \in DOMAIN q : q[i] = q[j] => i = j
        /\ \A i \in 1 .. Len(q) - 1 : q[i + 1] \in g[q[i]]
  BY <1>1 DEF ElementaryPaths
<1>3. r \in Seq(Node)
  <2>1. PICK m \in 0 .. Cardinality(Node) - 1 : r \in [1 .. m -> Node \ {s}]
    BY <1>2 DEF UpTo
  <2>2. m \in Nat /\ r \in [1 .. m -> Node]
    BY <2>1, NodeAssumption, FS_CardinalityType
  <2> QED
    BY <2>2
<1>4. <<s>> \in Seq(Node) /\ Len(<<s>>) = 1 /\ <<s>>[1] = s
  OBVIOUS
<1>5. q \in Seq(Node) /\ Len(q) = 1 + Len(r) /\ q[1] = s
  BY <1>2, <1>3, <1>4, ConcatProperties
<1>6. Len(q) \in Nat \ {0} /\ DOMAIN q = 1 .. Len(q) /\ q # <<>>
  BY <1>3, <1>5
<1>7. \A i \in DOMAIN q : After(q, i) \in g[q[i]]
  <2> TAKE i \in DOMAIN q
  <2>1. CASE i = Len(q)
    BY <1>1, <1>5, <2>1 DEF After
  <2>2. CASE i # Len(q)
    <3>1. i \in 1 .. Len(q) - 1
      BY <1>6, <2>2
    <3> QED
      BY <1>2, <2>2, <3>1 DEF After
  <2> QED
    BY <2>1, <2>2
<1> QED
  BY <1>1, <1>2, <1>5, <1>6, <1>7 DEF IsCycle

(* An elementary path is no longer than there are nodes.                   *)
LEMMA ElementaryIsBounded ==
  ASSUME NEW q \in Seq(Node), \A i, j \in DOMAIN q : q[i] = q[j] => i = j
  PROVE  Len(q) <= Cardinality(Node)
<1>1. Len(q) \in Nat /\ DOMAIN q = 1 .. Len(q) /\ q \in [1 .. Len(q) -> Node]
  OBVIOUS
<1>2. q \in Injection(1 .. Len(q), Node)
  BY <1>1, Fun_IsInj
<1>3. Cardinality(1 .. Len(q)) <= Cardinality(Node)
  BY <1>2, NodeAssumption, FS_Injection
<1>4. Cardinality(1 .. Len(q)) = Len(q)
  BY <1>1, FS_Interval
<1> QED
  BY <1>3, <1>4

LEMMA CyclesAreThrough ==
  ASSUME NEW g, NEW req, NEW s \in Node, NEW q, IsCycle(g, req, q), q[1] = s
  PROVE  q \in CyclesThrough(g, s, req)
<1> DEFINE n == Len(q)
           r == Tail(q)
<1>1. /\ q \in Seq(Node) /\ q # <<>> /\ q[1] = s
      /\ n \in Nat \ {0} /\ DOMAIN q = 1 .. n
      /\ \A i, j \in DOMAIN q : q[i] = q[j] => i = j
  BY DEF IsCycle
<1>2. n <= Cardinality(Node) /\ Cardinality(Node) \in Nat
  BY <1>1, ElementaryIsBounded, NodeAssumption, FS_CardinalityType
<1>3. /\ r \in Seq(Node) /\ Len(r) = n - 1
      /\ \A i \in 1 .. Len(r) : r[i] = q[i + 1]
  BY <1>1, HeadTailProperties
<1>4. q = <<s>> \o r
  <2>1. <<s>> \in Seq(Node) /\ Len(<<s>>) = 1 /\ <<s>>[1] = s
    OBVIOUS
  <2> DEFINE p == <<s>> \o r
             one == <<s>>
  <2>2. one \in Seq(Node) /\ Len(one) = 1 /\ one[1] = s /\ p = one \o r
    BY <2>1
  <2> HIDE DEF one, r
  <2>3. /\ p \in Seq(Node) /\ Len(p) = 1 + Len(r)
        /\ \A i \in 1 .. 1 + Len(r) : p[i] = IF i <= 1 THEN one[i] ELSE r[i - 1]
    BY <1>3, <2>2, ConcatProperties
  <2> HIDE DEF p
  <2>4. \A i \in 1 .. n : p[i] = q[i]
    <3> SUFFICES ASSUME NEW i \in 1 .. n PROVE p[i] = q[i]
      OBVIOUS
    <3>1. CASE i = 1
      BY <1>1, <1>3, <2>2, <2>3, <3>1
    <3>2. CASE i # 1
      <4>1. i - 1 \in 1 .. Len(r) /\ (i - 1) + 1 = i
        BY <1>1, <1>3, <3>2
      <4>2. r[i - 1] = q[i]
        BY <1>3, <4>1
      <4> QED
        BY <1>1, <1>3, <2>3, <3>2, <4>2
    <3> QED
      BY <3>1, <3>2
  <2>5. p = q
    BY <1>1, <1>3, <2>3, <2>4, SeqEqual
  <2> QED
    BY <2>5 DEF p
<1>5. r \in UpTo(Cardinality(Node) - 1, Node \ {s})
  <2>1. \A i \in 1 .. n - 1 : r[i] \in Node \ {s}
    <3> SUFFICES ASSUME NEW i \in 1 .. n - 1 PROVE r[i] \in Node \ {s}
      OBVIOUS
    <3>1. r[i] = q[i + 1] /\ i + 1 \in 1 .. n /\ i + 1 # 1
      BY <1>1, <1>3
    <3> QED
      BY <1>1, <3>1
  <2>2. r \in [1 .. n - 1 -> Node \ {s}]
    <3> HIDE DEF r, n
    <3>1. r \in [1 .. n - 1 -> Node]
      BY <1>1, <1>3
    <3> QED
      BY <2>1, <3>1
  <2>3. n - 1 \in 0 .. Cardinality(Node) - 1
    BY <1>1, <1>2
  <2> QED
    BY <2>2, <2>3 DEF UpTo
<1>6. \A i \in 1 .. n - 1 : q[i + 1] \in g[q[i]]
  BY <1>1 DEF IsCycle, After
<1>7. q[1] \in g[q[n]]
  BY <1>1 DEF IsCycle, After
<1>8. q \in ElementaryPaths(g, s)
  BY <1>1, <1>4, <1>5, <1>6 DEF ElementaryPaths
<1> QED
  BY <1>1, <1>7, <1>8 DEF CyclesThrough, IsCycle

LEMMA CycleType ==
  ASSUME NEW g, NEW req, NEW p, IsCycle(g, req, p)
  PROVE  /\ Len(p) \in Nat \ {0}
         /\ DOMAIN p = 1 .. Len(p)
         /\ \A i \in 1 .. Len(p) : p[i] \in Node /\ p[i] \in NodesOf(p) /\ After(p, i) \in NodesOf(p)
         /\ NodesOf(p) \subseteq Node
<1>1. /\ Len(p) \in Nat \ {0} /\ DOMAIN p = 1 .. Len(p)
      /\ \A i \in 1 .. Len(p) : p[i] \in Node
  BY DEF IsCycle
<1>2. \A i \in 1 .. Len(p) : (IF i = Len(p) THEN 1 ELSE i + 1) \in 1 .. Len(p)
  <2> DEFINE n == Len(p)
  <2>1. n \in Nat \ {0}
    BY <1>1
  <2> HIDE DEF n
  <2>2. \A i \in 1 .. n : (IF i = n THEN 1 ELSE i + 1) \in 1 .. n
    BY <2>1
  <2> QED
    BY <2>2 DEF n
<1> QED
  BY <1>1, <1>2 DEF After, NodesOf

(* A cycle of the graph between the nodes of S.                            *)
LEMMA InducedCycles ==
  ASSUME NEW adj, NEW req, NEW S \in SUBSET Node, NEW p
  PROVE  IsCycle(Induced(adj, S), req, p) <=> IsCycle(adj, req, p) /\ NodesOf(p) \subseteq S
<1>1. ASSUME IsCycle(Induced(adj, S), req, p)
      PROVE  IsCycle(adj, req, p) /\ NodesOf(p) \subseteq S
  <2>1. \A i \in DOMAIN p : p[i] \in Node /\ After(p, i) \in Induced(adj, S)[p[i]]
    BY <1>1, CycleType DEF IsCycle
  <2>2. \A i \in DOMAIN p : p[i] \in S /\ After(p, i) \in adj[p[i]]
    BY <2>1 DEF Induced
  <2> QED
    BY <1>1, <2>2 DEF IsCycle, NodesOf
<1>2. ASSUME IsCycle(adj, req, p), NodesOf(p) \subseteq S
      PROVE  IsCycle(Induced(adj, S), req, p)
  <2>1. \A i \in DOMAIN p : p[i] \in S /\ p[i] \in Node /\ After(p, i) \in S
    BY <1>2, CycleType
  <2>2. \A i \in DOMAIN p : After(p, i) \in Induced(adj, S)[p[i]]
    BY <1>2, <2>1 DEF IsCycle, Induced
  <2> QED
    BY <1>2, <2>2 DEF IsCycle
<1> QED
  BY <1>1, <1>2

LEMMA CyclesWithin ==
  ASSUME NEW adj, NEW req, NEW S \in SUBSET Node, NEW s \in Node, NEW p
  PROVE  p \in CyclesThrough(Induced(adj, S), s, req)
           <=> IsCycle(adj, req, p) /\ p[1] = s /\ NodesOf(p) \subseteq S
BY CyclesThroughAre, CyclesAreThrough, InducedCycles

LEMMA AllCyclesAre ==
  ASSUME NEW adj, NEW req, NEW p
  PROVE  p \in AllCycles(adj, req)
           <=> IsCycle(adj, req, p) /\ \A v \in NodesOf(p) : p[1] <= v
<1> DEFINE above(s) == {u \in Node : s <= u}
<1>1. p \in AllCycles(adj, req)
        <=> \E s \in Node : p \in CyclesThrough(Induced(adj, above(s)), s, req)
  BY DEF AllCycles
<1>2. \A s \in Node : p \in CyclesThrough(Induced(adj, above(s)), s, req)
        <=> IsCycle(adj, req, p) /\ p[1] = s /\ NodesOf(p) \subseteq above(s)
  BY CyclesWithin
<1>3. IsCycle(adj, req, p) => p[1] \in Node /\ NodesOf(p) \subseteq Node
  BY CycleType
<1> HIDE DEF above
<1>4. IsCycle(adj, req, p)
        => (NodesOf(p) \subseteq above(p[1]) <=> \A v \in NodesOf(p) : p[1] <= v)
  BY <1>3 DEF above
<1> QED
  BY <1>1, <1>2, <1>3, <1>4

(* The cycles through the least node of V, as _circuit is asked for them.  *)
LEMMA LocalCycles ==
  ASSUME NEW adj, NEW req, NEW V \in SUBSET Node, V # {}, NEW p
  PROVE  p \in CyclesThrough(Induced(adj, V), LeastOf(V), req)
           <=> p \in AllCycles(adj, req) /\ NodesOf(p) \subseteq V /\ LeastOf(V) \in NodesOf(p)
<1> DEFINE l == LeastOf(V)
<1>1. l \in V /\ l \in Node /\ \A v \in V : l <= v
  BY LeastOfType
<1> HIDE DEF l
<1>2. p \in CyclesThrough(Induced(adj, V), l, req)
        <=> IsCycle(adj, req, p) /\ p[1] = l /\ NodesOf(p) \subseteq V
  BY <1>1, CyclesWithin
<1>3. p \in AllCycles(adj, req) <=> IsCycle(adj, req, p) /\ \A v \in NodesOf(p) : p[1] <= v
  BY AllCyclesAre
<1>4. IsCycle(adj, req, p) => p[1] \in NodesOf(p) /\ p[1] \in Nat
  <2>1. IsCycle(adj, req, p) => Len(p) \in Nat \ {0} /\ DOMAIN p = 1 .. Len(p)
    BY CycleType
  <2>2. IsCycle(adj, req, p) => p[1] \in NodesOf(p) /\ p[1] \in Node
    BY <2>1, CycleType
  <2> QED
    BY <2>2, NodeAssumption
<1>5. l \in Nat
  BY <1>1, NodeAssumption
<1>6. ASSUME IsCycle(adj, req, p), NodesOf(p) \subseteq V, l \in NodesOf(p),
             \A v \in NodesOf(p) : p[1] <= v
      PROVE  p[1] = l
  BY <1>1, <1>4, <1>5, <1>6
<1> QED
  BY <1>1, <1>2, <1>3, <1>4, <1>6 DEF l

(* Around a cycle, a set that leads nowhere else holds all or nothing.     *)
LEMMA CycleIsClosed ==
  ASSUME NEW g, NEW req, NEW p, IsCycle(g, req, p), NEW T, Closed(g, T),
         NEW a \in NodesOf(p), a \in T
  PROVE  NodesOf(p) \subseteq T
<1> DEFINE n == Len(p)
<1>1. /\ n \in Nat \ {0} /\ DOMAIN p = 1 .. n
      /\ \A i \in 1 .. n : p[i] \in T => After(p, i) \in T
  BY CycleType DEF Closed, IsCycle
<1>2. PICK i \in 1 .. n : p[i] \in T
  BY <1>1 DEF NodesOf
<1> HIDE DEF n
<1>3. p[1] \in T
  <2> DEFINE I == {k \in 1 .. n : p[k] \in T}
  <2>1. I \subseteq 0 .. n /\ I # {}
    BY <1>1, <1>2
  <2>2. PICK k \in I : \A m \in I : m <= k
    BY <1>1, <2>1, GreatestNumber
  <2>3. k = n
    <3> SUFFICES ASSUME k # n PROVE FALSE
      OBVIOUS
    <3>1. k + 1 \in 1 .. n /\ ~(k + 1 <= k)
      BY <1>1, <2>2
    <3>2. p[k + 1] \in T
      BY <1>1, <2>2 DEF After, n
    <3> QED
      BY <2>2, <3>1, <3>2
  <2> QED
    BY <1>1, <2>2, <2>3 DEF After, n
<1>4. \A k \in 1 .. n : p[k] \in T
  <2> SUFFICES ASSUME \E k \in 1 .. n : p[k] \notin T PROVE FALSE
    OBVIOUS
  <2> DEFINE O == {k \in 1 .. n : p[k] \notin T}
  <2>1. O \in SUBSET Nat /\ O # {}
    OBVIOUS
  <2>2. PICK k \in O : \A m \in O : k <= m
    BY <2>1, LeastNumber
  <2>3. k # 1
    BY <1>3, <2>2
  <2>4. k - 1 \in 1 .. n /\ ~(k <= k - 1) /\ k - 1 # n /\ (k - 1) + 1 = k
    BY <1>1, <2>2, <2>3
  <2>5. p[k - 1] \in T
    BY <2>2, <2>4
  <2>6. p[k] \in T
    BY <1>1, <2>4, <2>5 DEF After, n
  <2> QED
    BY <2>2, <2>6
<1> QED
  BY <1>1, <1>4 DEF NodesOf

(* So a cycle lies in one component, ...                                   *)
LEMMA CycleInScc ==
  ASSUME NEW g, NEW req, NEW p, IsCycle(g, req, p), NEW S \in SUBSET Node, NodesOf(p) \subseteq S
  PROVE  \E C \in Sccs(g, S) : NodesOf(p) \subseteq C
<1>1. p[1] \in NodesOf(p) /\ NodesOf(p) \subseteq Node
  BY CycleType
<1>2. \A a, b \in NodesOf(p) : Reaches(g, a, b)
  BY CycleIsClosed DEF Reaches
<1>3. NodesOf(p) \subseteq SccOf(g, p[1])
  BY <1>1, <1>2 DEF SccOf
<1>4. SccOf(g, p[1]) \cap S \in Sccs(g, S)
  BY <1>1 DEF Sccs
<1> QED
  BY <1>3, <1>4

(* ... which is one that the search goes into.                             *)
LEMMA CycleIsSearched ==
  ASSUME NEW g, NEW req, NEW p, IsCycle(g, req, p), NEW C, NodesOf(p) \subseteq C
  PROVE  IsCyclic(g, C) /\ \E s, t \in C : <<s, t>> \in req
<1>1. /\ Len(p) \in Nat \ {0} /\ DOMAIN p = 1 .. Len(p)
      /\ \A i \in 1 .. Len(p) : p[i] \in C /\ After(p, i) \in C /\ After(p, i) \in g[p[i]]
  BY CycleType DEF IsCycle
<1>2. IsCyclic(g, C)
  <2>1. CASE Len(p) = 1
    <3>1. p[1] \in C /\ p[1] \in g[p[1]]
      BY <1>1, <2>1 DEF After
    <3> QED
      BY <3>1 DEF IsCyclic
  <2>2. CASE Len(p) # 1
    <3>1. 1 \in 1 .. Len(p) /\ 2 \in 1 .. Len(p)
      BY <1>1, <2>2
    <3>2. p[1] # p[2]
      BY <1>1, <3>1 DEF IsCycle
    <3> QED
      BY <1>1, <3>1, <3>2 DEF IsCyclic
  <2> QED
    BY <2>1, <2>2
<1>3. PICK i \in DOMAIN p : <<p[i], After(p, i)>> \in req
  BY DEF IsCycle, Hops, After
<1> QED
  BY <1>1, <1>2, <1>3

(* A graph has finitely many elementary cycles.                            *)
LEMMA CyclesFinite ==
  ASSUME NEW adj, NEW req
  PROVE  IsFiniteSet(AllCycles(adj, req))
<1> DEFINE all == AllCycles(adj, req)
           N == Cardinality(Node)
           B == SUBSET ((1 .. N) \X Node)
           G(q) == {<<i, q[i]>> : i \in DOMAIN q}
           F == [q \in all |-> G(q)]
<1>1. N \in Nat /\ IsFiniteSet(1 .. N) /\ IsFiniteSet(Node)
  BY NodeAssumption, FS_CardinalityType, FS_Interval
<1>2. IsFiniteSet(B)
  BY <1>1, FS_Product, FS_SUBSET
<1>3. ASSUME NEW q \in all
      PROVE  q \in Seq(Node) /\ DOMAIN q = 1 .. Len(q) /\ Len(q) \in 0 .. N
  <2>1. IsCycle(adj, req, q)
    BY AllCyclesAre
  <2> QED
    BY <1>1, <2>1, ElementaryIsBounded DEF IsCycle
<1>4. \A q \in all : G(q) \in B
  <2> SUFFICES ASSUME NEW q \in all, NEW i \in DOMAIN q PROVE i \in 1 .. N /\ q[i] \in Node
    OBVIOUS
  <2> QED
    BY <1>1, <1>3
<1>5. ASSUME NEW p \in all, NEW q \in all, G(p) = G(q)
      PROVE  p = q
  <2>1. \A i \in DOMAIN p : i \in DOMAIN q /\ p[i] = q[i]
    <3> TAKE i \in DOMAIN p
    <3>1. <<i, p[i]>> \in G(q)
      BY <1>5
    <3> QED
      BY <3>1
  <2>2. \A i \in DOMAIN q : i \in DOMAIN p
    <3> TAKE i \in DOMAIN q
    <3>1. <<i, q[i]>> \in G(p)
      BY <1>5
    <3> QED
      BY <3>1
  <2>3. DOMAIN p = DOMAIN q
    BY <2>1, <2>2
  <2>4. Len(p) = Len(q)
    BY <1>3, <2>3
  <2> QED
    BY <1>3, <2>1, <2>4, SeqEqual
<1>6. F \in Injection(all, B)
  <2>1. F \in [all -> B]
    BY <1>4
  <2>2. \A p, q \in all : F[p] = F[q] => p = q
    BY <1>5
  <2> HIDE DEF F
  <2> QED
    BY <2>1, <2>2, Fun_IsInj
<1> QED
  BY <1>2, <1>6, FS_Injection

-----------------------------------------------------------------------------
(* What the steps of the search are made of.                               *)

LEMMA DisjointUnion ==
  ASSUME NEW S, NEW T, IsFiniteSet(S), IsFiniteSet(T), S \cap T = {}
  PROVE  IsFiniteSet(S \cup T) /\ Cardinality(S \cup T) = Cardinality(S) + Cardinality(T)
<1>1. Cardinality(S) \in Nat /\ Cardinality(T) \in Nat /\ Cardinality(S \cap T) = 0
  BY FS_CardinalityType, FS_EmptySet
<1>2. Cardinality(S \cup T) = Cardinality(S) + Cardinality(T) - Cardinality(S \cap T)
  BY FS_Union
<1> QED
  BY <1>1, <1>2, FS_Union

(* All cycles, or as many as the limit allows and no less than one short.  *)
LEMMA ResultsAre ==
  ASSUME NEW all, IsFiniteSet(all), NEW limit \in Nat \cup {NoLimit},
         NEW r \in SearchResults(all, limit)
  PROVE  /\ r.cycles \subseteq all /\ r.truncated \in BOOLEAN
         /\ ~r.truncated => r.cycles = all /\ (limit # NoLimit => Cardinality(all) <= limit)
         /\ r.truncated => limit # NoLimit /\ Cardinality(r.cycles) = limit /\ r.cycles # all
<1>1. CASE limit = NoLimit \/ Cardinality(all) <= limit
  <2>1. r = [cycles |-> all, truncated |-> FALSE]
    BY <1>1 DEF SearchResults
  <2> QED
    BY <1>1, <2>1
<1>2. CASE ~(limit = NoLimit \/ Cardinality(all) <= limit)
  <2>1. PICK S \in kSubset(limit, all) : r = [cycles |-> S, truncated |-> TRUE]
    BY <1>2 DEF SearchResults
  <2>2. S \subseteq all /\ Cardinality(S) = limit
    BY DEF kSubset
  <2>3. S # all
    BY <1>2, <2>2, FS_CardinalityType
  <2> QED
    BY <1>2, <2>1, <2>2, <2>3
<1> QED
  BY <1>1, <1>2

(* Vertex sets in order are all there, each once.                          *)
LEMMA LatestFirstIsWhole ==
  ASSUME NEW S \in SUBSET SUBSET Node, IsFiniteSet(S), \A C \in S : C # {},
         NEW s \in LatestFirst(S)
  PROVE  /\ s \in Seq(S) /\ DOMAIN s = 1 .. Len(s)
         /\ \A i, j \in DOMAIN s : s[i] = s[j] => i = j
         /\ \A C \in S : \E i \in DOMAIN s : s[i] = C
<1> DEFINE k == Cardinality(S)
<1>1. k \in Nat /\ IsFiniteSet(1 .. k) /\ Cardinality(1 .. k) = k
  BY FS_CardinalityType, FS_Interval
<1>2. s \in [1 .. k -> S] /\ \A i, j \in DOMAIN s : i < j => Earlier(s[j], s[i])
  BY DEF LatestFirst
<1> HIDE DEF k
<1>3. s \in Seq(S) /\ Len(s) = k /\ DOMAIN s = 1 .. k
  BY <1>1, <1>2
<1>4. \A i \in DOMAIN s : LeastOf(s[i]) \in Nat
  <2> TAKE i \in DOMAIN s
  <2>1. PICK C \in S : s[i] = C
    BY <1>2, <1>3
  <2>2. C \in SUBSET Node /\ C # {}
    OBVIOUS
  <2>3. LeastOf(C) \in Node
    BY <2>2, LeastOfType
  <2> QED
    BY <2>1, <2>3, NodeAssumption
<1>5. ASSUME NEW i \in DOMAIN s, NEW j \in DOMAIN s, s[i] = s[j]
      PROVE  i = j
  <2>1. ~(i < j) /\ ~(j < i)
    BY <1>2, <1>4, <1>5 DEF Earlier
  <2> QED
    BY <1>1, <1>3, <2>1
<1>6. s \in Injection(1 .. k, S)
  BY <1>2, <1>3, <1>5, Fun_IsInj
<1>7. s \in Surjection(1 .. k, S)
  BY <1>1, <1>6, FS_Injection DEF k
<1>8. \A C \in S : \E i \in DOMAIN s : s[i] = C
  BY <1>3, <1>7 DEF Surjection
<1> QED
  BY <1>3, <1>5, <1>8

(* What is left of a vertex set falls apart into such sets.                *)
LEMMA PiecesType ==
  ASSUME NEW V \in SUBSET Node, V # {}
  PROVE  /\ Pieces(V) \in SUBSET SUBSET Node /\ IsFiniteSet(Pieces(V))
         /\ \A C \in Pieces(V) : C # {} /\ C \subseteq V /\ LeastOf(V) \notin C
         /\ \A C, D \in Pieces(V) : C # D => C \cap D = {}
<1> DEFINE rest == V \ {LeastOf(V)}
           induced == Induced(adjacency, rest)
<1>1. Pieces(V) \subseteq Sccs(induced, rest) /\ rest \in SUBSET Node
  BY DEF Pieces
<1> HIDE DEF induced
<1>2. \A C \in Pieces(V) : C \subseteq rest /\ C # {}
  BY <1>1, SccsType
<1>3. \A C, D \in Pieces(V) : C # D => C \cap D = {}
  BY <1>1, SccsAreDisjoint
<1>4. Pieces(V) \in SUBSET SUBSET Node
  BY <1>1, <1>2
<1>5. IsFiniteSet(Pieces(V))
  BY <1>4, NodeAssumption, FS_SUBSET, FS_Subset
<1> QED
  BY <1>2, <1>3, <1>4, <1>5

(* Splitting a vertex set loses no cycle: one that avoids the least node   *)
(* lies in a piece.                                                        *)
LEMMA PiecesHoldTheRest ==
  ASSUME NEW V \in SUBSET Node, V # {}, NEW p \in Expected,
         NodesOf(p) \subseteq V, LeastOf(V) \notin NodesOf(p)
  PROVE  \E C \in Pieces(V) : NodesOf(p) \subseteq C
<1> DEFINE rest == V \ {LeastOf(V)}
           induced == Induced(adjacency, rest)
<1>1. rest \in SUBSET Node /\ NodesOf(p) \subseteq rest
  OBVIOUS
<1>2. IsCycle(adjacency, required, p)
  BY AllCyclesAre DEF Expected
<1>3. IsCycle(induced, required, p)
  BY <1>1, <1>2, InducedCycles
<1> HIDE DEF induced
<1>4. PICK C \in Sccs(induced, rest) : NodesOf(p) \subseteq C
  BY <1>1, <1>3, CycleInScc
<1>5. IsCyclic(induced, C)
  BY <1>3, <1>4, CycleIsSearched
<1> QED
  BY <1>4, <1>5 DEF Pieces, induced

-----------------------------------------------------------------------------
(* The invariant of the search.                                            *)

(* No two vertex sets that are still to be searched share a node.          *)
Separate ==
  /\ \A V \in Pending : V # {}
  /\ \A C, D \in components : C # D => C \cap D = {}
  /\ \A i, j \in DOMAIN worklist : i # j => worklist[i] \cap worklist[j] = {}
  /\ \A C \in components : \A i \in DOMAIN worklist : C \cap worklist[i] = {}

(* A matching cycle has been reported, or else lies in such a set.         *)
Accounted ==
  ~truncated => \A p \in Expected : p \in Reported <=> ~\E V \in Pending : NodesOf(p) \subseteq V

NoneTwice ==
  /\ Reported \subseteq Expected
  /\ node_paths.members \cap all_cycles.members = {}
  /\ node_paths.length = Cardinality(node_paths.members)
  /\ all_cycles.length = Cardinality(all_cycles.members)

(* What a component may bring is what the components before it have left.  *)
OneLimit ==
  /\ max_cycles # 0 => node_paths.length + all_cycles.length <= max_cycles
  /\ ~truncated =>
       IF worklist = <<>> THEN all_cycles = Nil
       ELSE budget = IF max_cycles = 0 THEN NoLimit ELSE max_cycles - node_paths.length
  /\ truncated => /\ all_cycles = Nil
                  /\ max_cycles # 0 /\ node_paths.length = max_cycles
                  /\ node_paths.members # Expected

SearchInv == TypeOK /\ Separate /\ Accounted /\ NoneTwice /\ OneLimit

LEMMA SearchTypes ==
  ASSUME TypeOK
  PROVE  /\ node_paths.members \in SUBSET Seq(Node) /\ node_paths.length \in Nat
         /\ all_cycles.members \in SUBSET Seq(Node) /\ all_cycles.length \in Nat
         /\ IsFiniteSet(Expected)
BY CyclesFinite DEF TypeOK, CycleList, Expected

LEMMA ExpectedAre ==
  ASSUME NEW p \in Expected
  PROVE  IsCycle(adjacency, required, p) /\ NodesOf(p) # {} /\ NodesOf(p) \subseteq Node
<1>1. IsCycle(adjacency, required, p)
  BY AllCyclesAre DEF Expected
<1>2. Len(p) \in Nat \ {0} /\ DOMAIN p = 1 .. Len(p)
  BY <1>1, CycleType
<1>3. p[1] \in NodesOf(p)
  BY <1>1, <1>2, CycleType
<1> QED
  BY <1>1, <1>3, CycleType

Arguments ==
  adjacency \in Adjacencies /\ required \in SUBSET (Node \X Node) /\ max_cycles \in Nat

LEMMA CalledInv == Arguments /\ Called => SearchInv
<1> SUFFICES ASSUME Arguments, Called PROVE SearchInv
  OBVIOUS
<1>1. /\ worklist = <<>> /\ DOMAIN worklist = {} /\ ToSet(worklist) = {} /\ Pending = components
      /\ all_cycles = Nil /\ node_paths = Nil /\ ~truncated /\ truncated \in BOOLEAN
      /\ budget = NoLimit
  <2>1. worklist = <<>> /\ DOMAIN worklist = {}
    BY DEF Called
  <2>2. ToSet(worklist) = {}
    BY <2>1 DEF ToSet
  <2>3. Pending = components
    BY <2>2 DEF Pending
  <2> QED
    BY <2>1, <2>2, <2>3 DEF Called
<1>2. components \subseteq Sccs(adjacency, Node)
  BY DEF Called, ToSearch
<1>3. \A C \in components : C \subseteq Node /\ C # {}
  BY <1>2, SccsType
<1>4. /\ Nil \in CycleList /\ Nil.members = {} /\ Nil.length = 0 /\ Cardinality({}) = 0
      /\ Reported = {}
  BY <1>1, FS_EmptySet DEF Nil, CycleList, Reported
<1>5. TypeOK
  <2>1. worklist \in Seq(SUBSET Node)
    BY <1>1
  <2> QED
    BY <1>1, <1>3, <1>4, <2>1 DEF TypeOK, Arguments
<1>6. Separate
  BY <1>1, <1>2, <1>3, SccsAreDisjoint DEF Separate
<1>7. Accounted
  <2> SUFFICES ASSUME NEW p \in Expected PROVE \E V \in Pending : NodesOf(p) \subseteq V
    BY <1>4 DEF Accounted
  <2>1. IsCycle(adjacency, required, p) /\ NodesOf(p) \subseteq Node
    BY ExpectedAre
  <2>2. required # {}
    BY <2>1 DEF IsCycle
  <2>3. Pending = Sccs(adjacency, Node)
    BY <1>1, <2>2 DEF Called, ToSearch
  <2> QED
    BY <2>1, <2>3, CycleInScc
<1>8. NoneTwice
  BY <1>1, <1>4 DEF NoneTwice
<1>9. OneLimit
  BY <1>1, <1>4 DEF OneLimit, Arguments
<1> QED
  BY <1>5, <1>6, <1>7, <1>8, <1>9 DEF SearchInv

LEMMA SameSearch == SearchInv /\ UNCHANGED vars => SearchInv'
BY DEF SearchInv, vars, args, TypeOK, Separate, Accounted, NoneTwice, OneLimit, Pending, Reported,
       Expected

(* A component that is passed over holds no matching cycle.                *)
LEMMA SkipStep == SearchInv /\ SkipComponent => SearchInv'
<1> SUFFICES ASSUME SearchInv, SkipComponent PROVE SearchInv'
  OBVIOUS
<1>1. PICK C \in components :
        /\ ~truncated /\ worklist = <<>> /\ components' = components \ {C}
        /\ ~IsCyclic(adjacency, C) \/ ~HasRequiredEdge(C)
        /\ UNCHANGED <<args, truncated, worklist, budget, all_cycles, node_paths>>
  BY DEF SkipComponent, NextComponent
<1>2. Expected' = Expected /\ Reported' = Reported /\ Pending' = Pending \ {C}
  <2>1. ToSet(worklist) = {}
    BY <1>1 DEF ToSet
  <2> QED
    BY <1>1, <2>1 DEF Expected, Reported, Pending, args
<1>3. TypeOK'
  BY <1>1 DEF SearchInv, TypeOK, args
<1>4. Separate'
  BY <1>1, <1>2 DEF SearchInv, Separate
<1>5. Accounted'
  <2>1. \A p \in Expected : ~(NodesOf(p) \subseteq C)
    BY <1>1, ExpectedAre, CycleIsSearched DEF HasRequiredEdge
  <2> QED
    BY <1>1, <1>2, <2>1 DEF SearchInv, Accounted
<1>6. NoneTwice'
  BY <1>1, <1>2 DEF SearchInv, NoneTwice
<1>7. OneLimit'
  BY <1>1, <1>2 DEF SearchInv, OneLimit, args
<1> QED
  BY <1>3, <1>4, <1>5, <1>6, <1>7 DEF SearchInv

LEMMA EnterStep == SearchInv /\ EnterComponent => SearchInv'
<1> SUFFICES ASSUME SearchInv, EnterComponent PROVE SearchInv'
  OBVIOUS
<1>1. PICK C \in components :
        /\ ~truncated /\ worklist = <<>> /\ components' = components \ {C}
        /\ worklist' = <<C>> /\ all_cycles' = Nil
        /\ budget' = IF max_cycles = 0 THEN NoLimit ELSE max_cycles - node_paths.length
        /\ UNCHANGED <<args, truncated, node_paths>>
  BY DEF EnterComponent, NextComponent
<1>2. all_cycles = Nil
  BY <1>1 DEF SearchInv, OneLimit
<1>3. Expected' = Expected /\ Reported' = Reported /\ Pending' = Pending
  <2>1. ToSet(worklist) = {} /\ ToSet(worklist') = {C}
    BY <1>1 DEF ToSet
  <2> QED
    BY <1>1, <1>2, <2>1 DEF Expected, Reported, Pending, args
<1>4. C \in SUBSET Node /\ DOMAIN worklist' = {1} /\ worklist'[1] = C /\ worklist' # <<>>
  BY <1>1 DEF SearchInv, TypeOK
<1>5. TypeOK'
  <2>1. worklist' \in Seq(SUBSET Node)
    BY <1>1, <1>4
  <2>2. budget' \in Nat \cup {NoLimit}
    BY <1>1, <1>2, SearchTypes DEF SearchInv, TypeOK, OneLimit, Nil
  <2>3. all_cycles' \in CycleList
    BY <1>1, <1>2 DEF SearchInv, TypeOK
  <2> QED
    BY <1>1, <2>1, <2>2, <2>3 DEF SearchInv, TypeOK, args
<1>6. Separate'
  BY <1>1, <1>3, <1>4 DEF SearchInv, Separate
<1>7. Accounted'
  BY <1>1, <1>3 DEF SearchInv, Accounted
<1>8. NoneTwice'
  BY <1>1, <1>2, <1>3 DEF SearchInv, NoneTwice
<1>9. OneLimit'
  BY <1>1, <1>2, <1>4 DEF SearchInv, OneLimit, args
<1> QED
  BY <1>5, <1>6, <1>7, <1>8, <1>9 DEF SearchInv

(* One iteration of _johnson: the vertex set V gives way to its pieces, or *)
(* to nothing at all when the limit is hit.                                *)
LEMMA VerticesStep == SearchInv /\ SearchVertices => SearchInv'
<1> SUFFICES ASSUME SearchInv, SearchVertices PROVE SearchInv'
  OBVIOUS
<1> DEFINE n == Len(worklist)
           V == worklist[n]
           T == CyclesThrough(Induced(adjacency, V), LeastOf(V), required)
           remaining == IF budget = NoLimit THEN NoLimit ELSE budget - all_cycles.length
           front == SubSeq(worklist, 1, n - 1)
<1>1. ~truncated /\ worklist # <<>> /\ TypeOK
  BY DEF SearchVertices, SearchInv
<1>2. /\ n \in Nat \ {0} /\ DOMAIN worklist = 1 .. n /\ n \in DOMAIN worklist
      /\ V \in SUBSET Node /\ V \in Pending /\ V # {}
      /\ worklist \in Seq(SUBSET Node)
  <2>1. n \in Nat \ {0} /\ DOMAIN worklist = 1 .. n /\ n \in DOMAIN worklist /\ V \in SUBSET Node
    BY <1>1 DEF TypeOK
  <2>2. V \in Pending
    BY <2>1 DEF Pending, ToSet
  <2> QED
    BY <1>1, <2>1, <2>2 DEF SearchInv, Separate, TypeOK
<1>3. PICK r \in SearchResults(T, remaining), pushed \in LatestFirst(Pieces(V)) :
        LET found == Extended(all_cycles, ListOf(r.cycles))
            left == IF r.truncated THEN front ELSE front \o pushed
            returns == r.truncated \/ left = <<>>
        IN /\ truncated' = r.truncated
           /\ worklist' = left
           /\ all_cycles' = IF returns THEN Nil ELSE found
           /\ node_paths' = IF returns THEN Extended(node_paths, found) ELSE node_paths
  BY DEF SearchVertices, CircuitAnswers, Last, Front
<1>4. UNCHANGED <<args, components, budget>> /\ Expected' = Expected
  BY DEF SearchVertices, args, Expected
<1>5. T = {p \in Expected : NodesOf(p) \subseteq V /\ LeastOf(V) \in NodesOf(p)}
  BY <1>2, LocalCycles DEF Expected
<1>6. IsFiniteSet(T) /\ T \subseteq Expected /\ IsFiniteSet(Expected) /\ T \cap Reported = {}
  <2>1. \A p \in T : p \notin Reported
    BY <1>1, <1>2, <1>5 DEF SearchInv, Accounted
  <2> QED
    BY <1>1, <1>5, <2>1, SearchTypes, FS_Subset
<1>7. /\ remaining \in Nat \cup {NoLimit}
      /\ max_cycles \in Nat
      /\ remaining = IF max_cycles = 0 THEN NoLimit
                     ELSE max_cycles - node_paths.length - all_cycles.length
  <2>1. budget = IF max_cycles = 0 THEN NoLimit ELSE max_cycles - node_paths.length
    BY <1>1 DEF SearchInv, OneLimit
  <2>2. max_cycles # 0 => node_paths.length + all_cycles.length <= max_cycles
    BY DEF SearchInv, OneLimit
  <2>3. max_cycles \in Nat /\ node_paths.length \in Nat /\ all_cycles.length \in Nat
    BY <1>1, SearchTypes DEF TypeOK
  <2> QED
    BY <2>1, <2>2, <2>3 DEF NoLimit
<1> HIDE DEF T, remaining
<1>8. /\ r.cycles \subseteq T /\ r.truncated \in BOOLEAN
      /\ ~r.truncated => r.cycles = T /\ (remaining # NoLimit => Cardinality(T) <= remaining)
      /\ r.truncated => remaining # NoLimit /\ Cardinality(r.cycles) = remaining /\ r.cycles # T
  BY <1>6, <1>7, ResultsAre
<1> DEFINE found == Extended(all_cycles, ListOf(r.cycles))
           total == Extended(node_paths, found)
           returns == r.truncated \/ worklist' = <<>>
<1>9. /\ truncated' = r.truncated
      /\ worklist' = IF r.truncated THEN front ELSE front \o pushed
      /\ all_cycles' = IF returns THEN Nil ELSE found
      /\ node_paths' = IF returns THEN total ELSE node_paths
  BY <1>3
<1>10. /\ found \in CycleList /\ total \in CycleList /\ Nil \in CycleList
       /\ found.members = all_cycles.members \cup r.cycles
       /\ found.length = all_cycles.length + Cardinality(r.cycles)
       /\ found.length = Cardinality(found.members)
       /\ total.members = Reported \cup r.cycles
       /\ total.length = node_paths.length + all_cycles.length + Cardinality(r.cycles)
       /\ total.length = Cardinality(total.members)
       /\ node_paths.members \cap found.members = {}
       /\ node_paths.length \in Nat /\ all_cycles.length \in Nat /\ Cardinality(r.cycles) \in Nat
  <2>1. /\ IsFiniteSet(r.cycles) /\ Cardinality(r.cycles) \in Nat
        /\ r.cycles \in SUBSET Seq(Node)
    <3>1. IsFiniteSet(r.cycles) /\ Cardinality(r.cycles) \in Nat
      BY <1>6, <1>8, FS_Subset, FS_CardinalityType
    <3>2. \A p \in Expected : p \in Seq(Node)
      BY ExpectedAre DEF IsCycle
    <3> QED
      BY <1>6, <1>8, <3>1, <3>2
  <2>2. /\ node_paths.members \in SUBSET Seq(Node) /\ node_paths.length \in Nat
        /\ all_cycles.members \in SUBSET Seq(Node) /\ all_cycles.length \in Nat
    BY <1>1, SearchTypes
  <2>3. /\ IsFiniteSet(node_paths.members) /\ IsFiniteSet(all_cycles.members)
        /\ node_paths.members \cap all_cycles.members = {}
        /\ node_paths.length = Cardinality(node_paths.members)
        /\ all_cycles.length = Cardinality(all_cycles.members)
        /\ r.cycles \cap all_cycles.members = {} /\ r.cycles \cap node_paths.members = {}
    BY <1>6, <1>8, FS_Subset DEF SearchInv, NoneTwice, Reported
  <2>4. /\ found.members = all_cycles.members \cup r.cycles
        /\ found.length = all_cycles.length + Cardinality(r.cycles)
        /\ found = [members |-> found.members, length |-> found.length]
    BY DEF Extended, ListOf
  <2>5. /\ total.members = node_paths.members \cup found.members
        /\ total.length = node_paths.length + found.length
        /\ total = [members |-> total.members, length |-> total.length]
    BY DEF Extended
  <2> HIDE DEF found, total
  <2>6. found \in CycleList
    <3>1. found.members \in SUBSET Seq(Node) /\ found.length \in Nat
      BY <2>1, <2>2, <2>4
    <3> QED
      BY <2>4, <3>1 DEF CycleList
  <2>7. total \in CycleList
    <3>1. total.members \in SUBSET Seq(Node) /\ total.length \in Nat
      BY <2>1, <2>2, <2>4, <2>5
    <3> QED
      BY <2>5, <3>1 DEF CycleList
  <2>8. /\ IsFiniteSet(found.members)
        /\ Cardinality(found.members) = Cardinality(all_cycles.members) + Cardinality(r.cycles)
    BY <2>1, <2>3, <2>4, DisjointUnion
  <2>9. Cardinality(total.members) = Cardinality(node_paths.members) + Cardinality(found.members)
    <3>1. node_paths.members \cap found.members = {}
      BY <2>3, <2>4
    <3> QED
      BY <2>3, <2>5, <2>8, <3>1, DisjointUnion
  <2>10. Nil \in CycleList
    BY DEF Nil, CycleList
  <2>11. total.members = Reported \cup r.cycles
    BY <2>4, <2>5 DEF Reported
  <2>12. total.length = node_paths.length + all_cycles.length + Cardinality(r.cycles)
    BY <2>1, <2>2, <2>4, <2>5
  <2> QED
    BY <2>1, <2>2, <2>3, <2>4, <2>5, <2>6, <2>7, <2>8, <2>9, <2>10, <2>11, <2>12
<1> HIDE DEF found, total, returns
<1>11. Reported' = Reported \cup r.cycles
  BY <1>9, <1>10 DEF Reported, Nil
<1>12. /\ front \in Seq(SUBSET Node) /\ Len(front) = n - 1
       /\ DOMAIN front = 1 .. n - 1
       /\ \A i \in 1 .. n - 1 : front[i] = worklist[i] /\ i \in DOMAIN worklist
  <2> DEFINE m == n - 1
             f == SubSeq(worklist, 1, m)
  <2>1. m \in Nat /\ \A i \in 1 .. m : i \in 1 .. n
    BY <1>2
  <2>2. \A i \in 1 .. m : worklist[i] \in SUBSET Node
    BY <1>2, <2>1
  <2> HIDE DEF m, n
  <2>3. /\ f \in Seq(SUBSET Node)
        /\ Len(f) = IF 1 <= m THEN m - 1 + 1 ELSE 0
        /\ \A i \in 1 .. m - 1 + 1 : f[i] = worklist[1 + i - 1]
    BY <2>1, <2>2, SubSeqProperties
  <2> HIDE DEF f
  <2>4. Len(f) = m /\ DOMAIN f = 1 .. m /\ \A i \in 1 .. m : f[i] = worklist[i]
    BY <2>1, <2>3
  <2> QED
    BY <1>2, <2>1, <2>3, <2>4 DEF f, m
<1>13. /\ Pieces(V) \in SUBSET SUBSET Node
       /\ \A C \in Pieces(V) : C # {} /\ C \subseteq V /\ LeastOf(V) \notin C
       /\ \A C, D \in Pieces(V) : C # D => C \cap D = {}
       /\ pushed \in Seq(Pieces(V)) /\ DOMAIN pushed = 1 .. Len(pushed)
       /\ \A i, j \in DOMAIN pushed : pushed[i] = pushed[j] => i = j
       /\ \A C \in Pieces(V) : \E i \in DOMAIN pushed : pushed[i] = C
  <2>1. /\ Pieces(V) \in SUBSET SUBSET Node /\ IsFiniteSet(Pieces(V))
        /\ \A C \in Pieces(V) : C # {} /\ C \subseteq V /\ LeastOf(V) \notin C
        /\ \A C, D \in Pieces(V) : C # D => C \cap D = {}
    BY <1>2, PiecesType
  <2>2. pushed \in LatestFirst(Pieces(V))
    OBVIOUS
  <2> DEFINE P == Pieces(V)
  <2>3. P \in SUBSET SUBSET Node /\ IsFiniteSet(P) /\ (\A C \in P : C # {}) /\ pushed \in LatestFirst(P)
    BY <2>1, <2>2
  <2> HIDE DEF P
  <2>4. /\ pushed \in Seq(P) /\ DOMAIN pushed = 1 .. Len(pushed)
        /\ \A i, j \in DOMAIN pushed : pushed[i] = pushed[j] => i = j
        /\ \A C \in P : \E i \in DOMAIN pushed : pushed[i] = C
    BY <2>3, LatestFirstIsWhole
  <2> QED
    BY <2>1, <2>4 DEF P
<1> DEFINE last == n - 1
<1>14. /\ worklist' \in Seq(SUBSET Node) /\ last \in Nat
       /\ \A i \in DOMAIN worklist' :
            \/ i \in 1 .. last /\ worklist'[i] = worklist[i]
            \/ /\ ~r.truncated /\ i \notin 1 .. last
               /\ i - last \in DOMAIN pushed /\ worklist'[i] = pushed[i - last]
       /\ 1 .. last \subseteq DOMAIN worklist'
       /\ ~r.truncated => \A i \in DOMAIN pushed : last + i \in DOMAIN worklist'
                                                    /\ worklist'[last + i] = pushed[i]
  <2>1. last \in Nat /\ Len(pushed) \in Nat
    BY <1>2, <1>13
  <2>2. CASE r.truncated
    BY <1>9, <1>12, <2>1, <2>2
  <2>3. CASE ~r.truncated
    <3>1. worklist' = front \o pushed /\ front \in Seq(SUBSET Node) /\ pushed \in Seq(SUBSET Node)
      BY <1>9, <1>12, <1>13, <2>3
    <3>2. Len(front) = last /\ \A i \in 1 .. last : front[i] = worklist[i]
      BY <1>12
    <3> HIDE DEF front, last
    <3>3. /\ worklist' \in Seq(SUBSET Node) /\ Len(worklist') = last + Len(pushed)
          /\ \A i \in 1 .. last + Len(pushed) :
               worklist'[i] = IF i <= last THEN front[i] ELSE pushed[i - last]
      BY <3>1, <3>2, ConcatProperties
    <3>4. DOMAIN worklist' = 1 .. last + Len(pushed)
      BY <3>3
    <3>5. ASSUME NEW i \in 1 .. last + Len(pushed)
          PROVE  \/ i \in 1 .. last /\ worklist'[i] = worklist[i]
                 \/ /\ i \notin 1 .. last
                    /\ i - last \in DOMAIN pushed /\ worklist'[i] = pushed[i - last]
      <4>1. CASE i <= last
        <5>1. i \in 1 .. last
          BY <2>1, <4>1
        <5> QED
          BY <3>2, <3>3, <4>1, <5>1
      <4>2. CASE ~(i <= last)
        <5>1. i \notin 1 .. last /\ i - last \in 1 .. Len(pushed)
          BY <2>1, <4>2
        <5> QED
          BY <1>13, <3>3, <4>2, <5>1
      <4> QED
        BY <4>1, <4>2
    <3>6. ASSUME NEW i \in DOMAIN pushed
          PROVE  last + i \in DOMAIN worklist' /\ worklist'[last + i] = pushed[i]
      <4>1. i \in 1 .. Len(pushed)
        BY <1>13
      <4>2. last + i \in 1 .. last + Len(pushed) /\ ~(last + i <= last) /\ (last + i) - last = i
        BY <2>1, <4>1
      <4> QED
        BY <3>3, <3>4, <4>2
    <3>7. 1 .. last \subseteq 1 .. last + Len(pushed)
      BY <2>1
    <3> QED
      BY <2>1, <2>3, <3>3, <3>4, <3>5, <3>6, <3>7
  <2> QED
    BY <1>8, <2>2, <2>3
<1>15. \A i \in 1 .. last : /\ i \in DOMAIN worklist /\ i # n
                            /\ worklist[i] \cap V = {} /\ worklist[i] \in Pending
  <2> TAKE i \in 1 .. last
  <2>1. i \in 1 .. n /\ i # n
    <3>1. n \in Nat \ {0}
      BY <1>2
    <3> HIDE DEF n
    <3> QED
      BY <3>1
  <2>2. i \in DOMAIN worklist
    BY <1>2, <2>1
  <2> QED
    BY <1>2, <2>1, <2>2 DEF SearchInv, Separate, Pending, ToSet
<1>16. \A C \in components : C \in Pending /\ C \cap V = {}
  BY <1>2 DEF Pending, SearchInv, Separate
<1>17. \A i \in 1 .. n : i \in 1 .. last \/ i = n
  <2>1. n \in Nat \ {0}
    BY <1>2
  <2> HIDE DEF n
  <2> QED
    BY <2>1
<1> HIDE DEF last, front
<1>18. \A i \in DOMAIN pushed : pushed[i] \in Pieces(V)
  BY <1>13
<1>19. \A W \in Pending' : (W \in Pending /\ W \cap V = {}) \/ (~r.truncated /\ W \in Pieces(V))
  <2> SUFFICES ASSUME NEW W \in Pending', W \notin components
               PROVE  (W \in Pending /\ W \cap V = {}) \/ (~r.truncated /\ W \in Pieces(V))
    BY <1>16
  <2>1. PICK i \in DOMAIN worklist' : W = worklist'[i]
    BY <1>4 DEF Pending, ToSet
  <2> QED
    BY <1>14, <1>15, <1>18, <2>1
<1>20. \A W \in Pending : W # V /\ ~r.truncated => W \in Pending'
  <2> SUFFICES ASSUME NEW W \in Pending, W # V, ~r.truncated, W \notin components
               PROVE  W \in Pending'
    BY <1>4 DEF Pending
  <2>1. PICK i \in DOMAIN worklist : W = worklist[i]
    BY DEF Pending, ToSet
  <2>2. i \in 1 .. last
    BY <1>2, <1>17, <2>1
  <2>3. i \in DOMAIN worklist'
    BY <1>14, <2>2
  <2>4. W = worklist'[i]
    BY <1>14, <2>1, <2>2, <2>3
  <2> QED
    BY <2>3, <2>4 DEF Pending, ToSet
<1>21. \A W \in Pieces(V) : ~r.truncated => W \in Pending'
  <2> SUFFICES ASSUME NEW W \in Pieces(V), ~r.truncated PROVE W \in Pending'
    OBVIOUS
  <2>1. PICK i \in DOMAIN pushed : pushed[i] = W
    BY <1>13
  <2>2. last + i \in DOMAIN worklist' /\ worklist'[last + i] = W
    BY <1>14, <2>1
  <2> QED
    BY <2>2 DEF Pending, ToSet
<1>22. TypeOK'
  <2>1. all_cycles' \in CycleList /\ node_paths' \in CycleList
    BY <1>1, <1>9, <1>10 DEF TypeOK
  <2>2. truncated' \in BOOLEAN
    BY <1>8, <1>9
  <2> QED
    BY <1>1, <1>4, <1>14, <2>1, <2>2 DEF TypeOK, args
<1>23. Separate'
  <2>1. \A W \in Pending' : W # {}
    BY <1>13, <1>19 DEF SearchInv, Separate
  <2>2. ASSUME NEW i \in DOMAIN worklist', NEW j \in DOMAIN worklist', i # j
        PROVE  worklist'[i] \cap worklist'[j] = {}
    <3>1. CASE i \in 1 .. last /\ j \in 1 .. last
      BY <1>14, <1>15, <2>2, <3>1 DEF SearchInv, Separate
    <3>2. CASE i \in 1 .. last /\ j \notin 1 .. last
      <4>1. worklist'[i] \cap V = {}
        BY <1>14, <1>15, <3>2
      <4>2. worklist'[j] \subseteq V
        BY <1>13, <1>14, <1>18, <3>2
      <4> QED
        BY <4>1, <4>2
    <3>3. CASE i \notin 1 .. last /\ j \in 1 .. last
      <4>1. worklist'[j] \cap V = {}
        BY <1>14, <1>15, <3>3
      <4>2. worklist'[i] \subseteq V
        BY <1>13, <1>14, <1>18, <3>3
      <4> QED
        BY <4>1, <4>2
    <3>4. CASE i \notin 1 .. last /\ j \notin 1 .. last
      <4>1. /\ i - last \in DOMAIN pushed /\ worklist'[i] = pushed[i - last]
            /\ j - last \in DOMAIN pushed /\ worklist'[j] = pushed[j - last]
        BY <1>14, <3>4
      <4>2. i - last # j - last
        <5>1. i \in Nat /\ j \in Nat
          <6>1. DOMAIN worklist' = 1 .. Len(worklist')
            BY <1>14
          <6> QED
            BY <2>2, <6>1
        <5> QED
          BY <1>14, <2>2, <5>1
      <4>3. pushed[i - last] # pushed[j - last]
        BY <1>13, <4>1, <4>2
      <4> QED
        BY <1>13, <1>18, <4>1, <4>3
    <3> QED
      BY <3>1, <3>2, <3>3, <3>4
  <2>3. ASSUME NEW C \in components, NEW i \in DOMAIN worklist'
        PROVE  C \cap worklist'[i] = {}
    <3>1. CASE i \in 1 .. last
      BY <1>14, <1>15, <3>1 DEF SearchInv, Separate
    <3>2. CASE i \notin 1 .. last
      <4>1. worklist'[i] \subseteq V
        BY <1>13, <1>14, <1>18, <3>2
      <4> QED
        BY <1>16, <4>1
    <3> QED
      BY <3>1, <3>2
  <2> QED
    BY <1>4, <2>1, <2>2, <2>3 DEF SearchInv, Separate
<1>24. Accounted'
  <2> SUFFICES ASSUME ~r.truncated, NEW p \in Expected
               PROVE  p \in Reported' <=> ~\E W \in Pending' : NodesOf(p) \subseteq W
    BY <1>4, <1>9 DEF Accounted
  <2>1. NodesOf(p) # {} /\ (p \in Reported <=> ~\E W \in Pending : NodesOf(p) \subseteq W)
    BY <1>1, ExpectedAre DEF SearchInv, Accounted
  <2>2. p \in Reported' <=> p \in Reported \/ p \in T
    BY <1>8, <1>11
  <2>3. ASSUME p \in Reported, NEW W \in Pending', NodesOf(p) \subseteq W
        PROVE  FALSE
    BY <1>2, <1>13, <1>19, <2>1, <2>3
  <2>4. ASSUME p \in T, NEW W \in Pending', NodesOf(p) \subseteq W
        PROVE  FALSE
    BY <1>5, <1>13, <1>19, <2>1, <2>4
  <2>5. ASSUME p \notin Reported, p \notin T
        PROVE  \E W \in Pending' : NodesOf(p) \subseteq W
    <3>1. PICK W \in Pending : NodesOf(p) \subseteq W
      BY <2>1, <2>5
    <3>2. CASE W = V
      <4>1. LeastOf(V) \notin NodesOf(p)
        BY <1>5, <2>5, <3>1, <3>2
      <4>2. PICK C \in Pieces(V) : NodesOf(p) \subseteq C
        BY <1>2, <3>1, <3>2, <4>1, PiecesHoldTheRest
      <4> QED
        BY <1>21, <4>2
    <3> QED
      BY <1>20, <3>1, <3>2
  <2> QED
    BY <2>2, <2>3, <2>4, <2>5
<1>25. NoneTwice'
  <2>1. Reported' \subseteq Expected'
    BY <1>4, <1>6, <1>8, <1>11 DEF SearchInv, NoneTwice
  <2>2. Nil.members = {} /\ Nil.length = Cardinality({})
    BY FS_EmptySet DEF Nil
  <2>3. CASE returns
    BY <1>9, <1>10, <2>1, <2>2, <2>3 DEF NoneTwice
  <2>4. CASE ~returns
    BY <1>9, <1>10, <2>1, <2>4 DEF NoneTwice, SearchInv
  <2> QED
    BY <2>3, <2>4
<1>26. OneLimit'
  <2>1. Nil.length = 0
    BY DEF Nil
  <2>2. max_cycles # 0 => /\ remaining = max_cycles - node_paths.length - all_cycles.length
                          /\ remaining \in Nat
    <3>1. max_cycles # 0 => node_paths.length + all_cycles.length <= max_cycles
      BY DEF SearchInv, OneLimit
    <3> QED
      BY <1>7, <1>10, <3>1
  <2>3. max_cycles # 0 => Cardinality(r.cycles) <= remaining
    BY <1>7, <1>8, <2>2 DEF NoLimit
  <2>4. max_cycles # 0 => node_paths'.length + all_cycles'.length <= max_cycles
    <3>1. node_paths'.length + all_cycles'.length
            = node_paths.length + all_cycles.length + Cardinality(r.cycles)
      BY <1>9, <1>10, <2>1
    <3> QED
      BY <1>7, <1>10, <2>2, <2>3, <3>1
  <2>5. ASSUME r.truncated
        PROVE  /\ all_cycles' = Nil /\ max_cycles # 0
               /\ node_paths'.length = max_cycles /\ node_paths'.members # Expected
    <3>1. max_cycles # 0 /\ Cardinality(r.cycles) = remaining
      BY <1>7, <1>8, <2>5
    <3>2. all_cycles' = Nil /\ node_paths' = total
      BY <1>9, <2>5 DEF returns
    <3>3. total.length = max_cycles
      BY <1>7, <1>10, <2>2, <3>1
    <3>4. PICK p \in T : p \notin r.cycles
      BY <1>8, <2>5
    <3>5. p \in Expected /\ p \notin total.members
      BY <1>6, <1>10, <3>4
    <3> QED
      BY <3>1, <3>2, <3>3, <3>5
  <2>6. ASSUME ~r.truncated
        PROVE  IF worklist' = <<>> THEN all_cycles' = Nil
               ELSE budget' = IF max_cycles' = 0 THEN NoLimit
                              ELSE max_cycles' - node_paths'.length
    <3>1. CASE worklist' = <<>>
      BY <1>9, <3>1 DEF returns
    <3>2. CASE worklist' # <<>>
      <4>1. node_paths' = node_paths
        BY <1>9, <2>6, <3>2 DEF returns
      <4> QED
        BY <1>1, <1>4, <3>2, <4>1 DEF SearchInv, OneLimit, args
    <3> QED
      BY <3>1, <3>2
  <2>7. truncated' = r.truncated /\ max_cycles' = max_cycles /\ Expected' = Expected
    BY <1>4, <1>9 DEF args
  <2> QED
    BY <2>4, <2>5, <2>6, <2>7 DEF OneLimit
<1> QED
  BY <1>22, <1>23, <1>24, <1>25, <1>26 DEF SearchInv

LEMMA NextSearch == SearchInv /\ [Next]_vars => SearchInv'
BY SkipStep, EnterStep, VerticesStep, SameSearch DEF Next

LEMMA InitSearch == Init => SearchInv
BY CalledInv, GraphAssumption, FilterAssumption, LimitAssumption DEF Init, Arguments

(***************************************************************************)
(* For every graph, filter and limit, the worklist and the components keep *)
(* apart, account for every matching cycle once and share one limit.       *)
(***************************************************************************)
THEOREM SearchInvariance == Spec => []SearchInv
BY InitSearch, NextSearch, PTL DEF Spec

LEMMA PendingIsSeparate ==
  ASSUME SearchInv, NEW V \in Pending, NEW W \in Pending, V \cap W # {}
  PROVE  V = W
<1>1. V \in components \/ \E i \in DOMAIN worklist : V = worklist[i]
  BY DEF Pending, ToSet
<1>2. W \in components \/ \E i \in DOMAIN worklist : W = worklist[i]
  BY DEF Pending, ToSet
<1> QED
  BY <1>1, <1>2 DEF SearchInv, Separate

(***************************************************************************)
(* For every graph, filter and limit, splitting components (_johnson)      *)
(* loses no cycle and leaves none to be found twice.                       *)
(***************************************************************************)
THEOREM NothingIsLost == Spec => []NothingLost
<1>1. SearchInv => NothingLost
  <2> SUFFICES ASSUME SearchInv, ~truncated, NEW p \in Expected \ Reported
               PROVE  Cardinality({V \in Pending : NodesOf(p) \subseteq V}) = 1
    BY DEF NothingLost
  <2>1. NodesOf(p) # {}
    BY ExpectedAre
  <2>2. PICK V \in Pending : NodesOf(p) \subseteq V
    BY DEF SearchInv, Accounted
  <2>3. \A W \in Pending : NodesOf(p) \subseteq W => W = V
    BY <2>1, <2>2, PendingIsSeparate
  <2>4. {W \in Pending : NodesOf(p) \subseteq W} = {V}
    BY <2>2, <2>3
  <2> QED
    BY <2>4, FS_Singleton
<1> QED
  BY <1>1, SearchInvariance, PTL

LEMMA SearchIsExact == SearchInv => ResultExact
<1> SUFFICES ASSUME SearchInv, ~Running PROVE ResultExact
  BY DEF ResultExact
<1> DEFINE found == node_paths.members
           limit == LimitOf(max_cycles)
<1>1. /\ IsFiniteSet(Expected) /\ Cardinality(Expected) \in Nat /\ max_cycles \in Nat
      /\ found \subseteq Expected /\ node_paths.length = Cardinality(found)
      /\ node_paths.length \in Nat /\ truncated \in BOOLEAN
  BY SearchTypes, FS_CardinalityType DEF SearchInv, TypeOK, NoneTwice, Reported
<1>2. Result = [cycles |-> found, truncated |-> truncated]
  BY DEF Result
<1>3. CASE truncated
  <2>1. max_cycles # 0 /\ node_paths.length = max_cycles /\ found # Expected
    BY <1>3 DEF SearchInv, OneLimit
  <2>2. limit = max_cycles /\ limit # NoLimit
    BY <1>1, <2>1 DEF LimitOf, NoLimit
  <2> HIDE DEF limit, found
  <2>3. ~(Cardinality(Expected) <= limit)
    <3>1. Cardinality(found) <= Cardinality(Expected) /\ Cardinality(found) # Cardinality(Expected)
      BY <1>1, <2>1, FS_Subset
    <3> QED
      BY <1>1, <2>1, <2>2, <3>1
  <2>4. found \in kSubset(limit, Expected)
    BY <1>1, <2>1, <2>2 DEF kSubset
  <2>5. Result = [cycles |-> found, truncated |-> TRUE]
    BY <1>2, <1>3, <1>1
  <2>6. Result \in SearchResults(Expected, limit)
    BY <2>2, <2>3, <2>4, <2>5 DEF SearchResults
  <2> QED
    BY <1>1, <2>6 DEF ResultExact, limit, found
<1>4. CASE ~truncated
  <2>1. components = {} /\ worklist = <<>>
    BY <1>4 DEF Running
  <2>2. all_cycles = Nil
    BY <1>4, <2>1 DEF SearchInv, OneLimit
  <2>3. Pending = {}
    <3>1. DOMAIN worklist = {}
      BY <2>1
    <3> QED
      BY <2>1, <3>1 DEF Pending, ToSet
  <2>4. Reported = found
    BY <2>2 DEF Reported, Nil
  <2>5. found = Expected
    BY <1>1, <1>4, <2>3, <2>4 DEF SearchInv, Accounted
  <2>6. limit = NoLimit \/ Cardinality(Expected) <= limit
    <3>1. max_cycles # 0 => node_paths.length + all_cycles.length <= max_cycles
      BY DEF SearchInv, OneLimit
    <3>2. max_cycles # 0 => node_paths.length <= max_cycles
      BY <1>1, <2>2, <3>1 DEF Nil
    <3> QED
      BY <1>1, <2>5, <3>2 DEF LimitOf
  <2> HIDE DEF limit, found
  <2>7. Result = [cycles |-> Expected, truncated |-> FALSE]
    BY <1>1, <1>2, <1>4, <2>5
  <2>8. Result \in SearchResults(Expected, limit)
    BY <2>6, <2>7 DEF SearchResults
  <2> QED
    BY <1>1, <2>8 DEF ResultExact, limit, found
<1> QED
  BY <1>3, <1>4

(***************************************************************************)
(* For every graph, filter and limit, the result is what CycleSearchResult *)
(* documents: no cycle twice, complete unless truncated, and truncated     *)
(* only if the limit was reached and there is one more matching cycle.     *)
(***************************************************************************)
THEOREM ResultIsExact == Spec => []ResultExact
BY SearchInvariance, SearchIsExact, PTL

-----------------------------------------------------------------------------
(* The edges that represent a hop.                                         *)

Valid == edges \subseteq {e \in Edge : ValidEdge(e)}

LEMMA SameEndpointsRepublishAlike ==
  ASSUME NEW e \in Edge, NEW f \in Edge, ValidEdge(e), ValidEdge(f),
         e.source = f.source, e.target = f.target
  PROVE  Republishes(e) <=> Republishes(f)
BY KindAssumption DEF Edge, EdgeKind, ValidEdge, Republishes

(* Among the edges between two nodes one comes first. *)
LEMMA RepresentativeExists ==
  ASSUME Valid, NEW e \in Contained
  PROVE  /\ Representative(<<e.source, e.target>>) \in Contained
         /\ Representative(<<e.source, e.target>>).source = e.source
         /\ Representative(<<e.source, e.target>>).target = e.target
<1> DEFINE hop == <<e.source, e.target>>
           Between == {f \in Contained : <<f.source, f.target>> = hop}
           First(f) == \A g \in Contained :
                         <<g.source, g.target>> = hop => SortsBefore(f.kind, g.kind)
<1>1. \A f \in Contained : f.kind \in EdgeKind
  BY DEF Contained, Valid, Edge
<1>2. e \in Between
  OBVIOUS
<1>3. \E f \in Between : First(f)
  <2>1. CASE \E f \in Between : f.kind = "alternate_exchange"
    BY <2>1, <1>1 DEF SortsBefore
  <2>2. CASE /\ ~\E f \in Between : f.kind = "alternate_exchange"
             /\ \E f \in Between : f.kind = "binding"
    BY <2>2, <1>1 DEF SortsBefore
  <2>3. CASE /\ ~\E f \in Between : f.kind \in {"alternate_exchange", "binding"}
             /\ \E f \in Between : f.kind = "dead_letter"
    <3>1. \A g \in Between : g.kind \in {"dead_letter", "shovel"}
      BY <2>3, <1>1 DEF EdgeKind
    <3> QED BY <2>3, <3>1 DEF SortsBefore
  <2>4. CASE ~\E f \in Between : f.kind # "shovel"
    BY <2>4, <1>2 DEF SortsBefore
  <2> QED BY <2>1, <2>2, <2>3, <2>4, <1>1 DEF EdgeKind
<1>4. \E f \in Contained : <<f.source, f.target>> = hop /\ First(f)
  BY <1>3
<1>5. /\ Representative(hop) \in Contained
      /\ <<Representative(hop).source, Representative(hop).target>> = hop
  BY <1>4 DEF Representative
<1> QED BY <1>5

(* A hop along an edge may republish iff the edge that represents it does. *)
LEMMA RepresentativeDecides ==
  ASSUME Valid, NEW v \in Node, NEW w \in Node, w \in Adjacency[v]
  PROVE  <<v, w>> \in RepublishingPairs <=> Republishes(Representative(<<v, w>>))
<1>1. PICK e \in Contained : e.source = v /\ e.target = w
  BY DEF Adjacency
<1> DEFINE r == Representative(<<v, w>>)
<1>2. r \in Contained /\ r.source = v /\ r.target = w
  BY <1>1, RepresentativeExists
<1>3. ASSUME NEW f \in Contained, f.source = v, f.target = w
      PROVE  Republishes(f) <=> Republishes(r)
  BY <1>2, <1>3, SameEndpointsRepublishAlike DEF Valid, Contained
<1>4. <<v, w>> \in RepublishingPairs
        <=> \E f \in Contained : Republishes(f) /\ f.source = v /\ f.target = w
  BY DEF RepublishingPairs
<1> QED BY <1>2, <1>3, <1>4

-----------------------------------------------------------------------------
(* The audit.                                                              *)

(* The hops of a cycle follow edges between nodes.                         *)
LEMMA HopsFollowEdges ==
  ASSUME NEW g, NEW req, NEW p, IsCycle(g, req, p), NEW hop \in Hops(p)
  PROVE  \E v, w \in Node : hop = <<v, w>> /\ w \in g[v]
<1>1. PICK i \in DOMAIN p : hop = <<p[i], After(p, i)>>
  BY DEF Hops, After
<1>2. i \in 1 .. Len(p)
  BY CycleType
<1>3. p[i] \in Node /\ After(p, i) \in Node
  BY <1>2, CycleType
<1> QED
  BY <1>1, <1>3 DEF IsCycle

(* Requiring an edge selects among the cycles.                             *)
LEMMA RequiringSelects ==
  ASSUME NEW g, NEW req, NEW p
  PROVE  p \in AllCycles(g, req) <=> p \in AllCycles(g, Node \X Node) /\ Hops(p) \cap req # {}
<1>1. ASSUME IsCycle(g, req, p)
      PROVE  IsCycle(g, Node \X Node, p)
  <2>1. PICK hop \in Hops(p) : hop \in req
    BY <1>1 DEF IsCycle
  <2>2. hop \in Node \X Node
    BY <1>1, HopsFollowEdges
  <2> QED
    BY <1>1, <2>1, <2>2 DEF IsCycle
<1>2. IsCycle(g, req, p) <=> IsCycle(g, Node \X Node, p) /\ Hops(p) \cap req # {}
  BY <1>1 DEF IsCycle
<1> QED
  BY <1>2, AllCyclesAre

(* Requiring a republishing hop selects the cycles the shortcut picks.     *)
LEMMA ShortcutSelects ==
  ASSUME Valid
  PROVE  AllCycles(Adjacency, RepublishingPairs)
           = {p \in AllCycles(Adjacency, Node \X Node) :
                \E hop \in Hops(p) : Republishes(Representative(hop))}
<1> DEFINE all == AllCycles(Adjacency, Node \X Node)
<1>1. ASSUME NEW p \in all, NEW hop \in Hops(p)
      PROVE  hop \in RepublishingPairs <=> Republishes(Representative(hop))
  <2>1. PICK v \in Node, w \in Node : hop = <<v, w>> /\ w \in Adjacency[v]
    BY AllCyclesAre, HopsFollowEdges
  <2> QED
    BY <2>1, RepresentativeDecides
<1>2. \A p : p \in AllCycles(Adjacency, RepublishingPairs)
               <=> p \in all /\ Hops(p) \cap RepublishingPairs # {}
  BY RequiringSelects
<1> HIDE DEF all
<1>3. \A p \in all : Hops(p) \cap RepublishingPairs # {}
                      <=> \E hop \in Hops(p) : Republishes(Representative(hop))
  BY <1>1
<1> QED
  BY <1>2, <1>3 DEF all

LEMMA FilterAnswers ==
  ASSUME Valid, max_cycles \in Nat, NEW result, ~result.truncated,
         result \in SearchResults(AllCycles(Adjacency, Node \X Node), LimitOf(max_cycles))
  PROVE  FromCompleteResult(result) \in FindMessageLoopCandidates
<1> DEFINE all == AllCycles(Adjacency, Node \X Node)
           candidates == AllCycles(Adjacency, RepublishingPairs)
           limit == LimitOf(max_cycles)
<1>1. /\ result = [cycles |-> all, truncated |-> FALSE]
      /\ limit = NoLimit \/ Cardinality(all) <= limit
  BY DEF SearchResults
<1>2. FromCompleteResult(result) = [cycles |-> candidates, truncated |-> FALSE]
  BY <1>1, ShortcutSelects DEF FromCompleteResult
<1>3. /\ Cardinality(candidates) <= Cardinality(all)
      /\ Cardinality(candidates) \in Nat /\ Cardinality(all) \in Nat
  <2>1. IsFiniteSet(all) /\ candidates \in SUBSET all
    BY CyclesFinite, ShortcutSelects
  <2> QED
    BY <2>1, FS_Subset, FS_CardinalityType
<1>4. limit = NoLimit \/ Cardinality(candidates) <= limit
  BY <1>1, <1>3 DEF LimitOf, NoLimit
<1> QED
  BY <1>2, <1>4 DEF FindMessageLoopCandidates, SearchResults

(* The search under way is the one its section asks for, and the reports,  *)
(* once made, are answers of their searches.                               *)
AuditInv ==
  /\ SearchInv
  /\ Valid
  /\ adjacency = Adjacency
  /\ pc \in {"structural", "candidates", "done"}
  /\ pc = "structural" => required = Node \X Node
  /\ pc = "candidates" => required = RepublishingPairs
  /\ pc # "done" => message_loop_candidates = None
  /\ pc = "done" => message_loop_candidates \in FindMessageLoopCandidates

LEMMA TopologyType ==
  ASSUME Valid
  PROVE  Adjacency \in Adjacencies /\ RepublishingPairs \in SUBSET (Node \X Node)
BY DEF Valid, Adjacency, Adjacencies, RepublishingPairs, Contained, Edge

LEMMA NextKeepsArgs == Next => UNCHANGED args
BY DEF Next, SkipComponent, EnterComponent, NextComponent, SearchVertices, args

(***************************************************************************)
(* For every topology and limit, the searches of an audit keep the         *)
(* invariant of the search, which starts afresh for the candidates.        *)
(***************************************************************************)
THEOREM AuditInvariance == AuditSpec => []AuditInv
<1>1. AuditInit => AuditInv
  <2> SUFFICES ASSUME AuditInit PROVE AuditInv
    OBVIOUS
  <2>1. Valid
    BY TopologyAssumption DEF AuditInit, Valid
  <2>2. SearchInv
    BY <2>1, TopologyType, CalledInv, LimitAssumption DEF AuditInit, Arguments
  <2> QED
    BY <2>1, <2>2 DEF AuditInit, AuditInv
<1>2. AuditInv /\ [AuditNext]_audit_vars => AuditInv'
  <2> SUFFICES ASSUME AuditInv, [AuditNext]_audit_vars PROVE AuditInv'
    OBVIOUS
  <2> USE DEF topology, report
  <2>1. ASSUME UNCHANGED topology
        PROVE  /\ Valid' = Valid /\ Adjacency' = Adjacency
               /\ RepublishingPairs' = RepublishingPairs
    BY <2>1 DEF Valid, Adjacency, RepublishingPairs, Contained, Republishes
  <2>2. ASSUME UNCHANGED topology, UNCHANGED max_cycles
        PROVE  FindMessageLoopCandidates' = FindMessageLoopCandidates
    BY <2>1, <2>2 DEF FindMessageLoopCandidates
  <2>3. CASE SearchOn
    <3>1. SearchInv'
      BY <2>3, NextSearch DEF SearchOn, AuditInv
    <3>2. UNCHANGED <<adjacency, required, max_cycles, topology, report, pc>>
      BY <2>3, NextKeepsArgs DEF SearchOn, args
    <3> QED
      BY <2>1, <2>2, <3>1, <3>2 DEF AuditInv
  <2>4. CASE SearchCandidates
    <3>1. /\ UNCHANGED <<adjacency, max_cycles, topology, message_loop_candidates>>
          /\ pc = "structural" /\ pc' = "candidates" /\ required' = RepublishingPairs
      BY <2>4 DEF SearchCandidates
    <3>2. SearchInv'
      <4>1. Arguments'
        BY <3>1, TopologyType DEF AuditInv, SearchInv, TypeOK, Arguments
      <4>2. Called'
        BY <2>4, <3>1 DEF SearchCandidates, Called
      <4>3. (Arguments /\ Called => SearchInv)'
        BY CalledInv, PTL
      <4> QED
        BY <4>1, <4>2, <4>3
    <3> QED
      BY <2>1, <3>1, <3>2 DEF AuditInv
  <2>5. CASE FilterCandidates
    <3>1. /\ UNCHANGED <<vars, topology>> /\ pc' = "done" /\ ~Running /\ ~truncated
          /\ required = Node \X Node
          /\ message_loop_candidates' = FromCompleteResult(Result)
      BY <2>5 DEF FilterCandidates, AuditInv
    <3>2. FromCompleteResult(Result) \in FindMessageLoopCandidates
      <4>1. Result \in SearchResults(AllCycles(Adjacency, Node \X Node), LimitOf(max_cycles))
        BY <3>1, SearchIsExact DEF ResultExact, Expected, AuditInv
      <4>2. ~Result.truncated
        BY <3>1 DEF Result
      <4>3. Valid /\ max_cycles \in Nat
        BY DEF AuditInv, SearchInv, TypeOK
      <4> QED
        BY <4>1, <4>2, <4>3, FilterAnswers
    <3>3. UNCHANGED <<adjacency, required, max_cycles, topology>> /\ SearchInv'
      BY <3>1, SameSearch DEF vars, args, AuditInv
    <3> QED
      BY <2>1, <2>2, <3>1, <3>2, <3>3 DEF AuditInv
  <2>6. CASE ReportCandidates
    <3>1. /\ UNCHANGED <<vars, topology>> /\ pc' = "done" /\ ~Running
          /\ required = RepublishingPairs
          /\ message_loop_candidates' = Result
      BY <2>6 DEF ReportCandidates, AuditInv
    <3>2. Result \in FindMessageLoopCandidates
      BY <3>1, SearchIsExact DEF ResultExact, Expected, AuditInv, FindMessageLoopCandidates
    <3>3. UNCHANGED <<adjacency, required, max_cycles, topology>> /\ SearchInv'
      BY <3>1, SameSearch DEF vars, args, AuditInv
    <3> QED
      BY <2>1, <2>2, <3>1, <3>2, <3>3 DEF AuditInv
  <2>7. CASE UNCHANGED audit_vars
    <3>1. UNCHANGED <<adjacency, required, max_cycles, topology, report, pc>> /\ SearchInv'
      BY <2>7, SameSearch DEF audit_vars, vars, args, AuditInv
    <3> QED
      BY <2>1, <2>2, <3>1 DEF AuditInv
  <2> QED
    BY <2>3, <2>4, <2>5, <2>6, <2>7 DEF AuditNext
<1> QED
  BY <1>1, <1>2, PTL DEF AuditSpec

(***************************************************************************)
(* For every topology and limit, the candidates of an audit are an answer  *)
(* that find_message_loop_candidates could have given.                     *)
(***************************************************************************)
THEOREM ShortcutAlwaysAgrees == AuditSpec => []ShortcutAgrees
<1>1. AuditInv => ShortcutAgrees
  BY DEF AuditInv, ShortcutAgrees
<1> QED
  BY <1>1, AuditInvariance, PTL

(***************************************************************************)
(* For every topology and limit, each candidate of an audit has a hop that *)
(* is represented by a republishing edge, however it was found.            *)
(***************************************************************************)
THEOREM CandidatesAlwaysShowRepublishing == AuditSpec => []CandidatesShowRepublishing
<1>1. AuditInv => CandidatesShowRepublishing
  <2> SUFFICES ASSUME AuditInv, NEW p \in message_loop_candidates.cycles
               PROVE  \E hop \in Hops(p) : Republishes(Representative(hop))
    BY DEF CandidatesShowRepublishing
  <2>1. pc = "done"
    BY DEF AuditInv, None
  <2>2. p \in AllCycles(Adjacency, RepublishingPairs)
    BY <2>1 DEF AuditInv, FindMessageLoopCandidates, SearchResults, kSubset
  <2> QED
    BY <2>2, ShortcutSelects DEF AuditInv
<1> QED
  BY <1>1, AuditInvariance, PTL
=============================================================================
