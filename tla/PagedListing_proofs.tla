------------------------ MODULE PagedListing_proofs ------------------------
(***************************************************************************)
(* Proofs about PagedListing: for any resources and any size of a page.    *)
(***************************************************************************)
EXTENDS PagedListing, FiniteSetTheorems, SequenceTheorems, TLAPS

-----------------------------------------------------------------------------
(* Ranks *)

LEMMA RankIsBounded ==
  ASSUME NEW S \in SUBSET Nat, IsFiniteSet(S), NEW r
  PROVE  /\ Rank(r, S) \in Nat /\ Cardinality(S) \in Nat
         /\ Rank(r, S) <= Cardinality(S)
         /\ r \in S => Rank(r, S) >= 1
<1> DEFINE below == {s \in S : s <= r}
<1>1. /\ IsFiniteSet(below) /\ Cardinality(below) <= Cardinality(S)
      /\ Cardinality(S) \in Nat /\ Cardinality(below) \in Nat
  <2>1. below \in SUBSET S
    OBVIOUS
  <2>2. IsFiniteSet(below) /\ Cardinality(below) <= Cardinality(S)
    BY <2>1, FS_Subset
  <2>3. QED BY <2>2, FS_CardinalityType
<1>2. ASSUME r \in S PROVE Cardinality(below) # 0
  <2>1. r \in below
    BY <1>2
  <2>2. QED BY <1>1, <2>1, FS_EmptySet
<1>3. QED BY <1>1, <1>2 DEF Rank

(* What comes later in the order has a higher rank, ...                    *)
LEMMA RankIsMonotone ==
  ASSUME NEW S \in SUBSET Nat, IsFiniteSet(S), NEW r \in S, NEW s \in S, r < s
  PROVE  Rank(r, S) < Rank(s, S)
<1> DEFINE below(x) == {y \in S : y <= x}
<1>1. below(r) \in SUBSET below(s) /\ below(r) # below(s)
  <2>1. \A y \in S : y \in Nat
    OBVIOUS
  <2>2. \A y \in S : y <= r => y <= s
    BY <2>1
  <2>3. s <= s /\ ~(s <= r)
    BY <2>1
  <2>4. QED BY <2>2, <2>3
<1>2. IsFiniteSet(below(s))
  BY FS_Subset
<1>3. /\ Cardinality(below(r)) <= Cardinality(below(s))
      /\ Cardinality(below(r)) # Cardinality(below(s))
  BY <1>1, <1>2, FS_Subset
<1>4. Rank(r, S) \in Nat /\ Rank(s, S) \in Nat
  BY RankIsBounded
<1>5. QED BY <1>3, <1>4 DEF Rank

LEMMA RankIsInjective ==
  ASSUME NEW S \in SUBSET Nat, IsFiniteSet(S), NEW r \in S, NEW s \in S, Rank(r, S) = Rank(s, S)
  PROVE  r = s
<1>1. r < s \/ s < r \/ r = s
  OBVIOUS
<1>2. QED BY <1>1, RankIsMonotone, RankIsBounded

(* ... and there is something of each rank.                                *)
LEMMA RankIsOnto ==
  ASSUME NEW S \in SUBSET Nat, IsFiniteSet(S), NEW i \in 1 .. Cardinality(S)
  PROVE  \E r \in S : Rank(r, S) = i
<1> DEFINE n == Cardinality(S)
           f == [r \in S |-> Rank(r, S)]
<1>1. n \in Nat
  BY FS_CardinalityType
<1>2. f \in [S -> 1 .. n]
  BY RankIsBounded
<1>3. \A r, s \in S : f[r] = f[s] => r = s
  BY RankIsInjective
<1>4. f \in Injection(S, 1 .. n)
  BY <1>2, <1>3 DEF Injection, IsInjective
<1>5. IsFiniteSet(1 .. n) /\ Cardinality(1 .. n) = n
  BY <1>1, FS_Interval
<1>6. f \in Surjection(S, 1 .. n)
  BY <1>4, <1>5, FS_Injection
<1>7. QED BY <1>6 DEF Surjection

(* With more resources, a rank is not lower.                               *)
LEMMA RankGrows ==
  ASSUME NEW S \in SUBSET Nat, NEW T \in SUBSET Nat, IsFiniteSet(T), S \subseteq T, NEW r
  PROVE  Rank(r, S) <= Rank(r, T)
<1>1. {s \in S : s <= r} \in SUBSET {s \in T : s <= r}
  OBVIOUS
<1>2. IsFiniteSet({s \in T : s <= r})
  BY FS_Subset
<1>3. QED BY <1>1, <1>2, FS_Subset DEF Rank

(* The i-th in order is that of rank i.                                    *)
LEMMA OrderIsByRank ==
  ASSUME NEW S \in SUBSET Nat, IsFiniteSet(S)
  PROVE  /\ InOrder(S) \in Seq(S) /\ Len(InOrder(S)) = Cardinality(S)
         /\ Cardinality(S) \in Nat
         /\ \A i \in 1 .. Cardinality(S) : InOrder(S)[i] \in S /\ Rank(InOrder(S)[i], S) = i
<1>1. Cardinality(S) \in Nat
  BY FS_CardinalityType
<1>2. \A i \in 1 .. Cardinality(S) : InOrder(S)[i] \in S /\ Rank(InOrder(S)[i], S) = i
  BY RankIsOnto DEF InOrder
<1>3. InOrder(S) \in [1 .. Cardinality(S) -> S]
  BY <1>2 DEF InOrder
<1>4. QED BY <1>1, <1>2, <1>3

-----------------------------------------------------------------------------
(* Pages *)

LEMMA Products ==
  ASSUME NEW k \in Nat \ {0}
  PROVE  /\ \A i \in Nat : i * k \in Nat /\ (i + 1) * k = i * k + k
         /\ \A i, j \in Nat : i <= j => i * k <= j * k
<1>1. \A i \in Nat : i * k \in Nat /\ (i + 1) * k = i * k + k
  OBVIOUS
<1>2. \A i, j \in Nat : i <= j => i * k <= j * k
  OBVIOUS
<1>3. QED BY <1>1, <1>2

(* All resources fit on the pages there are.                               *)
LEMMA PagesSuffice ==
  ASSUME NEW n \in Nat, NEW k \in Nat \ {0}
  PROVE  /\ (n + k - 1) \div k \in Nat
         /\ ((n + k - 1) \div k) * k >= n
<1> DEFINE a == n + k - 1
           q == a \div k
<1>1. a \in Nat
  OBVIOUS
<1>2. q \in Int /\ a = (k * q) + (a % k) /\ a % k \in 0 .. k - 1
  BY <1>1
<1>3. QED BY <1>1, <1>2

LEMMA MinOfTwo ==
  ASSUME NEW i \in Int, NEW j \in Int
  PROVE  Min({i, j}) = IF i <= j THEN i ELSE j
<1>1. \A x \in {i, j} : (\A y \in {i, j} : x <= y) => x = IF i <= j THEN i ELSE j
  OBVIOUS
<1>2. \E x \in {i, j} : \A y \in {i, j} : x <= y
  OBVIOUS
<1>3. QED BY <1>1, <1>2 DEF Min

LEMMA ToSetOfConcat ==
  ASSUME NEW S, NEW s \in Seq(S), NEW t \in Seq(S)
  PROVE  ToSet(s \o t) = ToSet(s) \cup ToSet(t)
<1>1. ToSet(s) = Range(s) /\ ToSet(t) = Range(t) /\ ToSet(s \o t) = Range(s \o t)
  BY DEF ToSet, Range
<1>2. QED BY <1>1, RangeConcatenation

LEMMA ResourcesAreFinite ==
  ASSUME NEW S \in SUBSET Resource
  PROVE  S \in SUBSET Nat /\ IsFiniteSet(S)
  BY ResourceAssumption, FS_Subset

(* A page is the resources of its ranks, each once.                        *)
LEMMA PageItems ==
  ASSUME resources \subseteq Resource, NEW p \in Nat \ {0}
  PROVE  /\ ItemsOf(p) \in Seq(resources)
         /\ IsInjective(ItemsOf(p))
         /\ \A r : r \in ToSet(ItemsOf(p)) <=>
              /\ r \in resources
              /\ (p - 1) * page_size < Rank(r, resources)
              /\ Rank(r, resources) <= p * page_size
<1> DEFINE order == InOrder(resources)
           n == Cardinality(resources)
           b == (p - 1) * page_size
           e == p * page_size
           m == Min({e, n})
           items == SubSeq(order, b + 1, m)
<1>1. resources \in SUBSET Nat /\ IsFiniteSet(resources)
  BY ResourcesAreFinite
<1>2. /\ n \in Nat
      /\ \A i \in 1 .. n : order[i] \in resources /\ Rank(order[i], resources) = i
  BY <1>1, OrderIsByRank
<1>3. b \in Nat /\ e \in Nat /\ b < e
  <2>1. p - 1 \in Nat /\ p = (p - 1) + 1
    OBVIOUS
  <2>2. b \in Nat /\ e = b + page_size
    BY <2>1, PageAssumption, Products
  <2>3. QED BY <2>2, PageAssumption
<1>4. m = IF e <= n THEN e ELSE n
  BY <1>2, <1>3, MinOfTwo
<1>5. \A r \in resources : Rank(r, resources) \in 1 .. n
  BY <1>1, RankIsBounded
<1> HIDE DEF order, n, b, e, m
<1>6. b + 1 \in Int /\ m \in Int /\ \A i \in b + 1 .. m : order[i] \in resources
  BY <1>2, <1>3, <1>4
<1>7. /\ items \in Seq(resources)
      /\ Len(items) = IF b + 1 <= m THEN m - (b + 1) + 1 ELSE 0
      /\ \A i \in 1 .. m - (b + 1) + 1 : items[i] = order[(b + 1) + i - 1]
  BY <1>6, SubSeqProperties
<1> HIDE DEF items
<1>8. /\ DOMAIN items = 1 .. (IF b + 1 <= m THEN m - b ELSE 0)
      /\ \A i \in DOMAIN items : items[i] = order[b + i]
  BY <1>3, <1>4, <1>6, <1>7, <1>2
<1>9. \A i \in DOMAIN items : /\ items[i] \in resources /\ Rank(items[i], resources) = b + i
                              /\ i \in Nat /\ b + i <= m
  BY <1>2, <1>3, <1>4, <1>8
<1>10. IsInjective(items)
  BY <1>3, <1>9 DEF IsInjective
<1>11. ASSUME NEW r \in resources, b < Rank(r, resources), Rank(r, resources) <= e
       PROVE  r \in ToSet(items)
  <2> DEFINE i == Rank(r, resources) - b
  <2>1. Rank(r, resources) \in 1 .. n
    BY <1>5
  <2>2. i \in DOMAIN items /\ b + i = Rank(r, resources)
    BY <1>2, <1>3, <1>4, <1>8, <1>11, <2>1
  <2>3. items[i] \in resources /\ Rank(items[i], resources) = Rank(r, resources)
    BY <1>9, <2>2
  <2>4. items[i] = r
    BY <1>1, <2>3, RankIsInjective
  <2>5. QED BY <2>2, <2>4 DEF ToSet
<1>12. ASSUME NEW i \in DOMAIN items
       PROVE  /\ items[i] \in resources /\ b < Rank(items[i], resources)
              /\ Rank(items[i], resources) <= e
  BY <1>2, <1>3, <1>4, <1>8, <1>9
<1>13. \A r : r \in ToSet(items) <=>
         r \in resources /\ b < Rank(r, resources) /\ Rank(r, resources) <= e
  BY <1>11, <1>12 DEF ToSet
<1>14. QED BY <1>7, <1>10, <1>13 DEF ItemsOf, items, order, n, b, e, m

-----------------------------------------------------------------------------
(* The invariant *)

IsListing == pc # "first" /\ pc # "failed"

(* Where the listing is says what it has.                                  *)
PlaceInv ==
  /\ ~IsListing => listed = <<>>
  /\ IsListing => page >= 2
  /\ Complete => page > page_count

(* What was there from the start and is not listed yet is ahead.           *)
AheadInv ==
  IsListing /\ ~deleted =>
    /\ at_start \subseteq resources
    /\ \A r \in at_start \ ToSet(listed) : Rank(r, resources) > (page - 1) * page_size

(* What is listed and still there is behind.                               *)
BehindInv ==
  ~created =>
    /\ IsInjective(listed) /\ pc # "rejected"
    /\ IsListing => \A r \in ToSet(listed) \cap resources :
                      Rank(r, resources) <= (page - 1) * page_size

(* Without a change, the pages so far are the beginning of the order.      *)
QuietInv ==
  IsListing /\ ~created /\ ~deleted =>
    /\ resources = at_start
    /\ page_count \in ReportedCounts
    /\ listed = SubSeq(InOrder(at_start), 1,
                       Min({(page - 1) * page_size, Cardinality(at_start)}))

IInv == TypeOK /\ PlaceInv /\ AheadInv /\ BehindInv /\ QuietInv

(* The invariant holds at first, ... *)

LEMMA InitInv == Init => IInv
<1> SUFFICES ASSUME Init PROVE IInv
  OBVIOUS
<1>1. TypeOK
  <2>1. <<>> \in Seq(Resource) /\ <<0, 0>> \in Nat \X Nat
    OBVIOUS
  <2>2. created \in BOOLEAN /\ deleted \in BOOLEAN
    BY DEF Init
  <2>3. QED BY <2>1, <2>2 DEF Init, TypeOK
<1>2. PlaceInv /\ AheadInv /\ BehindInv /\ QuietInv
  BY DEF Init, PlaceInv, AheadInv, BehindInv, QuietInv, IsListing, Complete, IsInjective
<1>3. QED BY <1>1, <1>2 DEF IInv

(* ... and is kept, conjunct by conjunct. *)

LEMMA CountsAreNaturals ==
  ASSUME TypeOK
  PROVE  ReportedCounts \subseteq Nat
<1>1. Cardinality(resources) \in Nat
  BY ResourcesAreFinite, FS_CardinalityType DEF TypeOK
<1>2. Pages \in Nat
  BY <1>1, PageAssumption, PagesSuffice DEF Pages
<1>3. QED BY <1>2 DEF ReportedCounts

LEMMA ItemsAreResources ==
  ASSUME TypeOK, NEW p \in Nat \ {0}
  PROVE  ItemsOf(p) \in Seq(Resource)
  BY PageItems DEF TypeOK

LEMMA TypeStep == TypeOK /\ [Next]_vars => TypeOK'
<1> SUFFICES ASSUME TypeOK, [Next]_vars PROVE TypeOK'
  OBVIOUS
<1>1. \A p \in Nat \ {0} : ItemsOf(p) \in Seq(Resource)
  BY ItemsAreResources
<1>2. CASE FetchFirst
  <2>1. page_count' \in Nat /\ reported' \in Nat \X Nat
    BY <1>2, CountsAreNaturals DEF FetchFirst
  <2>2. listed' \in Seq(Resource)
    BY <1>1, <1>2 DEF FetchFirst
  <2>3. created' \in BOOLEAN /\ deleted' \in BOOLEAN
    BY <1>2 DEF FetchFirst
  <2>4. QED BY <1>2, <2>1, <2>2, <2>3 DEF TypeOK, FetchFirst
<1>3. CASE FetchNext
  <2>1. listed' \in Seq(Resource)
    BY <1>1, <1>3, ConcatProperties DEF TypeOK, FetchNext
  <2>2. reported' \in Nat \X Nat
    BY <1>3, CountsAreNaturals DEF TypeOK, FetchNext
  <2>3. page' \in Nat \ {0} /\ (page' > 2 => page' <= page_count + 1)
    BY <1>3 DEF TypeOK, FetchNext
  <2>4. QED BY <1>3, <2>1, <2>2, <2>3 DEF TypeOK, FetchNext
<1>4. CASE FetchFails \/ Return \/ RejectDuplicate
  <2>1. listed' \in Seq(Resource)
    <3>1. <<>> \in Seq(Resource)
      OBVIOUS
    <3>2. QED BY <1>4, <3>1 DEF TypeOK, FetchFails, Return, RejectDuplicate
  <2>2. QED BY <1>4, <2>1 DEF TypeOK, FetchFails, Return, RejectDuplicate
<1>5. CASE Select
  BY <1>5 DEF TypeOK, Select, ToSet
<1>6. CASE Create \/ Delete
  BY <1>6 DEF TypeOK, Create, Delete, listing
<1>7. CASE UNCHANGED vars
  BY <1>7 DEF TypeOK, vars, listing
<1>8. QED BY <1>2, <1>3, <1>4, <1>5, <1>6, <1>7 DEF Next, Client

LEMMA PlaceStep == TypeOK /\ PlaceInv /\ [Next]_vars => PlaceInv'
<1> SUFFICES ASSUME TypeOK, PlaceInv, [Next]_vars PROVE PlaceInv'
  OBVIOUS
<1> USE DEF PlaceInv, IsListing, Complete, TypeOK
<1>1. CASE FetchFirst
  BY <1>1 DEF FetchFirst
<1>2. CASE FetchNext
  BY <1>2 DEF FetchNext
<1>3. CASE FetchFails \/ Return \/ Select \/ RejectDuplicate
  BY <1>3 DEF FetchFails, Return, Select, RejectDuplicate
<1>4. CASE Create \/ Delete
  BY <1>4 DEF Create, Delete, listing
<1>5. CASE UNCHANGED vars
  BY <1>5 DEF vars, listing
<1>6. QED BY <1>1, <1>2, <1>3, <1>4, <1>5 DEF Next, Client

(* A page further is a page further in rank.                               *)
LEMMA NextPage ==
  ASSUME TypeOK
  PROVE  /\ (page - 1) * page_size \in Nat /\ page * page_size \in Nat
         /\ (page + 1 - 1) * page_size = page * page_size
         /\ page * page_size = (page - 1) * page_size + page_size
         /\ (2 - 1) * page_size = page_size /\ 1 * page_size = page_size
         /\ (1 - 1) * page_size = 0
<1>1. page - 1 \in Nat /\ page = (page - 1) + 1 /\ page + 1 - 1 = page /\ page_size \in Nat
  BY PageAssumption DEF TypeOK
<1>2. (page - 1) * page_size \in Nat /\ page * page_size = (page - 1) * page_size + page_size
  BY <1>1, PageAssumption, Products
<1>3. QED BY <1>1, <1>2

LEMMA AheadStep == TypeOK /\ PlaceInv /\ AheadInv /\ [Next]_vars => AheadInv'
<1> SUFFICES ASSUME TypeOK, PlaceInv, AheadInv, [Next]_vars, IsListing', ~deleted'
             PROVE  /\ at_start' \subseteq resources'
                    /\ \A r \in at_start' \ ToSet(listed') :
                         Rank(r, resources') > (page' - 1) * page_size
  BY DEF AheadInv
<1>1. CASE FetchFirst
  <2>1. at_start' = resources /\ resources' = resources /\ page' = 2 /\ listed' = ItemsOf(1)
    BY <1>1 DEF FetchFirst
  <2>2. ASSUME NEW r \in resources, r \notin ToSet(ItemsOf(1))
        PROVE  Rank(r, resources) > page_size
    <3>1. Rank(r, resources) \in Nat /\ Rank(r, resources) >= 1 /\ page_size \in Nat
      BY ResourcesAreFinite, RankIsBounded, PageAssumption DEF TypeOK
    <3>2. ~(0 < Rank(r, resources) /\ Rank(r, resources) <= page_size)
      BY <2>2, PageItems, NextPage DEF TypeOK
    <3>3. QED BY <3>1, <3>2
  <2>3. QED BY <2>1, <2>2, NextPage
<1>2. CASE FetchNext
  <2>1. /\ at_start' = at_start /\ resources' = resources /\ page' = page + 1
        /\ listed' = listed \o ItemsOf(page) /\ pc = "more" /\ ~deleted
    BY <1>2 DEF FetchNext
  <2>2. /\ at_start \subseteq resources
        /\ \A r \in at_start \ ToSet(listed) : Rank(r, resources) > (page - 1) * page_size
    BY <2>1 DEF AheadInv, IsListing
  <2>3. ToSet(listed') = ToSet(listed) \cup ToSet(ItemsOf(page))
    BY <2>1, ItemsAreResources, ToSetOfConcat DEF TypeOK
  <2>4. ASSUME NEW r \in at_start, r \notin ToSet(listed')
        PROVE  Rank(r, resources) > page * page_size
    <3>1. Rank(r, resources) \in Nat
      BY ResourcesAreFinite, RankIsBounded DEF TypeOK
    <3>2. Rank(r, resources) > (page - 1) * page_size
      BY <2>2, <2>3, <2>4
    <3>3. ~(/\ r \in resources /\ (page - 1) * page_size < Rank(r, resources)
            /\ Rank(r, resources) <= page * page_size)
      BY <2>3, <2>4, PageItems DEF TypeOK
    <3>4. QED BY <2>2, <2>4, <3>1, <3>2, <3>3, NextPage
  <2>5. page' - 1 = page
    BY <2>1 DEF TypeOK
  <2>6. QED BY <2>1, <2>2, <2>4, <2>5
<1>3. CASE Create
  <2>1. /\ resources \subseteq resources' /\ resources' \in SUBSET Resource
        /\ at_start' = at_start /\ page' = page /\ listed' = listed /\ pc' = pc /\ ~deleted
    BY <1>3 DEF Create, listing, TypeOK
  <2>2. /\ at_start \subseteq resources
        /\ \A r \in at_start \ ToSet(listed) : Rank(r, resources) > (page - 1) * page_size
    BY <2>1 DEF AheadInv, IsListing
  <2>3. ASSUME NEW r \in at_start \ ToSet(listed)
        PROVE  Rank(r, resources') > (page - 1) * page_size
    <3>1. Rank(r, resources) <= Rank(r, resources')
      BY <2>1, ResourcesAreFinite, RankGrows DEF TypeOK
    <3>2. Rank(r, resources) \in Nat /\ Rank(r, resources') \in Nat
      BY <2>1, ResourcesAreFinite, RankIsBounded DEF TypeOK
    <3>3. QED BY <2>2, <3>1, <3>2, NextPage
  <2>4. QED BY <2>1, <2>2, <2>3
<1>4. CASE Return \/ Select \/ RejectDuplicate
  BY <1>4 DEF Return, Select, RejectDuplicate, AheadInv, IsListing
<1>5. CASE FetchFails \/ Delete
  BY <1>5 DEF FetchFails, Delete, IsListing
<1>6. CASE UNCHANGED vars
  BY <1>6 DEF vars, listing, AheadInv, IsListing
<1>7. QED BY <1>1, <1>2, <1>3, <1>4, <1>5, <1>6 DEF Next, Client

(* Sequences that have nothing in common repeat nothing together.          *)
LEMMA InjectiveConcat ==
  ASSUME NEW S, NEW s \in Seq(S), NEW t \in Seq(S), IsInjective(s), IsInjective(t),
         ToSet(s) \cap ToSet(t) = {}
  PROVE  IsInjective(s \o t)
<1>1. /\ DOMAIN s = 1 .. Len(s) /\ DOMAIN t = 1 .. Len(t)
      /\ DOMAIN (s \o t) = 1 .. Len(s) + Len(t)
      /\ Len(s) \in Nat /\ Len(t) \in Nat
  OBVIOUS
<1>2. \A i \in DOMAIN (s \o t) :
        \/ i \in DOMAIN s /\ (s \o t)[i] = s[i]
        \/ i > Len(s) /\ i - Len(s) \in DOMAIN t /\ (s \o t)[i] = t[i - Len(s)]
  BY <1>1, ConcatProperties
<1>3. SUFFICES ASSUME NEW i \in DOMAIN (s \o t), NEW j \in DOMAIN (s \o t),
                      (s \o t)[i] = (s \o t)[j]
               PROVE  i = j
  BY DEF IsInjective
<1>4. ~(i \in DOMAIN s /\ j - Len(s) \in DOMAIN t /\ s[i] = t[j - Len(s)])
      /\ ~(j \in DOMAIN s /\ i - Len(s) \in DOMAIN t /\ s[j] = t[i - Len(s)])
  BY DEF ToSet
<1>5. CASE i \in DOMAIN s /\ (s \o t)[i] = s[i] /\ j \in DOMAIN s /\ (s \o t)[j] = s[j]
  BY <1>3, <1>5 DEF IsInjective
<1>6. CASE /\ i > Len(s) /\ i - Len(s) \in DOMAIN t /\ (s \o t)[i] = t[i - Len(s)]
           /\ j > Len(s) /\ j - Len(s) \in DOMAIN t /\ (s \o t)[j] = t[j - Len(s)]
  <2>1. i - Len(s) = j - Len(s)
    BY <1>3, <1>6 DEF IsInjective
  <2>2. QED BY <1>1, <1>3, <2>1
<1>7. QED BY <1>2, <1>3, <1>4, <1>5, <1>6

LEMMA BehindStep == TypeOK /\ PlaceInv /\ BehindInv /\ [Next]_vars => BehindInv'
<1> SUFFICES ASSUME TypeOK, PlaceInv, BehindInv, [Next]_vars, ~created'
             PROVE  /\ IsInjective(listed') /\ pc' # "rejected"
                    /\ IsListing' => \A r \in ToSet(listed') \cap resources' :
                                       Rank(r, resources') <= (page' - 1) * page_size
  BY DEF BehindInv
<1>1. CASE FetchFirst
  <2>1. resources' = resources /\ page' = 2 /\ listed' = ItemsOf(1) /\ pc' = "more"
    BY <1>1 DEF FetchFirst
  <2>2. /\ IsInjective(ItemsOf(1))
        /\ \A r \in ToSet(ItemsOf(1)) : Rank(r, resources) <= 1 * page_size
    BY PageItems DEF TypeOK
  <2>3. (page' - 1) * page_size = 1 * page_size
    BY <2>1
  <2>4. QED BY <2>1, <2>2, <2>3
<1>2. CASE FetchNext
  <2>1. /\ resources' = resources /\ page' = page + 1 /\ pc' = "more"
        /\ listed' = listed \o ItemsOf(page) /\ pc = "more" /\ ~created
    BY <1>2 DEF FetchNext
  <2>2. /\ IsInjective(listed)
        /\ \A r \in ToSet(listed) \cap resources : Rank(r, resources) <= (page - 1) * page_size
    BY <2>1 DEF BehindInv, IsListing
  <2>3. /\ IsInjective(ItemsOf(page))
        /\ \A r \in ToSet(ItemsOf(page)) :
             /\ r \in resources /\ (page - 1) * page_size < Rank(r, resources)
             /\ Rank(r, resources) <= page * page_size
    BY PageItems DEF TypeOK
  <2>4. \A r \in resources : Rank(r, resources) \in Nat
    BY ResourcesAreFinite, RankIsBounded DEF TypeOK
  <2>5. ToSet(listed) \cap ToSet(ItemsOf(page)) = {}
    BY <2>2, <2>3, <2>4, NextPage
  <2>6. listed \in Seq(Resource) /\ ItemsOf(page) \in Seq(Resource)
    BY ItemsAreResources DEF TypeOK
  <2>7. IsInjective(listed')
    BY <2>1, <2>2, <2>3, <2>5, <2>6, InjectiveConcat
  <2>8. ToSet(listed') = ToSet(listed) \cup ToSet(ItemsOf(page))
    BY <2>1, <2>6, ToSetOfConcat
  <2>9. ASSUME NEW r \in ToSet(listed') \cap resources
        PROVE  Rank(r, resources) <= page * page_size
    BY <2>2, <2>3, <2>4, <2>8, NextPage, PageAssumption
  <2>10. page' - 1 = page
    BY <2>1 DEF TypeOK
  <2>11. QED BY <2>1, <2>7, <2>9, <2>10
<1>3. CASE Delete
  <2>1. /\ resources' \subseteq resources /\ page' = page /\ listed' = listed /\ pc' = pc
        /\ ~created
    BY <1>3 DEF Delete, listing
  <2>2. /\ IsInjective(listed) /\ pc # "rejected"
        /\ IsListing => \A r \in ToSet(listed) \cap resources :
                          Rank(r, resources) <= (page - 1) * page_size
    BY <2>1 DEF BehindInv
  <2>3. ASSUME IsListing, NEW r \in ToSet(listed) \cap resources'
        PROVE  Rank(r, resources') <= (page - 1) * page_size
    <3>1. resources' \in SUBSET Resource
      BY <2>1 DEF TypeOK
    <3>2. Rank(r, resources') <= Rank(r, resources)
      BY <2>1, <3>1, ResourcesAreFinite, RankGrows DEF TypeOK
    <3>3. Rank(r, resources) \in Nat /\ Rank(r, resources') \in Nat
      BY <3>1, ResourcesAreFinite, RankIsBounded DEF TypeOK
    <3>4. QED BY <2>1, <2>2, <2>3, <3>2, <3>3, NextPage
  <2>4. QED BY <2>1, <2>2, <2>3 DEF IsListing
<1>4. CASE FetchFails
  BY <1>4 DEF FetchFails, IsListing, IsInjective
<1>5. CASE Return \/ Select
  BY <1>5 DEF Return, Select, BehindInv, IsListing
<1>6. CASE RejectDuplicate \/ Create
  BY <1>6 DEF RejectDuplicate, Create, BehindInv
<1>7. CASE UNCHANGED vars
  BY <1>7 DEF vars, listing, BehindInv, IsListing
<1>8. QED BY <1>1, <1>2, <1>3, <1>4, <1>5, <1>6, <1>7 DEF Next, Client

(* The first pages of a set are the beginning of its order.                *)
LEMMA FirstPages ==
  ASSUME TypeOK, NEW p \in Nat \ {0}
  PROVE  SubSeq(InOrder(resources), 1, Min({(p - 1) * page_size, Cardinality(resources)}))
           \o ItemsOf(p)
         = SubSeq(InOrder(resources), 1, Min({p * page_size, Cardinality(resources)}))
<1> DEFINE order == InOrder(resources)
           n == Cardinality(resources)
           b == (p - 1) * page_size
           e == p * page_size
<1>1. resources \in SUBSET Nat /\ IsFiniteSet(resources)
  BY ResourcesAreFinite DEF TypeOK
<1>2. n \in Nat /\ order \in Seq(resources) /\ Len(order) = n
  BY <1>1, OrderIsByRank
<1>3. b \in Nat /\ e \in Nat /\ b < e
  <2>1. p - 1 \in Nat /\ p = (p - 1) + 1
    OBVIOUS
  <2>2. b \in Nat /\ e = b + page_size
    BY <2>1, PageAssumption, Products
  <2>3. QED BY <2>2, PageAssumption
<1>4. ItemsOf(p) = SubSeq(order, b + 1, Min({e, n}))
  BY DEF ItemsOf
<1> HIDE DEF order, n, b, e
<1>5. /\ Min({e, n}) = IF e <= n THEN e ELSE n
      /\ Min({b, n}) = IF b <= n THEN b ELSE n
  BY <1>2, <1>3, MinOfTwo
<1>6. CASE b <= n
  <2> DEFINE m == Min({e, n})
  <2>1. /\ 1 \in 1 .. Len(order) + 1 /\ b \in 1 - 1 .. Len(order) /\ m \in b .. Len(order)
        /\ Min({b, n}) = b
    BY <1>2, <1>3, <1>5, <1>6
  <2> HIDE DEF m
  <2>2. SubSeq(order, 1, b) \o SubSeq(order, b + 1, m) = SubSeq(order, 1, m)
    BY <1>2, <2>1, ConcatAdjacentSubSeq
  <2>3. QED BY <1>4, <2>1, <2>2 DEF m, order, n, b, e
<1>7. CASE ~(b <= n)
  <2>1. ItemsOf(p) = <<>>
    BY <1>2, <1>3, <1>4, <1>5, <1>7, SubSeqEmpty
  <2>2. Min({b, n}) = n /\ Min({e, n}) = n
    BY <1>2, <1>3, <1>5, <1>7
  <2>3. SubSeq(order, 1, n) = order
    BY <1>2, SubSeqFull
  <2>4. order \o <<>> = order
    BY <1>2, ConcatEmptySeq
  <2>5. QED BY <2>1, <2>2, <2>3, <2>4 DEF order, n, b, e
<1>8. QED BY <1>6, <1>7

LEMMA QuietStep == TypeOK /\ PlaceInv /\ QuietInv /\ [Next]_vars => QuietInv'
<1> SUFFICES ASSUME TypeOK, PlaceInv, QuietInv, [Next]_vars, IsListing', ~created', ~deleted'
             PROVE  /\ resources' = at_start'
                    /\ page_count' \in ReportedCounts'
                    /\ listed' = SubSeq(InOrder(at_start'), 1,
                                        Min({(page' - 1) * page_size, Cardinality(at_start')}))
  BY DEF QuietInv
<1>1. CASE FetchFirst
  <2>1. /\ resources' = resources /\ at_start' = resources /\ page' - 1 = 1
        /\ page_count' \in ReportedCounts /\ listed' = ItemsOf(1)
    BY <1>1 DEF FetchFirst
  <2>2. ReportedCounts' = ReportedCounts
    BY <2>1 DEF ReportedCounts, Pages
  <2>3. (1 - 1) * page_size + 1 = 1
    BY NextPage
  <2>4. ItemsOf(1) = SubSeq(InOrder(resources), 1, Min({1 * page_size, Cardinality(resources)}))
    BY <2>3 DEF ItemsOf
  <2>5. QED BY <2>1, <2>2, <2>4
<1>2. CASE FetchNext
  <2>1. /\ resources' = resources /\ at_start' = at_start /\ page' - 1 = page
        /\ page_count' = page_count /\ listed' = listed \o ItemsOf(page)
        /\ pc = "more" /\ ~created /\ ~deleted
    BY <1>2 DEF FetchNext, TypeOK
  <2>2. /\ resources = at_start /\ page_count \in ReportedCounts
        /\ listed = SubSeq(InOrder(at_start), 1,
                           Min({(page - 1) * page_size, Cardinality(at_start)}))
    BY <2>1 DEF QuietInv, IsListing
  <2>3. ReportedCounts' = ReportedCounts
    BY <2>1 DEF ReportedCounts, Pages
  <2>4. page \in Nat \ {0}
    BY DEF TypeOK
  <2>5. listed \o ItemsOf(page) = SubSeq(InOrder(at_start), 1,
                                         Min({page * page_size, Cardinality(at_start)}))
    BY <2>2, <2>4, FirstPages
  <2>6. QED BY <2>1, <2>2, <2>3, <2>5
<1>3. CASE Return \/ Select \/ RejectDuplicate \/ UNCHANGED vars
  <2>1. /\ resources' = resources /\ at_start' = at_start /\ page' = page
        /\ page_count' = page_count /\ listed' = listed
        /\ IsListing /\ ~created /\ ~deleted
    BY <1>3 DEF Return, Select, RejectDuplicate, vars, listing, IsListing
  <2>2. ReportedCounts' = ReportedCounts
    BY <2>1 DEF ReportedCounts, Pages
  <2>3. QED BY <2>1, <2>2 DEF QuietInv
<1>4. CASE FetchFails \/ Create \/ Delete
  BY <1>4 DEF FetchFails, Create, Delete, IsListing
<1>5. QED BY <1>1, <1>2, <1>3, <1>4 DEF Next, Client

-----------------------------------------------------------------------------
(* The theorems *)

LEMMA QuietIsExact == IInv => QuietListingExact
<1> SUFFICES ASSUME IInv, Complete, ~created, ~deleted
             PROVE  listed = InOrder(at_start)
  BY DEF QuietListingExact
<1> USE DEF IInv
<1> DEFINE n == Cardinality(at_start)
           b == (page - 1) * page_size
<1>1. /\ resources = at_start /\ page_count \in ReportedCounts
      /\ listed = SubSeq(InOrder(at_start), 1, Min({b, n}))
  BY DEF QuietInv, IsListing, Complete
<1>2. /\ n \in Nat /\ Len(InOrder(at_start)) = n /\ InOrder(at_start) \in Seq(at_start)
  BY ResourcesAreFinite, OrderIsByRank DEF TypeOK
<1>3. page > page_count /\ page \in Nat /\ page - 1 \in Nat /\ page_count \in Nat
  BY DEF PlaceInv, TypeOK
<1>4. b \in Nat
  BY NextPage
<1>5. b >= n
  <2>1. CASE at_start = {}
    BY <1>4, <2>1, FS_EmptySet
  <2>2. CASE at_start # {}
    <3>1. page_count = (n + page_size - 1) \div page_size
      BY <1>1, <2>2 DEF ReportedCounts, Pages
    <3>2. page_count * page_size >= n
      BY <1>2, <3>1, PageAssumption, PagesSuffice
    <3>3. page_count * page_size <= b /\ page_count * page_size \in Nat
      <4>1. \A j \in Nat : page_count <= j => page_count * page_size <= j * page_size
        BY <1>3, PageAssumption, Products
      <4>2. page_count <= page - 1 /\ page_count * page_size \in Nat
        BY <1>3, PageAssumption, Products
      <4>3. QED BY <1>3, <4>1, <4>2
    <3> HIDE DEF b, n
    <3>4. QED BY <1>2, <1>4, <3>2, <3>3
  <2>3. QED BY <2>1, <2>2
<1>6. Min({b, n}) = n
  <2> HIDE DEF b, n
  <2>1. QED BY <1>2, <1>4, <1>5, MinOfTwo
<1>7. QED BY <1>1, <1>2, <1>6, SubSeqFull

(* The invariant holds in every behaviour.                                 *)
THEOREM ListingInvariance == Spec => []IInv
<1>1. IInv /\ [Next]_vars => IInv'
  BY TypeStep, PlaceStep, AheadStep, BehindStep, QuietStep DEF IInv
<1>2. QED BY <1>1, InitInv, PTL DEF Spec

(* The page asked for next is one the first page promised, and nothing but *)
(* resources is collected.                                                 *)
THEOREM ListingTypeCorrectness == Spec => []TypeOK
<1>1. IInv => TypeOK
  BY DEF IInv
<1>2. QED BY <1>1, ListingInvariance, PTL

(* A listing during which nothing changes is what the broker holds, each   *)
(* resource once and in its order.                                         *)
THEOREM QuietListingsAreExact == Spec => []QuietListingExact
  BY QuietIsExact, ListingInvariance, PTL

(* While resources are only declared, none that was there from the start   *)
(* is skipped: what is not listed yet is still ahead.                      *)
THEOREM GrowthOnlyDefers == Spec => []GrowthDefers
<1>1. IInv => GrowthDefers
  BY DEF IInv, AheadInv, IsListing, GrowthDefers
<1>2. QED BY <1>1, ListingInvariance, PTL

(* While resources are only deleted, none is listed twice, and no capture  *)
(* is rejected for it.                                                     *)
THEOREM ShrinkageRepeatsNone == Spec => []ShrinkageRepeatsNothing
<1>1. IInv => ShrinkageRepeatsNothing
  BY DEF IInv, BehindInv, ShrinkageRepeatsNothing
<1>2. QED BY <1>1, ListingInvariance, PTL
=============================================================================
