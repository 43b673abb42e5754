----------------------------- MODULE ListProofs -----------------------------
(***************************************************************************)
(* What the operators of Lists return, for every finite set and every      *)
(* list.                                                                   *)
(***************************************************************************)
EXTENDS Lists, FiniteSetTheorems, TLAPS

StrictOrder(S, before) ==
  /\ \A x \in S : <<x, x>> \notin before
  /\ \A x, y, z \in S : <<x, y>> \in before /\ <<y, z>> \in before => <<x, z>> \in before
  /\ \A x, y \in S : x # y => <<x, y>> \in before \/ <<y, x>> \in before

(* A later element has more elements before it.                            *)
LEMMA PlaceGrows ==
  ASSUME NEW S, IsFiniteSet(S), NEW before, StrictOrder(S, before),
         NEW x \in S, NEW y \in S, <<x, y>> \in before
  PROVE  Place(x, S, before) < Place(y, S, before)
<1> DEFINE P == {z \in S : <<z, x>> \in before}
           Q == {z \in S : <<z, y>> \in before}
<1>1. IsFiniteSet(Q) /\ Cardinality(Q) \in Nat
  <2>1. Q \in SUBSET S
    OBVIOUS
  <2> QED BY <2>1, FS_Subset, FS_CardinalityType
<1>2. P \subseteq Q /\ x \in Q /\ x \notin P
  BY DEF StrictOrder
<1>3. P \in SUBSET Q /\ P # Q
  BY <1>2
<1> HIDE DEF P, Q
<1>4. IsFiniteSet(P) /\ Cardinality(P) <= Cardinality(Q) /\ Cardinality(P) # Cardinality(Q)
  BY <1>1, <1>3, FS_Subset
<1>5. Cardinality(P) \in Nat
  BY <1>4, FS_CardinalityType
<1>6. Cardinality(P) < Cardinality(Q)
  BY <1>1, <1>4, <1>5
<1> QED BY <1>6 DEF Place, P, Q

(* The place of an element is one of the list's.                           *)
LEMMA PlaceBound ==
  ASSUME NEW S, IsFiniteSet(S), NEW before, StrictOrder(S, before), NEW x \in S
  PROVE  Place(x, S, before) + 1 \in 1..Cardinality(S)
<1> DEFINE P == {z \in S : <<z, x>> \in before}
<1>1. P \in SUBSET S /\ P # S
  BY DEF StrictOrder
<1> HIDE DEF P
<1>2. /\ IsFiniteSet(P) /\ Cardinality(P) <= Cardinality(S)
      /\ Cardinality(P) # Cardinality(S)
  BY <1>1, FS_Subset
<1>3. Cardinality(P) \in Nat /\ Cardinality(S) \in Nat
  BY <1>2, FS_CardinalityType
<1>4. Cardinality(P) + 1 \in 1..Cardinality(S)
  BY <1>2, <1>3
<1> QED BY <1>4 DEF Place, P

(* Every place is taken by exactly one element.                            *)
LEMMA PlacesTaken ==
  ASSUME NEW S, IsFiniteSet(S), NEW before, StrictOrder(S, before)
  PROVE  /\ \A x, y \in S : Place(x, S, before) = Place(y, S, before) => x = y
         /\ \A n \in 1..Cardinality(S) : \E x \in S : Place(x, S, before) = n - 1
<1> DEFINE N == Cardinality(S)
           f == [x \in S |-> Place(x, S, before) + 1]
<1>1. N \in Nat /\ IsFiniteSet(1..N) /\ Cardinality(1..N) = N
  <2>1. N \in Nat /\ 1 \in Int
    BY FS_CardinalityType
  <2> HIDE DEF N
  <2>2. IsFiniteSet(1..N) /\ Cardinality(1..N) = IF 1 > N THEN 0 ELSE N - 1 + 1
    BY <2>1, FS_Interval
  <2> QED BY <2>1, <2>2
<1>2. \A x \in S : Place(x, S, before) + 1 \in 1..N
  BY PlaceBound
<1>3. \A x \in S : Place(x, S, before) \in Int
  <2> TAKE x \in S
  <2>1. {y \in S : <<y, x>> \in before} \in SUBSET S
    OBVIOUS
  <2>2. IsFiniteSet({y \in S : <<y, x>> \in before})
    BY <2>1, FS_Subset
  <2> QED BY <2>2, FS_CardinalityType DEF Place
<1>4. \A x, y \in S : Place(x, S, before) = Place(y, S, before) => x = y
  <2> SUFFICES ASSUME NEW x \in S, NEW y \in S, Place(x, S, before) = Place(y, S, before), x # y
               PROVE FALSE
    OBVIOUS
  <2>1. <<x, y>> \in before \/ <<y, x>> \in before
    BY DEF StrictOrder
  <2>2. Place(x, S, before) < Place(y, S, before) \/ Place(y, S, before) < Place(x, S, before)
    BY <2>1, PlaceGrows
  <2> QED BY <2>2, <1>3
<1>5. f \in [S -> 1..N]
  BY <1>2
<1>6. \A x, y \in S : f[x] = f[y] => x = y
  BY <1>3, <1>4
<1> HIDE DEF f
<1>7. f \in Injection(S, 1..N)
  BY <1>5, <1>6 DEF Injection, IsInjective
<1>8. f \in Bijection(S, Range(f)) /\ Range(f) \subseteq 1..N
  BY <1>5, <1>6 DEF Bijection, Injection, Surjection, IsInjective, Range
<1>9. Cardinality(Range(f)) = N
  <2>1. ExistsBijection(S, Range(f))
    BY <1>8 DEF ExistsBijection
  <2> QED BY <2>1, FS_Bijection
<1>10. Range(f) = 1..N
  <2>1. Range(f) \in SUBSET (1..N)
    BY <1>8
  <2> HIDE DEF N
  <2> QED BY <1>1, <1>9, <2>1, FS_Subset
<1>11. \A n \in 1..N : \E x \in S : f[x] = n
  BY <1>5, <1>10 DEF Range
<1>12. \A n \in 1..N : \E x \in S : Place(x, S, before) = n - 1
  BY <1>1, <1>3, <1>11 DEF f
<1> QED BY <1>4, <1>12

(* InOrder lists every element of S once, in the order given.              *)
LEMMA InOrderLists ==
  ASSUME NEW S, IsFiniteSet(S), NEW before, StrictOrder(S, before)
  PROVE  LET list == InOrder(S, before)
         IN /\ Cardinality(S) \in Nat
            /\ DOMAIN list = 1..Cardinality(S) /\ Len(list) = Cardinality(S)
            /\ list \in [1..Cardinality(S) -> S]
            /\ list \in Seq(S)
            /\ \A x \in S : \E n \in DOMAIN list : list[n] = x
            /\ \A m, n \in DOMAIN list : list[m] = list[n] => m = n
            /\ \A m, n \in DOMAIN list : m < n <=> <<list[m], list[n]>> \in before
<1> DEFINE N == Cardinality(S)
           list == InOrder(S, before)
<1>0. N \in Nat
  BY FS_CardinalityType
<1>1. \A x \in S : Place(x, S, before) \in Int /\ Place(x, S, before) + 1 \in 1..N
  <2> TAKE x \in S
  <2>1. {y \in S : <<y, x>> \in before} \in SUBSET S
    OBVIOUS
  <2>2. IsFiniteSet({y \in S : <<y, x>> \in before})
    BY <2>1, FS_Subset
  <2> QED BY <2>2, FS_CardinalityType, PlaceBound DEF Place
<1>2. \A n \in 1..N : list[n] \in S /\ Place(list[n], S, before) = n - 1
  <2> SUFFICES ASSUME NEW n \in 1..N
               PROVE  list[n] \in S /\ Place(list[n], S, before) = n - 1
    OBVIOUS
  <2>1. \E x \in S : Place(x, S, before) = n - 1
    BY PlacesTaken
  <2>2. list[n] = CHOOSE x \in S : Place(x, S, before) = n - 1
    BY DEF InOrder
  <2> QED BY <2>1, <2>2
<1>3. DOMAIN list = 1..N /\ list = [n \in 1..N |-> list[n]]
  BY DEF InOrder
<1> HIDE DEF list, N
<1>4. list \in [1..N -> S]
  BY <1>2, <1>3
<1>5. list \in Seq(S) /\ Len(list) = N
  BY <1>0, <1>4
<1>6. \A x \in S : \E n \in 1..N : list[n] = x
  <2> TAKE x \in S
  <2>1. Place(x, S, before) + 1 \in 1..N /\ Place(x, S, before) \in Int
    BY <1>1
  <2>2. Place(list[Place(x, S, before) + 1], S, before) = Place(x, S, before)
    BY <1>2, <2>1
  <2> QED BY <1>2, <2>1, <2>2, PlacesTaken
<1>7. \A m, n \in 1..N : list[m] = list[n] => m = n
  BY <1>0, <1>2
<1>8. \A m, n \in 1..N : m < n <=> <<list[m], list[n]>> \in before
  <2> SUFFICES ASSUME NEW m \in 1..N, NEW n \in 1..N
               PROVE  m < n <=> <<list[m], list[n]>> \in before
    OBVIOUS
  <2>1. <<list[m], list[n]>> \in before => m < n
    <3> SUFFICES ASSUME <<list[m], list[n]>> \in before PROVE m < n
      OBVIOUS
    <3>1. Place(list[m], S, before) < Place(list[n], S, before)
      BY <1>2, PlaceGrows
    <3> QED BY <1>2, <3>1
  <2>2. m < n => <<list[m], list[n]>> \in before
    <3> SUFFICES ASSUME m < n, <<list[m], list[n]>> \notin before PROVE FALSE
      OBVIOUS
    <3>1. list[m] # list[n]
      BY <1>7
    <3>2. <<list[n], list[m]>> \in before
      BY <1>2, <3>1 DEF StrictOrder
    <3>3. Place(list[n], S, before) < Place(list[m], S, before)
      BY <1>2, <3>2, PlaceGrows
    <3> QED BY <1>2, <3>3
  <2> QED BY <2>1, <2>2
<1> QED BY <1>0, <1>3, <1>4, <1>5, <1>6, <1>7, <1>8 DEF list, N

(* A set of naturals has a lowest element; a bounded one a highest.        *)
LEMMA Lowest ==
  ASSUME NEW S \in SUBSET Nat, S # {}
  PROVE  \E x \in S : \A y \in S : x <= y
<1>1. PICK x \in S : \A y \in S : <<y, x>> \notin OpToRel(<, Nat)
  BY NatLessThanWellFounded, WFMin
<1>2. \A y \in S : ~(y < x)
  BY <1>1 DEF OpToRel
<1>3. \A y \in S : x \in Nat /\ y \in Nat
  OBVIOUS
<1> QED BY <1>2, <1>3

(* A set of numbers below n that is not empty has a greatest element.      *)
LEMMA Highest ==
  ASSUME NEW S \in SUBSET Nat, S # {}, NEW n \in Nat, \A x \in S : x < n
  PROVE  \E x \in S : \A y \in S : y <= x
<1> DEFINE T == {n - x : x \in S}
<1>1. T \subseteq Nat /\ T # {}
  <2>1. \A x \in S : n - x \in Nat
    OBVIOUS
  <2> QED BY <2>1
<1>2. PICK t \in T : \A y \in T : ~ (<<y, t>> \in OpToRel(<, Nat))
  <2> HIDE DEF T
  <2> QED BY <1>1, NatLessThanWellFounded, WFMin
<1>3. \A y \in T : ~ (y < t)
  BY <1>1, <1>2 DEF OpToRel
<1>4. PICK x \in S : t = n - x
  OBVIOUS
<1>5. \A y \in S : y <= x
  <2>1. TAKE y \in S
  <2>2. ~ (n - y < n - x)
    BY <1>3, <1>4
  <2> QED BY <2>2
<1> QED BY <1>5

-----------------------------------------------------------------------------
(* Lists.                                                                  *)

(* Indices of a list are finitely many.                                    *)
LEMMA IndicesFinite ==
  ASSUME NEW n \in Nat, NEW kept \in SUBSET (1..n)
  PROVE  IsFiniteSet(kept) /\ Cardinality(kept) \in Nat /\ Cardinality(kept) <= n
<1>1. IsFiniteSet(1..n) /\ Cardinality(1..n) = n
  <2>1. 1 \in Int /\ n \in Int
    OBVIOUS
  <2>2. IsFiniteSet(1..n) /\ Cardinality(1..n) = IF 1 > n THEN 0 ELSE n - 1 + 1
    BY <2>1, FS_Interval
  <2> QED BY <2>2
<1> QED BY <1>1, FS_Subset, FS_CardinalityType

(* Ascending is the order of the integers.                                 *)
LEMMA AscendingPair == \A i, j \in Int : <<i, j>> \in Ascending <=> i < j
BY DEF Ascending

(* It is a strict total order on any of them.                              *)
LEMMA AscendingStrict ==
  ASSUME NEW S \in SUBSET Int
  PROVE  StrictOrder(S, Ascending)
BY DEF StrictOrder, Ascending

(* The elements at some indices, each of them once and in the same order.  *)
LEMMA AtIndicesKeeps ==
  ASSUME NEW n \in Nat, NEW list, NEW kept \in SUBSET (1..n)
  PROVE  LET some == AtIndices(list, kept)
             order == InOrder(kept, Ascending)
         IN /\ DOMAIN some = 1..Cardinality(kept) /\ Len(some) = Cardinality(kept)
            /\ some = [i \in 1..Cardinality(kept) |-> list[order[i]]]
            /\ order \in [1..Cardinality(kept) -> kept]
            /\ \A i \in kept : \E k \in DOMAIN some : order[k] = i
            /\ \A j, k \in DOMAIN some : j < k <=> order[j] < order[k]
            /\ \A j, k \in DOMAIN some : order[j] = order[k] => j = k
<1> DEFINE order == InOrder(kept, Ascending)
           N == Cardinality(kept)
<1>1. IsFiniteSet(kept) /\ N \in Nat
  BY IndicesFinite
<1>2. StrictOrder(kept, Ascending)
  <2>1. kept \in SUBSET Int
    OBVIOUS
  <2> QED BY <2>1, AscendingStrict
<1>3. /\ DOMAIN order = 1..N
      /\ order \in [1..N -> kept]
      /\ \A x \in kept : \E k \in DOMAIN order : order[k] = x
      /\ \A j, k \in DOMAIN order : order[j] = order[k] => j = k
      /\ \A j, k \in DOMAIN order : j < k <=> <<order[j], order[k]>> \in Ascending
  BY <1>1, <1>2, InOrderLists
<1>4. AtIndices(list, kept) = [i \in DOMAIN order |-> list[order[i]]]
  BY DEF AtIndices
<1> HIDE DEF order, N
<1>5. \A j, k \in DOMAIN order : j < k <=> order[j] < order[k]
  <2>1. \A j \in DOMAIN order : order[j] \in kept
    BY <1>3
  <2>2. \A i \in kept : i \in Int
    OBVIOUS
  <2> QED BY <1>3, <2>1, <2>2, AscendingPair
<1> DEFINE some == [i \in 1..N |-> list[order[i]]]
<1>6. DOMAIN some = 1..N /\ Len(some) = N
  BY <1>1
<1> HIDE DEF some
<1>7. AtIndices(list, kept) = some
  BY <1>3, <1>4 DEF some
<1>8. /\ \A i \in kept : \E k \in DOMAIN some : order[k] = i
      /\ \A j, k \in DOMAIN some : j < k <=> order[j] < order[k]
      /\ \A j, k \in DOMAIN some : order[j] = order[k] => j = k
  BY <1>3, <1>5, <1>6
<1> QED BY <1>3, <1>6, <1>7, <1>8 DEF order, N, some

(* What passes a test: the elements, and the first of them.                *)
LEMMA AtIndicesElements ==
  ASSUME NEW n \in Nat, NEW S, NEW list \in [1..n -> S], NEW kept \in SUBSET (1..n)
  PROVE  LET some == AtIndices(list, kept)
         IN /\ some \in Seq(S) /\ Len(some) = Cardinality(kept) /\ DOMAIN some = 1..Len(some)
            /\ Range(some) = {list[i] : i \in kept}
            /\ some = <<>> <=> kept = {}
            /\ \A i \in kept : (\A j \in kept : i <= j) => some[1] = list[i]
<1> DEFINE order == InOrder(kept, Ascending)
           N == Cardinality(kept)
           some == AtIndices(list, kept)
<1>0. N \in Nat /\ IsFiniteSet(kept)
  BY IndicesFinite
<1>1. /\ DOMAIN some = 1..N /\ Len(some) = N
      /\ some = [i \in 1..N |-> list[order[i]]]
      /\ order \in [1..N -> kept]
      /\ \A i \in kept : \E k \in 1..N : order[k] = i
      /\ \A j, k \in 1..N : j < k <=> order[j] < order[k]
      /\ \A j, k \in 1..N : order[j] = order[k] => j = k
  <2>1. /\ DOMAIN some = 1..N /\ Len(some) = N
        /\ some = [i \in 1..N |-> list[order[i]]]
        /\ order \in [1..N -> kept]
        /\ \A i \in kept : \E k \in DOMAIN some : order[k] = i
        /\ \A j, k \in DOMAIN some : j < k <=> order[j] < order[k]
        /\ \A j, k \in DOMAIN some : order[j] = order[k] => j = k
    BY AtIndicesKeeps
  <2> HIDE DEF order, N, some
  <2> QED BY <2>1
<1>a. kept = {} <=> N = 0
  BY <1>0, FS_EmptySet
<1> HIDE DEF order, N, some
<1>2. some \in Seq(S)
  <2>1. \A i \in 1..N : order[i] \in 1..n
    BY <1>1
  <2>2. \A i \in 1..N : list[order[i]] \in S
    BY <2>1
  <2> DEFINE s == [i \in 1..N |-> list[order[i]]]
  <2>3. s \in [1..N -> S]
    BY <2>2
  <2> HIDE DEF s
  <2>4. s \in Seq(S)
    BY <1>0, <2>3
  <2> QED BY <1>1, <2>4 DEF s
<1>3. \A y \in Range(some) : \E i \in kept : y = list[i]
  BY <1>1 DEF Range
<1>4. \A i \in kept : list[i] \in Range(some)
  BY <1>1 DEF Range
<1>5. some = <<>> <=> kept = {}
  <2>1. some = <<>> <=> Len(some) = 0
    BY <1>2
  <2> QED BY <1>1, <1>a, <2>1
<1>6. \A i \in kept : (\A j \in kept : i <= j) => some[1] = list[i]
  <2> SUFFICES ASSUME NEW i \in kept, \A j \in kept : i <= j PROVE some[1] = list[i]
    OBVIOUS
  <2>1. PICK k \in 1..N : order[k] = i
    BY <1>1
  <2>2. 1 \in 1..N /\ order[1] \in kept
    BY <1>0, <1>1, <2>1
  <2>3. ~(1 < k)
    <3>1. i <= order[1]
      BY <2>2
    <3>2. i \in Int /\ order[1] \in Int
      <4>1. \A j \in kept : j \in Int
        OBVIOUS
      <4> QED BY <2>2, <4>1
    <3>3. ~(order[1] < i)
      BY <3>1, <3>2
    <3> QED BY <1>1, <2>1, <2>2, <3>3
  <2>4. k = 1
    BY <1>0, <2>1, <2>3
  <2> QED BY <1>1, <2>1, <2>2, <2>4
<1>7. Range(some) = {list[i] : i \in kept}
  BY <1>3, <1>4
<1> QED BY <1>1, <1>2, <1>5, <1>6, <1>7 DEF some, N

(* The numbers up to n in ascending order are the numbers up to n.         *)
LEMMA IntervalInOrder ==
  ASSUME NEW n \in Nat
  PROVE  InOrder(1..n, Ascending) = [k \in 1..n |-> k]
<1>1. Cardinality(1..n) = n
  <2>1. 1 \in Int /\ n \in Int
    OBVIOUS
  <2>2. Cardinality(1..n) = IF 1 > n THEN 0 ELSE n - 1 + 1
    BY <2>1, FS_Interval
  <2> QED BY <2>2
<1>2. \A x \in 1..n : Place(x, 1..n, Ascending) = x - 1
  <2> SUFFICES ASSUME NEW x \in 1..n PROVE Place(x, 1..n, Ascending) = x - 1
    OBVIOUS
  <2>1. \A y \in 1..n : <<y, x>> \in Ascending <=> y < x
    BY DEF Ascending
  <2>2. {y \in 1..n : <<y, x>> \in Ascending} = 1..(x - 1)
    BY <2>1
  <2>3. Cardinality(1..(x - 1)) = x - 1
    <3>1. 1 \in Int /\ x - 1 \in Int
      OBVIOUS
    <3>2. Cardinality(1..(x - 1)) = IF 1 > x - 1 THEN 0 ELSE (x - 1) - 1 + 1
      BY <3>1, FS_Interval
    <3> QED BY <3>2
  <2> QED BY <2>2, <2>3 DEF Place
<1>3. \A k \in 1..n : (CHOOSE x \in 1..n : Place(x, 1..n, Ascending) = k - 1) = k
  <2> SUFFICES ASSUME NEW k \in 1..n
               PROVE  (CHOOSE x \in 1..n : Place(x, 1..n, Ascending) = k - 1) = k
    OBVIOUS
  <2> DEFINE x == CHOOSE x \in 1..n : Place(x, 1..n, Ascending) = k - 1
  <2>1. x \in 1..n /\ Place(x, 1..n, Ascending) = k - 1
    BY <1>2
  <2> HIDE DEF x
  <2>2. x - 1 = k - 1
    BY <1>2, <2>1
  <2>3. x = k
    BY <2>1, <2>2
  <2> QED BY <2>3 DEF x
<1> QED BY <1>1, <1>3 DEF InOrder

(* Where every element passes the test, the list is left.                  *)
LEMMA AllPlaces ==
  ASSUME NEW n \in Nat, NEW list, list = [i \in 1..n |-> list[i]]
  PROVE  AtIndices(list, 1..n) = list
<1>1. AtIndices(list, 1..n) = [i \in 1..n |-> list[i]]
  BY IntervalInOrder DEF AtIndices
<1> QED BY <1>1

(* The list in an order of its places: each place once, the largest key    *)
(* first, and the earlier place first where keys are equal.                *)
SortedBy(sorted, order, n, S, list, key) ==
  /\ sorted \in [1..n -> S] /\ sorted \in Seq(S) /\ Len(sorted) = n
  /\ sorted = [i \in 1..n |-> list[order[i]]]
  /\ order \in [1..n -> 1..n]
  /\ \A i \in 1..n : \E k \in 1..n : order[k] = i
  /\ \A j, k \in 1..n : order[j] = order[k] => j = k
  /\ \A j, k \in 1..n : j < k =>
       key[order[j]] > key[order[k]]
         \/ (key[order[j]] = key[order[k]] /\ order[j] < order[k])

(* Sorting by a key does that.                                             *)
LEMMA ByKeySorts ==
  ASSUME NEW n \in Nat, NEW S, NEW list \in [1..n -> S], NEW key \in [1..n -> Int]
  PROVE  SortedBy(ByKey(list, key), InOrder(1..n, Earlier(key)), n, S, list, key)
<1> DEFINE order == InOrder(1..n, Earlier(key))
<1>1. IsFiniteSet(1..n) /\ Cardinality(1..n) = n
  <2>1. 1 \in Int /\ n \in Int
    OBVIOUS
  <2>2. IsFiniteSet(1..n) /\ Cardinality(1..n) = IF 1 > n THEN 0 ELSE n - 1 + 1
    BY <2>1, FS_Interval
  <2> QED BY <2>2
<1>2. \A i, j \in 1..n : <<i, j>> \in Earlier(key) <=> key[i] > key[j] \/ (key[i] = key[j] /\ i < j)
  <2>1. DOMAIN key = 1..n
    OBVIOUS
  <2> QED BY <2>1 DEF Earlier
<1>3. StrictOrder(1..n, Earlier(key))
  <2>1. \A i \in 1..n : key[i] \in Int /\ i \in Int
    OBVIOUS
  <2> QED BY SMTT(30), <1>2, <2>1 DEF StrictOrder
<1>4. /\ DOMAIN order = 1..n
      /\ order \in [1..n -> 1..n]
      /\ \A i \in 1..n : \E k \in DOMAIN order : order[k] = i
      /\ \A j, k \in DOMAIN order : order[j] = order[k] => j = k
      /\ \A j, k \in DOMAIN order : j < k <=> <<order[j], order[k]>> \in Earlier(key)
  BY <1>1, <1>3, InOrderLists
<1>5. ByKey(list, key) = [i \in DOMAIN order |-> list[order[i]]]
  BY DEF ByKey
<1> HIDE DEF order
<1> DEFINE sorted == [i \in 1..n |-> list[order[i]]]
<1>6. sorted \in [1..n -> S]
  BY <1>4
<1>7. ByKey(list, key) = sorted
  BY <1>4, <1>5
<1> HIDE DEF sorted
<1>8. sorted \in Seq(S) /\ Len(sorted) = n
  BY <1>6
<1>9. \A j, k \in 1..n : j < k =>
        key[order[j]] > key[order[k]] \/ (key[order[j]] = key[order[k]] /\ order[j] < order[k])
  BY <1>2, <1>4
<1>10. SortedBy(sorted, order, n, S, list, key)
  BY <1>4, <1>6, <1>8, <1>9 DEF SortedBy, sorted
<1> QED BY <1>7, <1>10 DEF order

(* The first elements of a list.                                           *)
LEMMA FirstOfList ==
  ASSUME NEW S, NEW list \in Seq(S), NEW n \in Nat
  PROVE  LET first == FirstOf(list, n)
         IN /\ first \in Seq(S)
            /\ Len(first) = IF Len(list) < n THEN Len(list) ELSE n
            /\ DOMAIN first = 1..Len(first)
            /\ Len(first) <= n /\ Len(first) <= Len(list)
            /\ \A i \in 1..Len(first) : first[i] = list[i]
BY DEF FirstOf

(* The best of a list: the first places of an order in which every element *)
(* has one place and no key is below a later one.                          *)
BestOf(first, n, S, list, key, limit) ==
  /\ first \in Seq(S) /\ DOMAIN first = 1..Len(first)
  /\ Len(first) = IF n < limit THEN n ELSE limit
  /\ \E order \in [1..n -> 1..n] :
       /\ \A i \in 1..n : \E k \in 1..n : order[k] = i
       /\ \A j, k \in 1..n : order[j] = order[k] => j = k
       /\ \A k \in 1..Len(first) : k \in 1..n /\ first[k] = list[order[k]]
       /\ \A j, k \in 1..n : j < k => key[order[j]] >= key[order[k]]

(* Sorting by a key and cutting gives the best.                            *)
LEMMA FirstByKey ==
  ASSUME NEW n \in Nat, NEW S, NEW list \in [1..n -> S], NEW key \in [1..n -> Int],
         NEW limit \in Nat
  PROVE  BestOf(FirstOf(ByKey(list, key), limit), n, S, list, key, limit)
<1> DEFINE sorted == ByKey(list, key)
           order == InOrder(1..n, Earlier(key))
           first == FirstOf(sorted, limit)
<1>0. SortedBy(sorted, order, n, S, list, key)
  BY ByKeySorts
<1> HIDE DEF sorted, order
<1>1. /\ sorted \in [1..n -> S] /\ sorted \in Seq(S) /\ Len(sorted) = n
      /\ sorted = [i \in 1..n |-> list[order[i]]]
      /\ order \in [1..n -> 1..n]
      /\ \A i \in 1..n : \E k \in 1..n : order[k] = i
      /\ \A j, k \in 1..n : order[j] = order[k] => j = k
      /\ \A j, k \in 1..n : j < k =>
           key[order[j]] > key[order[k]]
             \/ (key[order[j]] = key[order[k]] /\ order[j] < order[k])
  BY <1>0 DEF SortedBy
<1>2. /\ first \in Seq(S) /\ DOMAIN first = 1..Len(first)
      /\ Len(first) = IF n < limit THEN n ELSE limit
      /\ Len(first) \in Nat /\ Len(first) <= n
      /\ \A i \in 1..Len(first) : first[i] = sorted[i]
  <2>1. LET begin == FirstOf(sorted, limit)
        IN /\ begin \in Seq(S)
           /\ Len(begin) = IF Len(sorted) < limit THEN Len(sorted) ELSE limit
           /\ DOMAIN begin = 1..Len(begin)
           /\ Len(begin) <= limit /\ Len(begin) <= Len(sorted)
           /\ \A i \in 1..Len(begin) : begin[i] = sorted[i]
    <3>1. sorted \in Seq(S)
      BY <1>1
    <3> QED BY <3>1, FirstOfList
  <2> QED BY <1>1, <2>1
<1> HIDE DEF first
<1>3. \A k \in 1..Len(first) : k \in 1..n /\ first[k] = list[order[k]]
  <2> SUFFICES ASSUME NEW k \in 1..Len(first) PROVE k \in 1..n /\ first[k] = list[order[k]]
    OBVIOUS
  <2>1. k \in 1..n
    BY <1>2
  <2>2. sorted[k] = list[order[k]]
    BY SMTT(20), <1>1, <2>1
  <2> QED BY <1>2, <2>1, <2>2
<1>4. \A j, k \in 1..n : j < k => key[order[j]] >= key[order[k]]
  <2> SUFFICES ASSUME NEW j \in 1..n, NEW k \in 1..n, j < k PROVE key[order[j]] >= key[order[k]]
    OBVIOUS
  <2>1. key[order[j]] \in Int /\ key[order[k]] \in Int
    BY <1>1
  <2>2. \/ key[order[j]] > key[order[k]]
        \/ key[order[j]] = key[order[k]] /\ order[j] < order[k]
    BY <1>1
  <2> QED BY <2>1, <2>2
<1>5. BestOf(first, n, S, list, key, limit)
  BY <1>1, <1>2, <1>3, <1>4 DEF BestOf
<1> QED BY <1>5 DEF first, sorted

(* A set listed without repetition has as many elements as the list.       *)
LEMMA ListedOnce ==
  ASSUME NEW n \in Nat, NEW T, NEW f \in [1..n -> T],
         \A x \in T : \E i \in 1..n : f[i] = x,
         \A i, j \in 1..n : f[i] = f[j] => i = j
  PROVE  IsFiniteSet(T) /\ Cardinality(T) = n
<1>1. IsFiniteSet(1..n) /\ Cardinality(1..n) = n
  BY FS_Interval
<1>2. f \in Bijection(1..n, T)
  BY DEF Bijection, Injection, Surjection, IsInjective
<1>3. ExistsBijection(1..n, T)
  BY <1>2 DEF ExistsBijection
<1> QED BY <1>1, <1>3, FS_Bijection

(* A bound on the lengths of finitely many lists.                          *)
LEMMA LengthsBounded ==
  ASSUME NEW n \in Nat, NEW lists, \A i \in 1..n : Len(lists[i]) \in Nat
  PROVE  \E m \in Nat : \A i \in 1..n : Len(lists[i]) <= m
<1> DEFINE Bounded(k) == \E m \in Nat : \A i \in 1..k : Len(lists[i]) <= m
           Open == {k \in 0..n : ~Bounded(k)}
<1>1. SUFFICES ASSUME Open # {} PROVE FALSE
  <2>1. n \in 0..n
    OBVIOUS
  <2> QED BY <2>1
<1>2. Open \in SUBSET Nat
  OBVIOUS
<1>3. PICK k \in Open : \A j \in Open : ~(j < k)
  <2>1. PICK k \in Open : \A j \in Open : <<j, k>> \notin OpToRel(<, Nat)
    BY <1>1, <1>2, NatLessThanWellFounded, WFMin
  <2> QED BY <1>2, <2>1 DEF OpToRel
<1>4. k \in 0..n /\ ~Bounded(k)
  OBVIOUS
<1>5. k # 0
  <2>1. 0 \in Nat /\ \A i \in 1..0 : Len(lists[i]) <= 0
    OBVIOUS
  <2>2. Bounded(0)
    BY <2>1
  <2> QED BY <1>4, <2>2
<1>6. k - 1 \in 0..n /\ k - 1 < k
  BY <1>4, <1>5
<1>7. Bounded(k - 1)
  BY <1>3, <1>6
<1>8. PICK m \in Nat : \A i \in 1..(k - 1) : Len(lists[i]) <= m
  BY <1>7
<1>9. Len(lists[k]) \in Nat
  BY <1>4, <1>5
<1>10. \A i \in 1..k : Len(lists[i]) <= m + Len(lists[k])
  <2> TAKE i \in 1..k
  <2>1. Len(lists[i]) \in Nat
    BY <1>4
  <2>2. i = k \/ i \in 1..(k - 1)
    BY <1>4
  <2>3. CASE i = k
    BY <1>9, <2>3
  <2>4. CASE i \in 1..(k - 1)
    <3>1. Len(lists[i]) <= m
      BY <1>8, <2>4
    <3>2. \A a, b, c \in Nat : a <= b => a <= b + c
      OBVIOUS
    <3> QED BY <1>9, <2>1, <3>1, <3>2
  <2> QED BY <2>2, <2>3, <2>4
<1>11. m + Len(lists[k]) \in Nat
  BY <1>9
<1> QED BY <1>4, <1>10, <1>11

(* Lexicographic compares first elements, then second ones.                *)
LEMMA LexicographicPair ==
  \A a, b, c, d \in Int : <<<<a, b>>, <<c, d>>>> \in Lexicographic <=> a < c \/ (a = c /\ b < d)
BY DEF Lexicographic

(* The lists of a list, one after another: every element of every list.    *)
LEMMA FlattenedElements ==
  ASSUME NEW n \in Nat, NEW S, NEW lists \in [1..n -> Seq(S)]
  PROVE  LET all == Flattened(lists)
             places == UNION {{i} \X (DOMAIN lists[i]) : i \in 1..n}
             order == InOrder(places, Lexicographic)
         IN /\ all \in Seq(S)
            /\ IsFiniteSet(places)
            /\ DOMAIN all = 1..Cardinality(places) /\ Len(all) = Cardinality(places)
            /\ \A k \in DOMAIN all : /\ order[k][1] \in 1..n
                                     /\ order[k][2] \in DOMAIN lists[order[k][1]]
                                     /\ all[k] = lists[order[k][1]][order[k][2]]
            /\ \A i \in 1..n : \A j \in DOMAIN lists[i] :
                 \E k \in DOMAIN all : order[k] = <<i, j>> /\ all[k] = lists[i][j]
            /\ \A j, k \in DOMAIN all : order[j] = order[k] => j = k
<1> DEFINE places == UNION {{i} \X (DOMAIN lists[i]) : i \in 1..n}
           order == InOrder(places, Lexicographic)
           N == Cardinality(places)
<1>1. \A i \in 1..n : lists[i] \in Seq(S) /\ Len(lists[i]) \in Nat /\ DOMAIN lists[i] = 1..Len(lists[i])
  OBVIOUS
<1>2. PICK m \in Nat : \A i \in 1..n : Len(lists[i]) <= m
  BY <1>1, LengthsBounded
<1>3. IsFiniteSet(places)
  <2>1. IsFiniteSet(1..n) /\ IsFiniteSet(1..m)
    <3>1. 1 \in Int /\ n \in Int /\ m \in Int
      OBVIOUS
    <3> QED BY <3>1, FS_Interval
  <2>2. IsFiniteSet((1..n) \X (1..m))
    BY <2>1, FS_Product
  <2>3. \A i \in 1..n : DOMAIN lists[i] \subseteq 1..m
    BY <1>1, <1>2
  <2>4. places \in SUBSET ((1..n) \X (1..m))
    BY <2>3
  <2> QED BY <2>2, <2>4, FS_Subset
<1>4. \A p \in places : p = <<p[1], p[2]>> /\ p[1] \in 1..n /\ p[2] \in DOMAIN lists[p[1]]
                        /\ p[1] \in Int /\ p[2] \in Int
  <2> TAKE p \in places
  <2>1. PICK i \in 1..n : p \in {i} \X (DOMAIN lists[i])
    OBVIOUS
  <2>2. p = <<p[1], p[2]>> /\ p[1] = i /\ p[2] \in DOMAIN lists[i]
    BY <2>1
  <2> QED BY <1>1, <2>2
<1>5. \A i \in 1..n : \A j \in DOMAIN lists[i] : <<i, j>> \in places
  OBVIOUS
<1> HIDE DEF places
<1>6. \A p, q \in places : <<p, q>> \in Lexicographic <=> p[1] < q[1] \/ (p[1] = q[1] /\ p[2] < q[2])
  <2> TAKE p \in places, q \in places
  <2>1. /\ p[1] \in Int /\ p[2] \in Int /\ q[1] \in Int /\ q[2] \in Int
        /\ p = <<p[1], p[2]>> /\ q = <<q[1], q[2]>>
    BY <1>4
  <2>2. <<<<p[1], p[2]>>, <<q[1], q[2]>>>> \in Lexicographic <=>
          p[1] < q[1] \/ (p[1] = q[1] /\ p[2] < q[2])
    BY <2>1, LexicographicPair
  <2> QED BY <2>1, <2>2
<1>7. StrictOrder(places, Lexicographic)
  <2>1. \A p \in places : <<p, p>> \notin Lexicographic
    BY <1>4, <1>6
  <2>2. \A p, q, r \in places : <<p, q>> \in Lexicographic /\ <<q, r>> \in Lexicographic
                                  => <<p, r>> \in Lexicographic
    <3> SUFFICES ASSUME NEW p \in places, NEW q \in places, NEW r \in places,
                        <<p, q>> \in Lexicographic, <<q, r>> \in Lexicographic
                 PROVE  <<p, r>> \in Lexicographic
      OBVIOUS
    <3>1. /\ p[1] \in Int /\ p[2] \in Int /\ q[1] \in Int /\ q[2] \in Int
          /\ r[1] \in Int /\ r[2] \in Int
      BY <1>4
    <3>2. p[1] < q[1] \/ (p[1] = q[1] /\ p[2] < q[2])
      BY <1>6
    <3>3. q[1] < r[1] \/ (q[1] = r[1] /\ q[2] < r[2])
      BY <1>6
    <3>4. p[1] < r[1] \/ (p[1] = r[1] /\ p[2] < r[2])
      BY <3>1, <3>2, <3>3
    <3> QED BY <1>6, <3>4
  <2>3. \A p, q \in places : p # q => <<p, q>> \in Lexicographic \/ <<q, p>> \in Lexicographic
    <3> SUFFICES ASSUME NEW p \in places, NEW q \in places, p # q
                 PROVE  <<p, q>> \in Lexicographic \/ <<q, p>> \in Lexicographic
      OBVIOUS
    <3>1. p[1] # q[1] \/ p[2] # q[2]
      BY <1>4
    <3>2. p[1] \in Int /\ p[2] \in Int /\ q[1] \in Int /\ q[2] \in Int
      BY <1>4
    <3> QED BY <1>6, <3>1, <3>2
  <2> QED BY <2>1, <2>2, <2>3 DEF StrictOrder
<1>8. /\ N \in Nat /\ DOMAIN order = 1..N
      /\ order \in [1..N -> places]
      /\ \A p \in places : \E k \in DOMAIN order : order[k] = p
      /\ \A j, k \in DOMAIN order : order[j] = order[k] => j = k
  BY <1>3, <1>7, InOrderLists
<1>9. Flattened(lists) = [k \in DOMAIN order |-> lists[order[k][1]][order[k][2]]]
  BY DEF Flattened, places
<1> HIDE DEF order, N
<1> DEFINE all == [k \in 1..N |-> lists[order[k][1]][order[k][2]]]
<1>10. \A k \in 1..N : order[k][1] \in 1..n /\ order[k][2] \in DOMAIN lists[order[k][1]]
  BY <1>4, <1>8
<1>11. all \in [1..N -> S]
  <2>1. \A k \in 1..N : lists[order[k][1]][order[k][2]] \in S
    <3> TAKE k \in 1..N
    <3>1. lists[order[k][1]] \in Seq(S)
      BY <1>1, <1>10
    <3> QED BY <1>1, <1>10, <3>1
  <2> QED BY <2>1
<1>12. all \in Seq(S) /\ Len(all) = N /\ DOMAIN all = 1..N
  BY <1>8, <1>11
<1>13. \A k \in 1..N : all[k] = lists[order[k][1]][order[k][2]]
  OBVIOUS
<1>14. Flattened(lists) = all
  BY <1>8, <1>9
<1> HIDE DEF all
<1>15. \A i \in 1..n : \A j \in DOMAIN lists[i] :
         \E k \in 1..N : order[k] = <<i, j>> /\ all[k] = lists[i][j]
  <2> SUFFICES ASSUME NEW i \in 1..n, NEW j \in DOMAIN lists[i]
               PROVE  \E k \in 1..N : order[k] = <<i, j>> /\ all[k] = lists[i][j]
    OBVIOUS
  <2>1. PICK k \in 1..N : order[k] = <<i, j>>
    BY <1>5, <1>8
  <2>2. all[k] = lists[i][j]
    BY <1>13, <2>1
  <2> QED BY <2>1, <2>2
<1>16. LET flat == Flattened(lists)
       IN /\ flat \in Seq(S)
          /\ DOMAIN flat = 1..N /\ Len(flat) = N
          /\ \A k \in DOMAIN flat : /\ order[k][1] \in 1..n
                                   /\ order[k][2] \in DOMAIN lists[order[k][1]]
                                   /\ flat[k] = lists[order[k][1]][order[k][2]]
          /\ \A i \in 1..n : \A j \in DOMAIN lists[i] :
               \E k \in DOMAIN flat : order[k] = <<i, j>> /\ flat[k] = lists[i][j]
          /\ \A j, k \in DOMAIN flat : order[j] = order[k] => j = k
  BY ZenonT(40), <1>8, <1>10, <1>12, <1>13, <1>14, <1>15
<1> QED BY <1>3, <1>16 DEF order, places, N

-----------------------------------------------------------------------------
(* Lists whose elements are of no particular set.                          *)

(* A sequence is a list in the sense of IsList.                            *)
LEMMA SequenceIsList == ASSUME NEW S, NEW s \in Seq(S) PROVE IsList(s)
<1>1. Len(s) \in Nat /\ DOMAIN s = 1..Len(s) /\ s = [i \in DOMAIN s |-> s[i]]
  OBVIOUS
<1> QED BY <1>1 DEF IsList

(* So is the empty tuple.                                                  *)
LEMMA EmptyList == IsList(<<>>)
BY DEF IsList

(* So is a tuple of one element.                                           *)
LEMMA OneElementList == \A x : IsList(<<x>>)
BY DEF IsList

(* Appending to a list gives one that is longer by one.                    *)
LEMMA AppendList ==
  ASSUME NEW s, IsList(s), NEW x
  PROVE  /\ IsList(Append(s, x))
         /\ Len(Append(s, x)) = Len(s) + 1
         /\ Append(s, x)[Len(Append(s, x))] = x /\ Append(s, x)[Len(s) + 1] = x
         /\ \A i \in 1..Len(s) : Append(s, x)[i] = s[i]
<1> DEFINE S == {s[i] : i \in 1..Len(s)} \cup {x}
<1>1. s \in Seq(S) /\ x \in S
  BY DEF IsList
<1> HIDE DEF S
<1>2. /\ Append(s, x) \in Seq(S) /\ Len(Append(s, x)) = Len(s) + 1
      /\ Append(s, x)[Len(s) + 1] = x
  BY <1>1
<1>3. \A i \in 1..Len(s) : Append(s, x)[i] = s[i]
  BY <1>1
<1> QED BY <1>2, <1>3, SequenceIsList

(* Two lists joined are a list.                                            *)
LEMMA ConcatList ==
  ASSUME NEW s, IsList(s), NEW t, IsList(t)
  PROVE  IsList(s \o t) /\ Range(s \o t) = Range(s) \cup Range(t)
<1> DEFINE S == {s[i] : i \in 1..Len(s)} \cup {t[i] : i \in 1..Len(t)}
           m == Len(s)
           n == Len(t)
<1>1. s \in Seq(S) /\ t \in Seq(S) /\ m \in Nat /\ n \in Nat
  BY DEF IsList
<1> HIDE DEF S
<1>2. s \o t \in Seq(S) /\ Len(s \o t) = m + n
  BY <1>1
<1>3. /\ \A i \in 1..m : (s \o t)[i] = s[i]
      /\ \A i \in 1..n : (s \o t)[m + i] = t[i]
  BY <1>1
<1>4. DOMAIN s = 1..m /\ DOMAIN t = 1..n /\ DOMAIN (s \o t) = 1..(m + n)
  BY <1>1, <1>2
<1> HIDE DEF m, n
<1>5. /\ \A i \in 1..m : i \in 1..(m + n)
      /\ \A i \in 1..n : m + i \in 1..(m + n)
      /\ \A i \in 1..(m + n) : i \in 1..m \/ (i - m \in 1..n /\ i = m + (i - m))
  BY <1>1
<1> DEFINE u == s \o t
<1>6. Range(u) = Range(s) \cup Range(t)
  <2>1. /\ DOMAIN u = 1..(m + n)
        /\ \A i \in 1..m : u[i] = s[i]
        /\ \A i \in 1..n : u[m + i] = t[i]
    BY <1>3, <1>4
  <2> HIDE DEF u
  <2>2. \A i \in 1..(m + n) : u[i] \in Range(s) \cup Range(t)
    BY <1>4, <1>5, <2>1 DEF Range
  <2>3. \A i \in 1..m : s[i] \in Range(u)
    BY <1>5, <2>1 DEF Range
  <2>4. \A i \in 1..n : t[i] \in Range(u)
    BY <1>5, <2>1 DEF Range
  <2> QED BY <1>4, <2>1, <2>2, <2>3, <2>4 DEF Range
<1> QED BY <1>2, <1>6, SequenceIsList

(* Joining one more element to a list.                                     *)
LEMMA JoinOne ==
  ASSUME NEW s, IsList(s), NEW x
  PROVE  /\ IsList(s \o <<x>>) /\ Len(s \o <<x>>) = Len(s) + 1
         /\ \A i \in 1..Len(s) : (s \o <<x>>)[i] = s[i]
         /\ (s \o <<x>>)[Len(s) + 1] = x
<1> DEFINE S == {s[i] : i \in 1..Len(s)} \cup {x}
<1>1. s \in Seq(S) /\ <<x>> \in Seq(S) /\ Len(<<x>>) = 1 /\ <<x>>[1] = x
  BY DEF IsList
<1>2. Len(s) \in Nat
  BY DEF IsList
<1> HIDE DEF S
<1>3. s \o <<x>> \in Seq(S) /\ Len(s \o <<x>>) = Len(s) + 1
  BY <1>1
<1>4. \A i \in 1..Len(s) : (s \o <<x>>)[i] = s[i]
  BY <1>1, <1>2
<1>5. (s \o <<x>>)[Len(s) + 1] = x
  BY <1>1, <1>2
<1> QED BY <1>3, <1>4, <1>5, SequenceIsList

(* The values of a function over a finite set are finitely many.           *)
LEMMA ImageFinite ==
  ASSUME NEW S, IsFiniteSet(S), NEW f, DOMAIN f = S, f = [x \in S |-> f[x]]
  PROVE  IsFiniteSet({f[x] : x \in S})
<1> DEFINE T == {f[x] : x \in S}
<1>1. f \in [S -> T] /\ \A y \in T : \E x \in S : f[x] = y
  OBVIOUS
<1> HIDE DEF T
<1>2. f \in Surjection(S, T)
  BY <1>1 DEF Surjection
<1>3. IsFiniteSet(T)
  BY <1>2, FS_Surjection
<1> QED BY <1>3 DEF T

(* The elements of a list that are kept are a list.                        *)
LEMMA KeptElements ==
  ASSUME NEW list, IsList(list), NEW kept \in SUBSET (1..Len(list))
  PROVE  LET some == AtIndices(list, kept)
         IN /\ IsList(some)
            /\ Range(some) = {list[i] : i \in kept}
            /\ some = <<>> <=> kept = {}
<1> DEFINE n == Len(list)
           S == {list[i] : i \in 1..n}
           some == AtIndices(list, kept)
<1>1. n \in Nat /\ list \in [1..n -> S] /\ kept \in SUBSET (1..n)
  BY DEF IsList
<1> HIDE DEF n, S
<1>2. /\ some \in Seq(S)
      /\ Range(some) = {list[i] : i \in kept}
      /\ some = <<>> <=> kept = {}
  BY SMTT(20), <1>1, AtIndicesElements
<1> HIDE DEF some
<1>3. IsList(some)
  BY <1>2, SequenceIsList
<1> QED BY <1>2, <1>3 DEF some

(* The elements of a list are those at its indices.                        *)
LEMMA ListRange ==
  ASSUME NEW list, IsList(list)
  PROVE  /\ DOMAIN list = 1..Len(list)
         /\ Range(list) = {list[i] : i \in 1..Len(list)}
         /\ list # <<>> => Len(list) >= 1
<1>1. DOMAIN list = 1..Len(list)
  BY DEF IsList
<1>2. Len(list) = 0 => list = <<>>
  BY DEF IsList
<1> QED BY <1>1, <1>2 DEF IsList, Range

(* The elements of a list are finitely many.                               *)
LEMMA RangeFinite == ASSUME NEW list, IsList(list) PROVE IsFiniteSet(Range(list))
<1>1. IsFiniteSet(1..Len(list))
  BY IndicesFinite DEF IsList
<1>2. DOMAIN list = 1..Len(list) /\ Range(list) = {list[i] : i \in 1..Len(list)}
  BY ListRange
<1>3. list = [i \in 1..Len(list) |-> list[i]]
  BY DEF IsList
<1> QED BY <1>1, <1>2, <1>3, ImageFinite

-----------------------------------------------------------------------------
(* Sums.  That the recursive function of Total exists is shown by          *)
(* extending it step by step, up to the first number it would not reach.   *)

SumsTo(f, numbers, k) ==
  /\ f \in [0..k -> Int]
  /\ f[0] = 0
  /\ \A i \in 1..k : f[i] = f[i - 1] + numbers[i]

(* The recursion of Total has a solution for every list: there is no least *)
(* length at which it fails.                                               *)
LEMMA SumsExist ==
  ASSUME NEW numbers \in Seq(Int), NEW n \in Nat, n = Len(numbers)
  PROVE  \E f : SumsTo(f, numbers, n)
<1> DEFINE Reached(k) == \E f : SumsTo(f, numbers, k)
           Open == {k \in 0..n : ~Reached(k)}
<1>1. SUFFICES ASSUME Open # {} PROVE FALSE
  <2>1. n \in 0..n
    OBVIOUS
  <2> QED BY <2>1
<1>2. Open \in SUBSET Nat
  OBVIOUS
<1>3. PICK k \in Open : \A j \in Open : ~(j < k)
  <2>1. PICK k \in Open : \A j \in Open : <<j, k>> \notin OpToRel(<, Nat)
    BY <1>1, <1>2, NatLessThanWellFounded, WFMin
  <2> QED BY <1>2, <2>1 DEF OpToRel
<1>4. k \in 0..n /\ ~Reached(k)
  OBVIOUS
<1>5. k # 0
  <2> DEFINE f == [i \in 0..0 |-> 0]
  <2>1. SumsTo(f, numbers, 0)
    BY DEF SumsTo
  <2>2. Reached(0)
    BY <2>1
  <2> QED BY <1>4, <2>2
<1>6. k - 1 \in 0..n /\ k - 1 < k
  BY <1>4, <1>5
<1>7. PICK f : SumsTo(f, numbers, k - 1)
  BY <1>3, <1>6
<1> DEFINE g == [i \in 0..k |-> IF i = k THEN f[k - 1] + numbers[k] ELSE f[i]]
<1>8. numbers[k] \in Int /\ \A i \in 0..(k - 1) : f[i] \in Int
  BY <1>4, <1>5, <1>7 DEF SumsTo
<1>9. g \in [0..k -> Int]
  BY <1>4, <1>5, <1>8
<1>10. g[0] = 0
  BY <1>4, <1>5, <1>7 DEF SumsTo
<1>11. \A i \in 1..k : g[i] = g[i - 1] + numbers[i]
  <2> TAKE i \in 1..k
  <2>1. CASE i = k
    BY <1>4, <2>1
  <2>2. CASE i # k
    <3>1. i \in 1..(k - 1) /\ i - 1 \in 0..k /\ i - 1 # k /\ i \in 0..k
      BY <1>4, <2>2
    <3>2. f[i] = f[i - 1] + numbers[i]
      BY <1>7, <3>1 DEF SumsTo
    <3>3. g[i] = f[i] /\ g[i - 1] = f[i - 1]
      BY <2>2, <3>1
    <3> QED BY <3>2, <3>3
  <2> QED BY <2>1, <2>2
<1> HIDE DEF g
<1>12. SumsTo(g, numbers, k)
  BY <1>9, <1>10, <1>11 DEF SumsTo
<1> QED BY <1>4, <1>12

(* Total is the last of the sums.                                          *)
LEMMA TotalSums ==
  ASSUME NEW numbers \in Seq(Int)
  PROVE  \E f : SumsTo(f, numbers, Len(numbers)) /\ Total(numbers) = f[Len(numbers)]
<1> DEFINE n == Len(numbers)
<1>1. n \in Nat
  OBVIOUS
<1> HIDE DEF n
<1> DEFINE Solves(h) == h = [i \in 0..n |-> IF i = 0 THEN 0 ELSE h[i - 1] + numbers[i]]
<1>2. PICK f : SumsTo(f, numbers, n)
  BY <1>1, SumsExist DEF n
<1>3. Solves(f)
  <2>1. f = [i \in 0..n |-> f[i]]
    BY <1>2 DEF SumsTo
  <2>2. \A i \in 0..n : f[i] = IF i = 0 THEN 0 ELSE f[i - 1] + numbers[i]
    BY <1>1, <1>2 DEF SumsTo
  <2> QED BY <2>1, <2>2
<1> DEFINE h == CHOOSE h : Solves(h)
<1>4. Solves(h)
  BY <1>3
<1>5. Total(numbers) = h[n]
  BY DEF Total, n
<1> HIDE DEF h
<1>6. h[0] = 0 /\ \A i \in 1..n : h[i] = h[i - 1] + numbers[i]
  BY <1>1, <1>4
<1>7. \A i \in 0..n : h[i] \in Int
  <2> DEFINE Wrong == {k \in 0..n : h[k] \notin Int}
  <2>1. SUFFICES ASSUME Wrong # {} PROVE FALSE
    OBVIOUS
  <2>2. Wrong \in SUBSET Nat
    OBVIOUS
  <2>3. PICK k \in Wrong : \A j \in Wrong : ~(j < k)
    <3>1. PICK k \in Wrong : \A j \in Wrong : <<j, k>> \notin OpToRel(<, Nat)
      BY <2>1, <2>2, NatLessThanWellFounded, WFMin
    <3> QED BY <2>2, <3>1 DEF OpToRel
  <2>4. k \in 0..n /\ h[k] \notin Int
    OBVIOUS
  <2>5. k # 0
    BY <1>6, <2>4
  <2>6. k \in 1..n /\ k - 1 \in 0..n /\ k - 1 < k
    BY <1>1, <2>4, <2>5
  <2>7. h[k - 1] \in Int
    BY <2>3, <2>6
  <2>8. numbers[k] \in Int
    BY <2>6 DEF n
  <2> QED BY <1>6, <2>4, <2>6, <2>7, <2>8
<1>8. h \in [0..n -> Int]
  <2>1. h = [i \in 0..n |-> h[i]]
    <3>1. DOMAIN h = 0..n
      BY <1>4
    <3> QED BY <1>4, <3>1
  <2> QED BY <1>7, <2>1
<1>9. SumsTo(h, numbers, n)
  BY <1>6, <1>8 DEF SumsTo
<1> QED BY <1>5, <1>9 DEF n

(* The sum of integers is an integer.                                      *)
LEMMA TotalType ==
  ASSUME NEW numbers \in Seq(Int)
  PROVE  Total(numbers) \in Int
<1> DEFINE n == Len(numbers)
<1>1. n \in Nat /\ n \in 0..n
  OBVIOUS
<1>2. PICK f : SumsTo(f, numbers, n) /\ Total(numbers) = f[n]
  BY TotalSums
<1> QED BY <1>1, <1>2 DEF SumsTo

=============================================================================
