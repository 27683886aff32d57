------------------------- MODULE ParallelSort_proofs -------------------------
(* Proofs about ParallelSort, for any workers and any lists of integers.  The sequential   *)
(* sort is shown to sort every list: its recursive definition has a function that satisfies *)
(* it, and a shortest list that it fails to sort would have parts that it sorts.  A list   *)
(* can be put in order in one way only, so what the parallel sort returns is the same.     *)
(* Its invariant says how the frames stand on the stacks, that each task and each call is  *)
(* in one place, and, for lists a[c] that the calls c were given, that every frame holds    *)
(* its list, its part in order or its element, and that every live call is on a stack.     *)
EXTENDS ParallelSort, FiniteSetTheorems, SequenceTheorems, FunctionTheorems, WellFoundedInduction, TLAPS

(* The number of times that x stands in s. *)
Count(s, x) == Cardinality({i \in 1..Len(s) : s[i] = x})

SameElements(r, s) == \A x : Count(r, x) = Count(s, x)
Ascending(s) == \A i, j \in 1..Len(s) : i < j => s[i] <= s[j]

(* r is s in order. *)
SortedOf(r, s) == r \in Seq(Int) /\ Ascending(r) /\ SameElements(r, s)

(* x and the elements of l and h are those of s, with l below x and h not. *)
Split(s, x, l, h) ==
  /\ x \in Int /\ l \in Seq(Int) /\ h \in Seq(Int)
  /\ \A y : Count(s, y) = (IF y = x THEN 1 ELSE 0) + Count(l, y) + Count(h, y)
  /\ \A i \in 1..Len(l) : l[i] < x
  /\ \A i \in 1..Len(h) : h[i] >= x
-----------------------------------------------------------------------------
(* Counting: of a set of places, of an empty list and of one element. *)
LEMMA CountType ==
  ASSUME NEW s, Len(s) \in Nat, NEW x
  PROVE  /\ IsFiniteSet({i \in 1..Len(s) : s[i] = x})
         /\ Count(s, x) \in Nat
         /\ Count(s, x) # 0 <=> \E i \in 1..Len(s) : s[i] = x
<1>1. IsFiniteSet(1..Len(s))
  BY FS_Interval
<1>2. IsFiniteSet({i \in 1..Len(s) : s[i] = x})
  BY <1>1, FS_Subset
<1> DEFINE P == {i \in 1..Len(s) : s[i] = x}
<1>3. Cardinality(P) \in Nat /\ (Cardinality(P) = 0 <=> P = {})
  BY <1>2, FS_CardinalityType, FS_EmptySet
<1>4. P # {} <=> \E i \in 1..Len(s) : s[i] = x
  OBVIOUS
<1> QED
  BY <1>2, <1>3, <1>4 DEF Count

(* The elements of two lists with the same elements. *)
LEMMA SameElementsIn ==
  ASSUME NEW r \in Seq(Int), NEW s \in Seq(Int), SameElements(r, s), NEW i \in 1..Len(r)
  PROVE  \E j \in 1..Len(s) : s[j] = r[i]
<1>1. Count(r, r[i]) # 0 /\ Count(s, r[i]) = Count(r, r[i])
  BY CountType, LenProperties DEF SameElements
<1> QED
  BY <1>1, CountType, LenProperties

(* Two lists one after the other. *)
LEMMA CountConcat ==
  ASSUME NEW r \in Seq(Int), NEW s \in Seq(Int), NEW x
  PROVE  Count(r \o s, x) = Count(r, x) + Count(s, x)
<1> DEFINE A == {i \in 1..Len(r) : r[i] = x}
           B == {i \in 1..Len(s) : s[i] = x}
           B2 == {i \in Len(r) + 1..Len(r) + Len(s) : (r \o s)[i] = x}
           f == [i \in B |-> i + Len(r)]
<1>1. Len(r) \in Nat /\ Len(s) \in Nat /\ Len(r \o s) = Len(r) + Len(s)
  BY LenProperties, ConcatProperties
<1>2. \A i \in 1..Len(r) : (r \o s)[i] = r[i]
  BY ConcatProperties
<1>3. \A i \in 1..Len(s) : (r \o s)[i + Len(r)] = s[i]
  BY <1>1, ConcatProperties
<1>4. {i \in 1..Len(r \o s) : (r \o s)[i] = x} = A \cup B2
  <2>1. 1..Len(r \o s) = (1..Len(r)) \cup (Len(r) + 1..Len(r) + Len(s))
    BY <1>1
  <2> QED
    BY <1>2, <2>1
<1>5. A \cap B2 = {}
  BY <1>1
<1>6. IsFiniteSet(A) /\ IsFiniteSet(B)
  BY <1>1, CountType
<1>7. f \in Bijection(B, B2)
  <2>1. f \in [B -> B2]
    BY <1>1, <1>3
  <2>2. \A i, j \in B : f[i] = f[j] => i = j
    BY <1>1
  <2>3. \A k \in B2 : \E i \in B : f[i] = k
    <3> SUFFICES ASSUME NEW k \in B2 PROVE \E i \in B : f[i] = k
      OBVIOUS
    <3>1. k - Len(r) \in B
      BY <1>1, <1>3
    <3>2. f[k - Len(r)] = k
      BY <1>1, <3>1
    <3> QED
      BY <3>1, <3>2
  <2> QED
    BY <2>1, <2>2, <2>3, Fun_IsBij
<1>8. IsFiniteSet(B2) /\ Cardinality(B2) = Cardinality(B)
  BY <1>6, <1>7, FS_Bijection DEF ExistsBijection
<1>9. Cardinality(A \cup B2) = Cardinality(A) + Cardinality(B2) - Cardinality(A \cap B2)
  BY <1>6, <1>8, FS_Union
<1>10. Cardinality(A \cap B2) = 0
  BY <1>5, FS_EmptySet
<1>11. Cardinality(A) \in Nat /\ Cardinality(B) \in Nat
  BY <1>6, FS_CardinalityType
<1>12. Count(r \o s, x) = Cardinality(A \cup B2) /\ Count(r, x) = Cardinality(A) /\ Count(s, x) = Cardinality(B)
  BY <1>4 DEF Count
<1> HIDE DEF A, B, B2
<1> QED
  BY <1>8, <1>9, <1>10, <1>11, <1>12

(* One element. *)
LEMMA CountOne ==
  ASSUME NEW x, NEW y
  PROVE  Count(<<x>>, y) = IF y = x THEN 1 ELSE 0
<1>1. {i \in 1..Len(<<x>>) : <<x>>[i] = y} = IF y = x THEN {1} ELSE {}
  BY Len(<<x>>) = 1, <<x>>[1] = x
<1> QED
  BY <1>1, FS_EmptySet, FS_Singleton DEF Count

(* Two sorted lists with an element between them. *)
LEMMA Spliced ==
  ASSUME NEW s, NEW x, NEW l, NEW h, Split(s, x, l, h),
         NEW p, NEW q, SortedOf(p, l), SortedOf(q, h)
  PROVE  SortedOf(p \o <<x>> \o q, s)
<1>1. /\ x \in Int /\ l \in Seq(Int) /\ h \in Seq(Int) /\ p \in Seq(Int) /\ q \in Seq(Int)
      /\ <<x>> \in Seq(Int) /\ p \o <<x>> \in Seq(Int)
  BY DEF Split, SortedOf
<1>2. p \o <<x>> \o q \in Seq(Int)
  BY <1>1
<1>3. \A i \in 1..Len(p) : p[i] < x
  BY <1>1, SameElementsIn DEF Split, SortedOf
<1>4. \A i \in 1..Len(q) : q[i] >= x
  BY <1>1, SameElementsIn DEF Split, SortedOf
<1>5. SameElements(p \o <<x>> \o q, s)
  <2> SUFFICES ASSUME NEW y PROVE Count(p \o <<x>> \o q, y) = Count(s, y)
    BY DEF SameElements
  <2>1. Count(p \o <<x>> \o q, y) = Count(p \o <<x>>, y) + Count(q, y)
    BY <1>1, CountConcat
  <2>2. Count(p \o <<x>>, y) = Count(p, y) + (IF y = x THEN 1 ELSE 0)
    <3>1. \A t \in Seq(Int) : Count(p \o t, y) = Count(p, y) + Count(t, y)
      BY <1>1, CountConcat
    <3> QED
      BY <1>1, <3>1, CountOne
  <2>3. Count(p, y) = Count(l, y) /\ Count(q, y) = Count(h, y)
    BY DEF SortedOf, SameElements
  <2>4. Count(l, y) \in Nat /\ Count(h, y) \in Nat
    BY <1>1, CountType, LenProperties
  <2>5. Count(s, y) = (IF y = x THEN 1 ELSE 0) + Count(l, y) + Count(h, y)
    BY DEF Split
  <2> QED
    BY <2>1, <2>2, <2>3, <2>4, <2>5
<1>6. Ascending(p \o <<x>> \o q)
  <2> DEFINE r == p \o <<x>> \o q
  <2>1. Len(r) = Len(p) + 1 + Len(q) /\ Len(p) \in Nat /\ Len(q) \in Nat
    BY <1>1
  <2>2. \A i \in 1..Len(p) : r[i] = p[i]
    BY <1>1, <2>1
  <2>3. r[Len(p) + 1] = x
    BY <1>1, <2>1
  <2>4. \A i \in Len(p) + 2..Len(r) : i - Len(p) - 1 \in 1..Len(q) /\ r[i] = q[i - Len(p) - 1]
    BY <1>1, <2>1
  <2>5. Ascending(p) /\ Ascending(q)
    BY DEF SortedOf
  <2> HIDE DEF r
  <2>6. ASSUME NEW i \in 1..Len(r), NEW j \in 1..Len(r), i < j PROVE r[i] <= r[j]
    <3>1. CASE j <= Len(p)
      <4>1. i \in 1..Len(p) /\ j \in 1..Len(p)
        BY <2>1, <2>6, <3>1
      <4> QED
        BY <2>2, <2>5, <2>6, <4>1 DEF Ascending
    <3>2. CASE j = Len(p) + 1
      <4>1. i \in 1..Len(p)
        BY <2>1, <2>6, <3>2
      <4>2. r[i] = p[i] /\ p[i] < x /\ p[i] \in Int
        BY <1>1, <1>3, <2>2, <4>1, ElementOfSeq
      <4> QED
        BY <1>1, <2>3, <3>2, <4>2
    <3>3. CASE j > Len(p) + 1 /\ i <= Len(p)
      <4>1. r[i] = p[i] /\ p[i] < x /\ p[i] \in Int
        BY <1>1, <1>3, <2>1, <2>2, <3>3, ElementOfSeq
      <4>2. j - Len(p) - 1 \in 1..Len(q) /\ r[j] = q[j - Len(p) - 1]
        BY <2>1, <2>4, <3>3
      <4>3. r[j] >= x /\ r[j] \in Int
        BY <1>1, <1>4, <4>2, ElementOfSeq
      <4> QED
        BY <1>1, <4>1, <4>3
    <3>4. CASE j > Len(p) + 1 /\ i = Len(p) + 1
      <4>2. j - Len(p) - 1 \in 1..Len(q) /\ r[j] = q[j - Len(p) - 1]
        BY <2>1, <2>4, <3>4
      <4> QED
        BY <1>1, <1>4, <2>3, <3>4, <4>2, ElementOfSeq
    <3>5. CASE i > Len(p) + 1
      <4>1. /\ i - Len(p) - 1 \in 1..Len(q) /\ r[i] = q[i - Len(p) - 1]
            /\ j - Len(p) - 1 \in 1..Len(q) /\ r[j] = q[j - Len(p) - 1]
        BY <2>1, <2>4, <2>6, <3>5
      <4>2. i - Len(p) - 1 < j - Len(p) - 1
        BY <2>1, <2>6
      <4> QED
        BY <2>5, <4>1, <4>2 DEF Ascending
    <3> QED
      BY <2>1, <3>1, <3>2, <3>3, <3>4, <3>5, <2>6
  <2> QED
    BY <2>6 DEF Ascending, r
<1> QED
  BY <1>2, <1>5, <1>6 DEF SortedOf

(* What std::partition puts into a part: the elements at some places, in any order. *)
LEMMA OrdersHave ==
  ASSUME NEW s \in Seq(Int), NEW I \in SUBSET (1..Len(s)), NEW t \in Orders(s, I)
  PROVE  /\ t \in Seq(Int) /\ Len(t) = Cardinality(I)
         /\ \A i \in 1..Len(t) : \E j \in I : t[i] = s[j]
         /\ \A y : Count(t, y) = Cardinality({j \in I : s[j] = y})
<1> DEFINE k == Cardinality(I)
<1>1. IsFiniteSet(I) /\ k \in Nat
  <2>1. Len(s) \in Nat
    BY LenProperties
  <2>2. IsFiniteSet(1..Len(s))
    BY <2>1, FS_Interval
  <2>3. IsFiniteSet(I)
    BY <2>2, FS_Subset
  <2> QED
    BY <2>3, FS_CardinalityType
<1>2. PICK p \in Bijection(1..k, I) : t = [i \in 1..k |-> s[p[i]]]
  BY DEF Orders
<1>3. /\ p \in [1..k -> I]
      /\ \A i, j \in 1..k : p[i] = p[j] => i = j
      /\ \A j \in I : \E i \in 1..k : p[i] = j
  BY <1>2 DEF Bijection, Injection, Surjection, IsInjective
<1>4. \A j \in I : s[j] \in Int
  BY ElementOfSeq
<1>5. t \in [1..k -> Int]
  BY <1>2, <1>3, <1>4
<1>6. t \in Seq(Int) /\ Len(t) = k
  BY <1>1, <1>5, LenProperties
<1>7. \A i \in 1..Len(t) : \E j \in I : t[i] = s[j]
  BY <1>2, <1>3, <1>6
<1>8. ASSUME NEW y PROVE Count(t, y) = Cardinality({j \in I : s[j] = y})
  <2> DEFINE A == {i \in 1..Len(t) : t[i] = y}
             B == {j \in I : s[j] = y}
             f == [i \in A |-> p[i]]
  <2>1. f \in Bijection(A, B)
    <3>1. f \in [A -> B]
      BY <1>2, <1>3, <1>6
    <3>2. \A i, j \in A : f[i] = f[j] => i = j
      BY <1>3, <1>6
    <3>3. \A j \in B : \E i \in A : f[i] = j
      <4> SUFFICES ASSUME NEW j \in B PROVE \E i \in A : f[i] = j
        OBVIOUS
      <4>1. PICK i \in 1..k : p[i] = j
        BY <1>3
      <4>2. i \in A
        BY <1>2, <1>6, <4>1
      <4> QED
        BY <4>1, <4>2
    <3> QED
      BY <3>1, <3>2, <3>3, Fun_IsBij
  <2>2. IsFiniteSet(A)
    BY <1>1, <1>6, CountType
  <2> QED
    BY <2>1, <2>2, FS_Bijection DEF Count, ExistsBijection
<1> QED
  BY <1>6, <1>7, <1>8

(* It can always do so. *)
LEMMA OrdersExist ==
  ASSUME NEW s \in Seq(Int), NEW I \in SUBSET (1..Len(s))
  PROVE  Orders(s, I) # {}
<1>1. IsFiniteSet(I)
  <2>1. Len(s) \in Nat
    BY LenProperties
  <2>2. IsFiniteSet(1..Len(s))
    BY <2>1, FS_Interval
  <2> QED
    BY <2>2, FS_Subset
<1>2. PICK p : p \in Bijection(1..Cardinality(I), I)
  BY <1>1, FS_CardinalityType DEF ExistsBijection
<1> QED
  BY <1>2 DEF Orders

(* The first element and the two parts are the list. *)
LEMMA Partition ==
  ASSUME NEW s \in Seq(Int), s # << >>, NEW l \in Lower(s), NEW h \in Higher(s)
  PROVE  Split(s, s[1], l, h)
<1> DEFINE I == {i \in 2..Len(s) : s[i] < s[1]}
           J == {i \in 2..Len(s) : s[i] >= s[1]}
<1>1. Len(s) \in Nat /\ Len(s) >= 1 /\ \A i \in 1..Len(s) : s[i] \in Int
  BY LenProperties, EmptySeq, ElementOfSeq
<1>2. I \in SUBSET (1..Len(s)) /\ J \in SUBSET (1..Len(s))
  BY <1>1
<1>3. /\ l \in Seq(Int)
      /\ \A i \in 1..Len(l) : \E j \in I : l[i] = s[j]
      /\ \A y : Count(l, y) = Cardinality({j \in I : s[j] = y})
  <2>1. l \in Orders(s, I)
    BY DEF Lower
  <2> HIDE DEF I
  <2> QED
    BY <1>2, <2>1, OrdersHave
<1>4. /\ h \in Seq(Int)
      /\ \A i \in 1..Len(h) : \E j \in J : h[i] = s[j]
      /\ \A y : Count(h, y) = Cardinality({j \in J : s[j] = y})
  <2>1. h \in Orders(s, J)
    BY DEF Higher
  <2> HIDE DEF J
  <2> QED
    BY <1>2, <2>1, OrdersHave
<1>5. ASSUME NEW y PROVE Count(s, y) = (IF y = s[1] THEN 1 ELSE 0) + Count(l, y) + Count(h, y)
  <2> DEFINE A == {j \in I : s[j] = y}
             B == {j \in J : s[j] = y}
             X == IF y = s[1] THEN {1} ELSE {}
  <2>1. {i \in 1..Len(s) : s[i] = y} = X \cup (A \cup B)
    BY <1>1
  <2>2. X \cap (A \cup B) = {} /\ A \cap B = {}
    BY <1>1
  <2>3. IsFiniteSet(A) /\ IsFiniteSet(B) /\ IsFiniteSet(X)
    <3>1. IsFiniteSet(1..Len(s))
      BY <1>1, FS_Interval
    <3>2. A \in SUBSET (1..Len(s)) /\ B \in SUBSET (1..Len(s)) /\ X \in SUBSET (1..Len(s))
      BY <1>1
    <3> HIDE DEF A, B, X
    <3> QED
      BY <3>1, <3>2, FS_Subset
  <2>4. Cardinality(X) = IF y = s[1] THEN 1 ELSE 0
    BY FS_EmptySet, FS_Singleton
  <2>5. Cardinality(A) = Count(l, y) /\ Cardinality(B) = Count(h, y)
    BY <1>3, <1>4
  <2>6. Count(s, y) = Cardinality(X \cup (A \cup B))
    BY <2>1 DEF Count
  <2>7. Cardinality(A) \in Nat /\ Cardinality(B) \in Nat /\ Cardinality({}) = 0
    BY <2>3, FS_CardinalityType, FS_EmptySet
  <2> HIDE DEF A, B, X
  <2>8. IsFiniteSet(A \cup B) /\ Cardinality(A \cup B) = Cardinality(A) + Cardinality(B) - Cardinality(A \cap B)
    BY <2>3, FS_Union
  <2>9. Cardinality(X \cup (A \cup B)) = Cardinality(X) + Cardinality(A \cup B) - Cardinality(X \cap (A \cup B))
    BY <2>3, <2>8, FS_Union
  <2>10. Cardinality(A \cap B) = 0
    BY <2>2, <2>7
  <2>11. Cardinality(X \cap (A \cup B)) = 0
    BY <2>2, <2>7
  <2> QED
    BY <2>4, <2>5, <2>6, <2>7, <2>8, <2>9, <2>10, <2>11
<1>6. \A i \in 1..Len(l) : l[i] < s[1]
  BY <1>3
<1>7. \A i \in 1..Len(h) : h[i] >= s[1]
  BY <1>4
<1> QED
  BY <1>1, <1>3, <1>4, <1>5, <1>6, <1>7 DEF Split

(* Every set of naturals that is not empty has a least element. *)
LEMMA Least ==
  ASSUME NEW A \in SUBSET Nat, A # {}
  PROVE  \E m \in A : \A k \in A : m <= k
<1>1. PICK top \in A : TRUE
  OBVIOUS
<1> DEFINE R == StrictSubsetOrdering(0..top)
           U == {0..k : k \in {i \in A : i <= top}}
<1>2. IsFiniteSet(0..top)
  BY FS_Interval
<1>3. IsWellFoundedOn(R, SUBSET (0..top))
  BY <1>2, FS_StrictSubsetOrderingWellFounded, FS_FiniteSubsetsOfFinite
<1>4. \A a, b \in SUBSET (0..top) : a \subseteq b /\ a # b => <<a, b>> \in R
  BY DEF StrictSubsetOrdering
<1>5. U # {} /\ U \subseteq SUBSET (0..top)
  BY <1>1
<1> HIDE DEF R
<1>6. PICK x \in U : \A y \in U : ~ (<<y, x>> \in R)
  BY <1>3, <1>5, WFMin
<1>7. PICK m \in A : m <= top /\ x = 0..m
  OBVIOUS
<1>8. ASSUME NEW k \in A, k < m PROVE FALSE
  <2>1. 0..k \in U
    BY <1>7, <1>8
  <2>2. 0..k \subseteq 0..m /\ 0..k # 0..m
    <3>1. m \in 0..m /\ m \notin 0..k
      BY <1>8
    <3>2. \A i \in 0..k : i \in 0..m
      BY <1>8
    <3> QED
      BY <3>1, <3>2
  <2> QED
    BY <1>4, <1>5, <1>6, <1>7, <2>1, <2>2
<1> QED
  BY <1>8

-----------------------------------------------------------------------------
(* The recursion of seq_quick_sort: its two calls are for shorter lists. *)
Below(k) == {s \in Seq(Int) : Len(s) < k}
LowerPart(s)  == CHOOSE t \in Lower(s) : TRUE
HigherPart(s) == CHOOSE t \in Higher(s) : TRUE
SortStep(g, s) == IF s = << >> THEN s ELSE g[LowerPart(s)] \o <<s[1]>> \o g[HigherPart(s)]
Computes(g, k) == g = [s \in Below(k) |-> SortStep(g, s)]

(* The parts of a list. *)
LEMMA Parts ==
  ASSUME NEW s \in Seq(Int), s # << >>
  PROVE  /\ LowerPart(s) \in Lower(s) /\ HigherPart(s) \in Higher(s)
         /\ LowerPart(s) \in Seq(Int) /\ Len(LowerPart(s)) < Len(s)
         /\ HigherPart(s) \in Seq(Int) /\ Len(HigherPart(s)) < Len(s)
<1> DEFINE I == {i \in 2..Len(s) : s[i] < s[1]}
           J == {i \in 2..Len(s) : s[i] >= s[1]}
<1>1. Len(s) \in Nat /\ Len(s) >= 1
  BY LenProperties, EmptySeq
<1>2. I \in SUBSET (1..Len(s)) /\ J \in SUBSET (1..Len(s)) /\ 1 \notin I /\ 1 \notin J /\ 1 \in 1..Len(s)
  BY <1>1
<1>3. LowerPart(s) \in Lower(s)
  BY <1>2, OrdersExist DEF LowerPart, Lower
<1>4. HigherPart(s) \in Higher(s)
  BY <1>2, OrdersExist DEF HigherPart, Higher
<1>5. LowerPart(s) \in Seq(Int) /\ Len(LowerPart(s)) = Cardinality(I)
  BY <1>2, <1>3, OrdersHave DEF Lower
<1>6. HigherPart(s) \in Seq(Int) /\ Len(HigherPart(s)) = Cardinality(J)
  BY <1>2, <1>4, OrdersHave DEF Higher
<1>7. IsFiniteSet(1..Len(s)) /\ Cardinality(1..Len(s)) = Len(s)
  BY <1>1, FS_Interval
<1> HIDE DEF I, J
<1>8. /\ Cardinality(I) \in Nat /\ Cardinality(J) \in Nat
      /\ Cardinality(I) < Len(s) /\ Cardinality(J) < Len(s)
  <2>1. IsFiniteSet(I) /\ IsFiniteSet(J)
    BY <1>2, <1>7, FS_Subset
  <2>2. I # 1..Len(s) /\ J # 1..Len(s)
    BY <1>2
  <2>3. Cardinality(I) < Cardinality(1..Len(s))
    <3>1. Cardinality(I) <= Cardinality(1..Len(s)) /\ Cardinality(I) # Cardinality(1..Len(s))
      BY <1>2, <1>7, <2>2, FS_Subset
    <3> QED
      BY <1>1, <1>7, <2>1, <3>1, FS_CardinalityType
  <2>4. Cardinality(J) < Cardinality(1..Len(s))
    <3>1. Cardinality(J) <= Cardinality(1..Len(s)) /\ Cardinality(J) # Cardinality(1..Len(s))
      BY <1>2, <1>7, <2>2, FS_Subset
    <3> QED
      BY <1>1, <1>7, <2>1, <3>1, FS_CardinalityType
  <2> QED
    BY <1>7, <2>1, <2>3, <2>4, FS_CardinalityType
<1> QED
  BY <1>3, <1>4, <1>5, <1>6, <1>8

(* Functions that obey the recursion for lists up to a length agree. *)
LEMMA Agree ==
  ASSUME NEW j \in Nat, NEW k \in Nat, NEW g, NEW h, Computes(g, j), Computes(h, k)
  PROVE  \A s \in Below(j) \cap Below(k) : g[s] = h[s]
<1> DEFINE D == {s \in Below(j) \cap Below(k) : g[s] # h[s]}
           N == {Len(s) : s \in D}
<1> SUFFICES ASSUME N # {} PROVE FALSE
  OBVIOUS
<1>1. N \in SUBSET Nat
  BY LenProperties DEF Below
<1>2. PICK m \in N : \A i \in N : m <= i
  BY <1>1, Least
<1>3. PICK s \in D : Len(s) = m
  BY <1>2
<1>4. s \in Seq(Int) /\ Len(s) \in Nat /\ Len(s) < j /\ Len(s) < k
  BY <1>3, LenProperties DEF Below
<1>5. g[s] = SortStep(g, s) /\ h[s] = SortStep(h, s)
  BY <1>3 DEF Computes
<1>6. s # << >>
  BY <1>3, <1>5 DEF SortStep
<1>7. ASSUME NEW t \in Seq(Int), Len(t) < Len(s) PROVE g[t] = h[t]
  <2>1. Len(t) \in Nat
    BY LenProperties
  <2>2. t \in Below(j) \cap Below(k)
    BY <1>4, <1>7, <2>1 DEF Below
  <2>3. Len(t) \notin N
    BY <1>1, <1>2, <1>3, <1>7, <2>1
  <2> QED
    BY <2>2, <2>3
<1>8. g[LowerPart(s)] = h[LowerPart(s)] /\ g[HigherPart(s)] = h[HigherPart(s)]
  BY <1>4, <1>6, <1>7, Parts
<1> QED
  BY <1>3, <1>5, <1>8 DEF SortStep

(* There is one for each length. *)
LEMMA Computed ==
  ASSUME NEW k \in Nat
  PROVE  \E g : Computes(g, k)
<1> DEFINE N == {i \in Nat : ~ \E g : Computes(g, i)}
<1> SUFFICES ASSUME N # {} PROVE FALSE
  OBVIOUS
<1>1. PICK m \in N : \A i \in N : m <= i
  <2> HIDE DEF N
  <2>1. N \in SUBSET Nat
    BY DEF N
  <2> QED
    BY <2>1, Least
<1>2. m # 0
  <2>1. Below(0) = {}
    BY LenProperties DEF Below
  <2>2. Computes([s \in Below(0) |-> << >>], 0)
    BY <2>1 DEF Computes
  <2> QED
    BY <2>2
<1>3. m - 1 \in Nat /\ m - 1 \notin N
  BY <1>1, <1>2
<1>4. PICK g : Computes(g, m - 1)
  BY <1>3
<1> DEFINE h == [s \in Below(m) |-> SortStep(g, s)]
<1>5. ASSUME NEW t \in Seq(Int), Len(t) < m - 1 PROVE h[t] = g[t]
  <2>1. t \in Below(m) /\ t \in Below(m - 1)
    BY <1>1, <1>3, <1>5, LenProperties DEF Below
  <2> QED
    BY <1>4, <2>1 DEF Computes
<1>6. ASSUME NEW s \in Below(m) PROVE SortStep(g, s) = SortStep(h, s)
  <2>1. CASE s = << >>
    BY <2>1 DEF SortStep
  <2>2. CASE s # << >>
    <3>0. s \in Seq(Int) /\ Len(s) < m
      BY <1>6 DEF Below
    <3>1. /\ LowerPart(s) \in Seq(Int) /\ Len(LowerPart(s)) < Len(s)
          /\ HigherPart(s) \in Seq(Int) /\ Len(HigherPart(s)) < Len(s)
      BY <2>2, <3>0, Parts
    <3>2. /\ Len(LowerPart(s)) < m - 1 /\ Len(HigherPart(s)) < m - 1
      BY <1>3, <3>0, <3>1, LenProperties
    <3>3. h[LowerPart(s)] = g[LowerPart(s)] /\ h[HigherPart(s)] = g[HigherPart(s)]
      BY <1>5, <3>1, <3>2
    <3> HIDE DEF h
    <3> QED
      BY <3>3 DEF SortStep
  <2> QED
    BY <2>1, <2>2
<1>7. Computes(h, m)
  <2>1. h = [s \in Below(m) |-> SortStep(h, s)]
    BY <1>6
  <2> QED
    BY <2>1 DEF Computes
<1> QED
  BY <1>1, <1>7

(* So seq_quick_sort obeys it. *)
LEMMA SeqQuickSortDef ==
  seq_quick_sort = [s \in Seq(Int) |-> SortStep(seq_quick_sort, s)]
<1> DEFINE G(k) == CHOOSE g : Computes(g, k)
           f == [s \in Seq(Int) |-> G(Len(s) + 1)[s]]
<1>1. \A k \in Nat : Computes(G(k), k)
  BY Computed
<1>2. ASSUME NEW s \in Seq(Int) PROVE f[s] = SortStep(f, s)
  <2>0. Len(s) \in Nat /\ Len(s) + 1 \in Nat /\ s \in Below(Len(s) + 1)
    BY LenProperties DEF Below
  <2>1. f[s] = SortStep(G(Len(s) + 1), s)
    BY <1>1, <2>0 DEF Computes
  <2>2. ASSUME NEW t \in Seq(Int), Len(t) < Len(s) PROVE G(Len(s) + 1)[t] = f[t]
    <3>1. Len(t) \in Nat /\ Len(t) + 1 \in Nat
      BY LenProperties
    <3>2. t \in Below(Len(s) + 1) /\ t \in Below(Len(t) + 1)
      BY <2>0, <2>2, <3>1 DEF Below
    <3>3. Computes(G(Len(s) + 1), Len(s) + 1) /\ Computes(G(Len(t) + 1), Len(t) + 1)
      BY <1>1, <2>0, <3>1
    <3> HIDE DEF G
    <3> QED
      BY <2>0, <3>1, <3>2, <3>3, Agree
  <2>3. CASE s = << >>
    BY <2>1, <2>3 DEF SortStep
  <2>4. CASE s # << >>
    <3>1. /\ LowerPart(s) \in Seq(Int) /\ Len(LowerPart(s)) < Len(s)
          /\ HigherPart(s) \in Seq(Int) /\ Len(HigherPart(s)) < Len(s)
      BY <2>4, Parts
    <3>2. /\ G(Len(s) + 1)[LowerPart(s)] = f[LowerPart(s)]
          /\ G(Len(s) + 1)[HigherPart(s)] = f[HigherPart(s)]
      BY <2>2, <3>1
    <3> HIDE DEF f, G
    <3> QED
      BY <2>1, <3>2 DEF SortStep
  <2> QED
    BY <2>3, <2>4
<1>3. f = [s \in Seq(Int) |-> SortStep(f, s)]
  BY <1>2
<1> HIDE DEF f
<1>4. \E x : x = [s \in Seq(Int) |-> SortStep(x, s)]
  BY <1>3
<1>5. seq_quick_sort = CHOOSE x : x = [s \in Seq(Int) |-> SortStep(x, s)]
  BY DEF seq_quick_sort, SortStep, LowerPart, HigherPart
<1> QED
  BY <1>4, <1>5

-----------------------------------------------------------------------------
(* seq_quick_sort puts its list in order. *)
THEOREM SeqQuickSortSorts == \A s \in Seq(Int) : SortedOf(seq_quick_sort[s], s)
<1> DEFINE D == {s \in Seq(Int) : ~SortedOf(seq_quick_sort[s], s)}
           N == {Len(s) : s \in D}
<1> SUFFICES ASSUME N # {} PROVE FALSE
  OBVIOUS
<1>1. PICK m \in N : \A i \in N : m <= i
  <2>1. N \in SUBSET Nat
    BY LenProperties
  <2> HIDE DEF N
  <2> QED
    BY <2>1, Least
<1>2. PICK s \in D : Len(s) = m
  BY <1>1
<1>3. s \in Seq(Int) /\ Len(s) \in Nat /\ ~SortedOf(seq_quick_sort[s], s)
  BY <1>2, LenProperties
<1>4. seq_quick_sort[s] = SortStep(seq_quick_sort, s)
  BY <1>3, SeqQuickSortDef
<1>5. CASE s = << >>
  BY <1>3, <1>4, <1>5 DEF SortStep, SortedOf, Ascending, SameElements
<1>6. CASE s # << >>
  <2> DEFINE l == LowerPart(s)  h == HigherPart(s)
  <2>1. /\ l \in Lower(s) /\ h \in Higher(s)
        /\ l \in Seq(Int) /\ Len(l) < Len(s) /\ h \in Seq(Int) /\ Len(h) < Len(s)
    BY <1>3, <1>6, Parts
  <2> HIDE DEF l, h
  <2>2. ASSUME NEW t \in Seq(Int), Len(t) < Len(s) PROVE SortedOf(seq_quick_sort[t], t)
    <3>1. Len(t) \in Nat
      BY LenProperties
    <3>2. ~ (m <= Len(t))
      BY <1>2, <1>3, <2>2, <3>1
    <3>3. Len(t) \notin N
      BY <1>1, <3>2
    <3> QED
      BY <3>3
  <2>3. SortedOf(seq_quick_sort[l], l) /\ SortedOf(seq_quick_sort[h], h)
    BY <2>1, <2>2
  <2>4. Split(s, s[1], l, h)
    BY <1>3, <1>6, <2>1, Partition
  <2>5. SortedOf(seq_quick_sort[l] \o <<s[1]>> \o seq_quick_sort[h], s)
    BY <2>3, <2>4, Spliced
  <2> QED
    BY <1>3, <1>4, <1>6, <2>5 DEF SortStep, l, h
<1> QED
  BY <1>5, <1>6

(* At the first place where two orders of the same elements could differ, the smaller    *)
(* element stands more often in one of them.                                           *)
LEMMA FirstDifference ==
  ASSUME NEW s, NEW r, SortedOf(r, s), NEW t, SortedOf(t, s), NEW i \in 1..Len(r),
         \A j \in 1..i - 1 : j <= Len(t) /\ r[j] = t[j],
         \A j \in 1..Len(t) : j >= i => t[j] > r[i]
  PROVE  FALSE
<1> DEFINE A == {j \in 1..Len(t) : t[j] = r[i]}
           B == {j \in 1..Len(r) : r[j] = r[i]}
<1>1. r \in Seq(Int) /\ t \in Seq(Int) /\ Len(r) \in Nat /\ Len(t) \in Nat /\ r[i] \in Int
  BY LenProperties, ElementOfSeq DEF SortedOf
<1>2. A \subseteq B /\ i \in B /\ i \notin A
  <2>1. ASSUME NEW j \in A PROVE j \in B
    <3>1. ~ (j >= i)
      BY <1>1, <2>1
    <3>2. j \in 1..i - 1
      BY <1>1, <2>1, <3>1
    <3> QED
      BY <1>1, <2>1, <3>2
  <2> QED
    BY <1>1, <2>1
<1>3. IsFiniteSet(B)
  BY <1>1, CountType
<1>4. Cardinality(A) = Count(s, r[i]) /\ Cardinality(B) = Count(s, r[i])
  BY DEF SortedOf, SameElements, Count
<1> HIDE DEF A, B
<1>5. A \in SUBSET B /\ A # B
  BY <1>2
<1>6. Cardinality(A) # Cardinality(B)
  BY <1>3, <1>5, FS_Subset
<1> QED
  BY <1>4, <1>6

(* A list has one order. *)
LEMMA SortedOnce ==
  ASSUME NEW s, NEW r, SortedOf(r, s), NEW t, SortedOf(t, s)
  PROVE  r = t
<1>1. r \in Seq(Int) /\ t \in Seq(Int) /\ Len(r) \in Nat /\ Len(t) \in Nat
  BY LenProperties DEF SortedOf
<1>2. (\A j \in 1..Len(r) : r[j] \in Int) /\ (\A j \in 1..Len(t) : t[j] \in Int)
  BY <1>1, ElementOfSeq
<1> DEFINE D == {i \in Nat : /\ i >= 1 /\ (i <= Len(r) \/ i <= Len(t))
                             /\ (i <= Len(r) /\ i <= Len(t) => r[i] # t[i])}
<1>3. CASE D = {}
  <2>1. Len(r) = Len(t)
    <3>1. Len(r) + 1 \notin D /\ Len(t) + 1 \notin D
      BY <1>3
    <3> QED
      BY <1>1, <3>1
  <2>2. \A i \in 1..Len(r) : r[i] = t[i]
    BY <1>1, <1>3, <2>1
  <2> QED
    BY <1>1, <2>1, <2>2, SeqEqual
<1>4. CASE D # {}
  <2>1. PICK i \in D : \A j \in D : i <= j
    <3>1. D \in SUBSET Nat
      OBVIOUS
    <3> HIDE DEF D
    <3> QED
      BY <1>4, <3>1, Least
  <2>2. \A j \in 1..i - 1 : j <= Len(r) /\ j <= Len(t) /\ r[j] = t[j]
    <3> SUFFICES ASSUME NEW j \in 1..i - 1 PROVE j <= Len(r) /\ j <= Len(t) /\ r[j] = t[j]
      OBVIOUS
    <3>1. j \in Nat /\ j >= 1 /\ j < i
      BY <2>1
    <3>2. j \notin D
      BY <2>1, <3>1
    <3>3. j <= Len(r) \/ j <= Len(t)
      BY <1>1, <2>1, <3>1
    <3> QED
      BY <3>1, <3>2, <3>3
  <2>3. CASE i <= Len(r) /\ (i <= Len(t) => r[i] < t[i])
    <3>1. \A j \in 1..Len(t) : j >= i => t[j] > r[i]
      <4> SUFFICES ASSUME NEW j \in 1..Len(t), j >= i PROVE t[j] > r[i]
        OBVIOUS
      <4>1. i \in 1..Len(t) /\ i \in 1..Len(r)
        BY <1>1, <2>1, <2>3
      <4>2. j = i \/ t[i] <= t[j]
        BY <4>1 DEF SortedOf, Ascending
      <4> QED
        BY <1>2, <2>3, <4>1, <4>2
    <3> QED
      BY <2>1, <2>2, <2>3, <3>1, FirstDifference
  <2>4. CASE i <= Len(t) /\ (i <= Len(r) => t[i] < r[i])
    <3>1. \A j \in 1..Len(r) : j >= i => r[j] > t[i]
      <4> SUFFICES ASSUME NEW j \in 1..Len(r), j >= i PROVE r[j] > t[i]
        OBVIOUS
      <4>1. i \in 1..Len(t) /\ i \in 1..Len(r)
        BY <1>1, <2>1, <2>4
      <4>2. j = i \/ r[i] <= r[j]
        BY <4>1 DEF SortedOf, Ascending
      <4> QED
        BY <1>2, <2>4, <4>1, <4>2
    <3> QED
      BY <2>1, <2>2, <2>4, <3>1, FirstDifference
  <2> QED
    <3>1. \/ i <= Len(r) /\ i <= Len(t) /\ r[i] # t[i] /\ r[i] \in Int /\ t[i] \in Int
          \/ i <= Len(r) /\ ~ (i <= Len(t))
          \/ i <= Len(t) /\ ~ (i <= Len(r))
      BY <1>2, <2>1
    <3> QED
      BY <2>3, <2>4, <3>1
<1> QED
  BY <1>3, <1>4

-----------------------------------------------------------------------------
(* The tasks and calls on the stacks of the workers. *)
Calls  == Seq({1, 2})
Locals == [lower_sorted : Seq(Int), done : BOOLEAN]
TaskFrames == [kind : {"task"}, call : Calls, list : Seq(Int),
               pc : {"start", "write", "store", "unlock", "notify"}]
SortFrames == [kind : {"sort"}, call : Calls, list : Seq(Int), pc : {"enter", "call", "wait"},
               higher : Seq(Int)]
Frames     == TaskFrames \cup SortFrames

SortTypes ==
  /\ input \in Seq(Int)
  /\ stack \in [Workers -> Seq(Frames)]
  /\ queue \in [Workers -> Seq(TaskFrames)]
  /\ global \in Seq(TaskFrames)
  /\ DOMAIN local \subseteq Calls /\ local \in [DOMAIN local -> Locals]
  /\ main \in {"submit", "lock", "asleep", "returned", "stopped", "ended"}
  /\ mtx \in {"main", "task", "none"}
  /\ done \in BOOLEAN /\ ret \in Seq(Int)

(* A worker runs tasks when it is idle and in calls that wait; a task calls par_quick_sort *)
(* for its own list, and a call calls it for its higher part.                           *)
OnTop(f, g) ==
  IF g.kind = "task" THEN f.kind = "sort" /\ f.pc = "wait"
  ELSE \/ f.kind = "task" /\ f.pc = "start" /\ f.call = g.call
       \/ f.kind = "sort" /\ f.pc = "call" /\ g.call = Append(f.call, 2)
Placed(s, i) == IF i = 1 THEN s[1].kind = "task" ELSE OnTop(s[i - 1], s[i])
Stacked ==
  \A w \in Workers :
    /\ \A i \in 1..Len(stack[w]) : Placed(stack[w], i)
    /\ stack[w] # << >> => stack[w][Len(stack[w])].pc # "call"

(* Every task and every call is in one place. *)
Alike(f, g) == f.kind = g.kind /\ f.call = g.call
OnceStacked ==
  \A v, w \in Workers : \A i \in 1..Len(stack[v]), j \in 1..Len(stack[w]) :
    Alike(stack[v][i], stack[w][j]) => v = w /\ i = j
OnceQueued ==
  \A v, w \in Workers : \A i \in 1..Len(queue[v]), j \in 1..Len(queue[w]) :
    queue[v][i].call = queue[w][j].call => v = w /\ i = j
NotBoth ==
  \A v, w \in Workers : \A i \in 1..Len(stack[v]), j \in 1..Len(queue[w]) :
    ~ Alike(stack[v][i], queue[w][j])
Once == OnceStacked /\ OnceQueued /\ NotBoth

(* What main() and the root's task know of each other. *)
Waits == main \in {"lock", "asleep"}
MainOK ==
  /\ main = "submit" => global = << >> /\ ~done
  /\ global # << >> => global = <<TaskFrame(Root, input)>> /\ ~done /\ Waits /\ input # << >>
  /\ main \in {"returned", "stopped", "ended"} => done \/ input = << >>
  /\ done => input # << >> /\ SortedOf(ret, input)
  /\ input = << >> => ret = << >>
  /\ late \subseteq {"cv"}

(* The tasks and calls hold the lists a[c] that their calls c were given, and what they   *)
(* have of them in order.  A lower part's task has a call that has not seen it done.       *)
RootOK(f, a) ==
  /\ input # << >> /\ main # "submit" /\ global = << >>
  /\ f.pc \in {"start", "write", "store"} => ~done
  /\ f.pc \in {"unlock", "notify"} => done
  /\ f.pc # "notify" => Waits
  /\ f.pc \in {"write", "store", "unlock"} => mtx = "task"
  /\ f.pc = "start" => f.list = a[Root]
  /\ f.pc = "write" => SortedOf(f.list, a[Root])
  /\ f.pc = "store" => SortedOf(ret, a[Root])
LowerOK(f, c, a) ==
  /\ c \in DOMAIN local /\ f.call = Append(c, 1) /\ ~local[c].done
  /\ f.pc \in {"start", "write", "store"}
  /\ f.pc = "start" => f.list = a[f.call]
  /\ f.pc = "write" => SortedOf(f.list, a[f.call])
  /\ f.pc = "store" => SortedOf(local[c].lower_sorted, a[f.call])
TaskOK(f, a) == IF f.call = Root THEN RootOK(f, a) ELSE \E c \in Calls : LowerOK(f, c, a)
CallOK(f, a) ==
  /\ f.call = Root => mtx = "task"
  /\ f.pc = "enter" => f.list = a[f.call] /\ f.call \notin DOMAIN local
  /\ f.pc # "enter" =>
       /\ f.call \in DOMAIN local
       /\ \E x \in Int : f.list = <<x>> /\ Split(a[f.call], x, a[Append(f.call, 1)], a[Append(f.call, 2)])
  /\ f.pc = "wait" => SortedOf(f.higher, a[Append(f.call, 2)])
FrameOK(f, a) == IF f.kind = "task" THEN TaskOK(f, a) ELSE CallOK(f, a)

FramesOK(a) == \A w \in Workers : \A i \in 1..Len(stack[w]) : FrameOK(stack[w][i], a)
QueuesOK(a) ==
  \A w \in Workers : \A i \in 1..Len(queue[w]) :
    queue[w][i].pc = "start" /\ \E c \in Calls : LowerOK(queue[w][i], c, a)
EnteredAt(w, i, c) ==
  stack[w][i].kind = "sort" /\ stack[w][i].call = c /\ stack[w][i].pc # "enter"
Held == \A c \in DOMAIN local : \E w \in Workers : \E i \in 1..Len(stack[w]) : EnteredAt(w, i, c)
DoneOK(a) ==
  \A c \in DOMAIN local : local[c].done => SortedOf(local[c].lower_sorted, a[Append(c, 1)])
ListsOK(a) ==
  /\ a \in [Calls -> Seq(Int)] /\ a[Root] = input
  /\ FramesOK(a) /\ QueuesOK(a) /\ DoneOK(a)

SortInvFor(a) == SortTypes /\ Stacked /\ Once /\ Held /\ MainOK /\ ListsOK(a)
SortInv == \E a \in [Calls -> Seq(Int)] : SortInvFor(a)

-----------------------------------------------------------------------------
(* How the steps change a stack: all but the innermost frames stay. *)
Keeps(w, k) ==
  /\ stack' \in [Workers -> Seq(Frames)]
  /\ k \in Nat /\ k <= Len(stack[w]) /\ k <= Len(stack'[w])
  /\ \A v \in Workers \ {w} : stack'[v] = stack[v]
  /\ \A i \in 1..k : stack'[w][i] = stack[w][i]

(* The place before a place. *)
LEMMA Before ==
  ASSUME NEW k \in Nat, k >= 1
  PROVE  /\ (IF 1 <= k - 1 THEN k - 1 - 1 + 1 ELSE 0) = k - 1 /\ k - 1 \in Nat /\ k \in 1..k
         /\ k # 1 => k - 1 \in 1..k /\ k - 1 \in 1..k - 1 /\ k - 1 >= 1
OBVIOUS

(* Last and Front, by places. *)
LEMMA LastFront ==
  ASSUME NEW D, NEW s \in Seq(D), s # << >>
  PROVE  /\ Len(s) \in Nat /\ Len(s) >= 1
         /\ Last(s) = s[Len(s)] /\ Last(s) \in D
         /\ Front(s) \in Seq(D) /\ Len(Front(s)) = Len(s) - 1
         /\ \A i \in 1..Len(s) - 1 : Front(s)[i] = s[i]
<1>1. Len(s) \in Nat /\ Len(s) >= 1
  BY LenProperties, EmptySeq
<1>2. Len(s) \in 1..Len(s)
  BY <1>1
<1>3. s[Len(s)] \in D
  BY <1>2, ElementOfSeq
<1>4. \A i \in 1..Len(s) - 1 : s[i] \in D
  <2>1. \A i \in 1..Len(s) - 1 : i \in 1..Len(s)
    BY <1>1
  <2> QED
    BY <2>1, ElementOfSeq
<1>5. /\ SubSeq(s, 1, Len(s) - 1) \in Seq(D) /\ Len(SubSeq(s, 1, Len(s) - 1)) = Len(s) - 1
      /\ \A i \in 1..Len(s) - 1 : SubSeq(s, 1, Len(s) - 1)[i] = s[i]
  <2>1. /\ SubSeq(s, 1, Len(s) - 1) \in Seq(D)
        /\ Len(SubSeq(s, 1, Len(s) - 1)) = IF 1 <= Len(s) - 1 THEN Len(s) - 1 - 1 + 1 ELSE 0
        /\ \A i \in 1..Len(s) - 1 - 1 + 1 : SubSeq(s, 1, Len(s) - 1)[i] = s[1 + i - 1]
    BY <1>1, <1>4, SubSeqProperties
  <2>2. Len(s) - 1 - 1 + 1 = Len(s) - 1
    BY <1>1
  <2>3. \A i \in 1..Len(s) - 1 : 1 + i - 1 = i
    BY <1>1
  <2>4. (IF 1 <= Len(s) - 1 THEN Len(s) - 1 - 1 + 1 ELSE 0) = Len(s) - 1
    BY <1>1, Before
  <2> QED
    BY <2>1, <2>2, <2>3, <2>4
<1> QED
  BY <1>1, <1>3, <1>5 DEF Last, Front

(* A frame is pushed. *)
LEMMA Pushes ==
  ASSUME SortTypes, NEW w \in Workers, NEW g \in Frames, stack' = Pushed(w, g)
  PROVE  /\ Keeps(w, Len(stack[w])) /\ Len(stack'[w]) = Len(stack[w]) + 1
         /\ stack'[w][Len(stack[w]) + 1] = g
<1>1. stack[w] \in Seq(Frames) /\ Len(stack[w]) \in Nat
  BY LenProperties DEF SortTypes
<1>2. stack'[w] = Append(stack[w], g) /\ \A v \in Workers \ {w} : stack'[v] = stack[v]
  BY DEF SortTypes, Pushed
<1>3. /\ Append(stack[w], g) \in Seq(Frames) /\ Len(Append(stack[w], g)) = Len(stack[w]) + 1
      /\ Append(stack[w], g)[Len(stack[w]) + 1] = g
      /\ \A i \in 1..Len(stack[w]) : Append(stack[w], g)[i] = stack[w][i]
  BY <1>1, AppendProperties
<1>4. stack' \in [Workers -> Seq(Frames)]
  BY <1>3 DEF SortTypes, Pushed
<1> QED
  BY <1>1, <1>2, <1>3, <1>4 DEF Keeps

(* The innermost frame is replaced. *)
LEMMA Replaces ==
  ASSUME SortTypes, NEW w \in Workers, stack[w] # << >>, NEW g \in Frames,
         stack' = [stack EXCEPT ![w] = Append(Front(@), g)]
  PROVE  /\ Keeps(w, Len(stack[w]) - 1) /\ Len(stack'[w]) = Len(stack[w])
         /\ stack'[w][Len(stack[w])] = g
<1>1. stack[w] \in Seq(Frames)
  BY DEF SortTypes
<1> DEFINE s == Front(stack[w])
<1>2. /\ s \in Seq(Frames) /\ Len(s) = Len(stack[w]) - 1 /\ Len(stack[w]) \in Nat /\ Len(stack[w]) >= 1
      /\ \A i \in 1..Len(stack[w]) - 1 : s[i] = stack[w][i]
  BY <1>1, LastFront
<1> HIDE DEF s
<1>3. stack'[w] = Append(s, g) /\ \A v \in Workers \ {w} : stack'[v] = stack[v]
  BY DEF SortTypes, s
<1>4. /\ Append(s, g) \in Seq(Frames) /\ Len(Append(s, g)) = Len(s) + 1
      /\ Append(s, g)[Len(s) + 1] = g
      /\ \A i \in 1..Len(s) : Append(s, g)[i] = s[i]
  BY <1>2, AppendProperties
<1>5. stack' \in [Workers -> Seq(Frames)]
  BY <1>4 DEF SortTypes, s
<1>6. Len(s) + 1 = Len(stack[w])
  BY <1>2
<1>7. Len(stack'[w]) = Len(stack[w]) /\ stack'[w][Len(stack[w])] = g
  BY <1>3, <1>4, <1>6
<1>8. \A i \in 1..Len(stack[w]) - 1 : stack'[w][i] = stack[w][i]
  BY <1>2, <1>3, <1>4
<1>9. Len(stack[w]) - 1 \in Nat /\ Len(stack[w]) - 1 <= Len(stack[w])
  BY <1>2
<1>10. Keeps(w, Len(stack[w]) - 1)
  BY <1>3, <1>5, <1>7, <1>8, <1>9 DEF Keeps
<1> QED
  BY <1>7, <1>10

(* The innermost frame goes. *)
LEMMA Pops ==
  ASSUME SortTypes, NEW w \in Workers, stack[w] # << >>,
         stack' = [stack EXCEPT ![w] = Front(@)]
  PROVE  Keeps(w, Len(stack[w]) - 1) /\ Len(stack'[w]) = Len(stack[w]) - 1
<1>1. stack[w] \in Seq(Frames)
  BY DEF SortTypes
<1> DEFINE s == Front(stack[w])
<1>2. /\ s \in Seq(Frames) /\ Len(s) = Len(stack[w]) - 1 /\ Len(stack[w]) \in Nat /\ Len(stack[w]) >= 1
      /\ \A i \in 1..Len(stack[w]) - 1 : s[i] = stack[w][i]
  BY <1>1, LastFront
<1> HIDE DEF s
<1>3. stack'[w] = s /\ \A v \in Workers \ {w} : stack'[v] = stack[v]
  BY DEF SortTypes, s
<1>4. stack' \in [Workers -> Seq(Frames)]
  BY <1>2 DEF SortTypes, s
<1> QED
  BY <1>2, <1>3, <1>4 DEF Keeps

(* A call splits its list: its frame is replaced by two. *)
LEMMA Splits ==
  ASSUME SortTypes, NEW w \in Workers, stack[w] # << >>, NEW f \in Frames, NEW g \in Frames,
         stack' = [stack EXCEPT ![w] = Front(@) \o <<f, g>>]
  PROVE  /\ Keeps(w, Len(stack[w]) - 1) /\ Len(stack'[w]) = Len(stack[w]) + 1
         /\ stack'[w][Len(stack[w])] = f /\ stack'[w][Len(stack[w]) + 1] = g
<1>1. stack[w] \in Seq(Frames)
  BY DEF SortTypes
<1> DEFINE s == Front(stack[w])
<1>2. /\ s \in Seq(Frames) /\ Len(s) = Len(stack[w]) - 1 /\ Len(stack[w]) \in Nat /\ Len(stack[w]) >= 1
      /\ \A i \in 1..Len(stack[w]) - 1 : s[i] = stack[w][i]
  BY <1>1, LastFront
<1> HIDE DEF s
<1>3. stack'[w] = s \o <<f, g>> /\ \A v \in Workers \ {w} : stack'[v] = stack[v]
  BY DEF SortTypes, s
<1>4. /\ <<f, g>> \in Seq(Frames) /\ Len(<<f, g>>) = 2 /\ <<f, g>>[1] = f /\ <<f, g>>[2] = g
  OBVIOUS
<1> DEFINE p == <<f, g>>
<1> HIDE DEF p
<1>5. /\ s \o p \in Seq(Frames) /\ Len(s \o p) = Len(s) + 2
      /\ \A i \in 1..Len(s) : (s \o p)[i] = s[i]
      /\ (s \o p)[Len(s) + 1] = p[1] /\ (s \o p)[Len(s) + 2] = p[2]
  <2>1. p \in Seq(Frames) /\ Len(p) = 2 /\ Len(s) \in Nat
    BY <1>2, <1>4, LenProperties DEF p
  <2>2. /\ s \o p \in Seq(Frames) /\ Len(s \o p) = Len(s) + Len(p)
        /\ \A i \in 1..Len(s) + Len(p) : (s \o p)[i] = IF i <= Len(s) THEN s[i] ELSE p[i - Len(s)]
    BY <1>2, <2>1, ConcatProperties
  <2>3. (Len(s) + 1) - Len(s) = 1 /\ (Len(s) + 2) - Len(s) = 2
    BY <2>1
  <2> QED
    BY <2>1, <2>2, <2>3
<1>6. stack' \in [Workers -> Seq(Frames)]
  BY <1>5 DEF SortTypes, s, p
<1>7. Len(s) + 1 = Len(stack[w]) /\ Len(s) + 2 = Len(stack[w]) + 1
  BY <1>2
<1> QED
  BY <1>2, <1>3, <1>4, <1>5, <1>6, <1>7 DEF Keeps, p

(* The innermost frame of a worker. *)
LEMMA Innermost ==
  ASSUME SortTypes, NEW w \in Workers, stack[w] # << >>
  PROVE  /\ Len(stack[w]) \in Nat /\ Len(stack[w]) >= 1 /\ Len(stack[w]) \in 1..Len(stack[w])
         /\ Top(w) = stack[w][Len(stack[w])] /\ Top(w) \in Frames
<1>1. stack[w] \in Seq(Frames)
  BY DEF SortTypes
<1> QED
  <2>1. Len(stack[w]) \in Nat /\ Len(stack[w]) >= 1 /\ Last(stack[w]) = stack[w][Len(stack[w])]
        /\ Last(stack[w]) \in Frames
    BY <1>1, LastFront
  <2>2. Len(stack[w]) \in 1..Len(stack[w])
    BY <2>1
  <2> QED
    BY <2>1, <2>2 DEF Top

(* A call returns to what is under it. *)
LEMMA Returning ==
  ASSUME SortTypes, Stacked, NEW w \in Workers, stack[w] # << >>, Top(w).kind = "sort",
         NEW r \in Seq(Int), Returns(w, r)
  PROVE  LET k == Len(stack[w]) - 1  f == stack[w][k]  g == stack'[w][k]
         IN  /\ k \in 1..Len(stack[w]) /\ k \in Nat
             /\ f \in Frames /\ OnTop(f, Top(w))
             /\ Keeps(w, k - 1) /\ Len(stack'[w]) = k
             /\ g = IF f.kind = "sort" THEN [f EXCEPT !.higher = r, !.pc = "wait"]
                                       ELSE [f EXCEPT !.list = r, !.pc = "write"]
             /\ g \in Frames
<1> DEFINE k == Len(stack[w]) - 1
           f == stack[w][k]
           s == Front(stack[w])
           g == IF f.kind = "sort" THEN [f EXCEPT !.higher = r, !.pc = "wait"]
                                   ELSE [f EXCEPT !.list = r, !.pc = "write"]
<1>1. stack[w] \in Seq(Frames)
  BY DEF SortTypes
<1>2. /\ Len(stack[w]) \in Nat /\ Len(stack[w]) >= 1 /\ Len(stack[w]) \in 1..Len(stack[w])
      /\ Top(w) = stack[w][Len(stack[w])]
  BY Innermost
<1>3. Placed(stack[w], Len(stack[w]))
  BY <1>2 DEF Stacked
<1>4. Len(stack[w]) # 1 /\ OnTop(f, Top(w))
  BY <1>2, <1>3 DEF Placed
<1>5. k \in 1..Len(stack[w]) /\ k \in Nat /\ k >= 1
  <2>1. Len(stack[w]) # 1
    BY <1>4
  <2> QED
    BY <1>2, <2>1, Before
<1>6. f \in Frames
  BY <1>1, <1>5, ElementOfSeq
<1>7. g \in Frames
  BY <1>6 DEF Frames, TaskFrames, SortFrames
<1>8. s \in Seq(Frames) /\ Len(s) = k /\ \A i \in 1..k : s[i] = stack[w][i]
  BY <1>1, LastFront
<1>9. s # << >>
  BY <1>5, <1>8
<1>10. /\ Last(s) = f /\ Front(s) \in Seq(Frames) /\ Len(Front(s)) = k - 1
       /\ \A i \in 1..k - 1 : Front(s)[i] = s[i]
  <2>1. /\ Last(s) = s[Len(s)] /\ Front(s) \in Seq(Frames) /\ Len(Front(s)) = Len(s) - 1
        /\ \A i \in 1..Len(s) - 1 : Front(s)[i] = s[i]
    BY <1>8, <1>9, LastFront
  <2>2. k \in 1..k
    BY <1>5
  <2> HIDE DEF k, s
  <2> QED
    BY <1>8, <2>1, <2>2
<1>11. stack' = [stack EXCEPT ![w] = Append(Front(s), g)]
  BY <1>10 DEF Returns
<1> HIDE DEF g, s, f
<1> DEFINE b == Front(s)
<1> HIDE DEF b
<1>12. /\ Append(b, g) \in Seq(Frames) /\ Len(Append(b, g)) = k
       /\ Append(b, g)[k] = g /\ \A i \in 1..k - 1 : Append(b, g)[i] = b[i]
  <2>1. b \in Seq(Frames) /\ Len(b) = k - 1 /\ (k - 1) + 1 = k
    BY <1>5, <1>10 DEF b
  <2> HIDE DEF k
  <2> QED
    BY <1>7, <2>1, AppendProperties
<1>13. stack' \in [Workers -> Seq(Frames)]
  BY <1>11, <1>12 DEF SortTypes, b
<1>14. stack'[w] = Append(b, g) /\ \A v \in Workers \ {w} : stack'[v] = stack[v]
  BY <1>11 DEF SortTypes, b
<1>15. \A i \in 1..k - 1 : Append(b, g)[i] = stack[w][i]
  BY <1>5, <1>8, <1>10, <1>12 DEF b
<1>16. Keeps(w, k - 1)
  BY <1>5, <1>2, <1>12, <1>13, <1>14, <1>15 DEF Keeps
<1> QED
  BY <1>4, <1>5, <1>6, <1>7, <1>12, <1>14, <1>16 DEF f, g

-----------------------------------------------------------------------------
(* What is shown of a step: only of the new frames that they are in their place. *)
LEMMA StackedStep ==
  ASSUME SortTypes, Stacked, NEW w \in Workers, NEW k, Keeps(w, k),
         \A i \in k + 1..Len(stack'[w]) : Placed(stack'[w], i),
         stack'[w] # << >> => stack'[w][Len(stack'[w])].pc # "call"
  PROVE  Stacked'
<1> SUFFICES ASSUME NEW v \in Workers
             PROVE  /\ \A i \in 1..Len(stack'[v]) : Placed(stack'[v], i)
                    /\ stack'[v] # << >> => stack'[v][Len(stack'[v])].pc # "call"
  BY DEF Stacked
<1>1. CASE v # w
  BY <1>1 DEF Keeps, Stacked
<1>2. CASE v = w
  <2>1. k \in Nat /\ Len(stack[w]) \in Nat /\ Len(stack'[w]) \in Nat /\ k <= Len(stack[w])
    BY LenProperties DEF Keeps, SortTypes
  <2>2. ASSUME NEW i \in 1..Len(stack'[w]), i <= k PROVE Placed(stack'[w], i)
    <3>1. i \in 1..Len(stack[w]) /\ i \in 1..k /\ (i # 1 => i - 1 \in 1..k)
      BY <2>1, <2>2
    <3>2. Placed(stack[w], i)
      BY <3>1 DEF Stacked
    <3>3. stack'[w][i] = stack[w][i] /\ (i # 1 => stack'[w][i - 1] = stack[w][i - 1])
      BY <3>1 DEF Keeps
    <3> QED
      BY <3>2, <3>3 DEF Placed
  <2>3. ASSUME NEW i \in 1..Len(stack'[w]), ~ (i <= k) PROVE Placed(stack'[w], i)
    <3>1. i \in k + 1..Len(stack'[w])
      BY <2>1, <2>3
    <3> QED
      BY <3>1
  <2> QED
    BY <1>2, <2>2, <2>3
<1> QED
  BY <1>1, <1>2

(* A frame after the step is a new one or was there. *)
LEMMA OldOrNew ==
  ASSUME SortTypes, NEW w \in Workers, NEW k, Keeps(w, k),
         NEW v \in Workers, NEW i \in 1..Len(stack'[v])
  PROVE  \/ v = w /\ i \in k + 1..Len(stack'[w])
         \/ /\ i \in 1..Len(stack[v]) /\ stack'[v][i] = stack[v][i]
            /\ v # w \/ i <= k
<1>1. k \in Nat /\ Len(stack[w]) \in Nat /\ Len(stack'[w]) \in Nat /\ k <= Len(stack[w])
  BY LenProperties DEF Keeps, SortTypes
<1>2. CASE v # w
  BY <1>2 DEF Keeps
<1>3. CASE v = w /\ i <= k
  <2>1. i \in 1..k /\ i \in 1..Len(stack[w])
    BY <1>1, <1>3
  <2> QED
    BY <1>3, <2>1 DEF Keeps
<1>4. CASE v = w /\ ~ (i <= k)
  BY <1>1, <1>4
<1> QED
  BY <1>2, <1>3, <1>4

(* No two frames for one task or one call: what is new is like none that stays. *)
LEMMA OnceStep ==
  ASSUME SortTypes, OnceStacked, NEW w \in Workers, NEW k, Keeps(w, k),
         \A i \in k + 1..Len(stack'[w]), v \in Workers : \A j \in 1..Len(stack[v]) :
           v # w \/ j <= k => ~ Alike(stack'[w][i], stack[v][j]),
         \A i, j \in k + 1..Len(stack'[w]) : Alike(stack'[w][i], stack'[w][j]) => i = j
  PROVE  OnceStacked'
<1> SUFFICES ASSUME NEW v \in Workers, NEW u \in Workers,
                    NEW i \in 1..Len(stack'[v]), NEW j \in 1..Len(stack'[u]),
                    Alike(stack'[v][i], stack'[u][j])
             PROVE  v = u /\ i = j
  BY DEF OnceStacked, Alike
<1>1. CASE v = w /\ u = w /\ i \in k + 1..Len(stack'[w]) /\ j \in k + 1..Len(stack'[w])
  BY <1>1
<1>2. CASE /\ v = w /\ i \in k + 1..Len(stack'[w])
           /\ j \in 1..Len(stack[u]) /\ stack'[u][j] = stack[u][j] /\ (u # w \/ j <= k)
  BY <1>2
<1>3. CASE /\ u = w /\ j \in k + 1..Len(stack'[w])
           /\ i \in 1..Len(stack[v]) /\ stack'[v][i] = stack[v][i] /\ (v # w \/ i <= k)
  BY <1>3 DEF Alike
<1>4. CASE /\ i \in 1..Len(stack[v]) /\ stack'[v][i] = stack[v][i]
           /\ j \in 1..Len(stack[u]) /\ stack'[u][j] = stack[u][j]
  BY <1>4 DEF OnceStacked
<1> QED
  BY <1>1, <1>2, <1>3, <1>4, OldOrNew

(* The queues as they were: what replaces a frame is like it. *)
LEMMA NotBothStep ==
  ASSUME SortTypes, NotBoth, NEW w \in Workers, NEW k, Keeps(w, k), UNCHANGED queue,
         \A i \in k + 1..Len(stack'[w]), v \in Workers : \A j \in 1..Len(queue[v]) :
           ~ Alike(stack'[w][i], queue[v][j])
  PROVE  NotBoth'
<1> SUFFICES ASSUME NEW v \in Workers, NEW u \in Workers,
                    NEW i \in 1..Len(stack'[v]), NEW j \in 1..Len(queue[u])
             PROVE  ~ Alike(stack'[v][i], queue[u][j])
  BY DEF NotBoth, Alike
<1>1. CASE v = w /\ i \in k + 1..Len(stack'[w])
  BY <1>1
<1>2. CASE i \in 1..Len(stack[v]) /\ stack'[v][i] = stack[v][i]
  BY <1>2 DEF NotBoth
<1> QED
  BY <1>1, <1>2, OldOrNew

(* The frames hold what they are to hold: shown of the new ones, and of those that stay. *)
LEMMA FramesStep ==
  ASSUME SortTypes, NEW a, FramesOK(a), NEW b, NEW w \in Workers, NEW k, Keeps(w, k),
         \A i \in k + 1..Len(stack'[w]) : FrameOK(stack[w][i], b)',
         \A v \in Workers : \A i \in 1..Len(stack[v]) :
           /\ v # w \/ i <= k
           /\ FrameOK(stack[v][i], a)
           /\ stack'[v][i] = stack[v][i]
           => FrameOK(stack[v][i], b)'
  PROVE  FramesOK(b)'
<1> SUFFICES ASSUME NEW v \in Workers, NEW i \in 1..Len(stack'[v])
             PROVE  FrameOK(stack[v][i], b)'
  BY DEF FramesOK
<1>1. CASE v = w /\ i \in k + 1..Len(stack'[w])
  BY <1>1
<1>2. CASE i \in 1..Len(stack[v]) /\ stack'[v][i] = stack[v][i] /\ (v # w \/ i <= k)
  BY <1>2 DEF FramesOK
<1> QED
  BY <1>1, <1>2, OldOrNew

(* Every live call has its frame: shown of the calls that begin and of the frames that go. *)
LEMMA HeldStep ==
  ASSUME SortTypes, Held, NEW w \in Workers, NEW k, Keeps(w, k),
         \A c \in DOMAIN local' : \/ c \in DOMAIN local
                                  \/ \E j \in k + 1..Len(stack'[w]) : EnteredAt(w, j, c)',
         \A i \in k + 1..Len(stack[w]), c \in DOMAIN local' :
           EnteredAt(w, i, c) => \E j \in k + 1..Len(stack'[w]) : EnteredAt(w, j, c)'
  PROVE  Held'
<1>0. k \in Nat /\ Len(stack[w]) \in Nat /\ Len(stack'[w]) \in Nat /\ k <= Len(stack[w]) /\ k <= Len(stack'[w])
  BY LenProperties DEF Keeps, SortTypes
<1> SUFFICES ASSUME NEW c \in DOMAIN local'
             PROVE  \E v \in Workers : \E i \in 1..Len(stack'[v]) : EnteredAt(v, i, c)'
  BY DEF Held, EnteredAt
<1>1. CASE \E j \in k + 1..Len(stack'[w]) : EnteredAt(w, j, c)'
  <2>1. PICK j \in k + 1..Len(stack'[w]) : EnteredAt(w, j, c)'
    BY <1>1
  <2>2. j \in 1..Len(stack'[w])
    BY <1>0
  <2> QED
    BY <2>1, <2>2
<1>2. CASE c \in DOMAIN local /\ ~ \E j \in k + 1..Len(stack'[w]) : EnteredAt(w, j, c)'
  <2>1. PICK v \in Workers : \E i \in 1..Len(stack[v]) : EnteredAt(v, i, c)
    BY <1>2 DEF Held
  <2>5. PICK i \in 1..Len(stack[v]) : EnteredAt(v, i, c)
    BY <2>1
  <2>2. CASE v # w
    <3>1. stack'[v] = stack[v]
      BY <2>2 DEF Keeps
    <3>2. i \in 1..Len(stack'[v]) /\ EnteredAt(v, i, c)'
      BY <2>5, <3>1 DEF EnteredAt
    <3> QED
      BY <3>2
  <2>3. CASE v = w /\ i <= k
    <3>1. i \in 1..k /\ i \in 1..Len(stack'[w])
      BY <1>0, <2>3
    <3>2. stack'[w][i] = stack[w][i]
      BY <3>1 DEF Keeps
    <3>3. EnteredAt(w, i, c)'
      BY <2>5, <2>3, <3>2 DEF EnteredAt
    <3> QED
      BY <3>1, <3>3
  <2>4. CASE v = w /\ ~ (i <= k)
    <3>1. i \in k + 1..Len(stack[w])
      BY <1>0, <2>4
    <3> QED
      BY <1>2, <2>5, <2>4, <3>1
  <2> QED
    BY <2>2, <2>3, <2>4
<1> QED
  BY <1>1, <1>2

(* A frame is replaced by one of the same task or call; those above it go. *)
LEMMA ReplaceStep ==
  ASSUME SortTypes, Stacked, Once, UNCHANGED queue, NEW w \in Workers, NEW k \in 1..Len(stack[w]),
         Keeps(w, k - 1), Len(stack'[w]) = k,
         Alike(stack'[w][k], stack[w][k]), stack'[w][k].pc # "call"
  PROVE  Stacked' /\ Once'
<1>1. k \in Nat /\ k >= 1 /\ (k - 1) + 1 = k /\ k..k = {k} /\ Len(stack[w]) \in Nat /\ k <= Len(stack[w])
  BY LenProperties DEF SortTypes
<1>2. \A i \in (k - 1) + 1..Len(stack'[w]) : i = k
  BY <1>1
<1>3. \A j \in 1..k - 1 : j \in 1..Len(stack[w]) /\ j # k
  BY <1>1
<1>4. Placed(stack'[w], k)
  <2>1. Placed(stack[w], k)
    BY <1>1 DEF Stacked
  <2>2. k # 1 => stack'[w][k - 1] = stack[w][k - 1]
    <3>1. k # 1 => k - 1 \in 1..k - 1
      BY <1>1
    <3> QED
      BY <3>1 DEF Keeps
  <2>3. k = 1 => stack'[w][1].kind = stack[w][1].kind
    BY DEF Alike
  <2>4. k # 1 => OnTop(stack'[w][k - 1], stack'[w][k])
    BY <2>1, <2>2 DEF Placed, OnTop, Alike
  <2> QED
    BY <2>1, <2>3, <2>4 DEF Placed
<1>5. Stacked'
  BY <1>1, <1>2, <1>4, StackedStep
<1>6. OnceStacked'
  <2>1. \A i \in (k - 1) + 1..Len(stack'[w]), v \in Workers : \A j \in 1..Len(stack[v]) :
           v # w \/ j <= k - 1 => ~ Alike(stack'[w][i], stack[v][j])
    <3> SUFFICES ASSUME NEW v \in Workers, NEW j \in 1..Len(stack[v]), v # w \/ j <= k - 1,
                        Alike(stack'[w][k], stack[v][j])
                 PROVE  FALSE
      BY <1>2
    <3>1. Alike(stack[w][k], stack[v][j])
      BY DEF Alike
    <3>2. v = w /\ j = k
      BY <3>1 DEF Once, OnceStacked
    <3> QED
      BY <1>1, <3>2
  <2>2. \A i, j \in (k - 1) + 1..Len(stack'[w]) : i = j
    BY <1>2
  <2> QED
    BY <2>1, <2>2, OnceStep DEF Once
<1>7. NotBoth'
  <2>1. \A i \in (k - 1) + 1..Len(stack'[w]), v \in Workers : \A j \in 1..Len(queue[v]) :
           ~ Alike(stack'[w][i], queue[v][j])
    BY <1>2 DEF Once, NotBoth, Alike
  <2> QED
    BY <2>1, NotBothStep DEF Once
<1>8. OnceQueued'
  BY DEF Once, OnceQueued
<1> QED
  BY <1>5, <1>6, <1>7, <1>8 DEF Once

(* A task ends. *)
LEMMA PopStep ==
  ASSUME SortTypes, Stacked, Once, UNCHANGED queue, NEW w \in Workers, stack[w] # << >>,
         Top(w).kind = "task", Keeps(w, Len(stack[w]) - 1), Len(stack'[w]) = Len(stack[w]) - 1
  PROVE  Stacked' /\ Once'
<1> DEFINE k == Len(stack[w])
<1>1. k \in Nat /\ k >= 1 /\ k \in 1..k /\ Top(w) = stack[w][k] /\ (k # 1 => k - 1 \in 1..k - 1)
  BY Innermost, Before
<1>2. (k - 1) + 1..Len(stack'[w]) = {}
  BY <1>1
<1>3. stack'[w] # << >> => stack'[w][Len(stack'[w])].pc # "call"
  <2> SUFFICES ASSUME stack'[w] # << >> PROVE stack'[w][k - 1].pc # "call"
    OBVIOUS
  <2>1. k # 1
    <3>1. stack'[w] \in Seq(Frames)
      BY DEF Keeps
    <3>2. Len(stack'[w]) # 0
      BY <3>1, EmptySeq, LenProperties
    <3> QED
      BY <1>1, <3>2
  <2>2. Placed(stack[w], k)
    BY <1>1 DEF Stacked
  <2>3. stack[w][k - 1].pc = "wait"
    BY <1>1, <2>1, <2>2 DEF Placed, OnTop
  <2>4. stack'[w][k - 1] = stack[w][k - 1]
    BY <1>1, <2>1 DEF Keeps
  <2> QED
    BY <2>3, <2>4
<1>4. Stacked'
  BY <1>2, <1>3, StackedStep
<1>5. OnceStacked'
  BY <1>2, OnceStep DEF Once
<1>6. NotBoth'
  BY <1>2, NotBothStep DEF Once
<1>7. OnceQueued'
  BY DEF Once, OnceQueued
<1> QED
  BY <1>4, <1>5, <1>6, <1>7 DEF Once

(* What is under a call of par_quick_sort. *)
LEMMA UnderCall ==
  ASSUME SortTypes, Stacked, NEW w \in Workers, NEW i \in 1..Len(stack[w]), stack[w][i].kind = "sort"
  PROVE  /\ i - 1 \in 1..Len(stack[w]) /\ stack[w][i - 1] \in Frames /\ stack[w][i] \in SortFrames
         /\ \/ /\ stack[w][i - 1].kind = "task" /\ stack[w][i - 1].pc = "start"
               /\ stack[w][i - 1].call = stack[w][i].call
            \/ /\ stack[w][i - 1].kind = "sort" /\ stack[w][i - 1].pc = "call"
               /\ stack[w][i].call = Append(stack[w][i - 1].call, 2)
<1>1. stack[w] \in Seq(Frames) /\ i \in Nat /\ i >= 1 /\ Len(stack[w]) \in Nat
  BY LenProperties DEF SortTypes
<1>2. Placed(stack[w], i)
  BY DEF Stacked
<1>3. i # 1
  BY <1>2 DEF Placed
<1>4. i - 1 \in 1..Len(stack[w])
  BY <1>1, <1>3
<1>5. stack[w][i - 1] \in Frames /\ stack[w][i] \in Frames
  BY <1>1, <1>4, ElementOfSeq
<1>6. OnTop(stack[w][i - 1], stack[w][i])
  BY <1>2, <1>3 DEF Placed
<1>7. stack[w][i] \in SortFrames
  BY <1>5 DEF Frames, TaskFrames
<1> QED
  BY <1>4, <1>5, <1>6, <1>7 DEF OnTop

(* The names of calls. *)
LEMMA CallNames ==
  /\ Root \in Calls
  /\ \A c \in Calls : /\ Append(c, 1) \in Calls /\ Append(c, 2) \in Calls
                      /\ Append(c, 1) # Root /\ Append(c, 2) # Root
                      /\ Front(Append(c, 1)) = c /\ Len(Append(c, 1)) > Len(c) /\ Len(Append(c, 2)) > Len(c)
  /\ \A c, d \in Calls : /\ Append(c, 1) # Append(d, 2)
                         /\ Append(c, 1) = Append(d, 1) => c = d
                         /\ Append(c, 2) = Append(d, 2) => c = d
  /\ \A c \in Calls : Len(c) \in Nat
<1>1. ASSUME NEW c \in Calls, NEW i \in {1, 2}
      PROVE  /\ Append(c, i) \in Calls /\ Append(c, i) # Root /\ Len(Append(c, i)) = Len(c) + 1
             /\ Len(c) \in Nat /\ Append(c, i)[Len(c) + 1] = i /\ Front(Append(c, i)) = c
  <2>1. /\ Append(c, i) \in Seq({1, 2}) /\ Len(Append(c, i)) = Len(c) + 1
        /\ Append(c, i)[Len(c) + 1] = i /\ Len(c) \in Nat
        /\ \A j \in 1..Len(c) : Append(c, i)[j] = c[j]
    BY AppendProperties, LenProperties DEF Calls
  <2>2. Append(c, i) # << >>
    <3>1. Len(Append(c, i)) # 0
      BY <2>1
    <3>2. Len(<< >>) = 0
      OBVIOUS
    <3> HIDE DEF Calls
    <3> DEFINE b == Append(c, i)
    <3> HIDE DEF b
    <3>3. b # << >>
      BY <3>1, <3>2 DEF b
    <3> QED
      BY <3>3 DEF b
  <2>3. /\ Front(Append(c, i)) \in Seq({1, 2}) /\ Len(Front(Append(c, i))) = Len(Append(c, i)) - 1
        /\ \A j \in 1..Len(Append(c, i)) - 1 : Front(Append(c, i))[j] = Append(c, i)[j]
    BY <2>1, <2>2, LastFront
  <2>4. Len(Append(c, i)) - 1 = Len(c)
    BY <2>1
  <2>5. Front(Append(c, i)) = c
    BY <2>1, <2>3, <2>4, SeqEqual DEF Calls
  <2> QED
    BY <2>1, <2>2, <2>5 DEF Root, Calls
<1>2. ASSUME NEW c \in Calls, NEW d \in Calls, NEW i \in {1, 2}, NEW j \in {1, 2}, Append(c, i) = Append(d, j)
      PROVE  c = d /\ i = j
  <2>1. Front(Append(c, i)) = c /\ Front(Append(d, j)) = d
    BY <1>1
  <2>2. c = d
    BY <1>2, <2>1
  <2>3. Append(c, i)[Len(c) + 1] = i /\ Append(d, j)[Len(d) + 1] = j
    BY <1>1
  <2> QED
    BY <1>2, <2>2, <2>3
<1>3. Root \in Calls
  BY DEF Root, Calls
<1>4. \A c, d \in Calls : Append(c, 1) # Append(d, 2)
  BY <1>2
<1>5. \A c, d \in Calls : (Append(c, 1) = Append(d, 1) => c = d) /\ (Append(c, 2) = Append(d, 2) => c = d)
  BY <1>2
<1>6. \A c \in Calls : /\ Append(c, 1) \in Calls /\ Append(c, 2) \in Calls
                       /\ Append(c, 1) # Root /\ Append(c, 2) # Root /\ Front(Append(c, 1)) = c
                       /\ Len(Append(c, 1)) = Len(c) + 1 /\ Len(Append(c, 2)) = Len(c) + 1 /\ Len(c) \in Nat
  BY <1>1
<1> QED
  BY <1>3, <1>4, <1>5, <1>6

(* The frames of a worker, and that there is one root task. *)
LEMMA FrameTypes ==
  ASSUME SortTypes, NEW w \in Workers, NEW i \in 1..Len(stack[w])
  PROVE  /\ stack[w][i] \in Frames
         /\ stack[w][i].kind = "task" => stack[w][i] \in TaskFrames
         /\ stack[w][i].kind # "task" => stack[w][i] \in SortFrames /\ stack[w][i].kind = "sort"
<1>1. stack[w][i] \in Frames
  BY ElementOfSeq DEF SortTypes
<1> QED
  BY <1>1 DEF Frames, TaskFrames, SortFrames

(* The root's task is alone with its name but for the call it has just made. *)
LEMMA RootAlone ==
  ASSUME SortTypes, Stacked, Once, NEW w \in Workers, NEW k \in 1..Len(stack[w]),
         stack[w][k].kind = "task", stack[w][k].call = Root,
         NEW v \in Workers, NEW i \in 1..Len(stack[v]), stack[v][i].call = Root, v # w \/ i # k
  PROVE  stack[v][i].kind = "sort" /\ stack[w][k].pc = "start" /\ v = w /\ i = k + 1
<1>1. ~ Alike(stack[v][i], stack[w][k])
  BY DEF Once, OnceStacked
<1>2. stack[v][i].kind = "sort"
  BY <1>1, FrameTypes DEF Alike
<1>3. i - 1 \in 1..Len(stack[v]) /\ stack[v][i - 1] \in Frames
  BY <1>2, UnderCall
<1>4. \/ stack[v][i - 1].kind = "task" /\ stack[v][i - 1].pc = "start" /\ stack[v][i - 1].call = Root
      \/ Root = Append(stack[v][i - 1].call, 2)
  BY <1>2, UnderCall
<1>5. stack[v][i - 1].call \in Calls
  BY <1>3 DEF Frames, TaskFrames, SortFrames
<1>6. stack[v][i - 1].kind = "task" /\ stack[v][i - 1].pc = "start" /\ stack[v][i - 1].call = Root
  BY <1>4, <1>5, CallNames
<1>7. Alike(stack[v][i - 1], stack[w][k])
  BY <1>6 DEF Alike
<1>8. v = w /\ i - 1 = k
  BY <1>3, <1>7 DEF Once, OnceStacked
<1>9. i \in Nat
  BY LenProperties DEF SortTypes
<1>10. stack[w][k].pc = "start"
  BY <1>6, <1>8
<1>11. i = k + 1
  BY <1>8, <1>9
<1> QED
  BY <1>2, <1>8, <1>10, <1>11

(* The root's task unlocks the mutex. *)
LEMMA UnlockStep ==
  ASSUME NEW a, SortInvFor(a), NEW w \in Workers, Unlock(w)
  PROVE  SortInvFor(a)'
<1> DEFINE k == Len(stack[w])
           f == stack[w][k]
<1>0. SortTypes /\ Stacked /\ Once /\ Held /\ MainOK /\ ListsOK(a)
  BY DEF SortInvFor
<1>1. /\ stack[w] # << >> /\ Top(w).kind = "task" /\ Top(w).pc = "unlock" /\ mtx' = "none"
      /\ stack' = Replaced(w, [Top(w) EXCEPT !.pc = "notify"])
      /\ UNCHANGED <<input, queue, global, local, main, done, ret, late>>
  BY DEF Unlock, In, mainVars
<1>2. k \in Nat /\ k >= 1 /\ k \in 1..k /\ Top(w) = f /\ f \in TaskFrames
  BY <1>0, <1>1, Innermost, FrameTypes
<1>3. f.call = Root /\ RootOK(f, a)
  BY <1>0, <1>1, <1>2 DEF ListsOK, FramesOK, FrameOK, TaskOK, LowerOK
<1> DEFINE g == [f EXCEPT !.pc = "notify"]
<1>4. g \in Frames /\ g.kind = "task" /\ g.call = Root /\ g.pc = "notify"
  BY <1>2, <1>3 DEF Frames, TaskFrames
<1>5. Keeps(w, k - 1) /\ Len(stack'[w]) = k /\ stack'[w][k] = g
  BY <1>0, <1>1, <1>2, <1>4, Replaces DEF Replaced
<1> HIDE DEF g, f
<1>6. Stacked' /\ Once'
  <2>1. Alike(stack'[w][k], stack[w][k]) /\ stack'[w][k].pc # "call"
    BY <1>1, <1>2, <1>3, <1>4, <1>5 DEF Alike, f
  <2> QED
    BY <1>0, <1>1, <1>2, <1>5, <2>1, ReplaceStep
<1>7. \A i \in (k - 1) + 1..k : i = k
  BY <1>2
<1>8. Held'
  <2>1. \A i \in (k - 1) + 1..Len(stack[w]), c \in DOMAIN local' : ~ EnteredAt(w, i, c)
    BY <1>1, <1>2, <1>7 DEF EnteredAt, f
  <2> QED
    BY <1>0, <1>1, <1>5, <2>1, HeldStep
<1>9. FramesOK(a)'
  <2>1. FrameOK(stack[w][k], a)'
    BY <1>1, <1>2, <1>3, <1>4, <1>5 DEF FrameOK, TaskOK, RootOK, Waits
  <2>2. ASSUME NEW v \in Workers, NEW i \in 1..Len(stack[v]), v # w \/ i <= k - 1,
               FrameOK(stack[v][i], a), stack'[v][i] = stack[v][i]
        PROVE  FrameOK(stack[v][i], a)'
    <3>1. v # w \/ i # k
      BY <1>2, <2>2
    <3>2. stack[v][i].call # Root
      BY <1>0, <1>1, <1>2, <1>3, <3>1, RootAlone DEF f
    <3> QED
      BY <1>1, <2>2, <3>2 DEF FrameOK, TaskOK, LowerOK, CallOK
  <2> QED
    BY <1>0, <1>5, <1>7, <2>1, <2>2, FramesStep DEF ListsOK
<1>10. ListsOK(a)'
  BY <1>0, <1>1, <1>9 DEF ListsOK, QueuesOK, DoneOK, LowerOK
<1>11. SortTypes' /\ MainOK'
  BY <1>0, <1>1, <1>5 DEF SortTypes, MainOK, Keeps, Waits
<1> QED
  BY <1>6, <1>8, <1>10, <1>11 DEF SortInvFor

(* A task writes the result: into ret or into its call's lower_sorted. *)
LEMMA WriteStep ==
  ASSUME NEW a, SortInvFor(a), NEW w \in Workers, Write(w)
  PROVE  SortInvFor(a)'
<1> DEFINE k == Len(stack[w])
           f == stack[w][k]
           g == [f EXCEPT !.pc = "store"]
<1>0. SortTypes /\ Stacked /\ Once /\ Held /\ MainOK /\ ListsOK(a)
  BY DEF SortInvFor
<1>1. /\ stack[w] # << >> /\ Top(w).kind = "task" /\ Top(w).pc = "write"
      /\ stack' = Replaced(w, [Top(w) EXCEPT !.pc = "store"])
      /\ UNCHANGED <<input, queue, global, main, mtx, done>>
  BY DEF Write, In
<1>2. k \in Nat /\ k >= 1 /\ k \in 1..k /\ Top(w) = f /\ f \in TaskFrames
  BY <1>0, <1>1, Innermost, FrameTypes
<1>3. FrameOK(f, a)
  BY <1>0, <1>2 DEF ListsOK, FramesOK
<1>4. g \in Frames /\ g.kind = "task" /\ g.call = f.call /\ g.pc = "store" /\ f.list \in Seq(Int) /\ f.call \in Calls
  BY <1>2 DEF Frames, TaskFrames
<1>5. Keeps(w, k - 1) /\ Len(stack'[w]) = k /\ stack'[w][k] = g
  BY <1>0, <1>1, <1>2, <1>4, Replaces DEF Replaced
<1>6. f.kind = "task" /\ f.pc = "write"
  BY <1>1, <1>2
<1> HIDE DEF g, f
<1>7. Alike(stack'[w][k], stack[w][k]) /\ stack'[w][k].pc # "call"
  BY <1>4, <1>5, <1>6 DEF Alike, f
<1>8. Stacked' /\ Once'
  BY <1>0, <1>1, <1>2, <1>5, <1>7, ReplaceStep
<1>9. \A i \in (k - 1) + 1..k : i = k
  BY <1>2
<1>10. CASE f.call = Root
  <2>1. RootOK(f, a)
    BY <1>3, <1>6, <1>10 DEF FrameOK, TaskOK
  <2>2. ret' = f.list /\ UNCHANGED <<local, late>>
    BY <1>1, <1>2, <1>6, <1>10, <2>1 DEF Write, Touch, Alive, RootOK, Waits
  <2>3. Held'
    <3>1. \A i \in (k - 1) + 1..Len(stack[w]), c \in DOMAIN local' : ~ EnteredAt(w, i, c)
      BY <1>6, <1>9 DEF EnteredAt, f
    <3> QED
      BY <1>0, <1>5, <2>2, <3>1, HeldStep
  <2>4. FramesOK(a)'
    <3>1. FrameOK(stack[w][k], a)'
      BY <1>1, <1>4, <1>5, <1>6, <1>10, <2>1, <2>2 DEF FrameOK, TaskOK, RootOK, Waits
    <3>2. ASSUME NEW v \in Workers, NEW i \in 1..Len(stack[v]), v # w \/ i <= k - 1,
                 FrameOK(stack[v][i], a), stack'[v][i] = stack[v][i]
          PROVE  FrameOK(stack[v][i], a)'
      <4>1. v # w \/ i # k
        BY <1>2, <3>2
      <4>2. stack[v][i].call # Root
        BY <1>0, <1>2, <1>6, <1>10, <4>1, RootAlone DEF f
      <4> QED
        BY <1>1, <2>2, <3>2, <4>2 DEF FrameOK, TaskOK, LowerOK, CallOK
    <3> QED
      BY <1>0, <1>5, <1>9, <3>1, <3>2, FramesStep DEF ListsOK
  <2>5. ListsOK(a)'
    BY <1>0, <1>1, <2>2, <2>4 DEF ListsOK, QueuesOK, DoneOK, LowerOK
  <2>6. SortTypes'
    BY <1>0, <1>1, <1>4, <1>5, <2>2 DEF SortTypes, Keeps
  <2>7. MainOK'
    BY <1>0, <1>1, <1>6, <2>1, <2>2 DEF MainOK, Waits, RootOK
  <2> QED
    BY <1>8, <2>3, <2>5, <2>6, <2>7 DEF SortInvFor
<1>11. CASE f.call # Root
  <2>1. PICK c \in Calls : LowerOK(f, c, a)
    BY <1>3, <1>6, <1>11 DEF FrameOK, TaskOK
  <2>2. c \in DOMAIN local /\ f.call = Append(c, 1) /\ ~local[c].done /\ Parent(f.call) = c
    BY <2>1, CallNames DEF LowerOK, Parent
  <2>3. local' = [local EXCEPT ![c].lower_sorted = f.list] /\ UNCHANGED <<ret, late>>
    BY <1>1, <1>2, <1>11, <2>2 DEF Write, Touch, Alive
  <2>4. local \in [DOMAIN local -> Locals] /\ DOMAIN local \subseteq Calls
    BY <1>0 DEF SortTypes
  <2>5. /\ DOMAIN local' = DOMAIN local
        /\ local'[c].lower_sorted = f.list /\ local'[c].done = local[c].done
        /\ \A d \in DOMAIN local : d # c => local'[d] = local[d]
        /\ local' \in [DOMAIN local' -> Locals]
    BY <1>4, <2>2, <2>3, <2>4 DEF Locals
  <2>6. Held'
    <3>1. \A i \in (k - 1) + 1..Len(stack[w]), d \in DOMAIN local' : ~ EnteredAt(w, i, d)
      BY <1>6, <1>9 DEF EnteredAt, f
    <3> QED
      BY <1>0, <1>5, <2>5, <3>1, HeldStep
  <2>7. ASSUME NEW t, NEW d \in Calls, LowerOK(t, d, a), t.call # f.call PROVE LowerOK(t, d, a)'
    <3>1. d \in DOMAIN local /\ d # c
      BY <2>2, <2>7 DEF LowerOK
    <3> QED
      BY <2>5, <2>7, <3>1 DEF LowerOK
  <2>8. FramesOK(a)'
    <3>1. FrameOK(stack[w][k], a)'
      <4>1. SortedOf(f.list, a[f.call])
        BY <1>6, <2>1 DEF LowerOK
      <4>2. LowerOK(stack[w][k], c, a)'
        BY <1>4, <1>5, <2>2, <2>5, <4>1 DEF LowerOK
      <4> QED
        BY <1>4, <1>5, <1>11, <4>2 DEF FrameOK, TaskOK
    <3>2. ASSUME NEW v \in Workers, NEW i \in 1..Len(stack[v]), v # w \/ i <= k - 1,
                 FrameOK(stack[v][i], a), stack'[v][i] = stack[v][i]
          PROVE  FrameOK(stack[v][i], a)'
      <4>1. v # w \/ i # k
        BY <1>2, <3>2
      <4>2. ~ Alike(stack[v][i], f)
        BY <1>0, <1>2, <4>1 DEF f, Once, OnceStacked
      <4>3. CASE stack[v][i].kind # "task"
        BY <1>1, <2>5, <3>2, <4>3 DEF FrameOK, CallOK
      <4>4. CASE stack[v][i].kind = "task" /\ stack[v][i].call = Root
        BY <1>1, <2>3, <3>2, <4>4 DEF FrameOK, TaskOK, RootOK, Waits
      <4>5. CASE stack[v][i].kind = "task" /\ stack[v][i].call # Root
        <5>1. stack[v][i].call # f.call
          BY <1>6, <4>2, <4>5 DEF Alike
        <5>2. PICK d \in Calls : LowerOK(stack[v][i], d, a)
          BY <3>2, <4>5 DEF FrameOK, TaskOK
        <5>3. LowerOK(stack[v][i], d, a)'
          BY <2>7, <3>2, <5>1, <5>2
        <5> QED
          BY <3>2, <4>5, <5>3 DEF FrameOK, TaskOK
      <4> QED
        BY <4>3, <4>4, <4>5
    <3> QED
      BY <1>0, <1>5, <1>9, <3>1, <3>2, FramesStep DEF ListsOK
  <2>9. QueuesOK(a)'
    <3> SUFFICES ASSUME NEW v \in Workers, NEW i \in 1..Len(queue[v])
                 PROVE  queue[v][i].pc = "start" /\ \E d \in Calls : LowerOK(queue[v][i], d, a)'
      BY <1>1 DEF QueuesOK
    <3>1. ~ Alike(f, queue[v][i])
      BY <1>0, <1>2 DEF f, Once, NotBoth
    <3>2. queue[v][i] \in TaskFrames
      BY <1>0, ElementOfSeq DEF SortTypes
    <3>3. queue[v][i].call # f.call
      BY <1>6, <3>1, <3>2 DEF Alike, TaskFrames
    <3>4. queue[v][i].pc = "start" /\ \E d \in Calls : LowerOK(queue[v][i], d, a)
      BY <1>0 DEF ListsOK, QueuesOK
    <3>5. PICK d \in Calls : LowerOK(queue[v][i], d, a)
      BY <3>4
    <3>6. LowerOK(queue[v][i], d, a)'
      BY <1>1, <2>7, <3>3, <3>5
    <3> QED
      BY <3>4, <3>6
  <2>10. ListsOK(a)'
    BY <1>0, <1>1, <2>2, <2>5, <2>8, <2>9 DEF ListsOK, DoneOK
  <2>11. SortTypes'
    BY <1>0, <1>1, <1>5, <2>3, <2>4, <2>5 DEF SortTypes, Keeps
  <2>12. MainOK'
    BY <1>0, <1>1, <2>3 DEF MainOK, Waits
  <2> QED
    BY <1>8, <2>6, <2>10, <2>11, <2>12 DEF SortInvFor
<1> QED
  BY <1>10, <1>11

(* A task stores done: the root's goes on, a lower part's ends. *)
LEMMA StoreStep ==
  ASSUME NEW a, SortInvFor(a), NEW w \in Workers, Store(w)
  PROVE  SortInvFor(a)'
<1> DEFINE k == Len(stack[w])
           f == stack[w][k]
           g == [f EXCEPT !.pc = "unlock"]
<1>0. SortTypes /\ Stacked /\ Once /\ Held /\ MainOK /\ ListsOK(a)
  BY DEF SortInvFor
<1>1. /\ stack[w] # << >> /\ Top(w).kind = "task" /\ Top(w).pc = "store"
      /\ UNCHANGED <<input, queue, global, main, mtx, ret>>
  BY DEF Store, In
<1>2. k \in Nat /\ k >= 1 /\ k \in 1..k /\ Top(w) = f /\ f \in TaskFrames
  BY <1>0, <1>1, Innermost, FrameTypes
<1>3. FrameOK(f, a)
  BY <1>0, <1>2 DEF ListsOK, FramesOK
<1>4. g \in Frames /\ g.kind = "task" /\ g.call = f.call /\ g.pc = "unlock" /\ f.list \in Seq(Int) /\ f.call \in Calls
  BY <1>2 DEF Frames, TaskFrames
<1>5. f.kind = "task" /\ f.pc = "store"
  BY <1>1, <1>2
<1> HIDE DEF g, f
<1>6. \A i \in (k - 1) + 1..k : i = k
  BY <1>2
<1>7. CASE f.call = Root
  <2>1. RootOK(f, a)
    BY <1>3, <1>5, <1>7 DEF FrameOK, TaskOK
  <2>2. /\ done' = TRUE /\ UNCHANGED <<local, late>>
        /\ stack' = Replaced(w, g)
    BY <1>1, <1>2, <1>5, <1>7, <2>1 DEF Store, Touch, Alive, RootOK, Waits, g
  <2>3. Keeps(w, k - 1) /\ Len(stack'[w]) = k /\ stack'[w][k] = g
    BY <1>0, <1>1, <1>2, <1>4, <2>2, Replaces DEF Replaced
  <2>4. Stacked' /\ Once'
    <3>1. Alike(stack'[w][k], stack[w][k]) /\ stack'[w][k].pc # "call"
      BY <1>4, <1>5, <2>3 DEF Alike, f
    <3> QED
      BY <1>0, <1>1, <1>2, <2>3, <3>1, ReplaceStep
  <2>5. Held'
    <3>1. \A i \in (k - 1) + 1..Len(stack[w]), c \in DOMAIN local' : ~ EnteredAt(w, i, c)
      BY <1>5, <1>6 DEF EnteredAt, f
    <3> QED
      BY <1>0, <2>2, <2>3, <3>1, HeldStep
  <2>6. FramesOK(a)'
    <3>1. FrameOK(stack[w][k], a)'
      BY <1>1, <1>4, <1>5, <1>7, <2>1, <2>2, <2>3 DEF FrameOK, TaskOK, RootOK, Waits
    <3>2. ASSUME NEW v \in Workers, NEW i \in 1..Len(stack[v]), v # w \/ i <= k - 1,
                 FrameOK(stack[v][i], a), stack'[v][i] = stack[v][i]
          PROVE  FrameOK(stack[v][i], a)'
      <4>1. v # w \/ i # k
        BY <1>2, <3>2
      <4>2. stack[v][i].call # Root
        BY <1>0, <1>2, <1>5, <1>7, <4>1, RootAlone DEF f
      <4> QED
        BY <1>1, <2>2, <3>2, <4>2 DEF FrameOK, TaskOK, LowerOK, CallOK
    <3> QED
      BY <1>0, <1>6, <2>3, <3>1, <3>2, FramesStep DEF ListsOK
  <2>7. ListsOK(a)'
    BY <1>0, <1>1, <2>2, <2>6 DEF ListsOK, QueuesOK, DoneOK, LowerOK
  <2>8. SortTypes'
    BY <1>0, <1>1, <2>2, <2>3 DEF SortTypes, Keeps
  <2>9. MainOK'
    BY <1>0, <1>1, <1>5, <2>1, <2>2 DEF MainOK, Waits, RootOK, ListsOK
  <2> QED
    BY <2>4, <2>5, <2>7, <2>8, <2>9 DEF SortInvFor
<1>8. CASE f.call # Root
  <2>1. PICK c \in Calls : LowerOK(f, c, a)
    BY <1>3, <1>5, <1>8 DEF FrameOK, TaskOK
  <2>2. c \in DOMAIN local /\ f.call = Append(c, 1) /\ ~local[c].done /\ Parent(f.call) = c
    BY <2>1, CallNames DEF LowerOK, Parent
  <2>3. /\ local' = [local EXCEPT ![c].done = TRUE] /\ UNCHANGED <<done, late>>
        /\ stack' = [stack EXCEPT ![w] = Front(@)]
    BY <1>1, <1>2, <1>8, <2>2 DEF Store, Touch, Alive
  <2>4. local \in [DOMAIN local -> Locals] /\ DOMAIN local \subseteq Calls
    BY <1>0 DEF SortTypes
  <2>5. /\ DOMAIN local' = DOMAIN local
        /\ local'[c].lower_sorted = local[c].lower_sorted
        /\ \A d \in DOMAIN local : d # c => local'[d] = local[d]
        /\ local' \in [DOMAIN local' -> Locals]
    BY <2>2, <2>3, <2>4 DEF Locals
  <2>6. Keeps(w, k - 1) /\ Len(stack'[w]) = k - 1
    BY <1>0, <1>1, <2>3, Pops
  <2>7. (k - 1) + 1..Len(stack'[w]) = {}
    BY <1>2, <2>6
  <2>8. Stacked' /\ Once'
    BY <1>0, <1>1, <2>6, PopStep
  <2>9. Held'
    <3>1. \A i \in (k - 1) + 1..Len(stack[w]), d \in DOMAIN local' : ~ EnteredAt(w, i, d)
      BY <1>5, <1>6 DEF EnteredAt, f
    <3> QED
      BY <1>0, <2>5, <2>6, <3>1, HeldStep
  <2>10. ASSUME NEW t, NEW d \in Calls, LowerOK(t, d, a), t.call # f.call PROVE LowerOK(t, d, a)'
    <3>1. d \in DOMAIN local /\ d # c
      BY <2>2, <2>10 DEF LowerOK
    <3> QED
      BY <2>5, <2>10, <3>1 DEF LowerOK
  <2>11. FramesOK(a)'
    <3>1. ASSUME NEW v \in Workers, NEW i \in 1..Len(stack[v]), v # w \/ i <= k - 1,
                 FrameOK(stack[v][i], a), stack'[v][i] = stack[v][i]
          PROVE  FrameOK(stack[v][i], a)'
      <4>1. v # w \/ i # k
        BY <1>2, <3>1
      <4>2. ~ Alike(stack[v][i], f)
        BY <1>0, <1>2, <4>1 DEF f, Once, OnceStacked
      <4>3. CASE stack[v][i].kind # "task"
        BY <1>1, <2>5, <3>1, <4>3 DEF FrameOK, CallOK
      <4>4. CASE stack[v][i].kind = "task" /\ stack[v][i].call = Root
        BY <1>1, <2>3, <3>1, <4>4 DEF FrameOK, TaskOK, RootOK, Waits
      <4>5. CASE stack[v][i].kind = "task" /\ stack[v][i].call # Root
        <5>1. stack[v][i].call # f.call
          BY <1>5, <4>2, <4>5 DEF Alike
        <5>2. PICK d \in Calls : LowerOK(stack[v][i], d, a)
          BY <3>1, <4>5 DEF FrameOK, TaskOK
        <5>3. LowerOK(stack[v][i], d, a)'
          BY <2>10, <3>1, <5>1, <5>2
        <5> QED
          BY <3>1, <4>5, <5>3 DEF FrameOK, TaskOK
      <4> QED
        BY <4>3, <4>4, <4>5
    <3> QED
      BY <1>0, <2>6, <2>7, <3>1, FramesStep DEF ListsOK
  <2>12. QueuesOK(a)'
    <3> SUFFICES ASSUME NEW v \in Workers, NEW i \in 1..Len(queue[v])
                 PROVE  queue[v][i].pc = "start" /\ \E d \in Calls : LowerOK(queue[v][i], d, a)'
      BY <1>1 DEF QueuesOK
    <3>1. ~ Alike(f, queue[v][i])
      BY <1>0, <1>2 DEF f, Once, NotBoth
    <3>2. queue[v][i] \in TaskFrames
      BY <1>0, ElementOfSeq DEF SortTypes
    <3>3. queue[v][i].call # f.call
      BY <1>5, <3>1, <3>2 DEF Alike, TaskFrames
    <3>4. queue[v][i].pc = "start" /\ \E d \in Calls : LowerOK(queue[v][i], d, a)
      BY <1>0 DEF ListsOK, QueuesOK
    <3>5. PICK d \in Calls : LowerOK(queue[v][i], d, a)
      BY <3>4
    <3>6. LowerOK(queue[v][i], d, a)'
      BY <1>1, <2>10, <3>3, <3>5
    <3> QED
      BY <3>4, <3>6
  <2>13. DoneOK(a)'
    <3>1. SortedOf(local[c].lower_sorted, a[Append(c, 1)])
      BY <1>5, <2>1, <2>2 DEF LowerOK
    <3>2. \A d \in DOMAIN local : local[d].done => SortedOf(local[d].lower_sorted, a[Append(d, 1)])
      BY <1>0 DEF ListsOK, DoneOK
    <3> QED
      BY <2>5, <3>1, <3>2 DEF DoneOK
  <2>14. ListsOK(a)'
    BY <1>0, <1>1, <2>11, <2>12, <2>13 DEF ListsOK
  <2>15. SortTypes'
    BY <1>0, <1>1, <2>3, <2>4, <2>5, <2>6 DEF SortTypes, Keeps
  <2>16. MainOK'
    BY <1>0, <1>1, <2>3 DEF MainOK, Waits
  <2> QED
    BY <2>8, <2>9, <2>14, <2>15, <2>16 DEF SortInvFor
<1> QED
  BY <1>7, <1>8

(* The root's task notifies do_sort(), which may be gone. *)
LEMMA NotifyStep ==
  ASSUME NEW a, SortInvFor(a), NEW w \in Workers, Notify(w)
  PROVE  SortInvFor(a)'
<1> DEFINE k == Len(stack[w])
           f == stack[w][k]
<1>0. SortTypes /\ Stacked /\ Once /\ Held /\ MainOK /\ ListsOK(a)
  BY DEF SortInvFor
<1>1. /\ stack[w] # << >> /\ Top(w).kind = "task" /\ Top(w).pc = "notify"
      /\ late' \in {late, late \cup {"cv"}}
      /\ main' = IF main = "asleep" THEN "lock" ELSE main
      /\ stack' = [stack EXCEPT ![w] = Front(@)]
      /\ UNCHANGED <<input, queue, global, local, mtx, done, ret>>
  BY DEF Notify, In, Touch
<1>2. k \in Nat /\ k >= 1 /\ k \in 1..k /\ Top(w) = f /\ f \in TaskFrames
  BY <1>0, <1>1, Innermost, FrameTypes
<1>3. f.call = Root
  BY <1>0, <1>1, <1>2 DEF ListsOK, FramesOK, FrameOK, TaskOK, LowerOK
<1>4. f.kind = "task" /\ f.pc = "notify"
  BY <1>1, <1>2
<1> HIDE DEF f
<1>5. Keeps(w, k - 1) /\ Len(stack'[w]) = k - 1
  BY <1>0, <1>1, Pops
<1>6. (k - 1) + 1..Len(stack'[w]) = {} /\ \A i \in (k - 1) + 1..k : i = k
  BY <1>2, <1>5
<1>7. Stacked' /\ Once'
  BY <1>0, <1>1, <1>5, PopStep
<1>8. Held'
  <2>1. \A i \in (k - 1) + 1..Len(stack[w]), c \in DOMAIN local' : ~ EnteredAt(w, i, c)
    BY <1>4, <1>6 DEF EnteredAt, f
  <2> QED
    BY <1>0, <1>1, <1>5, <2>1, HeldStep
<1>9. FramesOK(a)'
  <2>1. ASSUME NEW v \in Workers, NEW i \in 1..Len(stack[v]), v # w \/ i <= k - 1,
               FrameOK(stack[v][i], a), stack'[v][i] = stack[v][i]
        PROVE  FrameOK(stack[v][i], a)'
    <3>1. v # w \/ i # k
      BY <1>2, <2>1
    <3>2. stack[v][i].call # Root
      BY <1>0, <1>2, <1>3, <1>4, <3>1, RootAlone DEF f
    <3> QED
      BY <1>1, <2>1, <3>2 DEF FrameOK, TaskOK, LowerOK, CallOK
  <2> QED
    BY <1>0, <1>5, <1>6, <2>1, FramesStep DEF ListsOK
<1>10. ListsOK(a)'
  BY <1>0, <1>1, <1>9 DEF ListsOK, QueuesOK, DoneOK, LowerOK
<1>11. SortTypes' /\ MainOK'
  BY <1>0, <1>1, <1>5 DEF SortTypes, MainOK, Keeps, Waits
<1> QED
  BY <1>7, <1>8, <1>10, <1>11 DEF SortInvFor

(* There is no call of par_quick_sort for the list of a task that has not started. *)
LEMMA NoCallYet ==
  ASSUME SortTypes, Stacked, Once, NEW w \in Workers, stack[w] # << >>, Top(w).kind = "task",
         Top(w).call = Root \/ \E c \in Calls : Top(w).call = Append(c, 1),
         NEW v \in Workers, NEW i \in 1..Len(stack[v]), stack[v][i].kind = "sort"
  PROVE  stack[v][i].call # Top(w).call
<1> DEFINE k == Len(stack[w])
<1>1. k \in Nat /\ k >= 1 /\ k \in 1..k /\ Top(w) = stack[w][k]
  BY Innermost
<1> SUFFICES ASSUME stack[v][i].call = Top(w).call PROVE FALSE
  OBVIOUS
<1>2. i - 1 \in 1..Len(stack[v]) /\ stack[v][i - 1] \in Frames /\ i \in Nat
  BY UnderCall, LenProperties
<1>3. stack[v][i - 1].call \in Calls
  BY <1>2 DEF Frames, TaskFrames, SortFrames
<1>4. stack[v][i - 1].kind = "task" /\ stack[v][i - 1].call = stack[v][i].call
  <2>1. \/ stack[v][i - 1].kind = "task" /\ stack[v][i - 1].call = stack[v][i].call
        \/ stack[v][i].call = Append(stack[v][i - 1].call, 2)
    BY UnderCall
  <2> QED
    BY <1>3, <2>1, CallNames
<1>5. Alike(stack[v][i - 1], stack[w][k])
  BY <1>1, <1>4 DEF Alike
<1>6. v = w /\ i - 1 = k
  BY <1>1, <1>2, <1>5 DEF Once, OnceStacked
<1> QED
  BY <1>1, <1>2, <1>6

(* A task calls par_quick_sort. *)
LEMMA StartStep ==
  ASSUME NEW a, SortInvFor(a), NEW w \in Workers, Start(w)
  PROVE  SortInvFor(a)'
<1> DEFINE k == Len(stack[w])
           f == stack[w][k]
           g == SortFrame(f.call, f.list)
<1>0. SortTypes /\ Stacked /\ Once /\ Held /\ MainOK /\ ListsOK(a)
  BY DEF SortInvFor
<1>1. /\ stack[w] # << >> /\ Top(w).kind = "task" /\ Top(w).pc = "start"
      /\ mtx' = IF Top(w).call = Root THEN "task" ELSE mtx
      /\ stack' = Pushed(w, SortFrame(Top(w).call, Top(w).list))
      /\ UNCHANGED <<input, queue, global, local, main, done, ret, late>>
  BY DEF Start, In
<1>2. k \in Nat /\ k >= 1 /\ k \in 1..k /\ Top(w) = f /\ f \in TaskFrames
  BY <1>0, <1>1, Innermost, FrameTypes
<1>3. FrameOK(f, a)
  BY <1>0, <1>2 DEF ListsOK, FramesOK
<1>4. g \in Frames /\ g.kind = "sort" /\ g.call = f.call /\ g.list = f.list /\ g.pc = "enter" /\ f.call \in Calls
  BY <1>2 DEF Frames, TaskFrames, SortFrames, SortFrame
<1>5. f.kind = "task" /\ f.pc = "start" /\ Top(w).call = f.call
  BY <1>1, <1>2
<1>6. Keeps(w, k) /\ Len(stack'[w]) = k + 1 /\ stack'[w][k + 1] = g
  BY <1>0, <1>1, <1>2, <1>4, Pushes
<1>7. /\ f.call = Root \/ \E c \in Calls : f.call = Append(c, 1)
      /\ f.list = a[f.call]
  BY <1>3, <1>5 DEF FrameOK, TaskOK, RootOK, LowerOK
<1> HIDE DEF g, f
<1>8. \A i \in k + 1..Len(stack'[w]) : i = k + 1
  BY <1>2, <1>6
<1>9. ASSUME NEW v \in Workers, NEW i \in 1..Len(stack[v]), stack[v][i].kind = "sort"
      PROVE  stack[v][i].call # f.call
  <2>1. Top(w).call = Root \/ \E c \in Calls : Top(w).call = Append(c, 1)
    BY <1>5, <1>7
  <2> QED
    BY <1>0, <1>1, <1>5, <1>9, <2>1, NoCallYet
<1>10. Stacked'
  <2>1. Placed(stack'[w], k + 1)
    <3>1. stack'[w][k] = f /\ k + 1 # 1 /\ (k + 1) - 1 = k
      BY <1>2, <1>6 DEF Keeps, f
    <3> QED
      BY <1>4, <1>5, <1>6, <3>1 DEF Placed, OnTop
  <2> QED
    BY <1>0, <1>4, <1>6, <1>8, <2>1, StackedStep
<1>11. OnceStacked'
  <2>1. \A i \in k + 1..Len(stack'[w]), v \in Workers : \A j \in 1..Len(stack[v]) :
           ~ Alike(stack'[w][i], stack[v][j])
    BY <1>4, <1>6, <1>8, <1>9 DEF Alike
  <2>2. \A i, j \in k + 1..Len(stack'[w]) : i = j
    BY <1>8
  <2> QED
    BY <1>0, <1>6, <2>1, <2>2, OnceStep DEF Once
<1>12. Once'
  <2>1. \A i \in k + 1..Len(stack'[w]), v \in Workers : \A j \in 1..Len(queue[v]) :
           ~ Alike(stack'[w][i], queue[v][j])
    <3> SUFFICES ASSUME NEW v \in Workers, NEW j \in 1..Len(queue[v]) PROVE queue[v][j].kind = "task"
      BY <1>4, <1>6, <1>8 DEF Alike
    <3>1. queue[v][j] \in TaskFrames
      BY <1>0, ElementOfSeq DEF SortTypes
    <3> QED
      BY <3>1 DEF TaskFrames
  <2>2. NotBoth'
    BY <1>0, <1>1, <1>6, <2>1, NotBothStep DEF Once
  <2>3. OnceQueued'
    BY <1>0, <1>1 DEF Once, OnceQueued
  <2> QED
    BY <1>11, <2>2, <2>3 DEF Once
<1>13. Held'
  <2>1. k + 1..Len(stack[w]) = {}
    BY <1>2
  <2> QED
    BY <1>0, <1>1, <1>6, <2>1, HeldStep
<1>14. FramesOK(a)'
  <2>1. ASSUME NEW i \in k + 1..Len(stack'[w]) PROVE FrameOK(stack[w][i], a)'
    <3>1. f.call \notin DOMAIN local
      BY <1>0, <1>9 DEF Held, EnteredAt
    <3>2. f.call = Root => mtx' = "task"
      BY <1>1, <1>5
    <3>3. /\ stack'[w][i].kind = "sort" /\ stack'[w][i].call = f.call
          /\ stack'[w][i].pc = "enter" /\ stack'[w][i].list = a[f.call] /\ local' = local
      BY <1>1, <1>4, <1>6, <1>7, <1>8
    <3> QED
      BY <3>1, <3>2, <3>3 DEF FrameOK, CallOK
  <2>2. ASSUME NEW v \in Workers, NEW i \in 1..Len(stack[v]), v # w \/ i <= k,
               FrameOK(stack[v][i], a), stack'[v][i] = stack[v][i]
        PROVE  FrameOK(stack[v][i], a)'
    <3>1. mtx' = mtx \/ mtx' = "task"
      BY <1>1
    <3> QED
      BY <1>1, <2>2, <3>1 DEF FrameOK, TaskOK, RootOK, LowerOK, CallOK, Waits
  <2> QED
    BY <1>0, <1>6, <2>1, <2>2, FramesStep DEF ListsOK
<1>15. ListsOK(a)'
  BY <1>0, <1>1, <1>14 DEF ListsOK, QueuesOK, DoneOK, LowerOK
<1>16. SortTypes' /\ MainOK'
  BY <1>0, <1>1, <1>6 DEF SortTypes, MainOK, Keeps, Waits
<1> QED
  BY <1>10, <1>12, <1>13, <1>15, <1>16 DEF SortInvFor

(* A task is taken from a queue: what stays in a queue was in it, in the same order.        *)
LEMMA TakeStep ==
  ASSUME NEW a, SortInvFor(a), NEW w \in Workers, NEW g \in TaskFrames,
         stack' = Pushed(w, g),
         UNCHANGED <<input, local, main, mtx, done, ret, late>>,
         stack[w] = << >> \/ (stack[w] # << >> /\ Top(w).kind = "sort" /\ Top(w).pc = "wait"),
         queue' \in [Workers -> Seq(TaskFrames)],
         \A v \in Workers : \E sh \in {0, 1} : \A j \in 1..Len(queue'[v]) :
           j + sh \in 1..Len(queue[v]) /\ queue'[v][j] = queue[v][j + sh],
         \A v \in Workers : \A j \in 1..Len(queue'[v]) : queue'[v][j].call # g.call,
         \A v \in Workers : \A i \in 1..Len(stack[v]) : ~ Alike(stack[v][i], g),
         global' \in {global, << >>},
         FrameOK(g, a)'
  PROVE  SortInvFor(a)'
<1> DEFINE k == Len(stack[w])
<1>0. SortTypes /\ Stacked /\ Once /\ Held /\ MainOK /\ ListsOK(a)
  BY DEF SortInvFor
<1>1. g \in Frames /\ g.kind = "task" /\ g.pc # "call"
  BY DEF Frames, TaskFrames
<1>2. Keeps(w, k) /\ Len(stack'[w]) = k + 1 /\ stack'[w][k + 1] = g
  BY <1>0, <1>1, Pushes
<1>3. k \in Nat
  BY <1>0, LenProperties DEF SortTypes
<1>4. \A i \in k + 1..Len(stack'[w]) : i = k + 1 /\ stack'[w][i] = g
  BY <1>2, <1>3
<1>5. Stacked'
  <2>1. Placed(stack'[w], k + 1)
    <3>1. CASE stack[w] = << >>
      <4>1. k = 0
        BY <3>1
      <4>2. k + 1 = 1
        BY <4>1
      <4> HIDE DEF k
      <4> QED
        BY <1>1, <1>2, <4>2 DEF Placed
    <3>2. CASE stack[w] # << >> /\ Top(w).kind = "sort" /\ Top(w).pc = "wait"
      <4>1. k >= 1 /\ k \in 1..k /\ Top(w) = stack[w][k]
        BY <1>0, <3>2, Innermost
      <4>2. stack'[w][k] = Top(w) /\ k + 1 # 1 /\ (k + 1) - 1 = k
        BY <1>2, <1>3, <4>1 DEF Keeps
      <4>3. OnTop(Top(w), g)
        BY <1>1, <3>2 DEF OnTop
      <4> HIDE DEF k
      <4> QED
        BY <1>2, <4>2, <4>3 DEF Placed
    <3> QED
      BY <3>1, <3>2
  <2> QED
    BY <1>0, <1>1, <1>2, <1>4, <2>1, StackedStep
<1>6. OnceStacked'
  <2>1. \A i \in k + 1..Len(stack'[w]), v \in Workers : \A j \in 1..Len(stack[v]) :
           ~ Alike(stack'[w][i], stack[v][j])
    BY <1>4 DEF Alike
  <2>2. \A i, j \in k + 1..Len(stack'[w]) : i = j
    BY <1>4
  <2> QED
    BY <1>0, <1>2, <2>1, <2>2, OnceStep DEF Once
<1>7. ASSUME NEW v \in Workers, NEW j \in 1..Len(queue'[v])
      PROVE  \E i \in 1..Len(queue[v]) : queue'[v][j] = queue[v][i]
  BY <1>7
<1>8. NotBoth'
  <2> SUFFICES ASSUME NEW v \in Workers, NEW u \in Workers, NEW i \in 1..Len(stack'[v]), NEW j \in 1..Len(queue'[u])
               PROVE  ~ Alike(stack'[v][i], queue'[u][j])
    BY DEF NotBoth, Alike
  <2>1. CASE v = w /\ i \in k + 1..Len(stack'[w])
    BY <1>4, <2>1 DEF Alike
  <2>2. CASE i \in 1..Len(stack[v]) /\ stack'[v][i] = stack[v][i]
    BY <1>0, <1>7, <2>2 DEF Once, NotBoth
  <2> QED
    BY <1>0, <1>2, <2>1, <2>2, OldOrNew
<1>9. OnceQueued'
  <2> SUFFICES ASSUME NEW v \in Workers, NEW u \in Workers, NEW i \in 1..Len(queue'[v]), NEW j \in 1..Len(queue'[u]),
                      queue'[v][i].call = queue'[u][j].call
               PROVE  v = u /\ i = j
    BY DEF OnceQueued
  <2>1. PICK p \in {0, 1} : \A m \in 1..Len(queue'[v]) :
           m + p \in 1..Len(queue[v]) /\ queue'[v][m] = queue[v][m + p]
    OBVIOUS
  <2>2. PICK q \in {0, 1} : \A m \in 1..Len(queue'[u]) :
           m + q \in 1..Len(queue[u]) /\ queue'[u][m] = queue[u][m + q]
    OBVIOUS
  <2>3. v = u /\ i + p = j + q
    <3>1. i + p \in 1..Len(queue[v]) /\ j + q \in 1..Len(queue[u]) /\ queue[v][i + p].call = queue[u][j + q].call
      BY <2>1, <2>2
    <3> QED
      BY <1>0, <3>1 DEF Once, OnceQueued
  <2>4. /\ queue'[v][i] = queue[v][i + p] /\ queue'[v][j] = queue[v][j + p]
        /\ i + p \in 1..Len(queue[v]) /\ j + p \in 1..Len(queue[v])
    BY <2>1, <2>3
  <2>5. queue[v][i + p].call = queue[v][j + p].call
    BY <2>3, <2>4
  <2>6. i + p = j + p
    BY <1>0, <2>4, <2>5 DEF Once, OnceQueued
  <2> QED
    BY <2>3, <2>6
<1>10. Held'
  <2>1. k + 1..Len(stack[w]) = {}
    BY <1>3
  <2> QED
    BY <1>0, <1>2, <2>1, HeldStep
<1>11. FramesOK(a)'
  <2>1. ASSUME NEW i \in k + 1..Len(stack'[w]) PROVE FrameOK(stack[w][i], a)'
    BY <1>4
  <2>2. ASSUME NEW v \in Workers, NEW i \in 1..Len(stack[v]), v # w \/ i <= k,
               FrameOK(stack[v][i], a), stack'[v][i] = stack[v][i]
        PROVE  FrameOK(stack[v][i], a)'
    <3>1. global = << >> => global' = << >>
      OBVIOUS
    <3> QED
      BY <2>2, <3>1 DEF FrameOK, TaskOK, RootOK, LowerOK, CallOK, Waits
  <2> QED
    BY <1>0, <1>2, <2>1, <2>2, FramesStep DEF ListsOK
<1>12. QueuesOK(a)'
  <2> SUFFICES ASSUME NEW v \in Workers, NEW j \in 1..Len(queue'[v])
               PROVE  queue'[v][j].pc = "start" /\ \E d \in Calls : LowerOK(queue[v][j], d, a)'
    BY DEF QueuesOK
  <2>1. PICK i \in 1..Len(queue[v]) : queue'[v][j] = queue[v][i]
    BY <1>7
  <2>2. queue[v][i].pc = "start" /\ \E d \in Calls : LowerOK(queue[v][i], d, a)
    BY <1>0 DEF ListsOK, QueuesOK
  <2> QED
    BY <2>1, <2>2 DEF LowerOK
<1>13. ListsOK(a)'
  BY <1>0, <1>11, <1>12 DEF ListsOK, DoneOK
<1>14. SortTypes' /\ MainOK'
  <2>1. global' \in Seq(TaskFrames)
    <3>1. << >> \in Seq(TaskFrames) /\ global \in Seq(TaskFrames)
      BY <1>0 DEF SortTypes
    <3> QED
      BY <3>1
  <2> QED
    BY <1>0, <1>2, <2>1 DEF SortTypes, MainOK, Keeps, Waits
<1> QED
  BY <1>5, <1>6, <1>8, <1>9, <1>10, <1>13, <1>14 DEF SortInvFor, Once

(* Taking from the end of the own queue or of another's. *)
LEMMA QueueTake ==
  ASSUME NEW a, SortInvFor(a), NEW w \in Workers, NEW u \in Workers, NEW m \in 1..Len(queue[u]),
         NEW s \in Seq(TaskFrames), NEW sh \in {0, 1},
         \A j \in 1..Len(s) : j + sh \in 1..Len(queue[u]) /\ j + sh # m /\ s[j] = queue[u][j + sh],
         queue' = [queue EXCEPT ![u] = s], stack' = Pushed(w, queue[u][m]),
         UNCHANGED <<input, global, local, main, mtx, done, ret, late>>,
         stack[w] = << >> \/ (stack[w] # << >> /\ Top(w).kind = "sort" /\ Top(w).pc = "wait")
  PROVE  SortInvFor(a)'
<1> DEFINE g == queue[u][m]
<1>0. SortTypes /\ Stacked /\ Once /\ Held /\ MainOK /\ ListsOK(a)
  BY DEF SortInvFor
<1>1. g \in TaskFrames
  BY <1>0, ElementOfSeq DEF SortTypes
<1>2. g.pc = "start" /\ \E c \in Calls : LowerOK(g, c, a)
  BY <1>0 DEF ListsOK, QueuesOK
<1>3. PICK c \in Calls : LowerOK(g, c, a)
  BY <1>2
<1>4. queue' \in [Workers -> Seq(TaskFrames)] /\ queue'[u] = s /\ \A v \in Workers \ {u} : queue'[v] = queue[v]
  BY <1>0 DEF SortTypes
<1>5. ASSUME NEW v \in Workers
      PROVE  \E d \in {0, 1} : \A j \in 1..Len(queue'[v]) :
               j + d \in 1..Len(queue[v]) /\ queue'[v][j] = queue[v][j + d]
  <2>1. CASE v = u
    BY <1>4, <2>1
  <2>2. CASE v # u
    <3>1. queue'[v] = queue[v]
      BY <1>4, <2>2
    <3>2. \A j \in 1..Len(queue[v]) : j + 0 = j
      OBVIOUS
    <3>3. \A j \in 1..Len(queue'[v]) : j + 0 \in 1..Len(queue[v]) /\ queue'[v][j] = queue[v][j + 0]
      BY <3>1, <3>2
    <3> QED
      BY <3>3
  <2> QED
    BY <2>1, <2>2
<1>6. ASSUME NEW v \in Workers, NEW j \in 1..Len(queue'[v]), queue'[v][j].call = g.call PROVE FALSE
  <2>1. CASE v = u
    <3>1. j + sh \in 1..Len(queue[u]) /\ j + sh # m /\ queue'[v][j] = queue[u][j + sh]
      BY <1>4, <2>1
    <3> QED
      BY <1>0, <1>6, <3>1 DEF Once, OnceQueued
  <2>2. CASE v # u
    <3>1. queue'[v] = queue[v]
      BY <1>4, <2>2
    <3> QED
      BY <1>0, <1>6, <2>2, <3>1 DEF Once, OnceQueued
  <2> QED
    BY <2>1, <2>2
<1>7. \A v \in Workers : \A i \in 1..Len(stack[v]) : ~ Alike(stack[v][i], g)
  BY <1>0 DEF Once, NotBoth
<1>8. g.kind = "task" /\ g.call # Root
  BY <1>1, <1>3, CallNames DEF TaskFrames, LowerOK
<1> HIDE DEF g
<1>9. ASSUME NEW t, t = g PROVE FrameOK(t, a)'
  <2>1. LowerOK(t, c, a)
    BY <1>3, <1>9
  <2>2. LowerOK(t, c, a)'
    BY <2>1 DEF LowerOK
  <2> QED
    BY <1>8, <1>9, <2>2 DEF FrameOK, TaskOK
<1>10. PICK t : t = g
  OBVIOUS
<1>11. FrameOK(t, a)' /\ t \in TaskFrames /\ stack' = Pushed(w, t)
  BY <1>1, <1>9, <1>10 DEF g
<1>12. \A v \in Workers : \A i \in 1..Len(stack[v]) : ~ Alike(stack[v][i], t)
  BY <1>7, <1>10
<1>13. \A v \in Workers : \A j \in 1..Len(queue'[v]) : queue'[v][j].call # t.call
  BY <1>6, <1>10
<1> QED
  BY <1>4, <1>5, <1>11, <1>12, <1>13, TakeStep

(* An idle worker or a waiting call takes a task. *)
LEMMA RunPendingStep ==
  ASSUME NEW a, SortInvFor(a), NEW w \in Workers, RunPending(w)
  PROVE  SortInvFor(a)'
<1>0. SortTypes /\ Stacked /\ Once /\ Held /\ MainOK /\ ListsOK(a)
  BY DEF SortInvFor
<1>1. /\ UNCHANGED <<input, local, main, mtx, done, ret, late>>
      /\ stack[w] = << >> \/ (stack[w] # << >> /\ Top(w).kind = "sort" /\ Top(w).pc = "wait")
  BY DEF RunPending, MayRun, In, mainVars
<1>2. \A v \in Workers : queue[v] \in Seq(TaskFrames)
  BY <1>0 DEF SortTypes
<1>3. CASE /\ queue[w] # << >> /\ stack' = Pushed(w, Head(queue[w]))
           /\ queue' = [queue EXCEPT ![w] = Tail(@)] /\ UNCHANGED global
  <2> DEFINE s == Tail(queue[w])
  <2>1. /\ s \in Seq(TaskFrames) /\ Len(s) = Len(queue[w]) - 1 /\ Len(queue[w]) \in Nat /\ Len(queue[w]) >= 1
        /\ Head(queue[w]) = queue[w][1] /\ \A j \in 1..Len(s) : s[j] = queue[w][j + 1]
    BY <1>2, <1>3, HeadTailProperties, LenProperties, EmptySeq
  <2>2. \A j \in 1..Len(s) : j + 1 \in 1..Len(queue[w]) /\ j + 1 # 1 /\ s[j] = queue[w][j + 1]
    BY <2>1
  <2>3. 1 \in 1..Len(queue[w])
    BY <2>1
  <2>4. queue' = [queue EXCEPT ![w] = s] /\ stack' = Pushed(w, queue[w][1])
    BY <1>3, <2>1
  <2>5. UNCHANGED <<input, global, local, main, mtx, done, ret, late>>
    BY <1>1, <1>3
  <2>6. 1 \in {0, 1}
    OBVIOUS
  <2> HIDE DEF s
  <2> QED
    BY <1>1, <2>1, <2>2, <2>3, <2>4, <2>5, <2>6, QueueTake
<1>4. CASE \E v \in Workers \ {w} :
             /\ queue[v] # << >> /\ stack' = Pushed(w, Last(queue[v]))
             /\ queue' = [queue EXCEPT ![v] = Front(@)] /\ UNCHANGED global
  <2>0. PICK v \in Workers :
             /\ queue[v] # << >> /\ stack' = Pushed(w, Last(queue[v]))
             /\ queue' = [queue EXCEPT ![v] = Front(@)] /\ UNCHANGED global
    BY <1>4
  <2> DEFINE s == Front(queue[v])
             m == Len(queue[v])
  <2>1. /\ s \in Seq(TaskFrames) /\ Len(s) = m - 1 /\ m \in Nat /\ m >= 1
        /\ Last(queue[v]) = queue[v][m] /\ \A j \in 1..m - 1 : s[j] = queue[v][j]
    BY <1>2, <2>0, LastFront
  <2>2. \A j \in 1..Len(s) : j + 0 \in 1..Len(queue[v]) /\ j + 0 # m /\ s[j] = queue[v][j + 0]
    BY <2>1
  <2>3. m \in 1..Len(queue[v])
    BY <2>1
  <2>4. queue' = [queue EXCEPT ![v] = s] /\ stack' = Pushed(w, queue[v][m])
    BY <2>0, <2>1
  <2>5. PICK i : i = m
    OBVIOUS
  <2>6. /\ i \in 1..Len(queue[v]) /\ stack' = Pushed(w, queue[v][i])
        /\ \A j \in 1..Len(s) : j + 0 \in 1..Len(queue[v]) /\ j + 0 # i /\ s[j] = queue[v][j + 0]
    BY <2>2, <2>3, <2>4, <2>5
  <2>7. UNCHANGED <<input, global, local, main, mtx, done, ret, late>>
    BY <1>1, <2>0
  <2>8. 0 \in {0, 1}
    OBVIOUS
  <2> HIDE DEF s, m
  <2> QED
    BY <1>1, <2>1, <2>4, <2>6, <2>7, <2>8, QueueTake
<1>5. CASE /\ global # << >> /\ stack' = Pushed(w, Head(global)) /\ global' = Tail(global) /\ UNCHANGED queue
  <2> DEFINE g == TaskFrame(Root, input)
  <2>1. global = <<g>> /\ ~done /\ Waits /\ input # << >>
    BY <1>0, <1>5 DEF MainOK
  <2>2. Head(global) = g /\ global' = << >>
    BY <1>5, <2>1
  <2>3. g \in TaskFrames /\ g.kind = "task" /\ g.call = Root /\ g.list = input /\ g.pc = "start"
    BY <1>0, CallNames DEF TaskFrame, TaskFrames, SortTypes
  <2> HIDE DEF g
  <2>4. ASSUME NEW v \in Workers, NEW i \in 1..Len(stack[v]), Alike(stack[v][i], g) PROVE FALSE
    <3>1. FrameOK(stack[v][i], a)
      BY <1>0 DEF ListsOK, FramesOK
    <3> QED
      BY <1>5, <2>3, <2>4, <3>1 DEF FrameOK, TaskOK, RootOK, Alike
  <2>5. ASSUME NEW v \in Workers, NEW j \in 1..Len(queue'[v]) PROVE queue'[v][j].call # g.call
    <3>1. \E c \in Calls : LowerOK(queue[v][j], c, a)
      BY <1>0, <1>5 DEF ListsOK, QueuesOK
    <3> QED
      BY <1>5, <2>3, <3>1, CallNames DEF LowerOK
  <2>6. ASSUME NEW t, t = g PROVE FrameOK(t, a)'
    <3>1. /\ input' # << >> /\ main' # "submit" /\ global' = << >> /\ ~done' /\ Waits' /\ t.list = a[Root]
      BY <1>0, <1>1, <2>1, <2>2, <2>3, <2>6 DEF Waits, ListsOK
    <3> QED
      BY <2>3, <2>6, <3>1 DEF FrameOK, TaskOK, RootOK
  <2>7. PICK t : t = g
    OBVIOUS
  <2>8. /\ FrameOK(t, a)' /\ t \in TaskFrames /\ stack' = Pushed(w, t)
    BY <1>5, <2>2, <2>3, <2>6, <2>7
  <2>9. \A v \in Workers : \A i \in 1..Len(stack[v]) : ~ Alike(stack[v][i], t)
    BY <2>4, <2>7
  <2>10. \A v \in Workers : \A j \in 1..Len(queue'[v]) : queue'[v][j].call # t.call
    BY <2>5, <2>7
  <2>11. ASSUME NEW v \in Workers
         PROVE  \E sh \in {0, 1} : \A j \in 1..Len(queue'[v]) :
                  j + sh \in 1..Len(queue[v]) /\ queue'[v][j] = queue[v][j + sh]
    <3>1. \A j \in 1..Len(queue'[v]) : j + 0 \in 1..Len(queue[v]) /\ queue'[v][j] = queue[v][j + 0]
      BY <1>5
    <3> QED
      BY <3>1
  <2>12. queue' \in [Workers -> Seq(TaskFrames)]
    BY <1>0, <1>5 DEF SortTypes
  <2> QED
    BY <1>1, <2>2, <2>8, <2>9, <2>10, <2>11, <2>12, TakeStep
<1> QED
  BY <1>3, <1>4, <1>5 DEF RunPending

(* A call returns its list in order: what is under it goes on with that. *)
LEMMA ReturnStep ==
  ASSUME NEW a, SortInvFor(a), NEW w \in Workers, stack[w] # << >>, Top(w).kind = "sort",
         NEW r \in Seq(Int), SortedOf(r, a[Top(w).call]), Returns(w, r),
         UNCHANGED <<input, queue, global, main, mtx, done, ret, late>>,
         \/ Top(w).pc = "enter" /\ UNCHANGED local
         \/ /\ Top(w).pc = "wait" /\ local[Top(w).call].done
            /\ local' = [c \in DOMAIN local \ {Top(w).call} |-> local[c]]
  PROVE  SortInvFor(a)'
<1> DEFINE m == Len(stack[w])
           k == m - 1
           s == Top(w)
           f == stack[w][k]
           g == IF f.kind = "sort" THEN [f EXCEPT !.higher = r, !.pc = "wait"]
                                   ELSE [f EXCEPT !.list = r, !.pc = "write"]
<1>0. SortTypes /\ Stacked /\ Once /\ Held /\ MainOK /\ ListsOK(a)
  BY DEF SortInvFor
<1>1. m \in Nat /\ m >= 1 /\ m \in 1..m /\ s = stack[w][m] /\ s \in SortFrames /\ FrameOK(s, a)
  BY <1>0, Innermost, FrameTypes DEF ListsOK, FramesOK
<1>2. /\ k \in 1..Len(stack[w]) /\ k \in Nat /\ f \in Frames /\ OnTop(f, s)
      /\ Keeps(w, k - 1) /\ Len(stack'[w]) = k /\ stack'[w][k] = g /\ g \in Frames
  BY <1>0, Returning
<1>3. /\ k >= 1 /\ k + 1 = m
      /\ \A i \in (k - 1) + 1..k : i = k
      /\ \A i \in (k - 1) + 1..m : i = k \/ i = m
  BY <1>1, <1>2
<1>4. s.kind = "sort" /\ s.call \in Calls
  BY <1>1 DEF SortFrames
<1>5. FrameOK(f, a)
  BY <1>0, <1>2 DEF ListsOK, FramesOK
<1>6. /\ f.kind = "task" \/ f.kind = "sort"
      /\ f.kind = "task" => /\ f.pc = "start" /\ f.call = s.call /\ g.kind = "task" /\ g.call = f.call
                            /\ g.pc = "write" /\ g.list = r
      /\ f.kind = "sort" => /\ f.pc = "call" /\ s.call = Append(f.call, 2) /\ g.kind = "sort" /\ g.call = f.call
                            /\ g.pc = "wait" /\ g.list = f.list /\ g.higher = r
      /\ f.call \in Calls
  BY <1>2, <1>4 DEF OnTop, Frames, TaskFrames, SortFrames
<1>7. f.call = stack[w][k].call /\ f.kind = stack[w][k].kind
  OBVIOUS
<1> HIDE DEF g, f, s
<1>8. /\ DOMAIN local' \subseteq DOMAIN local
      /\ \A c \in DOMAIN local' : local'[c] = local[c]
      /\ \A c \in DOMAIN local : c # s.call => c \in DOMAIN local'
      /\ s.call \notin DOMAIN local'
      /\ \A c \in DOMAIN local : ~local[c].done => c \in DOMAIN local'
  <2>1. s.pc = "enter" => s.call \notin DOMAIN local
    BY <1>1, <1>4 DEF FrameOK, CallOK
  <2> QED
    BY <2>1 DEF s
<1>9. Stacked' /\ Once'
  <2>1. Alike(stack'[w][k], stack[w][k]) /\ stack'[w][k].pc # "call"
    BY <1>2, <1>6 DEF Alike, f
  <2> HIDE DEF k
  <2> QED
    BY <1>0, <1>2, <2>1, ReplaceStep
<1>10. Held'
  <2>1. ASSUME NEW i \in (k - 1) + 1..Len(stack[w]), NEW c \in DOMAIN local', EnteredAt(w, i, c)
        PROVE  \E j \in (k - 1) + 1..Len(stack'[w]) : EnteredAt(w, j, c)'
    <3>1. i = k
      <4>1. i # m
        BY <1>1, <1>8, <2>1 DEF EnteredAt
      <4> QED
        BY <1>3, <4>1
    <3>2. g.kind = "sort" /\ g.call = c /\ g.pc # "enter"
      BY <1>6, <2>1, <3>1 DEF EnteredAt, f
    <3>3. k \in (k - 1) + 1..Len(stack'[w])
      BY <1>2
    <3>4. PICK j \in (k - 1) + 1..Len(stack'[w]) : j = k
      BY <3>3
    <3>5. EnteredAt(w, j, c)'
      BY <1>2, <3>2, <3>4 DEF EnteredAt
    <3> QED
      BY <3>5
  <2> HIDE DEF k
  <2> QED
    BY <1>0, <1>2, <1>8, <2>1, HeldStep
<1>11. ASSUME NEW t, NEW d \in Calls, LowerOK(t, d, a) PROVE LowerOK(t, d, a)'
  BY <1>8, <1>11 DEF LowerOK
<1>12. FramesOK(a)'
  <2>1. ASSUME NEW i \in (k - 1) + 1..Len(stack'[w]) PROVE FrameOK(stack[w][i], a)'
    <3>1. stack'[w][i] = g
      BY <1>2, <1>3
    <3>2. CASE f.kind = "task" /\ f.call = Root
      <4>1. RootOK(f, a)
        BY <1>5, <3>2 DEF FrameOK, TaskOK
      <4>2. mtx = "task"
        BY <1>1, <1>4, <1>6, <3>2 DEF FrameOK, CallOK
      <4>3. SortedOf(r, a[Root])
        BY <1>6, <3>2 DEF s
      <4>4. g.pc = "write" /\ g.kind = "task" /\ g.call = Root /\ g.list = r /\ f.pc = "start"
        BY <1>6, <3>2
      <4>5. RootOK(stack[w][i], a)'
        BY <3>1, <4>1, <4>2, <4>3, <4>4 DEF RootOK, Waits
      <4> QED
        BY <3>1, <4>4, <4>5 DEF FrameOK, TaskOK
    <3>3. CASE f.kind = "task" /\ f.call # Root
      <4>1. PICK d \in Calls : LowerOK(f, d, a)
        BY <1>5, <3>3 DEF FrameOK, TaskOK
      <4>3. SortedOf(r, a[f.call])
        BY <1>6, <3>3 DEF s
      <4>4. g.pc = "write" /\ g.kind = "task" /\ g.call = f.call /\ g.list = r
        BY <1>6, <3>3
      <4>5. d \in DOMAIN local' /\ f.call = Append(d, 1) /\ ~local'[d].done
        BY <1>8, <4>1 DEF LowerOK
      <4>6. LowerOK(stack[w][i], d, a)'
        BY <3>1, <4>3, <4>4, <4>5 DEF LowerOK
      <4> QED
        BY <3>1, <3>3, <4>4, <4>6 DEF FrameOK, TaskOK
    <3>4. CASE f.kind = "sort"
      <4>1. CallOK(f, a) /\ f.pc = "call" /\ s.call = Append(f.call, 2)
        BY <1>5, <1>6, <3>4 DEF FrameOK
      <4>2. SortedOf(r, a[Append(f.call, 2)])
        BY <4>1 DEF s
      <4>3. g.kind = "sort" /\ g.call = f.call /\ g.pc = "wait" /\ g.list = f.list /\ g.higher = r
        BY <1>6, <3>4
      <4>4. f.call # s.call
        <5>1. \A e \in Calls : Len(Append(e, 2)) > Len(e) /\ Len(e) \in Nat
          BY CallNames
        <5>2. f.call \in Calls
          BY <1>6
        <5>3. Len(s.call) > Len(f.call) /\ Len(f.call) \in Nat
          BY <4>1, <5>1, <5>2
        <5> QED
          BY <5>3
      <4>5. /\ f.call \in DOMAIN local'
            /\ \E x \in Int : f.list = <<x>> /\ Split(a[f.call], x, a[Append(f.call, 1)], a[Append(f.call, 2)])
            /\ f.call = Root => mtx' = "task"
        BY <1>8, <4>1, <4>4 DEF CallOK
      <4>6. CallOK(stack[w][i], a)'
        BY <3>1, <4>2, <4>3, <4>5 DEF CallOK
      <4> QED
        BY <3>1, <4>3, <4>6 DEF FrameOK
    <3> QED
      BY <1>6, <3>2, <3>3, <3>4
  <2>2. ASSUME NEW v \in Workers, NEW i \in 1..Len(stack[v]), v # w \/ i <= k - 1,
               FrameOK(stack[v][i], a), stack'[v][i] = stack[v][i]
        PROVE  FrameOK(stack[v][i], a)'
    <3>1. v # w \/ i # m
      BY <1>1, <1>2, <2>2
    <3>2. ~ Alike(stack[v][i], s)
      BY <1>0, <1>1, <3>1 DEF Once, OnceStacked
    <3>3. CASE stack[v][i].kind = "task" /\ stack[v][i].call = Root
      <4>1. RootOK(stack[v][i], a)
        BY <2>2, <3>3 DEF FrameOK, TaskOK
      <4>2. RootOK(stack[v][i], a)'
        BY <2>2, <4>1 DEF RootOK, Waits
      <4> QED
        BY <2>2, <3>3, <4>2 DEF FrameOK, TaskOK
    <3>4. CASE stack[v][i].kind = "task" /\ stack[v][i].call # Root
      <4>1. PICK d \in Calls : LowerOK(stack[v][i], d, a)
        BY <2>2, <3>4 DEF FrameOK, TaskOK
      <4>2. LowerOK(stack[v][i], d, a)'
        BY <1>11, <2>2, <4>1
      <4> QED
        BY <2>2, <3>4, <4>2 DEF FrameOK, TaskOK
    <3>5. CASE stack[v][i].kind # "task"
      <4>1. CallOK(stack[v][i], a) /\ stack[v][i].kind = "sort"
        BY <1>0, <2>2, <3>5, FrameTypes DEF FrameOK
      <4>2. stack[v][i].call # s.call
        BY <1>4, <3>2, <4>1 DEF Alike
      <4>3. CallOK(stack[v][i], a)'
        BY <1>8, <2>2, <4>1, <4>2 DEF CallOK
      <4> QED
        BY <2>2, <3>5, <4>3 DEF FrameOK
    <3> QED
      BY <3>3, <3>4, <3>5
  <2> HIDE DEF k
  <2> QED
    BY <1>0, <1>2, <2>1, <2>2, FramesStep DEF ListsOK
<1>13. QueuesOK(a)'
  <2> SUFFICES ASSUME NEW v \in Workers, NEW i \in 1..Len(queue[v])
               PROVE  queue[v][i].pc = "start" /\ \E d \in Calls : LowerOK(queue[v][i], d, a)'
    BY DEF QueuesOK
  <2>1. queue[v][i].pc = "start" /\ \E d \in Calls : LowerOK(queue[v][i], d, a)
    BY <1>0 DEF ListsOK, QueuesOK
  <2>2. PICK d \in Calls : LowerOK(queue[v][i], d, a)
    BY <2>1
  <2>3. LowerOK(queue[v][i], d, a)'
    BY <1>11, <2>2
  <2> QED
    BY <2>1, <2>3
<1>14. ListsOK(a)'
  BY <1>0, <1>8, <1>12, <1>13 DEF ListsOK, DoneOK
<1>15. SortTypes'
  <2>1. DOMAIN local' \subseteq Calls /\ local' \in [DOMAIN local' -> Locals]
    <3>1. DOMAIN local \subseteq Calls /\ local \in [DOMAIN local -> Locals]
      BY <1>0 DEF SortTypes
    <3> QED
      BY <3>1
  <2> QED
    BY <1>0, <1>2, <2>1 DEF SortTypes, Keeps
<1>16. MainOK'
  BY <1>0 DEF MainOK, Waits
<1> QED
  BY <1>9, <1>10, <1>14, <1>15, <1>16 DEF SortInvFor

(* The parts are spliced. *)
LEMMA MergeStep ==
  ASSUME NEW a, SortInvFor(a), NEW w \in Workers, Merge(w)
  PROVE  SortInvFor(a)'
<1> DEFINE s == Top(w)
           c == s.call
           r == local[c].lower_sorted \o s.list \o s.higher
<1>0. SortTypes /\ ListsOK(a)
  BY DEF SortInvFor
<1>1. /\ stack[w] # << >> /\ s.kind = "sort" /\ s.pc = "wait"
      /\ local[c].done /\ Returns(w, r)
      /\ local' = [d \in DOMAIN local \ {c} |-> local[d]]
      /\ UNCHANGED <<input, queue, global, main, mtx, done, ret, late>>
  BY DEF Merge, In, mainVars
<1>2. s \in SortFrames /\ FrameOK(s, a)
  BY <1>0, <1>1, Innermost, FrameTypes DEF ListsOK, FramesOK
<1>3. CallOK(s, a) /\ c \in DOMAIN local
  BY <1>1, <1>2 DEF FrameOK, CallOK
<1>4. PICK x \in Int : s.list = <<x>> /\ Split(a[c], x, a[Append(c, 1)], a[Append(c, 2)])
  BY <1>1, <1>3 DEF CallOK
<1>5. SortedOf(s.higher, a[Append(c, 2)])
  BY <1>1, <1>3 DEF CallOK
<1>6. SortedOf(local[c].lower_sorted, a[Append(c, 1)])
  BY <1>0, <1>1, <1>3 DEF ListsOK, DoneOK
<1>7. SortedOf(r, a[c])
  BY <1>4, <1>5, <1>6, Spliced
<1>8. r \in Seq(Int)
  BY <1>7 DEF SortedOf
<1> HIDE DEF r
<1> QED
  BY <1>1, <1>7, <1>8, ReturnStep

(* A call splits its list and submits the lower part. *)
LEMMA SplitStep ==
  ASSUME NEW a, SortInvFor(a), a \in [Calls -> Seq(Int)], NEW w \in Workers, stack[w] # << >>,
         Top(w).kind = "sort", Top(w).pc = "enter", Top(w).list # << >>,
         NEW l \in Lower(Top(w).list), NEW h \in Higher(Top(w).list),
         queue' = [queue EXCEPT ![w] = Append(@, TaskFrame(Append(Top(w).call, 1), l))],
         local' = [c \in DOMAIN local \cup {Top(w).call} |->
                     IF c = Top(w).call THEN [lower_sorted |-> << >>, done |-> FALSE] ELSE local[c]],
         NEW p \in Frames, p.kind = "sort", p.call = Top(w).call, p.pc = "call", p.list = <<Top(w).list[1]>>,
         NEW g \in Frames, g.kind = "sort", g.call = Append(Top(w).call, 2), g.pc = "enter", g.list = h,
         Keeps(w, Len(stack[w]) - 1), Len(stack'[w]) = Len(stack[w]) + 1,
         stack'[w][Len(stack[w])] = p, stack'[w][Len(stack[w]) + 1] = g,
         UNCHANGED <<input, global, main, mtx, done, ret, late>>
  PROVE  \E b \in [Calls -> Seq(Int)] : SortInvFor(b)'
<1> DEFINE k == Len(stack[w])
           s == Top(w)
<1>0. SortTypes /\ Stacked /\ Once /\ Held /\ MainOK /\ ListsOK(a)
  BY DEF SortInvFor
<1>1. /\ k \in Nat /\ k >= 1 /\ k \in 1..k /\ s = stack[w][k] /\ s \in SortFrames /\ FrameOK(s, a)
  BY <1>0, Innermost, FrameTypes DEF ListsOK, FramesOK
<1>2. PICK c \in Calls : c = s.call
  BY <1>1 DEF SortFrames
<1>3. PICK x \in Int : x = s.list[1] /\ Split(s.list, x, l, h)
  <2>1. s.list \in Seq(Int)
    BY <1>1 DEF SortFrames
  <2>2. Split(s.list, s.list[1], l, h)
    BY <2>1, Partition
  <2> QED
    BY <2>2 DEF Split
<1>4. l \in Seq(Int) /\ h \in Seq(Int)
  BY <1>3 DEF Split
<1> DEFINE c1 == Append(c, 1)
           c2 == Append(c, 2)
           b == [a EXCEPT ![c1] = l, ![c2] = h]
<1>5. /\ c1 \in Calls /\ c2 \in Calls /\ c1 # Root /\ c2 # Root /\ c1 # c2 /\ c1 # c /\ c2 # c
      /\ \A d \in Calls : /\ Append(d, 1) \in Calls /\ Append(d, 2) \in Calls
                          /\ Append(d, 1) # c2 /\ Append(d, 2) # c1
                          /\ d # c => Append(d, 1) # c1 /\ Append(d, 2) # c2
                          /\ Append(d, 1) # Root
  <2>1. Len(c1) > Len(c) /\ Len(c2) > Len(c) /\ Len(c) \in Nat
    BY CallNames
  <2>2. c1 # c /\ c2 # c
    BY <2>1
  <2> QED
    BY <2>2, CallNames
<1>6. /\ CallOK(s, a) /\ s.list = a[c] /\ c \notin DOMAIN local
      /\ c = Root => mtx = "task"
  BY <1>1, <1>2 DEF FrameOK, CallOK
<1>7. PICK t \in TaskFrames :
        t = TaskFrame(c1, l) /\ t.kind = "task" /\ t.call = c1 /\ t.pc = "start" /\ t.list = l
  <2>1. TaskFrame(c1, l) \in TaskFrames
    BY <1>4, <1>5 DEF TaskFrames, TaskFrame
  <2>2. /\ TaskFrame(c1, l).kind = "task" /\ TaskFrame(c1, l).call = c1
        /\ TaskFrame(c1, l).pc = "start" /\ TaskFrame(c1, l).list = l
    BY DEF TaskFrame
  <2> QED
    BY <2>1, <2>2
<1>8. /\ p.kind = "sort" /\ p.call = c /\ p.pc = "call" /\ p.list = <<x>>
      /\ g.kind = "sort" /\ g.call = c2 /\ g.pc = "enter" /\ g.list = h
      /\ t.kind = "task" /\ t.call = c1 /\ t.pc = "start" /\ t.list = l
  BY <1>2, <1>3, <1>7
<1>9. /\ queue' = [queue EXCEPT ![w] = Append(@, t)]
      /\ s.kind = "sort" /\ s.pc = "enter" /\ s.call = c
  BY <1>2, <1>7
<1>10. /\ DOMAIN local' = DOMAIN local \cup {c}
       /\ local'[c] = [lower_sorted |-> << >>, done |-> FALSE]
       /\ \A d \in DOMAIN local : d # c /\ local'[d] = local[d]
  BY <1>2, <1>6
<1>11. /\ b \in [Calls -> Seq(Int)] /\ b[c1] = l /\ b[c2] = h /\ b[c] = a[c]
       /\ \A d \in Calls : d # c1 /\ d # c2 => b[d] = a[d]
  BY <1>4, <1>5
<1> HIDE DEF s, b, c1, c2
<1>12. /\ Keeps(w, k - 1) /\ Len(stack'[w]) = k + 1 /\ stack'[w][k] = p /\ stack'[w][k + 1] = g
  OBVIOUS
<1>13. PICK m \in Nat : m = k /\ m >= 1
  BY <1>1
<1>14. /\ m \in 1..Len(stack[w]) /\ s = stack[w][m] /\ Keeps(w, m - 1) /\ Len(stack'[w]) = m + 1
       /\ stack'[w][m] = p /\ stack'[w][m + 1] = g /\ m - 1 \in Nat
       /\ \A i \in (m - 1) + 1..Len(stack'[w]) : i = m \/ i = m + 1
       /\ \A i \in (m - 1) + 1..Len(stack[w]) : i = m
       /\ m \in (m - 1) + 1..Len(stack'[w])
  BY <1>1, <1>12, <1>13
<1> HIDE DEF k
(* No frame and no queued task is of one of the new calls. *)
<1>15. ASSUME NEW f, NEW d \in Calls, LowerOK(f, d, a) PROVE f.call # c1 /\ f.call # c2 /\ d # c /\ f.call \in Calls
  <2>1. d \in DOMAIN local /\ f.call = Append(d, 1)
    BY <1>15 DEF LowerOK
  <2> QED
    BY <1>5, <1>6, <2>1
<1>16. ASSUME NEW v \in Workers, NEW i \in 1..Len(stack[v]), stack[v][i].kind = "task"
       PROVE  stack[v][i].call # c1 /\ stack[v][i].call # c2
  <2>1. FrameOK(stack[v][i], a)
    BY <1>0 DEF ListsOK, FramesOK
  <2>2. stack[v][i].call = Root \/ \E d \in Calls : LowerOK(stack[v][i], d, a)
    BY <1>16, <2>1 DEF FrameOK, TaskOK
  <2> QED
    BY <1>5, <1>15, <2>2
<1>17. ASSUME NEW v \in Workers, NEW i \in 1..Len(stack[v]), v # w \/ i # m
       PROVE  ~ Alike(stack[v][i], s)
  BY <1>0, <1>14, <1>17 DEF Once, OnceStacked
<1>18. ASSUME NEW v \in Workers, NEW i \in 1..Len(stack[v]), stack[v][i].kind = "sort"
       PROVE  stack[v][i].call # c1 /\ stack[v][i].call # c2
  <2>1. i - 1 \in 1..Len(stack[v]) /\ stack[v][i - 1] \in Frames
    BY <1>0, <1>18, UnderCall
  <2>2. \/ stack[v][i - 1].kind = "task" /\ stack[v][i - 1].call = stack[v][i].call
        \/ /\ stack[v][i - 1].kind = "sort" /\ stack[v][i - 1].pc = "call"
           /\ stack[v][i].call = Append(stack[v][i - 1].call, 2)
    BY <1>0, <1>18, UnderCall
  <2>3. CASE stack[v][i - 1].kind = "task" /\ stack[v][i - 1].call = stack[v][i].call
    BY <1>16, <2>1, <2>3
  <2>4. CASE /\ stack[v][i - 1].kind = "sort" /\ stack[v][i - 1].pc = "call"
             /\ stack[v][i].call = Append(stack[v][i - 1].call, 2)
    <3>1. stack[v][i - 1].call \in Calls
      BY <2>1 DEF Frames, TaskFrames, SortFrames
    <3>2. stack[v][i - 1] # s
      BY <1>9, <2>4
    <3>3. ~ Alike(stack[v][i - 1], s)
      BY <1>14, <1>17, <2>1, <3>2
    <3>4. stack[v][i - 1].call # c
      BY <1>9, <2>4, <3>3 DEF Alike
    <3> QED
      BY <1>5, <2>4, <3>1, <3>4
  <2> QED
    BY <2>2, <2>3, <2>4
<1>19. ASSUME NEW v \in Workers, NEW j \in 1..Len(queue[v])
       PROVE  /\ queue[v][j] \in TaskFrames /\ queue[v][j].call # c1
              /\ queue[v][j].pc = "start" /\ \E d \in Calls : LowerOK(queue[v][j], d, a)
  <2>1. queue[v][j].pc = "start" /\ \E d \in Calls : LowerOK(queue[v][j], d, a)
    BY <1>0 DEF ListsOK, QueuesOK
  <2>2. queue[v][j] \in TaskFrames
    BY <1>0, ElementOfSeq DEF SortTypes
  <2> QED
    BY <1>15, <2>1, <2>2
<1>20. /\ queue' \in [Workers -> Seq(TaskFrames)]
       /\ \A v \in Workers \ {w} : queue'[v] = queue[v]
       /\ Len(queue[w]) \in Nat /\ Len(queue'[w]) = Len(queue[w]) + 1 /\ queue'[w][Len(queue[w]) + 1] = t
       /\ \A j \in 1..Len(queue[w]) : queue'[w][j] = queue[w][j]
  <2>1. queue \in [Workers -> Seq(TaskFrames)] /\ queue[w] \in Seq(TaskFrames)
    BY <1>0 DEF SortTypes
  <2>2. /\ Append(queue[w], t) \in Seq(TaskFrames) /\ Len(queue[w]) \in Nat
        /\ Len(Append(queue[w], t)) = Len(queue[w]) + 1
        /\ Append(queue[w], t)[Len(queue[w]) + 1] = t
        /\ \A j \in 1..Len(queue[w]) : Append(queue[w], t)[j] = queue[w][j]
    BY <2>1, AppendProperties, LenProperties
  <2>3. queue'[w] = Append(queue[w], t)
    BY <1>9, <2>1
  <2> QED
    BY <1>9, <2>1, <2>2, <2>3
<1>21. ASSUME NEW v \in Workers, NEW j \in 1..Len(queue'[v])
       PROVE  \/ j \in 1..Len(queue[v]) /\ queue'[v][j] = queue[v][j]
              \/ v = w /\ j = Len(queue[w]) + 1 /\ queue'[v][j] = t
  <2>1. CASE v = w
    <3>1. j \in 1..Len(queue[w]) + 1 /\ Len(queue[w]) \in Nat
      BY <1>20, <2>1
    <3>2. j \in 1..Len(queue[w]) \/ j = Len(queue[w]) + 1
      BY <3>1
    <3> QED
      BY <1>20, <2>1, <3>2
  <2>2. CASE v # w
    BY <1>20, <2>2
  <2> QED
    BY <2>1, <2>2
<1>22. Stacked'
  <2>1. Placed(stack'[w], m)
    <3>1. Placed(stack[w], m)
      BY <1>0, <1>14 DEF Stacked
    <3>2. m # 1
      BY <1>9, <1>14, <3>1 DEF Placed
    <3>3. stack'[w][m - 1] = stack[w][m - 1]
      <4>1. m - 1 \in 1..m - 1
        BY <1>13, <3>2
      <4> QED
        BY <1>14, <4>1 DEF Keeps
    <3>4. OnTop(stack[w][m - 1], s)
      BY <1>14, <3>1, <3>2 DEF Placed
    <3>5. OnTop(stack[w][m - 1], p)
      BY <1>8, <1>9, <3>4 DEF OnTop
    <3> QED
      BY <1>14, <3>2, <3>3, <3>5 DEF Placed
  <2>2. Placed(stack'[w], m + 1)
    <3>1. m + 1 # 1 /\ (m + 1) - 1 = m
      BY <1>13
    <3> QED
      BY <1>8, <1>14, <3>1 DEF Placed, OnTop, c2
  <2>3. stack'[w][Len(stack'[w])].pc # "call"
    BY <1>8, <1>14
  <2> QED
    BY <1>0, <1>14, <2>1, <2>2, <2>3, StackedStep
<1>23. OnceStacked'
  <2>1. ASSUME NEW i \in (m - 1) + 1..Len(stack'[w]), NEW v \in Workers, NEW j \in 1..Len(stack[v]),
               v # w \/ j <= m - 1, Alike(stack'[w][i], stack[v][j])
        PROVE  FALSE
    <3>1. v # w \/ j # m
      BY <1>13, <2>1
    <3>2. ~ Alike(stack[v][j], s)
      BY <1>17, <3>1
    <3>3. CASE i = m
      <4>1. Alike(p, stack[v][j])
        BY <1>14, <2>1, <3>3
      <4>2. Alike(stack[v][j], s)
        BY <1>8, <1>9, <4>1 DEF Alike
      <4> QED
        BY <3>2, <4>2
    <3>4. CASE i = m + 1
      BY <1>8, <1>14, <1>18, <2>1, <3>4 DEF Alike
    <3> QED
      BY <1>14, <3>3, <3>4
  <2>2. \A i, j \in (m - 1) + 1..Len(stack'[w]) : Alike(stack'[w][i], stack'[w][j]) => i = j
    <3>1. ~ Alike(p, g) /\ ~ Alike(g, p)
      BY <1>5, <1>8 DEF Alike
    <3> SUFFICES ASSUME NEW i \in (m - 1) + 1..Len(stack'[w]), NEW j \in (m - 1) + 1..Len(stack'[w]),
                        Alike(stack'[w][i], stack'[w][j])
                 PROVE  i = j
      OBVIOUS
    <3>2. (i = m \/ i = m + 1) /\ (j = m \/ j = m + 1)
      BY <1>14
    <3>3. CASE i = m /\ j = m + 1
      BY <1>14, <3>1, <3>3 DEF Alike
    <3>4. CASE i = m + 1 /\ j = m
      BY <1>14, <3>1, <3>4 DEF Alike
    <3> QED
      BY <3>2, <3>3, <3>4
  <2> QED
    BY <1>0, <1>14, <2>1, <2>2, OnceStep DEF Once
<1>24. OnceQueued'
  <2> SUFFICES ASSUME NEW v \in Workers, NEW u \in Workers, NEW i \in 1..Len(queue'[v]), NEW j \in 1..Len(queue'[u]),
                      queue'[v][i].call = queue'[u][j].call
               PROVE  v = u /\ i = j
    BY DEF OnceQueued
  <2>1. \/ i \in 1..Len(queue[v]) /\ queue'[v][i] = queue[v][i]
        \/ v = w /\ i = Len(queue[w]) + 1 /\ queue'[v][i] = t
    BY <1>21
  <2>2. \/ j \in 1..Len(queue[u]) /\ queue'[u][j] = queue[u][j]
        \/ u = w /\ j = Len(queue[w]) + 1 /\ queue'[u][j] = t
    BY <1>21
  <2>3. CASE /\ i \in 1..Len(queue[v]) /\ queue'[v][i] = queue[v][i]
             /\ j \in 1..Len(queue[u]) /\ queue'[u][j] = queue[u][j]
    BY <1>0, <2>3 DEF Once, OnceQueued
  <2> QED
    BY <1>8, <1>19, <2>1, <2>2, <2>3
<1>25. NotBoth'
  <2> SUFFICES ASSUME NEW v \in Workers, NEW u \in Workers, NEW i \in 1..Len(stack'[v]), NEW j \in 1..Len(queue'[u]),
                      Alike(stack'[v][i], queue'[u][j])
               PROVE  FALSE
    BY DEF NotBoth, Alike
  <2>1. queue'[u][j].kind = "task"
    <3>1. CASE j \in 1..Len(queue[u]) /\ queue'[u][j] = queue[u][j]
      <4>1. queue[u][j] \in TaskFrames
        BY <1>19, <3>1
      <4> QED
        BY <3>1, <4>1 DEF TaskFrames
    <3>2. CASE queue'[u][j] = t
      BY <1>8, <3>2
    <3> QED
      BY <1>21, <3>1, <3>2
  <2>2. CASE v = w /\ i \in (m - 1) + 1..Len(stack'[w])
    BY <1>8, <1>14, <2>1, <2>2 DEF Alike
  <2>3. CASE i \in 1..Len(stack[v]) /\ stack'[v][i] = stack[v][i]
    <3>1. CASE j \in 1..Len(queue[u]) /\ queue'[u][j] = queue[u][j]
      BY <1>0, <2>3, <3>1 DEF Once, NotBoth
    <3>2. CASE queue'[u][j] = t
      BY <1>8, <1>16, <2>3, <3>2 DEF Alike
    <3> QED
      BY <1>21, <3>1, <3>2
  <2>4. \/ v = w /\ i \in (m - 1) + 1..Len(stack'[w])
        \/ i \in 1..Len(stack[v]) /\ stack'[v][i] = stack[v][i]
    <3> SUFFICES ASSUME NEW kk, kk = m - 1
                 PROVE  \/ v = w /\ i \in kk + 1..Len(stack'[w])
                        \/ i \in 1..Len(stack[v]) /\ stack'[v][i] = stack[v][i]
      OBVIOUS
    <3>1. Keeps(w, kk)
      BY <1>14
    <3>2. \/ v = w /\ i \in kk + 1..Len(stack'[w])
          \/ /\ i \in 1..Len(stack[v]) /\ stack'[v][i] = stack[v][i]
             /\ v # w \/ i <= kk
      BY <1>0, <3>1, OldOrNew
    <3> QED
      BY <3>2
  <2> QED
    BY <2>2, <2>3, <2>4
<1>26. Held'
  <2>1. EnteredAt(w, m, c)'
    BY <1>8, <1>14 DEF EnteredAt
  <2>2. \A d \in DOMAIN local' : d \in DOMAIN local \/ \E j \in (m - 1) + 1..Len(stack'[w]) : EnteredAt(w, j, d)'
    BY <1>10, <1>14, <2>1
  <2>3. \A i \in (m - 1) + 1..Len(stack[w]), d \in DOMAIN local' : ~ EnteredAt(w, i, d)
    BY <1>9, <1>14 DEF EnteredAt
  <2> QED
    BY <1>0, <1>14, <2>2, <2>3, HeldStep
<1>27. PICK e \in [Calls -> Seq(Int)] : e = b
  BY <1>11
<1>28. /\ e[c1] = l /\ e[c2] = h /\ e[c] = a[c]
       /\ \A d \in Calls : d # c1 /\ d # c2 => e[d] = a[d]
  BY <1>11, <1>27
<1>29. ASSUME NEW f, NEW d \in Calls, LowerOK(f, d, a) PROVE LowerOK(f, d, e)'
  <2>1. f.call # c1 /\ f.call # c2 /\ d # c /\ f.call \in Calls
    BY <1>15, <1>29
  <2>2. e[f.call] = a[f.call]
    BY <1>28, <2>1
  <2>3. d \in DOMAIN local' /\ local'[d] = local[d]
    BY <1>10, <1>29 DEF LowerOK
  <2> QED
    BY <1>29, <2>2, <2>3 DEF LowerOK
<1>30. FramesOK(e)'
  <2>1. FrameOK(stack[w][m], e)'
    <3>1. Split(e[c], x, e[c1], e[c2])
      BY <1>3, <1>6, <1>28
    <3>2. CallOK(stack[w][m], e)'
      BY <1>6, <1>8, <1>10, <1>14, <3>1 DEF CallOK, c1, c2
    <3> QED
      BY <1>8, <1>14, <3>2 DEF FrameOK
  <2>2. FrameOK(stack[w][m + 1], e)'
    <3>1. c2 \notin DOMAIN local
      BY <1>0, <1>18 DEF Held, EnteredAt
    <3>2. c2 \notin DOMAIN local'
      BY <1>5, <1>10, <3>1
    <3>3. CallOK(stack[w][m + 1], e)'
      BY <1>5, <1>8, <1>14, <1>28, <3>2 DEF CallOK
    <3> QED
      BY <1>8, <1>14, <3>3 DEF FrameOK
  <2>3. ASSUME NEW i \in (m - 1) + 1..Len(stack'[w]) PROVE FrameOK(stack[w][i], e)'
    BY <1>14, <2>1, <2>2
  <2>4. ASSUME NEW v \in Workers, NEW i \in 1..Len(stack[v]), v # w \/ i <= m - 1,
               FrameOK(stack[v][i], a), stack'[v][i] = stack[v][i]
        PROVE  FrameOK(stack[v][i], e)'
    <3>1. v # w \/ i # m
      BY <1>13, <2>4
    <3>2. ~ Alike(stack[v][i], s)
      BY <1>17, <3>1
    <3>3. CASE stack[v][i].kind = "task" /\ stack[v][i].call = Root
      <4>1. RootOK(stack[v][i], a)
        BY <2>4, <3>3 DEF FrameOK, TaskOK
      <4>2. e[Root] = a[Root]
        BY <1>5, <1>28, CallNames
      <4>3. RootOK(stack[v][i], e)'
        BY <2>4, <4>1, <4>2 DEF RootOK, Waits
      <4> QED
        BY <2>4, <3>3, <4>3 DEF FrameOK, TaskOK
    <3>4. CASE stack[v][i].kind = "task" /\ stack[v][i].call # Root
      <4>1. PICK d \in Calls : LowerOK(stack[v][i], d, a)
        BY <2>4, <3>4 DEF FrameOK, TaskOK
      <4>2. LowerOK(stack[v][i], d, e)'
        BY <1>29, <2>4, <4>1
      <4> QED
        BY <2>4, <3>4, <4>2 DEF FrameOK, TaskOK
    <3>5. CASE stack[v][i].kind # "task"
      <4>1. CallOK(stack[v][i], a) /\ stack[v][i].kind = "sort" /\ stack[v][i].call \in Calls
        BY <1>0, <2>4, <3>5, FrameTypes DEF FrameOK, SortFrames
      <4>2. stack[v][i].call # c /\ stack[v][i].call # c1 /\ stack[v][i].call # c2
        BY <1>9, <1>18, <3>2, <4>1 DEF Alike
      <4>3. PICK d \in Calls : d = stack[v][i].call
        BY <4>1
      <4>4. e[d] = a[d] /\ e[Append(d, 1)] = a[Append(d, 1)] /\ e[Append(d, 2)] = a[Append(d, 2)]
        BY <1>5, <1>28, <4>2, <4>3
      <4>5. d \in DOMAIN local' <=> d \in DOMAIN local
        BY <1>10, <4>2, <4>3
      <4>6. CallOK(stack[v][i], e)'
        BY <2>4, <4>1, <4>3, <4>4, <4>5 DEF CallOK
      <4> QED
        BY <2>4, <3>5, <4>6 DEF FrameOK
    <3> QED
      BY <3>3, <3>4, <3>5
  <2> QED
    BY <1>0, <1>14, <2>3, <2>4, FramesStep DEF ListsOK
<1>31. QueuesOK(e)'
  <2> SUFFICES ASSUME NEW v \in Workers, NEW j \in 1..Len(queue'[v])
               PROVE  queue'[v][j].pc = "start" /\ \E d \in Calls : LowerOK(queue[v][j], d, e)'
    BY DEF QueuesOK
  <2>1. CASE j \in 1..Len(queue[v]) /\ queue'[v][j] = queue[v][j]
    <3>1. queue[v][j].pc = "start" /\ \E d \in Calls : LowerOK(queue[v][j], d, a)
      BY <1>19, <2>1
    <3>2. PICK d \in Calls : LowerOK(queue[v][j], d, a)
      BY <3>1
    <3>3. LowerOK(queue[v][j], d, e)'
      BY <1>29, <2>1, <3>2
    <3> QED
      BY <2>1, <3>1, <3>3
  <2>2. CASE queue'[v][j] = t
    <3>1. LowerOK(queue[v][j], c, e)'
      BY <1>8, <1>10, <1>28, <2>2 DEF LowerOK, c1
    <3> QED
      BY <1>8, <2>2, <3>1
  <2> QED
    BY <1>21, <2>1, <2>2
<1>32. DoneOK(e)'
  <2> SUFFICES ASSUME NEW d \in DOMAIN local', local'[d].done
               PROVE  SortedOf(local'[d].lower_sorted, e[Append(d, 1)])
    BY DEF DoneOK
  <2>1. d \in DOMAIN local /\ d # c /\ local'[d] = local[d] /\ d \in Calls
    BY <1>0, <1>10 DEF SortTypes
  <2>2. e[Append(d, 1)] = a[Append(d, 1)]
    BY <1>5, <1>28, <2>1
  <2> QED
    BY <1>0, <2>1, <2>2 DEF ListsOK, DoneOK
<1>33. ListsOK(e)'
  <2>1. e[Root] = input'
    BY <1>0, <1>5, <1>28, CallNames DEF ListsOK
  <2> QED
    BY <1>27, <1>30, <1>31, <1>32, <2>1 DEF ListsOK
<1>34. SortTypes'
  <2>1. DOMAIN local' \subseteq Calls /\ local' \in [DOMAIN local' -> Locals]
    <3>1. DOMAIN local \subseteq Calls /\ local \in [DOMAIN local -> Locals]
      BY <1>0 DEF SortTypes
    <3>2. [lower_sorted |-> << >>, done |-> FALSE] \in Locals
      BY DEF Locals
    <3>3. \A d \in DOMAIN local' : local'[d] \in Locals
      BY <1>10, <3>1, <3>2
    <3> QED
      BY <1>10, <3>1, <3>3
  <2> QED
    BY <1>0, <1>14, <1>20, <2>1 DEF SortTypes, Keeps
<1>35. MainOK'
  BY <1>0 DEF MainOK, Waits
<1>36. SortInvFor(e)'
  BY <1>22, <1>23, <1>24, <1>25, <1>26, <1>33, <1>34, <1>35 DEF SortInvFor, Once
<1> QED
  BY <1>27, <1>36

(* A call begins: an empty list is returned. *)
LEMMA EnterStep ==
  ASSUME NEW a, SortInvFor(a), a \in [Calls -> Seq(Int)], NEW w \in Workers, Enter(w)
  PROVE  \E b \in [Calls -> Seq(Int)] : SortInvFor(b)'
<1>0. SortTypes /\ ListsOK(a)
  BY DEF SortInvFor
<1>1. /\ stack[w] # << >> /\ Top(w).kind = "sort" /\ Top(w).pc = "enter"
      /\ UNCHANGED <<input, global, main, mtx, done, ret, late>>
  BY DEF Enter, In, mainVars
<1>2. CASE Top(w).list = << >>
  <2>1. Returns(w, << >>) /\ UNCHANGED <<queue, local>>
    BY <1>2 DEF Enter
  <2>2. FrameOK(Top(w), a)
    BY <1>0, <1>1, Innermost DEF ListsOK, FramesOK
  <2>3. a[Top(w).call] = << >>
    BY <1>1, <1>2, <2>2 DEF FrameOK, CallOK
  <2>4. << >> \in Seq(Int) /\ SortedOf(<< >>, << >>)
    BY DEF SortedOf, Ascending, SameElements
  <2>5. SortInvFor(a)'
    BY <1>1, <2>1, <2>3, <2>4, ReturnStep
  <2> QED
    BY <2>5
<1>3. CASE Top(w).list # << >>
  <2>1. PICK l \in Lower(Top(w).list), h \in Higher(Top(w).list) :
            /\ queue' = [queue EXCEPT ![w] = Append(@, TaskFrame(Append(Top(w).call, 1), l))]
            /\ local' = [c \in DOMAIN local \cup {Top(w).call} |->
                           IF c = Top(w).call THEN [lower_sorted |-> << >>, done |-> FALSE] ELSE local[c]]
            /\ stack' = [stack EXCEPT ![w] = Front(@)
                           \o <<[Top(w) EXCEPT !.list = <<@[1]>>, !.pc = "call"],
                                SortFrame(Append(Top(w).call, 2), h)>>]
    BY <1>3 DEF Enter
  <2> DEFINE pp == [Top(w) EXCEPT !.list = <<@[1]>>, !.pc = "call"]
             gg == SortFrame(Append(Top(w).call, 2), h)
  <2>2. stack' = [stack EXCEPT ![w] = Front(@) \o <<pp, gg>>]
    BY <2>1
  <2>3. /\ pp \in Frames /\ pp.kind = "sort" /\ pp.call = Top(w).call /\ pp.pc = "call"
        /\ pp.list = <<Top(w).list[1]>>
        /\ gg \in Frames /\ gg.kind = "sort" /\ gg.call = Append(Top(w).call, 2) /\ gg.pc = "enter" /\ gg.list = h
    <3>1. Top(w) \in SortFrames
      BY <1>0, <1>1, Innermost, FrameTypes
    <3>2. Top(w).list \in Seq(Int) /\ Top(w).call \in Calls
      BY <3>1 DEF SortFrames
    <3>3. Split(Top(w).list, Top(w).list[1], l, h)
      BY <1>3, <3>2, Partition
    <3>4. Top(w).list[1] \in Int /\ h \in Seq(Int)
      BY <3>3 DEF Split
    <3>5. <<Top(w).list[1]>> \in Seq(Int) /\ Append(Top(w).call, 2) \in Calls
      <4>1. Append(Top(w).call, 2) \in Calls
        BY <3>2, CallNames
      <4> QED
        BY <3>4, <4>1
    <3>6. pp \in Frames /\ pp.kind = "sort" /\ pp.call = Top(w).call /\ pp.pc = "call" /\ pp.list = <<Top(w).list[1]>>
      BY <3>1, <3>5 DEF Frames, SortFrames
    <3>7. gg \in Frames /\ gg.kind = "sort" /\ gg.call = Append(Top(w).call, 2) /\ gg.pc = "enter" /\ gg.list = h
      BY <3>4, <3>5 DEF Frames, SortFrames, SortFrame
    <3> QED
      BY <3>6, <3>7
  <2> HIDE DEF pp, gg
  <2>4. /\ Keeps(w, Len(stack[w]) - 1) /\ Len(stack'[w]) = Len(stack[w]) + 1
        /\ stack'[w][Len(stack[w])] = pp /\ stack'[w][Len(stack[w]) + 1] = gg
    BY <1>0, <1>1, <2>2, <2>3, Splits
  <2>5. PICK p \in Frames : p = pp
    BY <2>3
  <2>6. PICK g \in Frames : g = gg
    BY <2>3
  <2>7. /\ p.kind = "sort" /\ p.call = Top(w).call /\ p.pc = "call" /\ p.list = <<Top(w).list[1]>>
        /\ g.kind = "sort" /\ g.call = Append(Top(w).call, 2) /\ g.pc = "enter" /\ g.list = h
    BY <2>3, <2>5, <2>6
  <2>8. stack'[w][Len(stack[w])] = p /\ stack'[w][Len(stack[w]) + 1] = g
    BY <2>4, <2>5, <2>6
  <2>9. /\ queue' = [queue EXCEPT ![w] = Append(@, TaskFrame(Append(Top(w).call, 1), l))]
        /\ local' = [c \in DOMAIN local \cup {Top(w).call} |->
                       IF c = Top(w).call THEN [lower_sorted |-> << >>, done |-> FALSE] ELSE local[c]]
    BY <2>1
  <2> QED
    BY <1>1, <1>3, <2>4, <2>7, <2>8, <2>9, SplitStep
<1> QED
  BY <1>2, <1>3

-----------------------------------------------------------------------------
(* The steps of main() change no frame; the root's task stays as it is to be. *)
LEMMA MainStep ==
  ASSUME NEW a, SortInvFor(a),
         UNCHANGED <<input, stack, queue, local, mtx, done, ret, late>>,
         global' \in Seq(TaskFrames),
         main' \in {"submit", "lock", "asleep", "returned", "stopped", "ended"}, MainOK',
         \A w \in Workers : \A i \in 1..Len(stack[w]) :
           stack[w][i].kind = "task" /\ RootOK(stack[w][i], a) => RootOK(stack[w][i], a)'
  PROVE  SortInvFor(a)'
<1>0. SortTypes /\ Stacked /\ Once /\ Held /\ ListsOK(a)
  BY DEF SortInvFor
<1>1. SortTypes'
  BY <1>0 DEF SortTypes
<1>2. Stacked' /\ Once' /\ Held'
  <2>1. Stacked'
    BY <1>0 DEF Stacked
  <2>2. OnceStacked' /\ OnceQueued' /\ NotBoth'
    BY <1>0 DEF Once, OnceStacked, OnceQueued, NotBoth
  <2>3. Held'
    BY <1>0 DEF Held, EnteredAt
  <2> QED
    BY <2>1, <2>2, <2>3 DEF Once
<1>3. FramesOK(a)'
  <2> SUFFICES ASSUME NEW w \in Workers, NEW i \in 1..Len(stack[w])
               PROVE  FrameOK(stack[w][i], a)'
    BY DEF FramesOK
  <2>1. FrameOK(stack[w][i], a)
    BY <1>0 DEF ListsOK, FramesOK
  <2>2. CASE stack[w][i].kind = "task" /\ stack[w][i].call = Root
    BY <2>1, <2>2 DEF FrameOK, TaskOK
  <2>3. CASE stack[w][i].kind = "task" /\ stack[w][i].call # Root
    BY <2>1, <2>3 DEF FrameOK, TaskOK, LowerOK
  <2>4. CASE stack[w][i].kind # "task"
    BY <2>1, <2>4 DEF FrameOK, CallOK
  <2> QED
    BY <2>2, <2>3, <2>4
<1>4. QueuesOK(a)' /\ DoneOK(a)'
  BY <1>0 DEF ListsOK, QueuesOK, DoneOK, LowerOK
<1> QED
  BY <1>0, <1>1, <1>2, <1>3, <1>4 DEF SortInvFor, ListsOK

(* do_sort() submits the root's task. *)
LEMMA SubmitStep ==
  ASSUME NEW a, SortInvFor(a), Submit
  PROVE  SortInvFor(a)'
<1>0. SortTypes /\ MainOK
  BY DEF SortInvFor
<1>1. /\ main = "submit" /\ global = << >> /\ ~done
      /\ UNCHANGED <<input, stack, queue, local, mtx, done, ret, late>>
  BY <1>0 DEF Submit, MainOK
<1>2. \A f : ~ RootOK(f, a)
  BY <1>1 DEF RootOK
<1>3. CASE input = << >>
  <2>1. main' = "returned" /\ global' = global
    BY <1>3 DEF Submit
  <2>2. MainOK'
    BY <1>0, <1>1, <1>3, <2>1 DEF MainOK, Waits
  <2>3. global' \in Seq(TaskFrames)
    BY <1>0, <2>1 DEF SortTypes
  <2> QED
    BY <1>1, <1>2, <2>1, <2>2, <2>3, MainStep
<1>4. CASE input # << >>
  <2>1. main' = "lock" /\ global' = <<TaskFrame(Root, input)>>
    BY <1>4 DEF Submit
  <2>2. MainOK'
    BY <1>0, <1>1, <1>4, <2>1 DEF MainOK, Waits
  <2>3. TaskFrame(Root, input) \in TaskFrames
    BY <1>0, CallNames DEF TaskFrame, TaskFrames, SortTypes
  <2>4. global' \in Seq(TaskFrames)
    BY <2>1, <2>3
  <2> QED
    BY <1>1, <1>2, <2>1, <2>2, <2>4, MainStep
<1> QED
  BY <1>3, <1>4

(* do_sort() holds the mutex: the root's task has not begun or is at its notify. *)
LEMMA WaitDoneStep ==
  ASSUME NEW a, SortInvFor(a), WaitDone
  PROVE  SortInvFor(a)'
<1>0. SortTypes /\ MainOK
  BY DEF SortInvFor
<1>1. /\ main = "lock" /\ mtx = "none" /\ main' = (IF done THEN "returned" ELSE "asleep")
      /\ UNCHANGED <<input, stack, queue, global, local, mtx, done, ret, late>>
  BY DEF WaitDone
<1>2. ASSUME NEW w \in Workers, NEW i \in 1..Len(stack[w]), stack[w][i].kind = "task",
             RootOK(stack[w][i], a)
      PROVE  RootOK(stack[w][i], a)'
  <2>1. stack[w][i].pc \in {"start", "write", "store", "unlock", "notify"}
    BY <1>0, <1>2, FrameTypes DEF TaskFrames
  <2>2. CASE done
    BY <1>1, <1>2, <2>1, <2>2 DEF RootOK, Waits
  <2>3. CASE ~done
    BY <1>1, <1>2, <2>3 DEF RootOK, Waits
  <2> QED
    BY <2>2, <2>3
<1>3. global' \in Seq(TaskFrames) /\ main' \in {"submit", "lock", "asleep", "returned", "stopped", "ended"}
  BY <1>0, <1>1 DEF SortTypes
<1>4. MainOK'
  BY <1>0, <1>1 DEF MainOK, Waits
<1> QED
  BY <1>1, <1>2, <1>3, <1>4, MainStep

(* The other steps of main() do not change whether it waits. *)
LEMMA OtherMainStep ==
  ASSUME NEW a, SortInvFor(a), SpuriousWake \/ Stop \/ Join
  PROVE  SortInvFor(a)'
<1>0. SortTypes /\ MainOK
  BY DEF SortInvFor
<1>1. /\ UNCHANGED <<input, stack, queue, global, local, mtx, done, ret, late>>
      /\ \/ main = "asleep" /\ main' = "lock"
         \/ main = "returned" /\ main' = "stopped"
         \/ main = "stopped" /\ main' = "ended"
  BY DEF SpuriousWake, Stop, Join
<1>2. \A f : RootOK(f, a) => RootOK(f, a)'
  BY <1>1 DEF RootOK, Waits
<1>3. global' \in Seq(TaskFrames) /\ main' \in {"submit", "lock", "asleep", "returned", "stopped", "ended"}
  BY <1>0, <1>1 DEF SortTypes
<1>4. MainOK'
  BY <1>0, <1>1 DEF MainOK, Waits
<1>5. UNCHANGED <<input, stack, queue, local, mtx, done, ret, late>>
  BY <1>1
<1> QED
  BY <1>2, <1>3, <1>4, <1>5, MainStep
-----------------------------------------------------------------------------
(* The invariant holds at first, with any lists for the calls. *)
LEMMA SortInit ==
  ASSUME SortAssumption, Init
  PROVE  SortInv
<1>1. /\ input \in Seq(Int)
      /\ \A w \in Workers : stack[w] = << >> /\ queue[w] = << >>
      /\ global = << >> /\ local = << >> /\ DOMAIN local = {}
      /\ main = "submit" /\ mtx = "none" /\ done = FALSE /\ ret = << >> /\ late = {}
  BY DEF Init, SortAssumption
<1>2. \A w \in Workers : Len(stack[w]) = 0 /\ Len(queue[w]) = 0
  BY <1>1
<1>3. 1..0 = {}
  OBVIOUS
<1>4. PICK a \in [Calls -> Seq(Int)] : a = [c \in Calls |-> input]
  BY <1>1
<1>5. SortTypes
  <2>1. stack \in [Workers -> Seq(Frames)] /\ queue \in [Workers -> Seq(TaskFrames)]
    BY DEF Init
  <2>2. local \in [DOMAIN local -> Locals]
    BY <1>1
  <2>3. global \in Seq(TaskFrames)
    BY <1>1
  <2>4. ret \in Seq(Int)
    BY <1>1
  <2>7. done \in BOOLEAN
    BY <1>1
  <2>5. DOMAIN local \subseteq Calls
    BY <1>1
  <2>6. /\ main \in {"submit", "lock", "asleep", "returned", "stopped", "ended"}
        /\ mtx \in {"main", "task", "none"}
    BY <1>1
  <2> QED
    BY <1>1, <2>1, <2>2, <2>3, <2>4, <2>5, <2>6, <2>7 DEF SortTypes
<1>6. Stacked /\ Once /\ Held
  BY <1>1, <1>2, <1>3 DEF Stacked, Once, OnceStacked, OnceQueued, NotBoth, Held
<1>7. MainOK
  BY <1>1 DEF MainOK
<1>8. ListsOK(a)
  <2>1. a[Root] = input
    BY <1>4, CallNames
  <2> QED
    BY <1>1, <1>2, <1>3, <2>1 DEF ListsOK, FramesOK, QueuesOK, DoneOK
<1>9. SortInvFor(a)
  BY <1>5, <1>6, <1>7, <1>8 DEF SortInvFor
<1> QED
  BY <1>9 DEF SortInv

(* Every step keeps the invariant. *)
LEMMA SortNext ==
  ASSUME SortInv, [Next]_vars
  PROVE  SortInv'
<1>1. PICK a \in [Calls -> Seq(Int)] : SortInvFor(a)
  BY DEF SortInv
<1>2. (\E b \in [Calls -> Seq(Int)] : SortInvFor(b)') => SortInv'
  BY DEF SortInv, Calls
<1>3. ASSUME NEW w \in Workers, Work(w) PROVE \E b \in [Calls -> Seq(Int)] : SortInvFor(b)'
  <2>1. CASE Enter(w)
    BY <1>1, <2>1, EnterStep
  <2>2. CASE Merge(w)
    BY <1>1, <2>2, MergeStep
  <2>3. CASE RunPending(w)
    BY <1>1, <2>3, RunPendingStep
  <2>4. CASE Start(w)
    BY <1>1, <2>4, StartStep
  <2>5. CASE Write(w)
    BY <1>1, <2>5, WriteStep
  <2>6. CASE Store(w)
    BY <1>1, <2>6, StoreStep
  <2>7. CASE Unlock(w)
    BY <1>1, <2>7, UnlockStep
  <2>8. CASE Notify(w)
    BY <1>1, <2>8, NotifyStep
  <2> QED
    BY <1>3, <2>1, <2>2, <2>3, <2>4, <2>5, <2>6, <2>7, <2>8 DEF Work
<1>4. CASE MainThread \/ SpuriousWake
  <2>1. CASE Submit
    BY <1>1, <1>2, <2>1, SubmitStep
  <2>2. CASE WaitDone
    BY <1>1, <1>2, <2>2, WaitDoneStep
  <2>3. CASE SpuriousWake \/ Stop \/ Join
    BY <1>1, <1>2, <2>3, OtherMainStep
  <2> QED
    BY <1>4, <2>1, <2>2, <2>3 DEF MainThread
<1>5. CASE UNCHANGED vars
  <2>1. UNCHANGED <<input, stack, queue, global, local, main, mtx, done, ret, late>>
    BY <1>5 DEF vars, mainVars
  <2>2. /\ global' \in Seq(TaskFrames) /\ MainOK'
        /\ main' \in {"submit", "lock", "asleep", "returned", "stopped", "ended"}
    BY <1>1, <2>1 DEF SortInvFor, SortTypes, MainOK, Waits
  <2>3. \A f : RootOK(f, a) => RootOK(f, a)'
    BY <2>1 DEF RootOK, Waits
  <2>4. SortInvFor(a)'
    BY <1>1, <2>1, <2>2, <2>3, MainStep
  <2> QED
    BY <1>2, <2>4
<1> QED
  BY <1>2, <1>3, <1>4, <1>5 DEF Next

-----------------------------------------------------------------------------
(* The list that do_sort() returns. *)
LEMMA ListSorted ==
  ASSUME SortTypes, MainOK
  PROVE  SortsTheList
<1> SUFFICES ASSUME main \in {"returned", "stopped", "ended"}
             PROVE  /\ ret = seq_quick_sort[input]
                    /\ \A i \in 1..Len(ret) - 1 : ret[i] <= ret[i + 1]
                    /\ \A x \in Range(input) \cup Range(ret) :
                         Cardinality({i \in DOMAIN ret : ret[i] = x})
                           = Cardinality({i \in DOMAIN input : input[i] = x})
  BY DEF SortsTheList
<1>1. input \in Seq(Int) /\ ret \in Seq(Int)
  BY DEF SortTypes
<1>2. SortedOf(ret, input)
  <2>1. CASE done
    BY <2>1 DEF MainOK
  <2>2. CASE input = << >>
    BY <1>1, <2>2 DEF MainOK, SortedOf, Ascending, SameElements
  <2> QED
    BY <2>1, <2>2 DEF MainOK
<1>3. SortedOf(seq_quick_sort[input], input)
  BY <1>1, SeqQuickSortSorts
<1>4. ret = seq_quick_sort[input]
  BY <1>2, <1>3, SortedOnce
<1>5. \A i \in 1..Len(ret) - 1 : ret[i] <= ret[i + 1]
  <2>1. Len(ret) \in Nat
    BY <1>1, LenProperties
  <2>2. \A i \in 1..Len(ret) - 1 : i \in 1..Len(ret) /\ i + 1 \in 1..Len(ret) /\ i < i + 1
    BY <2>1
  <2> QED
    BY <1>2, <2>2 DEF SortedOf, Ascending
<1>6. \A x : Cardinality({i \in DOMAIN ret : ret[i] = x}) = Cardinality({i \in DOMAIN input : input[i] = x})
  <2>1. DOMAIN ret = 1..Len(ret) /\ DOMAIN input = 1..Len(input)
    BY <1>1, LenProperties
  <2> QED
    BY <1>2, <2>1 DEF SortedOf, SameElements, Count
<1> QED
  BY <1>4, <1>5, <1>6

(* The frames on the stacks. *)
LEMMA StackRange ==
  ASSUME SortTypes, NEW f
  PROVE  f \in UNION {Range(stack[w]) : w \in Workers}
           <=> \E w \in Workers : \E i \in 1..Len(stack[w]) : f = stack[w][i]
<1>1. \A w \in Workers : Range(stack[w]) = {stack[w][i] : i \in 1..Len(stack[w])}
  <2> SUFFICES ASSUME NEW w \in Workers PROVE Range(stack[w]) = {stack[w][i] : i \in 1..Len(stack[w])}
    OBVIOUS
  <2>1. stack[w] \in Seq(Frames)
    BY DEF SortTypes
  <2> QED
    BY <2>1, RangeEquality
<1> QED
  BY <1>1

(* Where a task is. *)
LEMMA InTasks ==
  ASSUME NEW x \in Tasks
  PROVE  \/ \E w \in Workers : x \in Range(queue[w])
         \/ x \in Range(global)
         \/ x \in UNION {Range(stack[w]) : w \in Workers} /\ x.kind = "task"
<1> DEFINE A == UNION {Range(queue[w]) : w \in Workers}
           B == Range(global)
           D == UNION {Range(stack[w]) : w \in Workers}
<1>1. Tasks = A \cup B \cup {f \in D : f.kind = "task"}
  BY DEF Tasks
<1>2. x \in A => \E w \in Workers : x \in Range(queue[w])
  OBVIOUS
<1> HIDE DEF A, B, D
<1>3. x \in A \/ x \in B \/ (x \in D /\ x.kind = "task")
  BY <1>1
<1> QED
  BY <1>2, <1>3 DEF B, D

(* A task's captured references are alive until its last access but the notify. *)
LEMMA TasksLive ==
  ASSUME NEW a, SortInvFor(a), NEW f \in Tasks, f.pc # "notify"
  PROVE  Alive(f.call)
<1>0. SortTypes /\ MainOK /\ ListsOK(a)
  BY DEF SortInvFor
<1>1. ASSUME NEW c \in Calls, LowerOK(f, c, a) PROVE Alive(f.call)
  <2>1. f.call = Append(c, 1) /\ c \in DOMAIN local
    BY <1>1 DEF LowerOK
  <2>2. f.call # Root /\ Front(f.call) = c
    BY <2>1, CallNames
  <2> QED
    BY <2>1, <2>2 DEF Alive, Parent
<1>2. CASE \E w \in Workers : f \in Range(queue[w])
  <2>1. PICK w \in Workers : f \in Range(queue[w])
    BY <1>2
  <2>2. queue[w] \in Seq(TaskFrames)
    BY <1>0 DEF SortTypes
  <2>3. PICK i \in 1..Len(queue[w]) : f = queue[w][i]
    BY <2>1, <2>2, RangeEquality
  <2>4. PICK c \in Calls : LowerOK(f, c, a)
    BY <1>0, <2>3 DEF ListsOK, QueuesOK
  <2> QED
    BY <1>1, <2>4
<1>3. CASE f \in Range(global)
  <2>1. global # << >>
    BY <1>3 DEF Range
  <2>2. global = <<TaskFrame(Root, input)>> /\ Waits
    BY <1>0, <2>1 DEF MainOK
  <2>3. f = TaskFrame(Root, input)
    BY <1>3, <2>2 DEF Range
  <2> QED
    BY <2>2, <2>3 DEF TaskFrame, Alive, Waits
<1>4. CASE \E w \in Workers : \E i \in 1..Len(stack[w]) : f = stack[w][i] /\ f.kind = "task"
  <2>1. TaskOK(f, a)
    BY <1>0, <1>4 DEF ListsOK, FramesOK, FrameOK
  <2>2. CASE f.call = Root
    BY <2>1, <2>2 DEF TaskOK, RootOK, Waits, Alive
  <2>3. CASE f.call # Root
    BY <1>1, <2>1, <2>3 DEF TaskOK
  <2> QED
    BY <2>2, <2>3
<1> QED
  <2>1. \/ \E w \in Workers : f \in Range(queue[w])
        \/ f \in Range(global)
        \/ f \in UNION {Range(stack[w]) : w \in Workers} /\ f.kind = "task"
    BY InTasks
  <2> QED
    BY <1>0, <1>2, <1>3, <1>4, <2>1, StackRange

(* The locals that are live are those of the calls on the stacks. *)
LEMMA EnteredCalls ==
  ASSUME NEW a, SortInvFor(a)
  PROVE  DOMAIN local = {f.call : f \in {g \in UNION {Range(stack[w]) : w \in Workers} :
                                           g.kind = "sort" /\ g.pc # "enter"}}
<1> DEFINE F == {g \in UNION {Range(stack[w]) : w \in Workers} : g.kind = "sort" /\ g.pc # "enter"}
<1>0. SortTypes /\ Held /\ ListsOK(a)
  BY DEF SortInvFor
<1>1. ASSUME NEW c \in DOMAIN local PROVE \E f \in F : f.call = c
  <2>1. PICK w \in Workers : \E i \in 1..Len(stack[w]) : EnteredAt(w, i, c)
    BY <1>0 DEF Held
  <2>2. PICK i \in 1..Len(stack[w]) : EnteredAt(w, i, c)
    BY <2>1
  <2>3. stack[w][i] \in F /\ stack[w][i].call = c
    BY <1>0, <2>2, StackRange DEF EnteredAt
  <2> QED
    BY <2>3
<1>2. ASSUME NEW f \in F PROVE f.call \in DOMAIN local
  <2>1. \E w \in Workers : \E i \in 1..Len(stack[w]) : f = stack[w][i]
    BY <1>0, <1>2, StackRange
  <2>2. FrameOK(f, a) /\ f.kind = "sort" /\ f.pc # "enter"
    BY <1>0, <2>1 DEF ListsOK, FramesOK
  <2> QED
    BY <2>2 DEF FrameOK, CallOK
<1> QED
  BY <1>1, <1>2

(* When do_sort() has returned no call is left: the shortest would have been called by a  *)
(* shorter one or by the root's task before its notify.                                 *)
LEMMA NoCallLeft ==
  ASSUME NEW a, SortInvFor(a), ~Waits
  PROVE  DOMAIN local = {}
<1> DEFINE N == {Len(c) : c \in DOMAIN local}
<1> SUFFICES ASSUME N # {} PROVE FALSE
  OBVIOUS
<1>0. SortTypes /\ Stacked /\ Held /\ ListsOK(a)
  BY DEF SortInvFor
<1>1. \A c \in DOMAIN local : c \in Calls /\ Len(c) \in Nat
  <2>1. \A c \in DOMAIN local : c \in Calls
    BY <1>0 DEF SortTypes
  <2>2. \A c \in Calls : Len(c) \in Nat
    BY LenProperties DEF Calls
  <2> QED
    BY <2>1, <2>2
<1>2. N \in SUBSET Nat
  BY <1>1
<1>3. PICK m \in N : \A k \in N : m <= k
  BY <1>2, Least
<1>4. PICK c \in DOMAIN local : Len(c) = m
  OBVIOUS
<1>5. \A d \in DOMAIN local : ~ (Len(d) < Len(c))
  BY <1>1, <1>3, <1>4
<1>6. PICK w \in Workers : \E i \in 1..Len(stack[w]) : EnteredAt(w, i, c)
  BY <1>0 DEF Held
<1>7. PICK i \in 1..Len(stack[w]) : EnteredAt(w, i, c)
  BY <1>6
<1>8. stack[w][i].kind = "sort" /\ stack[w][i].call = c
  BY <1>7 DEF EnteredAt
<1>9. /\ i - 1 \in 1..Len(stack[w]) /\ stack[w][i - 1] \in Frames
      /\ \/ /\ stack[w][i - 1].kind = "task" /\ stack[w][i - 1].pc = "start" /\ stack[w][i - 1].call = c
         \/ /\ stack[w][i - 1].kind = "sort" /\ stack[w][i - 1].pc = "call"
            /\ c = Append(stack[w][i - 1].call, 2)
  BY <1>0, <1>8, UnderCall
<1>10. PICK f \in Frames : f = stack[w][i - 1]
  BY <1>9
<1>11. FrameOK(f, a)
  BY <1>0, <1>9, <1>10 DEF ListsOK, FramesOK
<1>12. CASE f.kind = "task" /\ f.pc = "start" /\ f.call = c
  <2>1. TaskOK(f, a)
    BY <1>11, <1>12 DEF FrameOK
  <2>2. CASE c = Root
    BY <1>12, <2>1, <2>2 DEF TaskOK, RootOK
  <2>3. CASE c # Root
    <3>1. PICK d \in Calls : d \in DOMAIN local /\ c = Append(d, 1)
      BY <1>12, <2>1, <2>3 DEF TaskOK, LowerOK
    <3> QED
      BY <1>5, <3>1, CallNames
  <2> QED
    BY <2>2, <2>3
<1>13. CASE f.kind = "sort" /\ f.pc = "call" /\ c = Append(f.call, 2)
  <2>1. f.call \in DOMAIN local
    BY <1>11, <1>13 DEF FrameOK, CallOK
  <2>2. f.call \in Calls
    BY <1>1, <2>1
  <2> QED
    BY <1>5, <1>13, <2>1, <2>2, CallNames
<1> QED
  BY <1>9, <1>10, <1>12, <1>13

(* The pool stops with nothing queued and no call in it. *)
LEMMA NothingLeft ==
  ASSUME NEW a, SortInvFor(a)
  PROVE  NothingLeftBehind
<1>0. SortTypes /\ MainOK /\ ListsOK(a)
  BY DEF SortInvFor
<1> SUFFICES ASSUME main \in {"stopped", "ended"}
             PROVE  (\A w \in Workers : queue[w] = << >>) /\ global = << >> /\ local = << >>
  BY DEF NothingLeftBehind
<1>1. ~Waits
  BY DEF Waits
<1>2. DOMAIN local = {}
  BY <1>1, NoCallLeft
<1>3. ASSUME NEW w \in Workers PROVE queue[w] = << >>
  <2>1. queue[w] \in Seq(TaskFrames)
    BY <1>0 DEF SortTypes
  <2>2. 1..Len(queue[w]) = {}
    BY <1>0, <1>2 DEF ListsOK, QueuesOK, LowerOK
  <2>3. Len(queue[w]) \in Nat
    BY <2>1, LenProperties
  <2>4. Len(queue[w]) = 0
    <3>1. ~ (1 \in 1..Len(queue[w]))
      BY <2>2
    <3> QED
      BY <2>3, <3>1
  <2> QED
    BY <2>1, <2>4, EmptySeq
<1>4. global = << >>
  BY <1>0, <1>1 DEF MainOK
<1>5. local = << >>
  <2>1. local \in [DOMAIN local -> Locals]
    BY <1>0 DEF SortTypes
  <2>2. 1..0 = {}
    OBVIOUS
  <2>3. local \in [1..0 -> Locals]
    BY <1>2, <2>1, <2>2
  <2>4. local \in Seq(Locals)
    BY <2>3, SeqDef
  <2>5. Len(local) = 0
    BY <2>3, <2>4, LenProperties
  <2> QED
    BY <2>4, <2>5, EmptySeq
<1> QED
  BY <1>3, <1>4, <1>5

(* The invariant implies the safety statements. *)
LEMMA SortInvIsSafe == SortInv => Safety
<1> SUFFICES ASSUME NEW a, SortInvFor(a) PROVE Safety
  BY DEF SortInv
<1>1. SortsTheList
  BY ListSorted DEF SortInvFor
<1>2. ReferencesLive
  BY TasksLive, EnteredCalls DEF ReferencesLive
<1>3. OnlyTheNotifyIsLate
  BY DEF SortInvFor, MainOK, OnlyTheNotifyIsLate
<1>4. NothingLeftBehind
  BY NothingLeft
<1> QED
  BY <1>1, <1>2, <1>3, <1>4 DEF Safety

(* For every number of workers and every set of lists of integers: do_sort() returns its
   list in order with the elements it had, no task writes to a call that is gone, only the
   last notify can be late, and nothing is left when the pool stops. *)
THEOREM SafetyHolds ==
  ASSUME SortAssumption
  PROVE  Spec => []Safety
<1>1. Init => SortInv
  BY SortInit
<1>2. SortInv /\ [Next]_vars => SortInv'
  BY SortNext
<1>3. SortInv => Safety
  BY SortInvIsSafe
<1> QED
  BY <1>1, <1>2, <1>3, PTL DEF Spec
=============================================================================
