----------------------------- MODULE DataLemmas -----------------------------
(***************************************************************************)
(* Facts about the numbers, sets and sequences the models are built from,  *)
(* which the proofs of several components cite.                            *)
(***************************************************************************)
EXTENDS Lists, FiniteSetsExt, SequencesExt, FiniteSetTheorems, SequenceTheorems,
        WellFoundedInduction, TLAPS

(* A set of numbers that is not empty has a least member.                    *)
LEMMA LeastOf ==
    ASSUME NEW S \in SUBSET Nat, S # {}
    PROVE  \E x \in S : \A y \in S : x <= y
<1>1. PICK x \in S : \A y \in S : ~(<<y, x>> \in OpToRel(<, Nat))
  BY NatLessThanWellFounded, WFMin
<1>2. \A y \in S : ~(y < x)
  BY <1>1 DEF OpToRel
<1> QED
  BY <1>2

(* A set of numbers with a bound has a greatest member.                      *)
LEMMA GreatestOf ==
    ASSUME NEW S \in SUBSET Nat, S # {}, NEW n \in Nat, \A x \in S : x <= n
    PROVE  \E x \in S : \A y \in S : y <= x
<1> DEFINE T == {n - x : x \in S}
<1>1. T \in SUBSET Nat /\ T # {}
  <2>1. \A x \in S : n - x \in Nat
    OBVIOUS
  <2> QED
    BY <2>1
<1>2. PICK t \in T : \A u \in T : t <= u
  BY <1>1, LeastOf
<1>3. PICK x \in S : t = n - x
  OBVIOUS
<1>4. \A y \in S : n - x <= n - y
  BY <1>2, <1>3
<1> QED
  BY <1>3, <1>4

(* FiniteSetsExt's Max of such a set is that member.                         *)
LEMMA MaxOf ==
    ASSUME NEW S \in SUBSET Nat, S # {}, NEW n \in Nat, \A x \in S : x <= n
    PROVE  Max(S) \in S /\ \A y \in S : y <= Max(S)
<1>1. \E x \in S : \A y \in S : x >= y
  BY GreatestOf
<1> QED
  BY <1>1 DEF Max

(* Min of two numbers is the smaller, as std::min returns it.                *)
LEMMA MinOfTwo ==
    ASSUME NEW a \in Int, NEW b \in Int
    PROVE  Min({a, b}) = IF a <= b THEN a ELSE b
BY DEF Min

(* Erasing one element leaves the others in their order.                     *)
LEMMA RemoveAtProperties ==
    ASSUME NEW S, NEW s \in Seq(S), NEW i \in 1 .. Len(s)
    PROVE  /\ RemoveAt(s, i) \in Seq(S) /\ Len(RemoveAt(s, i)) = Len(s) - 1
           /\ \A j \in 1 .. Len(s) - 1 : RemoveAt(s, i)[j] = IF j < i THEN s[j] ELSE s[j + 1]
<1>1. /\ SubSeq(s, 1, i - 1) \in Seq(S) /\ Len(SubSeq(s, 1, i - 1)) = i - 1
      /\ \A j \in 1 .. i - 1 : SubSeq(s, 1, i - 1)[j] = s[j]
  BY SubSeqProperties
<1>2. /\ SubSeq(s, i + 1, Len(s)) \in Seq(S) /\ Len(SubSeq(s, i + 1, Len(s))) = Len(s) - i
      /\ \A j \in 1 .. Len(s) - i : SubSeq(s, i + 1, Len(s))[j] = s[i + j]
  BY SubSeqProperties
<1> DEFINE a == SubSeq(s, 1, i - 1)
           b == SubSeq(s, i + 1, Len(s))
<1>3. Len(s) \in Nat /\ RemoveAt(s, i) = a \o b
  BY LenProperties DEF RemoveAt
<1> HIDE DEF a, b
<1>4. a \in Seq(S) /\ b \in Seq(S) /\ Len(a) = i - 1 /\ Len(b) = Len(s) - i
  BY <1>1, <1>2 DEF a, b
<1>5. /\ a \o b \in Seq(S) /\ Len(a \o b) = Len(a) + Len(b)
      /\ \A j \in 1 .. Len(a) + Len(b) : (a \o b)[j] = IF j <= Len(a) THEN a[j] ELSE b[j - Len(a)]
  BY <1>4, ConcatProperties
<1>6. ASSUME NEW j \in 1 .. Len(s) - 1 PROVE (a \o b)[j] = IF j < i THEN s[j] ELSE s[j + 1]
  <2>1. CASE j < i
    BY <1>1, <1>3, <1>4, <1>5, <2>1 DEF a
  <2>2. CASE i <= j
    <3>1. (a \o b)[j] = b[j - (i - 1)] /\ j - (i - 1) \in 1 .. Len(s) - i
      BY <1>3, <1>4, <1>5, <2>2
    <3>2. b[j - (i - 1)] = s[i + (j - (i - 1))]
      BY <1>2, <3>1 DEF b
    <3>3. i + (j - (i - 1)) = j + 1
      BY <1>3
    <3> QED
      BY <2>2, <3>1, <3>2, <3>3
  <2>3. j < i \/ (i <= j /\ ~(j < i))
    OBVIOUS
  <2> QED
    BY <2>1, <2>2, <2>3
<1> QED
  BY <1>3, <1>4, <1>5, <1>6

(* Two finite sets with nothing in common have as many elements as both.     *)
LEMMA DisjointUnion ==
    ASSUME NEW S, NEW T, IsFiniteSet(S), IsFiniteSet(T), S \cap T = {}
    PROVE  /\ IsFiniteSet(S \cup T)
           /\ Cardinality(S \cup T) = Cardinality(S) + Cardinality(T)
<1>1. Cardinality(S \cap T) = 0
  BY FS_EmptySet
<1>2. Cardinality(S) \in Nat /\ Cardinality(T) \in Nat
  BY FS_CardinalityType
<1>3. /\ IsFiniteSet(S \cup T)
      /\ Cardinality(S \cup T) = Cardinality(S) + Cardinality(T) - Cardinality(S \cap T)
  BY FS_Union
<1> QED
  BY <1>1, <1>2, <1>3

(* A loop that starts in T and whose steps stay in T stays there: by the     *)
(* least place at which it would not.                                        *)
LEMMA LoopStays ==
    ASSUME NEW n \in Nat, NEW T, NEW f, f[0] \in T,
           \A i \in 1 .. n : f[i - 1] \in T => f[i] \in T
    PROVE  \A i \in 0 .. n : f[i] \in T
<1> DEFINE S == {i \in 0 .. n : f[i] \notin T}
<1>1. SUFFICES ASSUME S # {} PROVE FALSE
  OBVIOUS
<1>2. PICK i \in S : \A j \in S : i <= j
  <2>1. S \in SUBSET Nat
    OBVIOUS
  <2> HIDE DEF S
  <2> QED
    BY <1>1, <2>1, LeastOf
<1>3. i \in 1 .. n /\ i - 1 \in 0 .. n /\ i - 1 \notin S
  BY <1>2
<1> QED
  BY <1>2, <1>3

(* A loop of n rounds exists when each round has an outcome in T from every  *)
(* member of T: again by the least number of rounds for which it would not.  *)
Rounds(T, n)         == [T \X (1 .. n) -> T]
Loops(T, n, base, g) == {f \in [0 .. n -> T] :
                            f[0] = base /\ \A i \in 1 .. n : f[i] = g[<<f[i - 1], i>>]}

LEMMA LoopExists ==
    ASSUME NEW n \in Nat, NEW T, NEW base \in T, NEW g \in Rounds(T, n)
    PROVE  Loops(T, n, base, g) # {}
<1> SUFFICES \E f \in [0 .. n -> T] : f[0] = base /\ \A i \in 1 .. n : f[i] = g[<<f[i - 1], i>>]
  BY DEF Loops
<1>0. g \in [T \X (1 .. n) -> T]
  BY DEF Rounds
<1> DEFINE Runs(m, f) == f[0] = base /\ \A i \in 1 .. m : f[i] = g[<<f[i - 1], i>>]
           S == {m \in 0 .. n : ~ \E f \in [0 .. m -> T] : Runs(m, f)}
<1>1. SUFFICES ASSUME S # {} PROVE FALSE
  <2>1. n \in 0 .. n
    OBVIOUS
  <2> QED
    BY <2>1
<1>2. PICK m \in S : \A j \in S : m <= j
  <2>1. S \in SUBSET Nat
    OBVIOUS
  <2> HIDE DEF S
  <2> QED
    BY <1>1, <2>1, LeastOf
<1>3. CASE m = 0
  <2> DEFINE f == [i \in 0 .. 0 |-> base]
  <2>1. f \in [0 .. 0 -> T] /\ Runs(0, f)
    OBVIOUS
  <2> QED
    BY <1>2, <1>3, <2>1
<1>4. CASE m # 0
  <2>1. m \in 1 .. n /\ m - 1 \in 0 .. n /\ m - 1 \notin S
    BY <1>2, <1>4
  <2>2. PICK f \in [0 .. m - 1 -> T] : Runs(m - 1, f)
    BY <2>1
  <2> DEFINE last == g[<<f[m - 1], m>>]
             h == [i \in 0 .. m |-> IF i = m THEN last ELSE f[i]]
  <2>3. last \in T
    BY <1>0, <2>1, <2>2
  <2> HIDE DEF last
  <2>4. h \in [0 .. m -> T] /\ h[0] = base
    BY <2>1, <2>2, <2>3
  <2>5. ASSUME NEW i \in 1 .. m PROVE h[i] = g[<<h[i - 1], i>>]
    <3>1. CASE i = m
      <4>1. h[i] = last /\ h[i - 1] = f[m - 1]
        BY <2>1, <3>1
      <4> QED
        BY <3>1, <4>1 DEF last
    <3>2. CASE i # m
      <4>1. i \in 1 .. m - 1 /\ h[i] = f[i] /\ h[i - 1] = f[i - 1]
        BY <2>1, <3>2
      <4> QED
        BY <2>2, <4>1
    <3> QED
      BY <3>1, <3>2
  <2> HIDE DEF h
  <2>6. Runs(m, h)
    BY <2>4, <2>5
  <2> QED
    BY <1>2, <2>4, <2>6
<1> QED
  BY <1>3, <1>4

AscendingOver(I) ==
    {k \in [1 .. Cardinality(I) -> I] :
        Range(k) = I /\ \A i, j \in DOMAIN k : i < j => k[i] < k[j]}

(* Of finite sets, one is the smallest: with this, what holds of a set once   *)
(* it holds of it less a member holds of all that are finite.                *)
LEMMA SmallestOf ==
    ASSUME NEW Sets, Sets # {}, \A J \in Sets : IsFiniteSet(J)
    PROVE  \E J \in Sets : \A K \in Sets : Cardinality(J) <= Cardinality(K)
<1> DEFINE Sizes == {Cardinality(J) : J \in Sets}
<1>1. \A J \in Sets : Cardinality(J) \in Nat
  BY FS_CardinalityType
<1>2. Sizes \in SUBSET Nat /\ Sizes # {}
  BY <1>1
<1>3. PICK n \in Sizes : \A m \in Sizes : n <= m
  <2> HIDE DEF Sizes
  <2> QED
    BY <1>2, LeastOf
<1> QED
  BY <1>3

LEMMA FiniteBounded ==
    ASSUME NEW I \in SUBSET Nat, IsFiniteSet(I)
    PROVE  \E n \in Nat : \A x \in I : x <= n
<1> DEFINE Bad == {J \in SUBSET Nat : IsFiniteSet(J) /\ ~ \E n \in Nat : \A x \in J : x <= n}
<1>1. SUFFICES ASSUME Bad # {} PROVE FALSE
  OBVIOUS
<1>2. \A J \in Bad : IsFiniteSet(J)
  OBVIOUS
<1>3. PICK J \in Bad : \A K \in Bad : Cardinality(J) <= Cardinality(K)
  <2> HIDE DEF Bad
  <2> QED
    BY <1>1, <1>2, SmallestOf
<1>4. J \in SUBSET Nat /\ IsFiniteSet(J) /\ Cardinality(J) \in Nat
  BY FS_CardinalityType
<1>5. PICK y \in J : TRUE
  BY 0 \in Nat
<1>6. J \ {y} \in SUBSET Nat /\ IsFiniteSet(J \ {y}) /\ Cardinality(J \ {y}) = Cardinality(J) - 1
  BY <1>4, <1>5, FS_RemoveElement
<1>7. J \ {y} \notin Bad
  BY <1>3, <1>4, <1>6
<1>8. PICK n \in Nat : \A x \in J \ {y} : x <= n
  BY <1>6, <1>7
<1>9. y \in Nat /\ n + y \in Nat /\ \A x \in J : x \in Nat /\ x <= n + y
  BY <1>4, <1>8
<1> QED
  BY <1>9

(* Every finite set of numbers can be listed in ascending order: by the      *)
(* smallest that could not, less its greatest member.                        *)
LEMMA AscendingExists ==
    ASSUME NEW I \in SUBSET Nat, IsFiniteSet(I)
    PROVE  AscendingOver(I) # {}
<1> DEFINE Bad == {J \in SUBSET Nat : IsFiniteSet(J) /\ AscendingOver(J) = {}}
<1>1. SUFFICES ASSUME Bad # {} PROVE FALSE
  OBVIOUS
<1>2. \A J \in Bad : IsFiniteSet(J)
  OBVIOUS
<1>3. PICK J \in Bad : \A K \in Bad : Cardinality(J) <= Cardinality(K)
  <2> HIDE DEF Bad
  <2> QED
    BY <1>1, <1>2, SmallestOf
<1>4. J \in SUBSET Nat /\ IsFiniteSet(J) /\ AscendingOver(J) = {} /\ Cardinality(J) \in Nat
  BY FS_CardinalityType
<1>5. CASE J = {}
  <2>1. Cardinality(J) = 0
    BY <1>5, FS_EmptySet
  <2>2. 1 .. Cardinality(J) = {}
    BY <2>1
  <2>3. <<>> \in [1 .. Cardinality(J) -> J] /\ Range(<<>>) = J /\ DOMAIN <<>> = {}
    BY <1>5, <2>2 DEF Range
  <2>4. <<>> \in AscendingOver(J)
    BY <2>3 DEF AscendingOver
  <2> QED
    BY <1>4, <2>4
<1>6. CASE J # {}
  <2>1. PICK x \in J : \A y \in J : y <= x
    <3>1. \E n \in Nat : \A y \in J : y <= n
      BY <1>4, FiniteBounded
    <3> QED
      BY <1>4, <1>6, <3>1, GreatestOf
  <2> DEFINE K == J \ {x}
             n == Cardinality(K)
  <2>2. K \in SUBSET Nat /\ IsFiniteSet(K) /\ n = Cardinality(J) - 1
    BY <1>4, <2>1, FS_RemoveElement
  <2>3. n \in Nat
    BY <2>2, FS_CardinalityType
  <2>4. K \notin Bad
    BY <1>3, <1>4, <2>2, <2>3
  <2>5. PICK k \in AscendingOver(K) : TRUE
    BY <2>2, <2>4
  <2> HIDE DEF K, n
  <2>6. /\ k \in [1 .. n -> K] /\ Range(k) = K
        /\ \A i, j \in 1 .. n : i < j => k[i] < k[j]
    BY <2>5 DEF AscendingOver, n
  <2> DEFINE h == [i \in 1 .. n + 1 |-> IF i = n + 1 THEN x ELSE k[i]]
  <2>7. /\ h \in [1 .. n + 1 -> J] /\ h[n + 1] = x
        /\ \A i \in 1 .. n : h[i] = k[i]
    BY <2>1, <2>3, <2>6 DEF K
  <2> HIDE DEF h
  <2>8. Range(h) = J
    <3>1. ASSUME NEW y \in J PROVE \E i \in 1 .. n + 1 : h[i] = y
      <4>1. CASE y = x
        BY <2>3, <2>7, <4>1
      <4>2. CASE y # x
        <5>1. PICK i \in 1 .. n : k[i] = y
          BY <2>6, <4>2 DEF K, Range
        <5> QED
          BY <2>3, <2>7, <5>1
      <4> QED
        BY <4>1, <4>2
    <3> QED
      BY <2>7, <3>1 DEF Range
  <2>9. ASSUME NEW i \in 1 .. n + 1, NEW j \in 1 .. n + 1, i < j PROVE h[i] < h[j]
    <3>1. i \in 1 .. n /\ h[i] = k[i] /\ k[i] \in K
      BY <2>3, <2>6, <2>7, <2>9
    <3>2. CASE j = n + 1
      <4>1. k[i] \in Nat /\ x \in Nat /\ k[i] # x /\ k[i] <= x
        BY <1>4, <2>1, <3>1 DEF K
      <4> QED
        BY <2>7, <3>1, <3>2, <4>1
    <3>3. CASE j # n + 1
      <4>1. j \in 1 .. n /\ h[j] = k[j]
        BY <2>3, <2>7, <3>3
      <4> QED
        BY <2>6, <2>9, <3>1, <4>1
    <3> QED
      BY <3>2, <3>3
  <2>10. n + 1 = Cardinality(J)
    BY <1>4, <2>2
  <2>11. h \in AscendingOver(J)
    BY <2>7, <2>8, <2>9, <2>10 DEF AscendingOver
  <2> QED
    BY <1>4, <2>11
<1> QED
  BY <1>5, <1>6

(* What Ascending chooses for a finite set lists its members in their order. *)
LEMMA AscendingLists ==
    ASSUME NEW I \in SUBSET Nat, IsFiniteSet(I)
    PROVE  \E n \in Nat :
              /\ DOMAIN Ascending(I) = 1 .. n
              /\ \A i \in 1 .. n : Ascending(I)[i] \in I
              /\ \A i, j \in 1 .. n : i < j => Ascending(I)[i] < Ascending(I)[j]
              /\ \A m \in I : \E i \in 1 .. n : Ascending(I)[i] = m
<1> DEFINE n == Cardinality(I)
           k == Ascending(I)
<1>1. n \in Nat
  BY FS_CardinalityType
<1>2. AscendingOver(I) # {}
  BY AscendingExists
<1>3. /\ k \in [1 .. n -> I] /\ Range(k) = I
      /\ \A i, j \in 1 .. n : i < j => k[i] < k[j]
  BY <1>2 DEF AscendingOver, Ascending
<1> HIDE DEF n, k
<1>4. \A m \in I : \E i \in 1 .. n : k[i] = m
  BY <1>3 DEF Range
<1>5. DOMAIN k = 1 .. n /\ \A i \in 1 .. n : k[i] \in I
  BY <1>3
<1> QED
  BY <1>1, <1>3, <1>4, <1>5 DEF k

(* What ascends in steps of one or more has gone up by i - 1 at its i-th     *)
(* place: the first place where it had not would follow one where it had.    *)
LEMMA AscendsByOne ==
    ASSUME NEW n \in Nat, NEW k, \A i \in 1 .. n : k[i] \in Nat,
           \A i, j \in 1 .. n : i < j => k[i] < k[j]
    PROVE  \A i \in 1 .. n : k[1] + i - 1 <= k[i]
<1> DEFINE Bad == {i \in 1 .. n : ~(k[1] + i - 1 <= k[i])}
<1>1. SUFFICES ASSUME Bad # {} PROVE FALSE
  OBVIOUS
<1>2. Bad \in SUBSET Nat
  OBVIOUS
<1>3. PICK i \in Bad : \A j \in Bad : i <= j
  <2> HIDE DEF Bad
  <2> QED
    BY <1>1, <1>2, LeastOf
<1>4. i \in 1 .. n /\ i # 1
  OBVIOUS
<1>5. i - 1 \in 1 .. n /\ i - 1 \notin Bad
  BY <1>3, <1>4
<1>6. k[1] + (i - 1) - 1 <= k[i - 1] /\ k[i - 1] < k[i]
  BY <1>4, <1>5
<1>7. k[1] \in Nat /\ k[i - 1] \in Nat /\ k[i] \in Nat /\ i \in Nat
  BY <1>4, <1>5
<1>8. k[1] + i - 1 <= k[i]
  BY <1>6, <1>7
<1> QED
  BY <1>3, <1>8

(* k gives the places that what is picked comes from, in their order.        *)
PlacesPicked(s, I, k) ==
    LET p == Picked(s, I)
    IN  /\ k \in [DOMAIN p -> I] /\ \A i \in DOMAIN p : p[i] = s[k[i]]
        /\ \A i, j \in DOMAIN p : i < j => k[i] < k[j]
        /\ \A m \in I : \E i \in DOMAIN p : k[i] = m

(* What is picked is a list of the elements at those places, in their order. *)
LEMMA PickedProperties ==
    ASSUME NEW S, NEW s \in Seq(S), NEW I \in SUBSET DOMAIN s
    PROVE  Picked(s, I) \in Seq(S) /\ IsFiniteSet(I) /\ \E k : PlacesPicked(s, I, k)
<1> DEFINE n == Cardinality(I)
           k == Ascending(I)
           p == Picked(s, I)
<1>1. Len(s) \in Nat /\ DOMAIN s = 1 .. Len(s) /\ \A i \in DOMAIN s : s[i] \in S
  BY LenProperties, ElementOfSeq
<1>2. IsFiniteSet(I) /\ I \in SUBSET Nat
  <2>1. IsFiniteSet(1 .. Len(s))
    BY <1>1, FS_Interval
  <2> QED
    BY <1>1, <2>1, FS_Subset
<1>3. n \in Nat
  BY <1>2, FS_CardinalityType
<1>4. AscendingOver(I) # {}
  BY <1>2, AscendingExists
<1>5. /\ k \in [1 .. n -> I] /\ Range(k) = I
      /\ \A i, j \in 1 .. n : i < j => k[i] < k[j]
  BY <1>4 DEF AscendingOver, Ascending
<1> HIDE DEF n, k
<1>6. p = [i \in 1 .. n |-> s[k[i]]]
  BY <1>5 DEF Picked, k
<1>7. p \in Seq(S) /\ DOMAIN p = 1 .. n
  BY <1>1, <1>3, <1>5, <1>6, IsASeq
<1>8. \A m \in I : \E i \in 1 .. n : k[i] = m
  BY <1>5 DEF Range
<1>9. /\ k \in [DOMAIN p -> I] /\ \A i \in DOMAIN p : p[i] = s[k[i]]
      /\ \A i, j \in DOMAIN p : i < j => k[i] < k[j]
      /\ \A m \in I : \E i \in DOMAIN p : k[i] = m
  BY <1>5, <1>6, <1>7, <1>8
<1>10. PlacesPicked(s, I, k)
  BY <1>9 DEF PlacesPicked
<1> HIDE DEF p
<1> QED
  BY <1>2, <1>7, <1>10 DEF p

(* The elements picked are those at the places.                              *)
LEMMA PickedElements ==
    ASSUME NEW S, NEW s \in Seq(S), NEW I \in SUBSET DOMAIN s
    PROVE  /\ Picked(s, I) \in Seq(S)
           /\ \A i \in DOMAIN Picked(s, I) : \E m \in I : Picked(s, I)[i] = s[m]
           /\ \A m \in I : \E i \in DOMAIN Picked(s, I) : Picked(s, I)[i] = s[m]
<1>1. Picked(s, I) \in Seq(S) /\ \E k : PlacesPicked(s, I, k)
  BY PickedProperties
<1>2. PICK k : PlacesPicked(s, I, k)
  BY <1>1
<1> QED
  BY <1>1, <1>2 DEF PlacesPicked

(* Two of them come from two places, in the order they have there.           *)
LEMMA PickedInOrder ==
    ASSUME NEW S, NEW s \in Seq(S), NEW I \in SUBSET DOMAIN s
    PROVE  \A i, j \in DOMAIN Picked(s, I) : i < j =>
              \E m, n \in I : m < n /\ Picked(s, I)[i] = s[m] /\ Picked(s, I)[j] = s[n]
<1>1. \E k : PlacesPicked(s, I, k)
  BY PickedProperties
<1>2. PICK k : PlacesPicked(s, I, k)
  BY <1>1
<1> QED
  BY <1>2 DEF PlacesPicked

(* Two loops that begin alike and whose steps agree are one.                 *)
LEMMA SameLoop ==
    ASSUME NEW n \in Nat, NEW f, NEW h, f[0] = h[0],
           \A i \in 1 .. n : f[i - 1] = h[i - 1] => f[i] = h[i]
    PROVE  \A i \in 0 .. n : f[i] = h[i]
<1> DEFINE apart == [i \in 0 .. n |-> IF f[i] = h[i] THEN 0 ELSE 1]
           T     == {0}
<1>1. \A i \in 0 .. n : apart[i] \in T <=> f[i] = h[i]
  OBVIOUS
<1>2. 0 \in 0 .. n /\ \A i \in 1 .. n : i \in 0 .. n /\ i - 1 \in 0 .. n
  OBVIOUS
<1> HIDE DEF apart, T
<1>3. apart[0] \in T /\ \A i \in 1 .. n : apart[i - 1] \in T => apart[i] \in T
  BY <1>1, <1>2
<1>4. \A i \in 0 .. n : apart[i] \in T
  BY <1>3, LoopStays
<1> QED
  BY <1>1, <1>4

(* The sums of the beginnings of a list.                                     *)
SumsOf(s) == {f \in [0 .. Len(s) -> Int] :
                 f[0] = 0 /\ \A i \in 1 .. Len(s) : f[i] = f[i - 1] + s[i]}

LEMMA AddingUp ==
    ASSUME NEW s \in Seq(Int)
    PROVE  \E f \in SumsOf(s) : AddedUp(s) = f[Len(s)]
<1> DEFINE n == Len(s)
           g == [z \in Int \X (1 .. n) |-> z[1] + s[z[2]]]
<1>1. n \in Nat /\ \A i \in 1 .. n : s[i] \in Int
  BY LenProperties, ElementOfSeq
<1>2. g \in Rounds(Int, n)
  BY <1>1 DEF Rounds
<1>3. \A v \in Int, i \in 1 .. n : g[<<v, i>>] = v + s[i]
  OBVIOUS
<1> HIDE DEF g
<1>4. PICK f \in [0 .. n -> Int] : f[0] = 0 /\ \A i \in 1 .. n : f[i] = g[<<f[i - 1], i>>]
  <2>1. 0 \in Int
    OBVIOUS
  <2> HIDE DEF n
  <2>2. Loops(Int, n, 0, g) # {}
    BY <1>1, <1>2, <2>1, LoopExists
  <2> QED
    BY <2>2 DEF Loops
<1>5. \A i \in 1 .. n : f[i] = f[i - 1] + s[i]
  <2>1. \A i \in 1 .. n : f[i - 1] \in Int
    BY <1>1, <1>4
  <2> QED
    BY <1>3, <1>4, <2>1
<1>6. f \in SumsOf(s)
  BY <1>4, <1>5 DEF SumsOf
<1> DEFINE Adds(sum) == sum = [i \in 0 .. n |-> IF i = 0 THEN 0 ELSE sum[i - 1] + s[i]]
           chosen == CHOOSE sum : Adds(sum)
<1>7. Adds(f)
  BY <1>1, <1>4, <1>5
<1>8. Adds(chosen) /\ AddedUp(s) = chosen[n]
  BY <1>7 DEF AddedUp
<1> HIDE DEF chosen
<1>9. f[0] = chosen[0] /\ \A i \in 1 .. n : chosen[i] = chosen[i - 1] + s[i]
  BY <1>1, <1>4, <1>8
<1>10. PICK h : h = chosen
  OBVIOUS
<1>11. \A i \in 0 .. n : f[i] = h[i]
  <2>1. f[0] = h[0] /\ \A i \in 1 .. n : f[i - 1] = h[i - 1] => f[i] = h[i]
    BY <1>5, <1>9, <1>10
  <2> QED
    BY <1>1, <2>1, SameLoop
<1> QED
  BY <1>1, <1>6, <1>8, <1>10, <1>11

LEMMA AddedUpAppend ==
    ASSUME NEW s \in Seq(Int), NEW x \in Int
    PROVE  AddedUp(Append(s, x)) = AddedUp(s) + x /\ AddedUp(s) \in Int
<1> DEFINE t == Append(s, x)
           n == Len(s)
<1>1. t \in Seq(Int) /\ Len(t) = n + 1 /\ t[n + 1] = x /\ \A i \in 1 .. n : t[i] = s[i]
  BY AppendProperties
<1>2. n \in Nat
  BY LenProperties
<1> HIDE DEF t
<1>3. PICK f \in SumsOf(s) : AddedUp(s) = f[n]
  BY AddingUp
<1>4. PICK h \in SumsOf(t) : AddedUp(t) = h[n + 1]
  BY <1>1, AddingUp
<1>5. /\ f \in [0 .. n -> Int] /\ f[0] = 0 /\ \A i \in 1 .. n : f[i] = f[i - 1] + s[i]
      /\ h[0] = 0 /\ \A i \in 1 .. n + 1 : h[i] = h[i - 1] + t[i]
  BY <1>1 DEF SumsOf
<1>6. \A i \in 1 .. n : i \in 1 .. n + 1 /\ h[i] = h[i - 1] + s[i]
  BY <1>1, <1>2, <1>5
<1>7. \A i \in 0 .. n : f[i] = h[i]
  <2>1. f[0] = h[0] /\ \A i \in 1 .. n : f[i - 1] = h[i - 1] => f[i] = h[i]
    BY <1>5, <1>6
  <2> QED
    BY <1>2, <2>1, SameLoop
<1>8. h[n + 1] = h[n] + x
  <2>1. n + 1 \in 1 .. n + 1 /\ (n + 1) - 1 = n
    BY <1>2
  <2> QED
    BY <1>1, <1>5, <2>1
<1>9. f[n] \in Int /\ f[n] = h[n]
  BY <1>2, <1>5, <1>7
<1> QED
  BY <1>3, <1>4, <1>8, <1>9 DEF t

LEMMA AddedUpNothing == AddedUp(<<>>) = 0
<1>1. <<>> \in Seq(Int) /\ Len(<<>>) = 0
  BY EmptySeq
<1> QED
  BY <1>1, AddingUp DEF SumsOf
=============================================================================
