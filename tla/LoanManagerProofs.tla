-------------------------- MODULE LoanManagerProofs --------------------------
(***************************************************************************)
(* The loan contract, proved for any borrowers, amounts, terms, settings,  *)
(* oracle answers and order of calls.                                      *)
(***************************************************************************)
EXTENDS LoanManager, RepaymentAllocation, ArithmeticFacts

------------------------------------------------------------------------------
(* The split of a payment.                                                 *)

LEMMA ThreeBuckets == IsFiniteSet(1..3)
<1>1. PICK m \in Int, n \in Int : m = 1 /\ n = 3
  OBVIOUS
<1>2. IsFiniteSet(m..n)
  BY FS_Interval
<1> QED BY <1>1, <1>2

(* No bucket is paid more than it is due, and nothing is paid back.  A     *)
(* full bucket gets no extra unit: it is full only if the whole debt is    *)
(* paid, and then nothing is left to allocate.                             *)
LEMMA SplitWithinDues ==
    ASSUME NEW dues \in [Buckets -> Nat], TotalDue(dues) > 0,
           NEW amount \in 0..TotalDue(dues), NEW i \in Buckets
    PROVE  proportional_repayment_split(dues, amount)[i] \in 0..dues[i]
<1>1. PICK total \in Nat \ {0} : total = TotalDue(dues)
  BY DEF TotalDue, Buckets
<1>2. PICK due \in Nat : due = dues[i]
  OBVIOUS
<1>3. amount \in Nat /\ amount <= total
  BY <1>1
<1>4. PICK share : share = FloorShare(dues, amount, i)
  OBVIOUS
<1>5. share = (amount * due) \div total
  BY <1>1, <1>2, <1>4 DEF FloorShare
<1>6. amount * due \in Nat /\ amount * due <= total * due
  BY <1>1, <1>2, <1>3, ProductMonotone
<1>7. share \in Nat /\ share <= due /\ amount * due < total * share + total
  <2>1. share \in Nat /\ amount * due < total * share + total
    BY <1>1, <1>5, <1>6, QuotientBounds
  <2>2. share <= due
    BY <1>1, <1>2, <1>5, <1>6, QuotientLeast
  <2> QED BY <2>1, <2>2
<1>8. ExtraUnit(dues, amount, i) \in {0, 1}
  BY DEF ExtraUnit
<1>9. share = due /\ due > 0 => ExtraUnit(dues, amount, i) = 0
  <2> SUFFICES ASSUME share = due, due > 0 PROVE ExtraUnit(dues, amount, i) = 0
    OBVIOUS
  <2>1. amount = total
    <3>1. total * share <= amount * due
      BY <1>1, <1>2, <1>3, <1>5, <1>6, QuotientBounds
    <3>2. due * total <= due * amount
      BY <1>1, <1>2, <1>3, <3>1
    <3>3. total <= amount
      BY <1>1, <1>2, <1>3, <3>2, ProductCancel
    <3> QED BY <1>1, <1>3, <3>3
  <2>2. ASSUME NEW j \in Buckets PROVE FloorShare(dues, amount, j) = dues[j]
    <3>1. dues[j] \in Nat
      OBVIOUS
    <3>2. total * dues[j] \in Nat
      BY <1>1, <3>1
    <3>3. (total * dues[j]) \div total = dues[j]
      <4>1. dues[j] <= (total * dues[j]) \div total
        BY <1>1, <3>1, <3>2, QuotientGreatest
      <4>2. (total * dues[j]) \div total <= dues[j]
        BY <1>1, <3>1, <3>2, QuotientLeast
      <4>3. (total * dues[j]) \div total \in Nat
        BY <1>1, <3>2, QuotientBounds
      <4> QED BY <3>1, <4>1, <4>2, <4>3
    <3> QED BY <1>1, <2>1, <3>3 DEF FloorShare
  <2>3. Unallocated(dues, amount) = 0
    <3>1. 1 \in Buckets /\ 2 \in Buckets /\ 3 \in Buckets
      BY DEF Buckets
    <3>2. /\ FloorShare(dues, amount, 1) = dues[1] /\ FloorShare(dues, amount, 2) = dues[2]
          /\ FloorShare(dues, amount, 3) = dues[3]
      BY <2>2, <3>1
    <3>3. amount = dues[1] + dues[2] + dues[3] /\ dues[1] \in Nat /\ dues[2] \in Nat /\ dues[3] \in Nat
      BY <1>1, <2>1, <3>1 DEF TotalDue
    <3> QED BY <3>2, <3>3 DEF Unallocated
  <2>4. Cardinality(ServedBefore(dues, amount, i)) \in Nat
    <3>1. ServedBefore(dues, amount, i) \subseteq 1..3
      BY DEF ServedBefore, Buckets
    <3>2. IsFiniteSet(1..3)
      BY ThreeBuckets
    <3>3. IsFiniteSet(ServedBefore(dues, amount, i))
      BY <3>1, <3>2, FS_Subset
    <3> QED BY <3>3, FS_CardinalityType
  <2> QED BY <2>3, <2>4 DEF ExtraUnit
<1>10. proportional_repayment_split(dues, amount)[i] =
          IF due <= 0 THEN 0 ELSE share + ExtraUnit(dues, amount, i)
  BY <1>2, <1>4 DEF proportional_repayment_split
<1> QED BY <1>2, <1>7, <1>8, <1>9, <1>10

(* Which buckets get an extra unit, by their places in the order of their  *)
(* remainders.                                                             *)

One(b) == IF b THEN 1 ELSE 0

LEMMA CountOfThree ==
    ASSUME NEW S \in SUBSET Buckets
    PROVE  Cardinality(S) = One(1 \in S) + One(2 \in S) + One(3 \in S)
<1> DEFINE A == S \cap {1}
           B == S \cap {1, 2}
<1>1. IsFiniteSet({}) /\ Cardinality({}) = 0
  BY FS_EmptySet
<1>2. A = IF 1 \in S THEN {} \cup {1} ELSE {}
  OBVIOUS
<1>3. IsFiniteSet(A) /\ Cardinality(A) = One(1 \in S)
  <2>1. IsFiniteSet({} \cup {1}) /\ Cardinality({} \cup {1}) = 1
    BY <1>1, FS_AddElement
  <2> QED BY <1>1, <1>2, <2>1 DEF One
<1>4. B = IF 2 \in S THEN A \cup {2} ELSE A
  OBVIOUS
<1>5. IsFiniteSet(B) /\ Cardinality(B) = Cardinality(A) + One(2 \in S)
  <2>1. IsFiniteSet(A \cup {2}) /\ Cardinality(A \cup {2}) = Cardinality(A) + 1
    <3>1. 2 \notin A
      OBVIOUS
    <3> HIDE DEF A
    <3> QED BY <1>3, <3>1, FS_AddElement
  <2>2. Cardinality(A) \in Nat
    BY <1>3 DEF One
  <2> QED BY <1>3, <1>4, <2>1, <2>2, SMTT(30) DEF One
<1>6. S = IF 3 \in S THEN B \cup {3} ELSE B
  <2>1. \A x \in S : x = 1 \/ x = 2 \/ x = 3
    BY DEF Buckets
  <2> QED BY <2>1
<1>7. Cardinality(S) = Cardinality(B) + One(3 \in S)
  <2>1. Cardinality(B \cup {3}) = Cardinality(B) + 1
    <3>1. 3 \notin B
      OBVIOUS
    <3> HIDE DEF B
    <3> QED BY <1>5, <3>1, FS_AddElement
  <2>2. Cardinality(B) \in Nat
    BY <1>3, <1>5 DEF One
  <2> QED BY <1>6, <2>1, <2>2 DEF One
<1> QED BY <1>3, <1>5, <1>7

Place(dues, amount, i) == Cardinality(ServedBefore(dues, amount, i))

Ahead(d, r, j, i) == d[j] > 0 /\ (r[j] > r[i] \/ (r[j] = r[i] /\ j < i))

PlaceOf(d, r, i) == One(Ahead(d, r, 1, i)) + One(Ahead(d, r, 2, i)) + One(Ahead(d, r, 3, i))

(* With dues d, remainders r that add up to u whole payments and places n: *)
(* exactly u buckets come before place u, each with a remainder, no two    *)
(* share a place, and the first of those from place k on has place k.      *)
Ranked(d, r, n, u) ==
    /\ u \in 0..2
    /\ \A i \in Buckets : n[i] \in 0..2
    /\ One(d[1] > 0 /\ n[1] < u) + One(d[2] > 0 /\ n[2] < u) + One(d[3] > 0 /\ n[3] < u) = u
    /\ \A i \in Buckets : d[i] > 0 /\ n[i] < u => r[i] > 0
    /\ \A i, j \in Buckets : d[i] > 0 /\ d[j] > 0 /\ n[i] = n[j] => i = j
    /\ \A k \in Nat : k < u =>
          /\ \E i \in Buckets : d[i] > 0 /\ n[i] >= k /\ r[i] > 0
          /\ \A i \in Buckets :
                d[i] > 0 /\ n[i] >= k
                /\ (\A j \in Buckets : d[j] > 0 /\ n[j] >= k =>
                       r[i] > r[j] \/ (r[i] = r[j] /\ i <= j))
                => n[i] = k

LEMMA Ranking ==
    ASSUME NEW d \in [Buckets -> Nat], NEW r \in [Buckets -> Nat],
           \A i \in Buckets : d[i] = 0 => r[i] = 0,
           NEW T \in Nat \ {0}, \A i \in Buckets : r[i] < T,
           NEW u \in 0..2, r[1] + r[2] + r[3] = T * u
    PROVE  Ranked(d, r, [i \in Buckets |-> PlaceOf(d, r, i)], u)
<1>0. PICK n : n = [i \in Buckets |-> PlaceOf(d, r, i)]
  OBVIOUS
<1>1. r[1] + r[2] + r[3] = IF u = 0 THEN 0 ELSE IF u = 1 THEN T ELSE T + T
  OBVIOUS
<1>2. /\ n[1] = PlaceOf(d, r, 1) /\ n[2] = PlaceOf(d, r, 2) /\ n[3] = PlaceOf(d, r, 3)
      /\ Buckets = {1, 2, 3}
  BY <1>0 DEF Buckets
<1>3. PICK d1 \in Nat, d2 \in Nat, d3 \in Nat : d1 = d[1] /\ d2 = d[2] /\ d3 = d[3]
  BY <1>2
<1>4. PICK r1 \in Nat, r2 \in Nat, r3 \in Nat : r1 = r[1] /\ r2 = r[2] /\ r3 = r[3]
  BY <1>2
<1>5. /\ (d1 = 0 => r1 = 0) /\ (d2 = 0 => r2 = 0) /\ (d3 = 0 => r3 = 0)
      /\ r1 < T /\ r2 < T /\ r3 < T
  BY <1>2, <1>3, <1>4
<1>6. r1 + r2 + r3 = IF u = 0 THEN 0 ELSE IF u = 1 THEN T ELSE T + T
  BY <1>1, <1>4
<1>7. PICK n1 \in Nat, n2 \in Nat, n3 \in Nat :
          /\ n1 = n[1] /\ n2 = n[2] /\ n3 = n[3]
          /\ n1 = (IF d2 > 0 /\ r2 > r1 THEN 1 ELSE 0) + (IF d3 > 0 /\ r3 > r1 THEN 1 ELSE 0)
          /\ n2 = (IF d1 > 0 /\ r1 >= r2 THEN 1 ELSE 0) + (IF d3 > 0 /\ r3 > r2 THEN 1 ELSE 0)
          /\ n3 = (IF d1 > 0 /\ r1 >= r3 THEN 1 ELSE 0) + (IF d2 > 0 /\ r2 >= r3 THEN 1 ELSE 0)
  <2>1. n[1] = (IF d2 > 0 /\ r2 > r1 THEN 1 ELSE 0) + (IF d3 > 0 /\ r3 > r1 THEN 1 ELSE 0)
    BY <1>2, <1>3, <1>4 DEF PlaceOf, Ahead, One
  <2>2. n[2] = (IF d1 > 0 /\ r1 >= r2 THEN 1 ELSE 0) + (IF d3 > 0 /\ r3 > r2 THEN 1 ELSE 0)
    BY <1>2, <1>3, <1>4 DEF PlaceOf, Ahead, One
  <2>3. n[3] = (IF d1 > 0 /\ r1 >= r3 THEN 1 ELSE 0) + (IF d2 > 0 /\ r2 >= r3 THEN 1 ELSE 0)
    BY <1>2, <1>3, <1>4 DEF PlaceOf, Ahead, One
  <2> QED BY <2>1, <2>2, <2>3
<1>8. \A i \in Buckets : n[i] \in 0..2
  BY <1>2, <1>7
<1>9. One(d1 > 0 /\ n1 < u) + One(d2 > 0 /\ n2 < u) + One(d3 > 0 /\ n3 < u) = u
  BY <1>5, <1>6, <1>7 DEF One
<1>10. /\ d1 > 0 /\ n1 < u => r1 > 0
       /\ d2 > 0 /\ n2 < u => r2 > 0
       /\ d3 > 0 /\ n3 < u => r3 > 0
  BY <1>5, <1>6, <1>7
<1>11. /\ ~(d1 > 0 /\ d2 > 0 /\ n1 = n2)
       /\ ~(d1 > 0 /\ d3 > 0 /\ n1 = n3)
       /\ ~(d2 > 0 /\ d3 > 0 /\ n2 = n3)
  BY <1>7
<1>12. ASSUME NEW k \in Nat, k < u
       PROVE  /\ \E i \in Buckets : d[i] > 0 /\ n[i] >= k /\ r[i] > 0
              /\ \A i \in Buckets :
                    d[i] > 0 /\ n[i] >= k
                    /\ (\A j \in Buckets : d[j] > 0 /\ n[j] >= k =>
                           r[i] > r[j] \/ (r[i] = r[j] /\ i <= j))
                    => n[i] = k
  <2>1. (d1 > 0 /\ n1 >= k /\ r1 > 0) \/ (d2 > 0 /\ n2 >= k /\ r2 > 0) \/ (d3 > 0 /\ n3 >= k /\ r3 > 0)
    BY <1>5, <1>6, <1>7, <1>12
  <2>2. ASSUME d1 > 0, n1 >= k, d2 > 0 /\ n2 >= k => r1 >= r2, d3 > 0 /\ n3 >= k => r1 >= r3
        PROVE  n1 = k
    BY <1>5, <1>6, <1>7, <1>12, <2>2
  <2>3. ASSUME d2 > 0, n2 >= k, d1 > 0 /\ n1 >= k => r2 > r1, d3 > 0 /\ n3 >= k => r2 >= r3
        PROVE  n2 = k
    BY <1>5, <1>6, <1>7, <1>12, <2>3
  <2>4. ASSUME d3 > 0, n3 >= k, d1 > 0 /\ n1 >= k => r3 > r1, d2 > 0 /\ n2 >= k => r3 > r2
        PROVE  n3 = k
    BY <1>5, <1>6, <1>7, <1>12, <2>4
  <2>5. ASSUME NEW i \in Buckets, d[i] > 0, n[i] >= k,
               \A j \in Buckets : d[j] > 0 /\ n[j] >= k => r[i] > r[j] \/ (r[i] = r[j] /\ i <= j)
        PROVE  n[i] = k
    BY <1>2, <1>3, <1>4, <1>7, <2>2, <2>3, <2>4, <2>5
  <2> QED BY <1>2, <1>3, <1>4, <1>7, <2>1, <2>5
<1>13. Ranked(d, r, n, u)
  BY <1>2, <1>3, <1>4, <1>7, <1>8, <1>9, <1>10, <1>11, <1>12 DEF Ranked
<1> QED BY <1>0, <1>13

(* The floor shares leave at most two units of the payment unallocated.    *)
LEMMA ShareFacts ==
    ASSUME NEW dues \in [Buckets -> Nat], NEW amount \in 0..TotalDue(dues),
           NEW T \in Nat \ {0}, T = TotalDue(dues)
    PROVE  /\ \A i \in Buckets :
                 /\ FloorShare(dues, amount, i) \in Nat
                 /\ Remainder(dues, amount, i) \in Nat
                 /\ Remainder(dues, amount, i) < T
                 /\ amount * dues[i] = T * FloorShare(dues, amount, i) + Remainder(dues, amount, i)
                 /\ dues[i] = 0 => FloorShare(dues, amount, i) = 0 /\ Remainder(dues, amount, i) = 0
                 /\ amount < T /\ dues[i] > 0 => FloorShare(dues, amount, i) < dues[i]
           /\ Unallocated(dues, amount) \in 0..2
           /\ Remainder(dues, amount, 1) + Remainder(dues, amount, 2) + Remainder(dues, amount, 3)
                 = T * Unallocated(dues, amount)
<1>1. amount \in Nat /\ amount <= T
  BY DEF TotalDue, Buckets
<1>2. ASSUME NEW i \in Buckets
      PROVE  \E due, q, r \in Nat :
                 /\ due = dues[i] /\ q = FloorShare(dues, amount, i) /\ r = Remainder(dues, amount, i)
                 /\ amount * due = T * q + r /\ r < T
                 /\ due = 0 => q = 0 /\ r = 0
                 /\ amount < T /\ due > 0 => q < due
  <2>1. PICK due \in Nat : due = dues[i]
    BY <1>2
  <2>2. PICK n \in Nat : n = amount * due
    BY <1>1, <2>1
  <2>3. PICK q \in Nat : q = n \div T /\ T * q <= n /\ n < T * q + T
    BY <2>2, QuotientBounds
  <2>4. PICK r \in Nat : r = n % T /\ n = T * q + r
    BY <2>2, <2>3, DivisionSplits
  <2>5. r < T
    <3>1. T * q \in Nat
      BY <2>3
    <3> QED BY <2>3, <2>4, <3>1
  <2>6. q = FloorShare(dues, amount, i) /\ r = Remainder(dues, amount, i)
    BY <2>1, <2>2, <2>3, <2>4 DEF FloorShare, Remainder
  <2>7. ASSUME due = 0 PROVE q = 0 /\ r = 0
    <3>1. n = 0
      BY <1>1, <2>2, <2>7
    <3>2. T * q <= T * 0
      BY <2>3, <3>1
    <3>3. q <= 0
      BY <2>3, <3>2, ProductCancel
    <3>4. q = 0 /\ T * 0 = 0
      BY <2>3, <3>3
    <3> QED BY <2>4, <3>1, <3>4
  <2>8. ASSUME amount < T, due > 0 PROVE q < due
    <3>1. due * amount < due * T
      <4>1. T - amount \in Nat \ {0}
        BY <1>1, <2>8
      <4>2. due * (T - amount) > 0
        BY <2>1, <2>8, <4>1
      <4> QED BY <1>1, <2>1, <4>2
    <3>2. T * q < T * due
      BY <1>1, <2>1, <2>2, <2>3, <3>1
    <3> QED BY <2>1, <2>3, <3>2, ProductCancel
  <2> QED BY <2>1, <2>2, <2>4, <2>5, <2>6, <2>7, <2>8
<1>3. 1 \in Buckets /\ 2 \in Buckets /\ 3 \in Buckets
  BY DEF Buckets
<1>4. PICK d1 \in Nat, q1 \in Nat, r1 \in Nat :
          /\ d1 = dues[1] /\ q1 = FloorShare(dues, amount, 1) /\ r1 = Remainder(dues, amount, 1)
          /\ amount * d1 = T * q1 + r1 /\ r1 < T
  BY <1>2, <1>3
<1>5. PICK d2 \in Nat, q2 \in Nat, r2 \in Nat :
          /\ d2 = dues[2] /\ q2 = FloorShare(dues, amount, 2) /\ r2 = Remainder(dues, amount, 2)
          /\ amount * d2 = T * q2 + r2 /\ r2 < T
  BY <1>2, <1>3
<1>6. PICK d3 \in Nat, q3 \in Nat, r3 \in Nat :
          /\ d3 = dues[3] /\ q3 = FloorShare(dues, amount, 3) /\ r3 = Remainder(dues, amount, 3)
          /\ amount * d3 = T * q3 + r3 /\ r3 < T
  BY <1>2, <1>3
<1>7. PICK u \in Int : u = amount - q1 - q2 - q3 /\ u = Unallocated(dues, amount)
  BY <1>1, <1>4, <1>5, <1>6 DEF Unallocated
<1>8. r1 + r2 + r3 = T * u
  <2>1. amount * T = amount * d1 + amount * d2 + amount * d3
    <3>1. T = d1 + d2 + d3
      BY <1>4, <1>5, <1>6 DEF TotalDue
    <3> QED BY <1>1, <1>4, <1>5, <1>6, <3>1
  <2>2. T * u = T * amount - T * q1 - T * q2 - T * q3
    BY <1>1, <1>4, <1>5, <1>6, <1>7
  <2>3. T * amount = amount * T
    BY <1>1
  <2> QED BY <1>1, <1>4, <1>5, <1>6, <2>1, <2>2, <2>3
<1>9. u \in 0..2
  <2>1. T * 0 <= T * u
    BY <1>4, <1>5, <1>6, <1>8
  <2>2. T * u < T * 3
    BY <1>4, <1>5, <1>6, <1>8
  <2>3. 0 <= u
    BY <1>7, <2>1, ProductCancel
  <2>4. u < 3
    BY <1>7, <2>2, ProductCancel
  <2> QED BY <1>7, <2>3, <2>4
<1> QED BY <1>2, <1>4, <1>5, <1>6, <1>7, <1>8, <1>9

Remainders(dues, amount) == [i \in Buckets |-> Remainder(dues, amount, i)]
Places(dues, amount) == [i \in Buckets |-> Place(dues, amount, i)]

LEMMA SplitRanked ==
    ASSUME NEW dues \in [Buckets -> Nat], NEW amount \in 0..TotalDue(dues), TotalDue(dues) > 0
    PROVE  Ranked(dues, Remainders(dues, amount), Places(dues, amount), Unallocated(dues, amount))
<1>1. PICK T \in Nat \ {0} : T = TotalDue(dues)
  BY DEF TotalDue, Buckets
<1>2. PICK r : r = Remainders(dues, amount)
  OBVIOUS
<1>3. PICK u : u = Unallocated(dues, amount)
  OBVIOUS
<1>4. /\ r \in [Buckets -> Nat]
      /\ \A i \in Buckets : dues[i] = 0 => r[i] = 0
      /\ \A i \in Buckets : r[i] < T
      /\ u \in 0..2
  BY <1>1, <1>2, <1>3, ShareFacts DEF Remainders
<1>5. r[1] + r[2] + r[3] = T * u
  <2>1. Remainder(dues, amount, 1) + Remainder(dues, amount, 2) + Remainder(dues, amount, 3) = T * u
    BY <1>1, <1>3, ShareFacts
  <2>2. 1 \in Buckets /\ 2 \in Buckets /\ 3 \in Buckets
    BY DEF Buckets
  <2> QED BY <1>2, <2>1, <2>2 DEF Remainders
<1>6. Places(dues, amount) = [i \in Buckets |-> PlaceOf(dues, r, i)]
  <2>1. ASSUME NEW i \in Buckets PROVE Place(dues, amount, i) = PlaceOf(dues, r, i)
    <3>1. ServedBefore(dues, amount, i) \in SUBSET Buckets
      BY DEF ServedBefore
    <3>2. \A j \in Buckets : (j \in ServedBefore(dues, amount, i)) = Ahead(dues, r, j, i)
      BY <1>2 DEF ServedBefore, Ahead, Remainders
    <3>3. 1 \in Buckets /\ 2 \in Buckets /\ 3 \in Buckets
      BY DEF Buckets
    <3> QED BY <3>1, <3>2, <3>3, CountOfThree DEF Place, PlaceOf
  <2> QED BY <2>1 DEF Places
<1>7. Ranked(dues, r, [i \in Buckets |-> PlaceOf(dues, r, i)], u)
  BY <1>4, <1>5, Ranking
<1> QED BY <1>2, <1>3, <1>6, <1>7

(* The split adds up to the payment.                                       *)
LEMMA SplitConserves ==
    ASSUME NEW dues \in [Buckets -> Nat], NEW amount \in 0..TotalDue(dues), TotalDue(dues) > 0
    PROVE  TotalDue(proportional_repayment_split(dues, amount)) = amount
<1>1. PICK u : u = Unallocated(dues, amount)
  OBVIOUS
<1>2. PICK n : n = Places(dues, amount)
  OBVIOUS
<1>3. One(dues[1] > 0 /\ n[1] < u) + One(dues[2] > 0 /\ n[2] < u) + One(dues[3] > 0 /\ n[3] < u) = u
  BY <1>1, <1>2, SplitRanked DEF Ranked
<1>4. PICK T \in Nat \ {0} : T = TotalDue(dues)
  BY DEF TotalDue, Buckets
<1>5. ASSUME NEW i \in Buckets
      PROVE  /\ FloorShare(dues, amount, i) \in Nat
             /\ proportional_repayment_split(dues, amount)[i]
                   = FloorShare(dues, amount, i) + One(dues[i] > 0 /\ n[i] < u)
  <2>1. /\ FloorShare(dues, amount, i) \in Nat
        /\ dues[i] = 0 => FloorShare(dues, amount, i) = 0
    BY <1>4, ShareFacts
  <2>2. ExtraUnit(dues, amount, i) = One(n[i] < u)
    BY <1>1, <1>2 DEF ExtraUnit, One, Place, Places
  <2> QED BY <2>1, <2>2 DEF proportional_repayment_split, One
<1>6. 1 \in Buckets /\ 2 \in Buckets /\ 3 \in Buckets
  BY DEF Buckets
<1>7. PICK q1 \in Nat, q2 \in Nat, q3 \in Nat :
          /\ q1 = FloorShare(dues, amount, 1) /\ q2 = FloorShare(dues, amount, 2)
          /\ q3 = FloorShare(dues, amount, 3)
  BY <1>5, <1>6
<1>8. amount \in Nat /\ u = amount - q1 - q2 - q3
  BY <1>1, <1>4, <1>7 DEF Unallocated
<1>9. TotalDue(proportional_repayment_split(dues, amount))
        = (q1 + One(dues[1] > 0 /\ n[1] < u)) + (q2 + One(dues[2] > 0 /\ n[2] < u))
          + (q3 + One(dues[3] > 0 /\ n[3] < u))
  BY <1>5, <1>6, <1>7 DEF TotalDue
<1>10. \A b : One(b) \in Nat
  BY DEF One
<1> QED BY <1>3, <1>7, <1>8, <1>9, <1>10

------------------------------------------------------------------------------
(* The loops: whatever the debt and the payment, they compute the split.   *)

SplitRecord == [at : 0..4, due : [Buckets -> Nat], amount : Nat, paid : [Buckets -> Nat],
                remainder : [Buckets -> Int], unallocated : Int]

(* The first loop has been over the buckets before n.                      *)
Floored(s, n) ==
    /\ \A i \in Buckets :
          IF i < n /\ s.due[i] > 0
          THEN s.paid[i] = FloorShare(s.due, s.amount, i) /\ s.remainder[i] = Remainder(s.due, s.amount, i)
          ELSE s.paid[i] = 0 /\ s.remainder[i] = -1
    /\ s.unallocated = s.amount - s.paid[1] - s.paid[2] - s.paid[3]

(* The second loop has served k buckets: the first k in the order of their *)
(* remainders.                                                             *)
Served(s, k) ==
    /\ k <= Unallocated(s.due, s.amount)
    /\ s.unallocated = Unallocated(s.due, s.amount) - k
    /\ \A i \in Buckets :
          LET served == s.due[i] > 0 /\ Place(s.due, s.amount, i) < k
          IN  /\ s.paid[i] = FloorShare(s.due, s.amount, i) + One(served)
              /\ s.remainder[i] = IF s.due[i] > 0 /\ ~served
                                  THEN Remainder(s.due, s.amount, i) ELSE -1

AllocationInv ==
    /\ split \in SplitRecord
    /\ split.at > 0 => TotalDue(split.due) > 0 /\ split.amount \in 0..TotalDue(split.due)
    /\ split.at < 4 => Floored(split, split.at)
    /\ split.at = 4 => \E k \in Nat : Served(split, k)

LEMMA AllocationStarts == AllocationInit => AllocationInv
<1> SUFFICES ASSUME AllocationInit PROVE AllocationInv
  OBVIOUS
<1>1. PICK zero, minus : zero = EachBucket(0) /\ minus = EachBucket(-1)
  OBVIOUS
<1>2. /\ zero \in [Buckets -> Nat] /\ minus \in [Buckets -> Int]
      /\ \A i \in Buckets : zero[i] = 0 /\ minus[i] = -1
  BY <1>1 DEF EachBucket
<1>3. split = [at |-> 0, due |-> zero, amount |-> 0, paid |-> zero,
               remainder |-> minus, unallocated |-> 0]
  BY <1>1 DEF AllocationInit
<1>4. 1 \in Buckets /\ 2 \in Buckets /\ 3 \in Buckets
  BY DEF Buckets
<1>5. split \in SplitRecord
  BY <1>2, <1>3 DEF SplitRecord
<1>6. Floored(split, 0)
  BY <1>2, <1>3, <1>4 DEF Floored, Buckets
<1> QED BY <1>3, <1>5, <1>6 DEF AllocationInv

LEMMA CallKeeps == AllocationInv /\ SplitCalled => AllocationInv'
<1> SUFFICES ASSUME AllocationInv, SplitCalled PROVE AllocationInv'
  OBVIOUS
<1>0. PICK due \in [Buckets -> 0..MaxDue] : \E amount \in 1..TotalDue(due) :
          split' = [split EXCEPT !.at = 1, !.due = due, !.amount = amount, !.unallocated = amount]
  BY DEF SplitCalled
<1>1. PICK amount \in 1..TotalDue(due) :
          split' = [split EXCEPT !.at = 1, !.due = due, !.amount = amount, !.unallocated = amount]
  BY <1>0
<1>2. due \in [Buckets -> Nat] /\ TotalDue(due) \in Nat
  <2>1. due \in [Buckets -> Nat]
    BY AllocationConstants
  <2> QED BY <2>1 DEF TotalDue, Buckets
<1>3. amount \in Nat /\ TotalDue(due) > 0 /\ amount \in 0..TotalDue(due)
  BY <1>2
<1>4. split \in SplitRecord /\ split.at = 0 /\ Floored(split, 0)
  BY DEF SplitCalled, AllocationInv
<1>5. PICK paid \in [Buckets -> Nat], remainder \in [Buckets -> Int] :
          paid = split.paid /\ remainder = split.remainder
  BY <1>4 DEF SplitRecord
<1>6. PICK one \in 0..4 : one = 1
  OBVIOUS
<1>7. split' = [at |-> one, due |-> due, amount |-> amount, paid |-> paid,
                remainder |-> remainder, unallocated |-> amount]
  BY <1>1, <1>4, <1>5, <1>6 DEF SplitRecord
<1>8. split' \in SplitRecord
  BY <1>2, <1>3, <1>5, <1>7 DEF SplitRecord
<1>9. \A i \in Buckets : paid[i] = 0 /\ remainder[i] = -1
  BY <1>4, <1>5 DEF Floored, Buckets
<1>10. Floored(split', 1)
  <2>1. 1 \in Buckets /\ 2 \in Buckets /\ 3 \in Buckets
    BY DEF Buckets
  <2> QED BY <1>3, <1>7, <1>9, <2>1 DEF Floored, Buckets
<1>11. split'.at = 1 /\ split'.due = due /\ split'.amount = amount
  BY <1>6, <1>7
<1> QED BY <1>3, <1>8, <1>10, <1>11 DEF AllocationInv

LEMMA FloorKeeps == AllocationInv /\ FloorStep => AllocationInv'
<1> SUFFICES ASSUME AllocationInv, FloorStep PROVE AllocationInv'
  OBVIOUS
<1>1. split \in SplitRecord /\ split.at \in Buckets
  BY DEF AllocationInv, FloorStep
<1>2. PICK i \in Buckets : i = split.at
  BY <1>1
<1>3. i \in 1..3
  BY DEF Buckets
<1>4. PICK due \in [Buckets -> Nat], amount \in Nat, paid \in [Buckets -> Nat],
           remainder \in [Buckets -> Int], unallocated \in Int :
          /\ due = split.due /\ amount = split.amount /\ paid = split.paid
          /\ remainder = split.remainder /\ unallocated = split.unallocated
  BY <1>1 DEF SplitRecord
<1>5. PICK T \in Nat \ {0} : T = TotalDue(due)
  <2>1. TotalDue(due) > 0
    BY <1>2, <1>3, <1>4 DEF AllocationInv
  <2> QED BY <2>1 DEF TotalDue, Buckets
<1>6. amount \in 0..TotalDue(due)
  BY <1>2, <1>3, <1>4 DEF AllocationInv
<1>7. Floored(split, i)
  BY <1>2, <1>3 DEF AllocationInv
<1>8. /\ \A j \in Buckets :
            IF j < i /\ due[j] > 0
            THEN paid[j] = FloorShare(due, amount, j) /\ remainder[j] = Remainder(due, amount, j)
            ELSE paid[j] = 0 /\ remainder[j] = -1
      /\ unallocated = amount - paid[1] - paid[2] - paid[3]
  BY <1>4, <1>7 DEF Floored
<1>9. PICK next \in 0..4 : next = i + 1
  BY <1>3
<1>10. \E p \in [Buckets -> Nat], r \in [Buckets -> Int], n \in Int :
          /\ split' = [at |-> next, due |-> due, amount |-> amount, paid |-> p,
                       remainder |-> r, unallocated |-> n]
          /\ IF due[i] > 0 THEN p[i] = FloorShare(due, amount, i) /\ r[i] = Remainder(due, amount, i)
             ELSE p[i] = 0 /\ r[i] = -1
          /\ \A j \in Buckets : j # i => p[j] = paid[j] /\ r[j] = remainder[j]
          /\ n = unallocated - p[i]
  <2>1. CASE due[i] <= 0
    <3>1. split' = [split EXCEPT !.at = i + 1]
      BY <1>2, <1>4, <2>1 DEF FloorStep
    <3>2. split' = [at |-> next, due |-> due, amount |-> amount, paid |-> paid,
                    remainder |-> remainder, unallocated |-> unallocated]
      BY <1>1, <1>4, <1>9, <3>1 DEF SplitRecord
    <3>3. paid[i] = 0 /\ remainder[i] = -1
      BY <1>3, <1>8
    <3>4. ~(due[i] > 0) /\ unallocated = unallocated - paid[i]
      BY <2>1, <3>3
    <3> WITNESS paid \in [Buckets -> Nat], remainder \in [Buckets -> Int], unallocated \in Int
    <3> QED BY <3>2, <3>3, <3>4
  <2>2. CASE due[i] > 0
    <3>1. PICK q \in Nat : q = FloorShare(due, amount, i)
      BY <1>5, <1>6, ShareFacts
    <3>2. q = (amount * due[i]) \div T
      BY <1>5, <3>1 DEF FloorShare
    <3>3. PICK m \in Int : m = amount * due[i] - q * T
      BY <1>5, <3>1
    <3>4. m = Remainder(due, amount, i)
      <4>1. /\ amount * due[i] = T * q + Remainder(due, amount, i)
            /\ Remainder(due, amount, i) \in Nat
        BY <1>5, <1>6, <3>1, ShareFacts
      <4> QED BY <1>5, <3>1, <3>3, <4>1
    <3>5. split' = [split EXCEPT !.at = i + 1, !.paid[i] = q, !.remainder[i] = m,
                                 !.unallocated = @ - q]
      BY <1>2, <1>4, <1>5, <2>2, <3>2, <3>3 DEF FloorStep
    <3>6. PICK p : p = [paid EXCEPT ![i] = q]
      OBVIOUS
    <3>7. PICK r : r = [remainder EXCEPT ![i] = m]
      OBVIOUS
    <3>8. PICK n \in Int : n = unallocated - q
      BY <3>1
    <3>9. p \in [Buckets -> Nat] /\ r \in [Buckets -> Int] /\ p[i] = q /\ r[i] = m
      BY <3>1, <3>3, <3>6, <3>7
    <3>10. split' = [at |-> next, due |-> due, amount |-> amount, paid |-> p,
                     remainder |-> r, unallocated |-> n]
      BY <1>1, <1>4, <1>9, <3>5, <3>6, <3>7, <3>8 DEF SplitRecord
    <3>11. \A j \in Buckets : j # i => p[j] = paid[j] /\ r[j] = remainder[j]
      BY <3>6, <3>7
    <3> QED BY <2>2, <3>1, <3>4, <3>8, <3>9, <3>10, <3>11, ZenonT(40)
  <2> QED BY <2>1, <2>2
<1>11. PICK p \in [Buckets -> Nat], r \in [Buckets -> Int], n \in Int :
          /\ split' = [at |-> next, due |-> due, amount |-> amount, paid |-> p,
                       remainder |-> r, unallocated |-> n]
          /\ IF due[i] > 0 THEN p[i] = FloorShare(due, amount, i) /\ r[i] = Remainder(due, amount, i)
             ELSE p[i] = 0 /\ r[i] = -1
          /\ \A j \in Buckets : j # i => p[j] = paid[j] /\ r[j] = remainder[j]
          /\ n = unallocated - p[i]
  BY <1>10
<1>12. split' \in SplitRecord
  BY <1>9, <1>11 DEF SplitRecord
<1>13. /\ split'.at = i + 1 /\ split'.due = due /\ split'.amount = amount
       /\ split'.paid = p /\ split'.remainder = r /\ split'.unallocated = n
  BY <1>9, <1>11
<1>14. \A j \in Buckets :
          IF j < i + 1 /\ due[j] > 0
          THEN p[j] = FloorShare(due, amount, j) /\ r[j] = Remainder(due, amount, j)
          ELSE p[j] = 0 /\ r[j] = -1
  BY <1>3, <1>8, <1>11 DEF Buckets
<1>15. n = amount - p[1] - p[2] - p[3]
  <2>1. paid[i] = 0
    BY <1>3, <1>8
  <2>2. i = 1 \/ i = 2 \/ i = 3
    BY <1>3
  <2>3. /\ paid[1] \in Nat /\ paid[2] \in Nat /\ paid[3] \in Nat
        /\ p[1] \in Nat /\ p[2] \in Nat /\ p[3] \in Nat
        /\ 1 \in Buckets /\ 2 \in Buckets /\ 3 \in Buckets
    BY DEF Buckets
  <2> QED BY <1>8, <1>11, <2>1, <2>2, <2>3
<1>16. Floored(split', i + 1)
  BY <1>13, <1>14, <1>15 DEF Floored
<1>17. CASE i < 3
  BY <1>3, <1>5, <1>6, <1>12, <1>13, <1>16, <1>17 DEF AllocationInv
<1>18. CASE i = 3
  <2>1. \A j \in Buckets : p[j] = FloorShare(due, amount, j) /\ Place(due, amount, j) \in 0..2
    <3>1. \A j \in Buckets : j < i + 1 /\ due[j] \in Nat
      BY <1>18 DEF Buckets
    <3>2. \A j \in Buckets : due[j] = 0 => FloorShare(due, amount, j) = 0
      BY <1>5, <1>6, ShareFacts
    <3>3. \A j \in Buckets : Place(due, amount, j) \in 0..2
      <4>1. Ranked(due, Remainders(due, amount), Places(due, amount), Unallocated(due, amount))
        BY <1>5, <1>6, SplitRanked
      <4>2. \A j \in Buckets : Places(due, amount)[j] \in 0..2
        BY <4>1 DEF Ranked
      <4> QED BY <4>2 DEF Places
    <3> QED BY <1>14, <3>1, <3>2, <3>3
  <2>2. n = Unallocated(due, amount)
    <3>1. 1 \in Buckets /\ 2 \in Buckets /\ 3 \in Buckets
      BY DEF Buckets
    <3> QED BY <1>15, <2>1, <3>1 DEF Unallocated
  <2>3. Unallocated(due, amount) \in 0..2
    BY <1>5, <1>6, ShareFacts
  <2>4. Served(split', 0)
    <3>1. 0 <= Unallocated(due, amount) /\ n = Unallocated(due, amount) - 0
      BY <2>2, <2>3
    <3>2. ASSUME NEW j \in Buckets
          PROVE  /\ p[j] = FloorShare(due, amount, j) + One(due[j] > 0 /\ Place(due, amount, j) < 0)
                 /\ r[j] = IF due[j] > 0 /\ ~(due[j] > 0 /\ Place(due, amount, j) < 0)
                           THEN Remainder(due, amount, j) ELSE -1
      <4>1. ~(Place(due, amount, j) < 0) /\ j < i + 1
        BY <1>18, <2>1 DEF Buckets
      <4>2. One(due[j] > 0 /\ Place(due, amount, j) < 0) = 0
        BY <4>1 DEF One
      <4>3. p[j] \in Nat
        OBVIOUS
      <4> QED BY <1>14, <2>1, <4>1, <4>2, <4>3
    <3> QED BY <1>13, <3>1, <3>2 DEF Served
  <2> QED BY <1>5, <1>6, <1>12, <1>13, <1>18, <2>4 DEF AllocationInv
<1> QED BY <1>3, <1>17, <1>18

(* The buckets the second loop may still serve: there are more of them     *)
(* than units left.                                                        *)
LEMMA EligibleBuckets ==
    ASSUME AllocationInv, Allocating, NEW k \in Nat, Served(split, k)
    PROVE  /\ k < Unallocated(split.due, split.amount)
           /\ Eligible = {i \in Buckets : split.due[i] > 0 /\ Place(split.due, split.amount, i) >= k}
           /\ \A i \in Eligible : split.remainder[i] = Remainder(split.due, split.amount, i)
           /\ Eligible # {}
<1>1. split \in SplitRecord /\ split.at = 4 /\ split.unallocated > 0
  BY DEF AllocationInv, Allocating
<1>2. PICK due \in [Buckets -> Nat], amount \in Nat, paid \in [Buckets -> Nat],
           remainder \in [Buckets -> Int] :
          /\ due = split.due /\ amount = split.amount /\ paid = split.paid
          /\ remainder = split.remainder
  BY <1>1 DEF SplitRecord
<1>3. PICK T \in Nat \ {0} : T = TotalDue(due)
  <2>1. TotalDue(due) > 0
    BY <1>1, <1>2 DEF AllocationInv
  <2> QED BY <2>1 DEF TotalDue, Buckets
<1>4. amount \in 0..TotalDue(due) /\ TotalDue(due) > 0
  BY <1>1, <1>2, <1>3 DEF AllocationInv
<1>5. PICK u \in 0..2 : u = Unallocated(due, amount)
  BY <1>3, <1>4, ShareFacts
<1>6. k < u
  BY <1>1, <1>2, <1>5 DEF Served
<1>7. Ranked(due, Remainders(due, amount), Places(due, amount), u)
  BY <1>4, <1>5, SplitRanked
<1>8. PICK i \in Buckets : due[i] > 0 /\ Place(due, amount, i) >= k /\ Remainder(due, amount, i) > 0
  <2>1. \E j \in Buckets :
           due[j] > 0 /\ Places(due, amount)[j] >= k /\ Remainders(due, amount)[j] > 0
    BY <1>6, <1>7 DEF Ranked
  <2> QED BY <2>1 DEF Places, Remainders
<1>9. amount < T
  <2> SUFFICES ASSUME amount >= T PROVE FALSE
    BY <1>2, <1>3
  <2>1. amount = T
    BY <1>3, <1>4
  <2>2. PICK d \in Nat, q \in Nat, r \in Nat :
            /\ d = due[i] /\ q = FloorShare(due, amount, i) /\ r = Remainder(due, amount, i)
            /\ amount * d = T * q + r /\ r < T
    <3>1. /\ FloorShare(due, amount, i) \in Nat /\ Remainder(due, amount, i) \in Nat
          /\ Remainder(due, amount, i) < T
          /\ amount * due[i] = T * FloorShare(due, amount, i) + Remainder(due, amount, i)
      BY ONLY <1>3, <1>4, ShareFacts
    <3>2. due[i] \in Nat
      OBVIOUS
    <3> QED BY ONLY <3>1, <3>2
  <2>3. T * q < T * d
    BY <1>3, <1>8, <2>1, <2>2
  <2>4. q + 1 <= d
    BY <1>3, <2>2, <2>3, ProductCancel
  <2>5. T * (q + 1) <= T * d
    BY <1>3, <2>2, <2>4, ProductMonotone
  <2>6. T * (q + 1) = T * q + T
    BY <1>3, <2>2
  <2> QED BY <1>3, <2>1, <2>2, <2>5, <2>6
<1>10. ASSUME NEW j \in Buckets
       PROVE  /\ (due[j] > paid[j] /\ remainder[j] >= 0) <=> (due[j] > 0 /\ Place(due, amount, j) >= k)
              /\ remainder[j] >= 0 => remainder[j] = Remainder(due, amount, j)
  <2>1. /\ paid[j] = FloorShare(due, amount, j) + One(due[j] > 0 /\ Place(due, amount, j) < k)
        /\ remainder[j] = IF due[j] > 0 /\ ~(due[j] > 0 /\ Place(due, amount, j) < k)
                          THEN Remainder(due, amount, j) ELSE -1
    BY <1>2 DEF Served
  <2>2. /\ FloorShare(due, amount, j) \in Nat /\ Remainder(due, amount, j) \in Nat
        /\ due[j] > 0 => FloorShare(due, amount, j) < due[j]
    BY <1>3, <1>4, <1>9, ShareFacts
  <2>3. Place(due, amount, j) \in Nat
    <3>1. \A b \in Buckets : Places(due, amount)[b] \in 0..2
      BY <1>7 DEF Ranked
    <3> QED BY <3>1 DEF Places
  <2> QED BY <2>1, <2>2, <2>3 DEF One
<1>11. Eligible = {j \in Buckets : due[j] > paid[j] /\ remainder[j] >= 0}
  BY <1>2, Zenon DEF Eligible
<1>12. Eligible = {j \in Buckets : due[j] > 0 /\ Place(due, amount, j) >= k}
  BY <1>10, <1>11
<1>13. \A j \in Eligible : remainder[j] = Remainder(due, amount, j)
  BY <1>10, <1>11
<1>14. i \in Eligible
  BY <1>8, <1>12
<1> QED BY <1>2, <1>5, <1>6, <1>12, <1>13, <1>14

LEMMA SelectedIsFirst ==
    ASSUME split.remainder \in [Buckets -> Int], Eligible # {}
    PROVE  /\ Selected \in Eligible
           /\ \A j \in Eligible :
                 \/ split.remainder[Selected] > split.remainder[j]
                 \/ split.remainder[Selected] = split.remainder[j] /\ Selected <= j
<1> DEFINE First(i) == \A j \in Eligible :
               \/ split.remainder[i] > split.remainder[j]
               \/ split.remainder[i] = split.remainder[j] /\ i <= j
<1>1. \E i \in Eligible : First(i)
  <2>1. Eligible \subseteq Buckets /\ Buckets = {1, 2, 3}
    BY DEF Eligible, Buckets
  <2>2. PICK r1 \in Int, r2 \in Int, r3 \in Int :
            r1 = split.remainder[1] /\ r2 = split.remainder[2] /\ r3 = split.remainder[3]
    BY <2>1
  <2>3. 1 \in Eligible => First(1) \/ (2 \in Eligible /\ r2 > r1) \/ (3 \in Eligible /\ r3 > r1)
    BY <2>1, <2>2
  <2>4. 2 \in Eligible => First(2) \/ (1 \in Eligible /\ r1 >= r2) \/ (3 \in Eligible /\ r3 > r2)
    BY <2>1, <2>2
  <2>5. 3 \in Eligible => First(3) \/ (1 \in Eligible /\ r1 >= r3) \/ (2 \in Eligible /\ r2 >= r3)
    BY <2>1, <2>2
  <2>6. 1 \in Eligible \/ 2 \in Eligible \/ 3 \in Eligible
    BY <2>1
  <2> HIDE DEF First
  <2>7. \/ 1 \in Eligible /\ First(1)
        \/ 2 \in Eligible /\ First(2)
        \/ 3 \in Eligible /\ First(3)
    BY <2>2, <2>3, <2>4, <2>5, <2>6
  <2> QED BY <2>7
<1>2. Selected = CHOOSE i \in Eligible : First(i)
  BY Zenon DEF Selected
<1> HIDE DEF First
<1>3. Selected \in Eligible /\ First(Selected)
  BY <1>1, <1>2, Zenon
<1> QED BY <1>3 DEF First

LEMMA UnitKeeps == AllocationInv /\ UnitStep => AllocationInv'
<1> SUFFICES ASSUME AllocationInv, UnitStep PROVE AllocationInv'
  OBVIOUS
<1>1. split \in SplitRecord /\ split.at = 4 /\ split.unallocated > 0 /\ Allocating
  BY DEF AllocationInv, UnitStep, Allocating
<1>2. PICK k \in Nat : Served(split, k)
  BY <1>1 DEF AllocationInv
<1>3. PICK due \in [Buckets -> Nat], amount \in Nat, paid \in [Buckets -> Nat],
           remainder \in [Buckets -> Int], unallocated \in Int :
          /\ due = split.due /\ amount = split.amount /\ paid = split.paid
          /\ remainder = split.remainder /\ unallocated = split.unallocated
  BY <1>1 DEF SplitRecord
<1>4. amount \in 0..TotalDue(due) /\ TotalDue(due) > 0
  BY <1>1, <1>3 DEF AllocationInv
<1>5. PICK u : u = Unallocated(due, amount)
  OBVIOUS
<1>6. Ranked(due, Remainders(due, amount), Places(due, amount), u)
  BY <1>4, <1>5, SplitRanked
<1>7. /\ k < u
      /\ Eligible = {i \in Buckets : due[i] > 0 /\ Place(due, amount, i) >= k}
      /\ \A i \in Eligible : remainder[i] = Remainder(due, amount, i)
      /\ Eligible # {}
  BY <1>1, <1>2, <1>3, <1>5, EligibleBuckets
<1>8. PICK sel : sel = Selected
  OBVIOUS
<1>9. /\ sel \in Eligible
      /\ \A j \in Eligible : remainder[sel] > remainder[j] \/ (remainder[sel] = remainder[j] /\ sel <= j)
  BY <1>3, <1>7, <1>8, SelectedIsFirst
<1>10. sel \in Buckets /\ due[sel] > 0 /\ Place(due, amount, sel) = k
  <2>1. sel \in Buckets /\ due[sel] > 0 /\ Place(due, amount, sel) >= k
    BY <1>7, <1>9
  <2>2. ASSUME NEW j \in Buckets, due[j] > 0, Places(due, amount)[j] >= k
        PROVE  \/ Remainders(due, amount)[sel] > Remainders(due, amount)[j]
               \/ Remainders(due, amount)[sel] = Remainders(due, amount)[j] /\ sel <= j
    <3>1. j \in Eligible
      BY <1>7, <2>2 DEF Places
    <3>2. Remainders(due, amount)[sel] = remainder[sel] /\ Remainders(due, amount)[j] = remainder[j]
      BY <1>7, <1>9, <2>1, <3>1 DEF Remainders
    <3> QED BY <1>9, <3>1, <3>2
  <2>3. Places(due, amount)[sel] >= k
    BY <2>1 DEF Places
  <2>4. Places(due, amount)[sel] = k
    BY <1>6, <1>7, <2>1, <2>2, <2>3 DEF Ranked
  <2> QED BY <2>1, <2>4 DEF Places
<1>11. PICK p \in [Buckets -> Nat] : p = [paid EXCEPT ![sel] = @ + 1]
  <2>1. PICK m \in Nat : m = paid[sel] + 1
    BY <1>10
  <2>2. [paid EXCEPT ![sel] = m] \in [Buckets -> Nat]
    OBVIOUS
  <2> QED BY <2>1, <2>2
<1>12. PICK r \in [Buckets -> Int] : r = [remainder EXCEPT ![sel] = -1]
  <2>1. PICK m \in Int : m = -1
    OBVIOUS
  <2>2. [remainder EXCEPT ![sel] = m] \in [Buckets -> Int]
    OBVIOUS
  <2> QED BY <2>1, <2>2
<1>13. PICK n \in Int : n = unallocated - 1
  OBVIOUS
<1>14. split' = [at |-> split.at, due |-> due, amount |-> amount, paid |-> p,
                 remainder |-> r, unallocated |-> n]
  <2>1. split' = [split EXCEPT !.paid[sel] = @ + 1, !.remainder[sel] = -1, !.unallocated = @ - 1]
    BY <1>8 DEF UnitStep
  <2> QED BY <1>1, <1>3, <1>11, <1>12, <1>13, <2>1 DEF SplitRecord
<1>15. split' \in SplitRecord
  BY <1>1, <1>14 DEF SplitRecord
<1>16. /\ split'.at = 4 /\ split'.due = due /\ split'.amount = amount /\ split'.paid = p
       /\ split'.remainder = r /\ split'.unallocated = n
  BY <1>1, <1>14
<1>17. u \in 0..2 /\ k + 1 <= u /\ n = u - (k + 1)
  <2>1. u \in 0..2
    BY <1>6 DEF Ranked
  <2>2. unallocated = u - k
    BY <1>2, <1>3, <1>5 DEF Served
  <2> QED BY <1>7, <1>13, <2>1, <2>2
<1>18. ASSUME NEW i \in Buckets
       PROVE  /\ p[i] = FloorShare(due, amount, i) + One(due[i] > 0 /\ Place(due, amount, i) < k + 1)
              /\ r[i] = IF due[i] > 0 /\ ~(due[i] > 0 /\ Place(due, amount, i) < k + 1)
                        THEN Remainder(due, amount, i) ELSE -1
  <2>1. /\ paid[i] = FloorShare(due, amount, i) + One(due[i] > 0 /\ Place(due, amount, i) < k)
        /\ remainder[i] = IF due[i] > 0 /\ ~(due[i] > 0 /\ Place(due, amount, i) < k)
                          THEN Remainder(due, amount, i) ELSE -1
    BY <1>2, <1>3 DEF Served
  <2>2. Place(due, amount, i) \in Nat
    <3>1. \A b \in Buckets : Places(due, amount)[b] \in 0..2
      BY <1>6 DEF Ranked
    <3> QED BY <3>1 DEF Places
  <2>3. FloorShare(due, amount, i) \in Nat
    <3>1. PICK T \in Nat \ {0} : T = TotalDue(due)
      BY <1>4 DEF TotalDue, Buckets
    <3> QED BY <1>4, <3>1, ShareFacts
  <2>4. CASE i = sel
    <3>1. p[i] = paid[i] + 1 /\ r[i] = -1
      BY <1>10, <1>11, <1>12, <2>4
    <3>2. One(due[i] > 0 /\ Place(due, amount, i) < k) = 0
      BY <1>10, <2>2, <2>4 DEF One
    <3>3. One(due[i] > 0 /\ Place(due, amount, i) < k + 1) = 1
      BY <1>10, <2>4 DEF One
    <3> QED BY <1>10, <2>1, <2>3, <2>4, <3>1, <3>2, <3>3
  <2>5. CASE i # sel
    <3>1. p[i] = paid[i] /\ r[i] = remainder[i]
      BY <1>11, <1>12, <2>5
    <3>2. due[i] > 0 => Place(due, amount, i) # k
      <4>1. \A a, b \in Buckets : due[a] > 0 /\ due[b] > 0
                /\ Places(due, amount)[a] = Places(due, amount)[b] => a = b
        BY <1>6 DEF Ranked
      <4>2. Places(due, amount)[i] = Place(due, amount, i) /\ Places(due, amount)[sel] = k
        BY <1>10 DEF Places
      <4> QED BY <1>10, <2>5, <4>1, <4>2
    <3>3. (due[i] > 0 /\ Place(due, amount, i) < k) = (due[i] > 0 /\ Place(due, amount, i) < k + 1)
      BY <2>2, <3>2
    <3> QED BY <2>1, <3>1, <3>3
  <2> QED BY <2>4, <2>5
<1>19. Served(split', k + 1)
  BY <1>5, <1>16, <1>17, <1>18 DEF Served
<1>20. k + 1 \in Nat
  OBVIOUS
<1> QED BY <1>4, <1>15, <1>16, <1>19, <1>20 DEF AllocationInv

LEMMA SplitFollows == AllocationInv => SplitComputed
<1> SUFFICES ASSUME AllocationInv PROVE SplitComputed
  OBVIOUS
<1>1. ASSUME Allocating PROVE Eligible # {}
  <2>1. PICK k \in Nat : Served(split, k)
    BY <1>1 DEF AllocationInv, Allocating
  <2> QED BY <1>1, <2>1, EligibleBuckets
<1>2. ASSUME split.at = 4, split.unallocated = 0
      PROVE  /\ split.paid = proportional_repayment_split(split.due, split.amount)
             /\ TotalDue(split.paid) = split.amount
             /\ \A i \in Buckets :
                   LET exact == split.amount * split.due[i]
                       total == TotalDue(split.due)
                   IN  /\ split.paid[i] \in 0..split.due[i]
                       /\ split.paid[i] * total \in (exact - total + 1)..(exact + total - 1)
  <2>1. PICK k \in Nat : Served(split, k)
    BY <1>2 DEF AllocationInv
  <2>2. PICK due \in [Buckets -> Nat], amount \in Nat, paid \in [Buckets -> Nat] :
            due = split.due /\ amount = split.amount /\ paid = split.paid
    BY <1>2 DEF AllocationInv, SplitRecord
  <2>3. amount \in 0..TotalDue(due) /\ TotalDue(due) > 0
    BY <1>2, <2>2 DEF AllocationInv
  <2>4. PICK T \in Nat \ {0} : T = TotalDue(due)
    BY <2>3 DEF TotalDue, Buckets
  <2>5. PICK u \in 0..2 : u = Unallocated(due, amount)
    BY <2>3, <2>4, ShareFacts
  <2>6. k = u
    BY <1>2, <2>1, <2>2, <2>5 DEF Served
  <2>7. Ranked(due, Remainders(due, amount), Places(due, amount), u)
    BY <2>3, <2>5, SplitRanked
  <2>8. ASSUME NEW i \in Buckets
        PROVE  /\ paid[i] = FloorShare(due, amount, i) + One(due[i] > 0 /\ Place(due, amount, i) < u)
               /\ paid[i] = proportional_repayment_split(due, amount)[i]
    <3>1. paid[i] = FloorShare(due, amount, i) + One(due[i] > 0 /\ Place(due, amount, i) < u)
      BY <2>1, <2>2, <2>6 DEF Served
    <3>2. /\ FloorShare(due, amount, i) \in Nat
          /\ due[i] = 0 => FloorShare(due, amount, i) = 0
      BY <2>3, <2>4, ShareFacts
    <3>3. ExtraUnit(due, amount, i) = One(Place(due, amount, i) < u)
      BY <2>5 DEF ExtraUnit, One, Place
    <3>4. paid[i] = proportional_repayment_split(due, amount)[i]
      BY <3>1, <3>2, <3>3 DEF proportional_repayment_split, One
    <3> QED BY <3>1, <3>4
  <2>9. paid = proportional_repayment_split(due, amount)
    BY <2>8 DEF proportional_repayment_split
  <2>10. TotalDue(paid) = amount
    BY <2>3, <2>9, SplitConserves
  <2>11. ASSUME NEW i \in Buckets
         PROVE  /\ paid[i] \in 0..due[i]
                /\ paid[i] * T \in (amount * due[i] - T + 1)..(amount * due[i] + T - 1)
    <3>1. paid[i] \in 0..due[i]
      BY <2>3, <2>9, SplitWithinDues
    <3>2. PICK d \in Nat, q \in Nat, r \in Nat :
              /\ d = due[i] /\ q = FloorShare(due, amount, i) /\ r = Remainder(due, amount, i)
              /\ amount * d = T * q + r /\ r < T
      BY <2>3, <2>4, ShareFacts
    <3>3. PICK exact \in Nat : exact = amount * d /\ exact = T * q + r
      BY <3>2
    <3>4. PICK part \in Nat : part = T * q
      BY <3>2
    <3>5. CASE due[i] > 0 /\ Place(due, amount, i) < u
      <4>1. r > 0
        <5>1. \A j \in Buckets : due[j] > 0 /\ Places(due, amount)[j] < u
                  => Remainders(due, amount)[j] > 0
          BY <2>7 DEF Ranked
        <5> QED BY <3>2, <3>5, <5>1 DEF Places, Remainders
      <4>2. paid[i] = q + 1
        BY <2>8, <3>2, <3>5 DEF One
      <4>3. paid[i] * T = part + T
        BY <3>2, <3>4, <4>2
      <4>4. paid[i] * T \in (exact - T + 1)..(exact + T - 1)
        BY <3>2, <3>3, <3>4, <4>1, <4>3
      <4> QED BY <3>1, <3>2, <3>3, <4>4
    <3>6. CASE ~(due[i] > 0 /\ Place(due, amount, i) < u)
      <4>1. paid[i] = q
        BY <2>8, <3>2, <3>6 DEF One
      <4>2. paid[i] * T = part
        BY <3>2, <3>4, <4>1
      <4>3. paid[i] * T \in (exact - T + 1)..(exact + T - 1)
        BY <3>2, <3>3, <3>4, <4>2
      <4> QED BY <3>1, <3>2, <3>3, <4>3
    <3> QED BY <3>5, <3>6
  <2> QED BY <2>2, <2>4, <2>9, <2>10, <2>11
<1> QED BY <1>1, <1>2 DEF SplitComputed

(* The loops of proportional_repayment_split compute the largest-remainder *)
(* split of any payment over any debt: they never run out of buckets, they *)
(* allocate the whole payment, no bucket beyond what it is due, and each   *)
(* its exact share rounded down or up.                                     *)
THEOREM SplitAlwaysComputed == AllocationSpec => []SplitComputed
<1>1. AllocationInv /\ UNCHANGED split => AllocationInv'
  BY DEF AllocationInv, Floored, Served
<1>2. AllocationInv /\ [AllocationNext]_split => AllocationInv'
  BY <1>1, CallKeeps, FloorKeeps, UnitKeeps DEF AllocationNext
<1> QED BY <1>2, AllocationStarts, SplitFollows, PTL DEF AllocationSpec

------------------------------------------------------------------------------
(* Loans and configuration.                                                *)

Statuses == {"Pending", "Approved", "Repaid", "Defaulted", "Liquidated", "Cancelled", "Rejected"}

LoanRecords ==
    [borrower : Borrowers, amount : Nat \ {0}, collateral_amount : Nat,
     principal_paid : Nat, accrued_interest : Nat, accrued_late_fee : Nat,
     interest_rate_bps : Nat \ {0}, due_date : Nat, last_interest_ledger : Nat,
     last_late_fee_ledger : Nat, status : Statuses, interest_residual : Nat,
     extension_count : Nat, term_ledgers : Nat]

Configurations ==
    [min_score : Nat, min_repayment : Nat, max_amount : Nat, max_loans : Nat,
     rate : Nat \ {0}, default_term : Nat \ {0}, late_fee_rate : Nat,
     min_term : Nat, max_term : Nat, grace : Nat, window : Nat, oracle : BOOLEAN,
     threshold : Nat, bonus : Nat, min_rate : Nat \ {0}, max_rate : Nat]

IsLive(l) == l.status \in {"Pending", "Approved"}

(* A stored loan at ledger `now': what is left of its principal is not     *)
(* negative, only a running loan holds collateral, a pending one has paid  *)
(* nothing, and a live loan owes something, was touched before, and its    *)
(* late fees are within their cap.                                         *)
Sound(l, now) ==
    /\ l.principal_paid <= l.amount
    /\ l.status # "Approved" => l.collateral_amount = 0
    /\ l.status = "Pending" => l.principal_paid = 0
    /\ IsLive(l) =>
          /\ Debt(l) > 0
          /\ l.last_interest_ledger <= now
          /\ remaining_principal(l) + l.accrued_late_fee <= l.amount * MAX_PENALTY_MULTIPLIER

(* What accruing interest and late fees leaves alone.                      *)
SameTerms(r, l) ==
    /\ r.borrower = l.borrower /\ r.amount = l.amount
    /\ r.collateral_amount = l.collateral_amount
    /\ r.principal_paid = l.principal_paid /\ r.status = l.status
    /\ r.due_date = l.due_date /\ r.interest_rate_bps = l.interest_rate_bps
    /\ r.term_ledgers = l.term_ledgers

LEMMA PositiveTerm ==
    ASSUME config \in Configurations, NEW l \in LoanRecords
    PROVE  BPS * TermOf(l) \in Nat \ {0}
<1>1. TermOf(l) \in Nat \ {0}
  BY DEF TermOf, Configurations, LoanRecords
<1>2. BPS \in Nat \ {0}
  BY LoanConstants
<1> QED BY <1>1, <1>2

LEMMA InterestAccrues ==
    ASSUME config \in Configurations, NEW l \in LoanRecords, NEW now \in Nat,
           l.principal_paid <= l.amount, l.last_interest_ledger <= now,
           NEW r, r = accrue_interest(l, now)
    PROVE  /\ r \in LoanRecords /\ SameTerms(r, l)
           /\ r.accrued_late_fee = l.accrued_late_fee
           /\ r.accrued_interest >= l.accrued_interest
           /\ r.last_interest_ledger <= now
<1> DEFINE elapsed == now - l.last_interest_ledger
           product == remaining_principal(l) * l.interest_rate_bps * elapsed * PRECISION
           units == l.interest_residual + product \div (BPS * TermOf(l))
<1>1. PRECISION \in Nat \ {0}
  BY LoanConstants
<1>2. elapsed \in Nat /\ remaining_principal(l) \in Nat /\ l.interest_rate_bps \in Nat
      /\ l.interest_residual \in Nat /\ l.accrued_interest \in Nat
  BY DEF LoanRecords, remaining_principal
<1>3. product \in Nat
  <2>1. PICK x \in Nat : x = remaining_principal(l)
    BY <1>2
  <2>2. PICK y \in Nat : y = l.interest_rate_bps
    BY <1>2
  <2>3. PICK z \in Nat : z = elapsed
    BY <1>2
  <2> HIDE DEF elapsed
  <2>4. x * y \in Nat
    OBVIOUS
  <2>5. x * y * z \in Nat
    BY <2>4
  <2>6. x * y * z * PRECISION \in Nat
    BY <1>1, <2>5
  <2> QED BY <2>1, <2>2, <2>3, <2>6
<1>4. units \in Nat
  <2> HIDE DEF product
  <2>1. product \div (BPS * TermOf(l)) \in Nat
    BY <1>3, PositiveTerm, QuotientBounds
  <2> QED BY <1>2, <2>1
<1>5. r \in {l, [l EXCEPT !.last_interest_ledger = now],
             [l EXCEPT !.accrued_interest = @ + units \div PRECISION,
                       !.interest_residual = units % PRECISION,
                       !.last_interest_ledger = now]}
  BY Zenon DEF accrue_interest
<1> HIDE DEF units
<1>6. CASE r = l
  BY <1>6 DEF SameTerms, LoanRecords
<1>7. CASE r = [l EXCEPT !.last_interest_ledger = now]
  BY <1>7 DEF SameTerms, LoanRecords
<1>8. CASE r = [l EXCEPT !.accrued_interest = @ + units \div PRECISION,
                         !.interest_residual = units % PRECISION,
                         !.last_interest_ledger = now]
  <2>1. units \div PRECISION \in Nat /\ units % PRECISION \in Nat
    BY <1>1, <1>4
  <2>2. PICK n : n = l.accrued_interest + units \div PRECISION
    OBVIOUS
  <2>3. PICK m : m = units % PRECISION
    OBVIOUS
  <2>4. n \in Nat /\ m \in Nat /\ n >= l.accrued_interest
    BY <1>2, <2>1, <2>2, <2>3
  <2>5. r = [l EXCEPT !.accrued_interest = n, !.interest_residual = m, !.last_interest_ledger = now]
    BY <1>8, <2>2, <2>3
  <2>6. r \in LoanRecords
    BY <2>4, <2>5, ZenonT(40) DEF LoanRecords
  <2>7. SameTerms(r, l) /\ r.accrued_late_fee = l.accrued_late_fee
    BY <2>5 DEF SameTerms, LoanRecords
  <2>8. r.accrued_interest = n /\ r.last_interest_ledger = now
    BY <2>5 DEF LoanRecords
  <2> QED BY <2>4, <2>6, <2>7, <2>8
<1> QED BY <1>5, <1>6, <1>7, <1>8

LEMMA FeeAccrues ==
    ASSUME config \in Configurations, NEW l \in LoanRecords, NEW now \in Nat,
           l.principal_paid <= l.amount, NEW r, r = accrue_late_fee(l, now)
    PROVE  /\ r \in LoanRecords /\ SameTerms(r, l)
           /\ r.accrued_interest = l.accrued_interest
           /\ r.last_interest_ledger = l.last_interest_ledger
           /\ r.accrued_late_fee >= l.accrued_late_fee
           /\ r.accrued_late_fee = l.accrued_late_fee
              \/ r.accrued_late_fee + Debt(l) - l.accrued_late_fee
                     <= l.amount * MAX_PENALTY_MULTIPLIER
<1> DEFINE start == IF l.last_late_fee_ledger > GraceEnds(l)
                    THEN l.last_late_fee_ledger ELSE GraceEnds(l)
           product == remaining_principal(l) * config.late_fee_rate * (now - start)
           fee == product \div (BPS * TermOf(l))
           capped == capped_fee(l, fee)
<1>1. /\ start \in Nat /\ remaining_principal(l) \in Nat /\ config.late_fee_rate \in Nat
      /\ l.accrued_late_fee \in Nat /\ l.accrued_interest \in Nat /\ l.amount \in Nat
      /\ Debt(l) \in Nat
  BY DEF LoanRecords, Configurations, remaining_principal, GraceEnds, Debt
<1>2. now > start => fee \in Nat
  <2> SUFFICES ASSUME now > start PROVE fee \in Nat
    OBVIOUS
  <2>1. PICK x \in Nat : x = remaining_principal(l)
    BY <1>1
  <2>2. PICK y \in Nat : y = config.late_fee_rate
    BY <1>1
  <2>3. PICK z \in Nat : z = now - start
    BY <1>1
  <2> HIDE DEF start
  <2>4. x * y \in Nat
    OBVIOUS
  <2>5. x * y * z \in Nat
    BY <2>4
  <2>6. product \in Nat
    BY <2>1, <2>2, <2>3, <2>5
  <2> HIDE DEF product
  <2> QED BY <2>6, PositiveTerm, QuotientBounds
<1>3. \/ r = l
      \/ r = [l EXCEPT !.last_late_fee_ledger = now]
      \/ /\ now > start
         /\ r = [l EXCEPT !.accrued_late_fee = @ + capped, !.last_late_fee_ledger = now]
  <2>1. now \in Int /\ start \in Int
    BY <1>1
  <2>2. now <= start \/ now > start
    <3> HIDE DEF start
    <3> QED BY <2>1
  <2> QED BY <2>2, Zenon DEF accrue_late_fee
<1> HIDE DEF start, fee
<1>4. CASE r = l
  BY <1>1, <1>4 DEF SameTerms, LoanRecords
<1>5. CASE r = [l EXCEPT !.last_late_fee_ledger = now]
  BY <1>1, <1>5 DEF SameTerms, LoanRecords
<1>6. CASE now > start /\ r = [l EXCEPT !.accrued_late_fee = @ + capped, !.last_late_fee_ledger = now]
  <2>1. fee \in Nat
    BY <1>2, <1>6
  <2>2. l.amount * MAX_PENALTY_MULTIPLIER \in Nat
    BY <1>1, LoanConstants
  <2>3. /\ capped \in Nat
        /\ capped = 0 \/ capped <= l.amount * MAX_PENALTY_MULTIPLIER - Debt(l)
    BY <1>1, <2>1, <2>2 DEF capped_fee
  <2> HIDE DEF capped
  <2>4. PICK n : n = l.accrued_late_fee + capped
    OBVIOUS
  <2>5. n \in Nat /\ n >= l.accrued_late_fee
    BY <1>1, <2>3, <2>4
  <2>6. r = [l EXCEPT !.accrued_late_fee = n, !.last_late_fee_ledger = now]
    BY <1>6, <2>4
  <2>7. r \in LoanRecords
    BY <2>5, <2>6 DEF LoanRecords
  <2>8. SameTerms(r, l) /\ r.accrued_interest = l.accrued_interest
        /\ r.last_interest_ledger = l.last_interest_ledger
    BY <2>6 DEF SameTerms, LoanRecords
  <2>9. r.accrued_late_fee = n
    BY <2>6 DEF LoanRecords
  <2> QED BY <1>1, <2>2, <2>3, <2>4, <2>5, <2>7, <2>8, <2>9
<1> QED BY <1>3, <1>4, <1>5, <1>6

(* A loan brought up to the current ledger is sound and owes no less.      *)
LEMMA AccruedFacts ==
    ASSUME config \in Configurations, ledger \in Nat, NEW l \in LoanRecords, Sound(l, ledger),
           l.status = "Approved", NEW r, r = Accrued(l)
    PROVE  r \in LoanRecords /\ SameTerms(r, l) /\ Sound(r, ledger) /\ Debt(r) >= Debt(l)
<1>1. PICK m : m = accrue_interest(l, ledger)
  OBVIOUS
<1>2. /\ m \in LoanRecords /\ SameTerms(m, l)
      /\ m.accrued_late_fee = l.accrued_late_fee
      /\ m.accrued_interest >= l.accrued_interest
      /\ m.last_interest_ledger <= ledger
  BY <1>1, InterestAccrues DEF Sound, IsLive
<1>3. r = accrue_late_fee(m, ledger)
  BY <1>1 DEF Accrued
<1>4. m.principal_paid <= m.amount
  BY <1>2 DEF SameTerms, Sound
<1>5. /\ r \in LoanRecords /\ SameTerms(r, m)
      /\ r.accrued_interest = m.accrued_interest
      /\ r.last_interest_ledger = m.last_interest_ledger
      /\ r.accrued_late_fee >= m.accrued_late_fee
      /\ \/ r.accrued_late_fee = m.accrued_late_fee
         \/ r.accrued_late_fee + Debt(m) - m.accrued_late_fee <= m.amount * MAX_PENALTY_MULTIPLIER
  BY <1>2, <1>3, <1>4, FeeAccrues
<1>6. SameTerms(r, l)
  BY <1>2, <1>5 DEF SameTerms
<1>7. PICK cap : cap = l.amount * MAX_PENALTY_MULTIPLIER
  OBVIOUS
<1>8. cap \in Nat
  BY <1>7, LoanConstants DEF LoanRecords
<1>9. /\ l.amount \in Nat /\ l.principal_paid \in Nat /\ l.accrued_interest \in Nat
      /\ l.accrued_late_fee \in Nat /\ m.accrued_interest \in Nat /\ r.accrued_late_fee \in Nat
  BY <1>2, <1>5 DEF LoanRecords
<1>10. m.amount = l.amount /\ m.principal_paid = l.principal_paid /\ r.amount = l.amount
       /\ r.principal_paid = l.principal_paid /\ r.status = "Approved" /\ m.amount * MAX_PENALTY_MULTIPLIER = cap
       /\ r.amount * MAX_PENALTY_MULTIPLIER = cap
  BY <1>2, <1>6, <1>7 DEF SameTerms
<1>11. Debt(r) >= Debt(l)
  BY <1>2, <1>5, <1>9, <1>10 DEF Debt, remaining_principal
<1>12. remaining_principal(r) + r.accrued_late_fee <= cap
  BY <1>2, <1>5, <1>7, <1>8, <1>9, <1>10 DEF Debt, remaining_principal, Sound, IsLive
<1>13. r.last_interest_ledger <= ledger
  BY <1>2, <1>5
<1>14. Debt(r) > 0
  BY <1>5, <1>9, <1>10, <1>11 DEF Sound, IsLive, Debt, remaining_principal, LoanRecords
<1> QED BY <1>5, <1>6, <1>10, <1>11, <1>12, <1>13, <1>14 DEF Sound, IsLive

(* A payment within the debt lowers each part of it and nothing else.      *)
LEMMA RecoveryFacts ==
    ASSUME NEW l \in LoanRecords, l.principal_paid <= l.amount, Debt(l) > 0,
           NEW amount \in 0..Debt(l), NEW r, r = apply_debt_recovery(l, amount)
    PROVE  /\ r \in LoanRecords
           /\ r.borrower = l.borrower /\ r.amount = l.amount
           /\ r.collateral_amount = l.collateral_amount /\ r.status = l.status
           /\ r.last_interest_ledger = l.last_interest_ledger
           /\ r.principal_paid >= l.principal_paid /\ r.principal_paid <= l.amount
           /\ r.accrued_interest <= l.accrued_interest
           /\ r.accrued_late_fee <= l.accrued_late_fee
<1>1. PICK dues : dues = Dues(l)
  OBVIOUS
<1>2. /\ remaining_principal(l) \in Nat /\ l.accrued_interest \in Nat /\ l.accrued_late_fee \in Nat
      /\ l.amount \in Nat /\ l.principal_paid \in Nat
  BY DEF LoanRecords, remaining_principal
<1>3. /\ dues \in [Buckets -> Nat]
      /\ dues[1] = remaining_principal(l) /\ dues[2] = l.accrued_interest
      /\ dues[3] = l.accrued_late_fee
  BY <1>1, <1>2 DEF Dues, Buckets
<1>4. TotalDue(dues) = Debt(l)
  BY <1>3 DEF TotalDue, Debt
<1>5. PICK parts : parts = proportional_repayment_split(dues, amount)
  OBVIOUS
<1>6. 1 \in Buckets /\ 2 \in Buckets /\ 3 \in Buckets
  BY DEF Buckets
<1>7. TotalDue(dues) > 0 /\ amount \in 0..TotalDue(dues)
  BY <1>4
<1>8. \A i \in Buckets : parts[i] \in 0..dues[i]
  BY <1>3, <1>5, <1>7, SplitWithinDues
<1>9. parts[1] \in 0..dues[1] /\ parts[2] \in 0..dues[2] /\ parts[3] \in 0..dues[3]
  BY <1>6, <1>8
<1>10. PICK p : p = l.principal_paid + parts[1]
  OBVIOUS
<1>11. PICK i : i = l.accrued_interest - parts[2]
  OBVIOUS
<1>12. PICK f : f = l.accrued_late_fee - parts[3]
  OBVIOUS
<1>13. /\ p \in Nat /\ p >= l.principal_paid /\ p <= l.amount
       /\ i \in Nat /\ i <= l.accrued_interest /\ f \in Nat /\ f <= l.accrued_late_fee
  BY <1>2, <1>3, <1>9, <1>10, <1>11, <1>12 DEF remaining_principal
<1>14. r = [l EXCEPT !.principal_paid = p, !.accrued_interest = i, !.accrued_late_fee = f]
  BY <1>1, <1>5, <1>10, <1>11, <1>12 DEF apply_debt_recovery
<1>15. r \in LoanRecords
  BY <1>13, <1>14, ZenonT(40) DEF LoanRecords
<1>16. r.principal_paid = p /\ r.accrued_interest = i /\ r.accrued_late_fee = f
  BY <1>14 DEF LoanRecords
<1>17. /\ r.borrower = l.borrower /\ r.amount = l.amount
       /\ r.collateral_amount = l.collateral_amount /\ r.status = l.status
       /\ r.last_interest_ledger = l.last_interest_ledger
  BY <1>14 DEF LoanRecords
<1> QED BY <1>13, <1>15, <1>16, <1>17

------------------------------------------------------------------------------
(* Token movements.                                                        *)

LEMMA AccountFacts ==
    /\ Manager \in Accounts /\ Pool \in Accounts /\ Pool # Manager
    /\ \A b \in Borrowers \cup Liquidators : b \in Accounts /\ b # Manager /\ b # Pool
BY LoanConstants DEF Accounts

LEMMA MovedFacts ==
    ASSUME NEW b \in [Accounts -> Int], NEW from \in Accounts, NEW to \in Accounts, NEW n \in Int
    PROVE  /\ Moved(b, from, to, n) \in [Accounts -> Int]
           /\ from # Manager /\ to # Manager => Moved(b, from, to, n)[Manager] = b[Manager]
           /\ from = Manager /\ to # Manager => Moved(b, from, to, n)[Manager] = b[Manager] - n
           /\ from # Manager /\ to = Manager => Moved(b, from, to, n)[Manager] = b[Manager] + n
BY AccountFacts DEF Moved

------------------------------------------------------------------------------
(* The invariant.  Collateral and lent principal are counted over all the  *)
(* stored loans, with nothing for the loans that hold none: a loan that    *)
(* changes status then changes one entry of the sum and not its range.     *)

Lending(l) == IF l.status = "Approved" THEN l.amount ELSE 0

Held == [id \in DOMAIN loans |-> loans[id].collateral_amount]

Lends == [id \in DOMAIN loans |-> Lending(loans[id])]

LoansTyped ==
    /\ ledger \in Nat /\ loanCounter \in Nat /\ totalOutstanding \in Int
    /\ balance \in [Accounts -> Int]
    /\ borrowerLoanCount \in [Borrowers -> Nat]
    /\ borrowerLoans \in [Borrowers -> Seq(Int)]
    /\ loans \in [DOMAIN loans -> LoanRecords]
    /\ DOMAIN loans \subseteq 1..loanCounter

(* No loan exists before the contract is initialised, so that initialize's *)
(* reset of the counter reuses no id.                                      *)
NoneBeforeInitialize == admin = NoAddress => DOMAIN loans = {}

AllSound == \A id \in DOMAIN loans : Sound(loans[id], ledger)

Custody == balance[Manager] = Total(Held, DOMAIN loans)

Coverage == totalOutstanding >= Total(Lends, DOMAIN loans)

Configured == config \in Configurations /\ ConfigCoherent

LoanInv ==
    /\ LoansTyped /\ NoneBeforeInitialize /\ AllSound /\ Custody /\ Coverage
    /\ SlotsCounted /\ LoanListsExact /\ Configured

LEMMA LoansFinite ==
    ASSUME LoansTyped
    PROVE  /\ IsFiniteSet(DOMAIN loans)
           /\ Held \in [DOMAIN loans -> Nat] /\ Lends \in [DOMAIN loans -> Nat]
           /\ \A b : IsFiniteSet(LoansOf(b) \cap Live)
<1>1. IsFiniteSet(1..loanCounter)
  BY FS_Interval DEF LoansTyped
<1>2. IsFiniteSet(DOMAIN loans)
  BY <1>1, FS_Subset DEF LoansTyped
<1>3. \A id \in DOMAIN loans : loans[id].collateral_amount \in Nat /\ Lending(loans[id]) \in Nat
  BY DEF LoansTyped, LoanRecords, Lending
<1>4. \A b : (LoansOf(b) \cap Live) \subseteq DOMAIN loans
  BY DEF LoansOf
<1>5. \A b : IsFiniteSet(LoansOf(b) \cap Live)
  BY <1>2, <1>4, FS_Subset
<1> QED BY <1>2, <1>3, <1>5 DEF Held, Lends

(* One loan is rewritten: a running loan, a loan that ends, or one that    *)
(* has ended.                                                              *)
Rewrites(id, new) ==
    LET old == loans[id]
    IN  /\ new \in LoanRecords /\ Sound(new, ledger) /\ new.borrower = old.borrower
        /\ loans' = [loans EXCEPT ![id] = new]
        /\ ledger' = ledger /\ config' = config /\ admin' = admin
        /\ loanCounter' = loanCounter /\ borrowerLoans' = borrowerLoans
        /\ balance' \in [Accounts -> Int] /\ totalOutstanding' \in Int
        /\ balance'[Manager] = balance[Manager] + new.collateral_amount - old.collateral_amount
        /\ totalOutstanding' - totalOutstanding >= Lending(new) - Lending(old)
        /\ \/ /\ IsLive(new) <=> IsLive(old)
              /\ borrowerLoanCount' = borrowerLoanCount
           \/ /\ IsLive(old) /\ ~IsLive(new)
              /\ decrement_borrower_loan_count(old.borrower)

LEMMA OneLoanChanges ==
    ASSUME LoanInv, NEW id \in DOMAIN loans, NEW new, Rewrites(id, new)
    PROVE  LoanInv'
<1>1. /\ LoansTyped /\ NoneBeforeInitialize /\ AllSound /\ Custody /\ Coverage
      /\ SlotsCounted /\ LoanListsExact /\ Configured
  BY DEF LoanInv
<1>2. PICK old : old = loans[id]
  OBVIOUS
<1>3. /\ new \in LoanRecords /\ Sound(new, ledger) /\ new.borrower = old.borrower
      /\ loans' = [loans EXCEPT ![id] = new]
      /\ ledger' = ledger /\ config' = config /\ admin' = admin
      /\ loanCounter' = loanCounter /\ borrowerLoans' = borrowerLoans
      /\ balance' \in [Accounts -> Int] /\ totalOutstanding' \in Int
      /\ balance'[Manager] = balance[Manager] + new.collateral_amount - old.collateral_amount
      /\ totalOutstanding' - totalOutstanding >= Lending(new) - Lending(old)
      /\ \/ /\ IsLive(new) <=> IsLive(old)
            /\ borrowerLoanCount' = borrowerLoanCount
         \/ /\ IsLive(old) /\ ~IsLive(new)
            /\ decrement_borrower_loan_count(old.borrower)
  BY <1>2, Zenon DEF Rewrites
<1>4. /\ DOMAIN loans' = DOMAIN loans /\ loans'[id] = new
      /\ \A i \in DOMAIN loans \ {id} : loans'[i] = loans[i]
      /\ loans' \in [DOMAIN loans -> LoanRecords]
  BY <1>1, <1>3 DEF LoansTyped
<1>5. old \in LoanRecords /\ old.borrower \in Borrowers
  BY <1>1, <1>2 DEF LoansTyped, LoanRecords
<1>6. /\ IsFiniteSet(DOMAIN loans)
      /\ Held \in [DOMAIN loans -> Nat] /\ Lends \in [DOMAIN loans -> Nat]
      /\ \A b : IsFiniteSet(LoansOf(b) \cap Live)
  BY <1>1, LoansFinite
<1>7. borrowerLoanCount' \in [Borrowers -> Nat]
  <2>1. borrowerLoanCount \in [Borrowers -> Nat]
    BY <1>1 DEF LoansTyped
  <2>2. PICK n : n = IF borrowerLoanCount[old.borrower] = 0 THEN 0
                     ELSE borrowerLoanCount[old.borrower] - 1
    OBVIOUS
  <2>3. n \in Nat
    BY <1>5, <2>1, <2>2
  <2>4. \/ borrowerLoanCount' = borrowerLoanCount
        \/ borrowerLoanCount' = [borrowerLoanCount EXCEPT ![old.borrower] = n]
    BY <1>3, <2>2 DEF decrement_borrower_loan_count
  <2> QED BY <2>1, <2>3, <2>4
<1>8. LoansTyped'
  BY <1>1, <1>3, <1>4, <1>7 DEF LoansTyped
<1>9. Held' \in [DOMAIN loans -> Nat] /\ Lends' \in [DOMAIN loans -> Nat]
  <2>1. \A i \in DOMAIN loans : loans'[i].collateral_amount \in Nat /\ Lending(loans'[i]) \in Nat
    BY <1>4 DEF LoanRecords, Lending
  <2> QED BY <1>4, <2>1 DEF Held, Lends
<1>10. NoneBeforeInitialize' /\ AllSound' /\ Configured'
  <2>1. NoneBeforeInitialize'
    BY <1>1, <1>3, <1>4 DEF NoneBeforeInitialize
  <2>2. \A i \in DOMAIN loans : Sound(loans'[i], ledger)
    BY <1>1, <1>3, <1>4 DEF AllSound
  <2>3. AllSound'
    BY <1>3, <1>4, <2>2 DEF AllSound, Sound, IsLive, Debt, remaining_principal
  <2>4. Configured'
    BY <1>1, <1>3 DEF Configured, ConfigCoherent
  <2> QED BY <2>1, <2>3, <2>4
<1>11. Custody'
  <2>1. \A i \in DOMAIN loans \ {id} : Held'[i] = Held[i]
    BY <1>4 DEF Held
  <2>2. Total(Held', DOMAIN loans) = Total(Held, DOMAIN loans) - Held[id] + Held'[id]
    BY <1>6, <1>9, <2>1, TotalUpdate
  <2>3. Held[id] = old.collateral_amount /\ Held'[id] = new.collateral_amount
    BY <1>2, <1>4 DEF Held
  <2>4. Total(Held, DOMAIN loans) \in Nat /\ Held[id] \in Nat /\ Held'[id] \in Nat
    BY <1>6, <1>9, TotalNat
  <2> QED BY <1>1, <1>3, <1>4, <2>2, <2>3, <2>4 DEF Custody
<1>12. Coverage'
  <2>1. \A i \in DOMAIN loans \ {id} : Lends'[i] = Lends[i]
    BY <1>4 DEF Lends
  <2>2. Total(Lends', DOMAIN loans) = Total(Lends, DOMAIN loans) - Lends[id] + Lends'[id]
    BY <1>6, <1>9, <2>1, TotalUpdate
  <2>3. Lends[id] = Lending(old) /\ Lends'[id] = Lending(new)
    BY <1>2, <1>4 DEF Lends
  <2>4. Total(Lends, DOMAIN loans) \in Nat /\ Lends[id] \in Nat /\ Lends'[id] \in Nat
        /\ totalOutstanding \in Int
    BY <1>1, <1>6, <1>9, TotalNat DEF LoansTyped
  <2> QED BY <1>1, <1>3, <1>4, <2>2, <2>3, <2>4 DEF Coverage
<1>13. LoanListsExact'
  <2>1. \A b : LoansOf(b)' = LoansOf(b)
    BY <1>2, <1>3, <1>4 DEF LoansOf
  <2> QED BY <1>1, <1>3, <2>1 DEF LoanListsExact
<1>14. SlotsCounted'
  <2> SUFFICES ASSUME NEW b \in Borrowers
               PROVE  borrowerLoanCount'[b] = Cardinality(LoansOf(b)' \cap Live')
    BY DEF SlotsCounted
  <2>1. PICK S : S = LoansOf(b) \cap Live
    OBVIOUS
  <2>2. borrowerLoanCount[b] = Cardinality(S) /\ IsFiniteSet(S) /\ Cardinality(S) \in Nat
    BY <1>1, <1>6, <2>1, FS_CardinalityType DEF SlotsCounted
  <2>3. \A i : i \in S <=> i \in DOMAIN loans /\ loans[i].borrower = b /\ IsLive(loans[i])
    BY <2>1 DEF LoansOf, Live, IsLive
  <2>4. \A i : i \in LoansOf(b)' \cap Live' <=>
              i \in DOMAIN loans /\ loans'[i].borrower = b /\ IsLive(loans'[i])
    BY <1>4 DEF LoansOf, Live, IsLive
  <2>5. CASE IsLive(new) <=> IsLive(old)
    <3>1. LoansOf(b)' \cap Live' = S
      BY <1>2, <1>3, <1>4, <2>3, <2>4, <2>5
    <3>2. borrowerLoanCount' = borrowerLoanCount
      BY <1>3, <2>5
    <3> QED BY <2>2, <3>1, <3>2
  <2>6. CASE /\ IsLive(old) /\ ~IsLive(new)
             /\ decrement_borrower_loan_count(old.borrower)
    <3>1. CASE b # old.borrower
      <4>1. LoansOf(b)' \cap Live' = S
        BY <1>2, <1>3, <1>4, <2>3, <2>4, <3>1
      <4>2. borrowerLoanCount'[b] = borrowerLoanCount[b]
        BY <1>1, <2>6, <3>1 DEF decrement_borrower_loan_count, LoansTyped
      <4> QED BY <2>2, <4>1, <4>2
    <3>2. CASE b = old.borrower
      <4>1. LoansOf(b)' \cap Live' = S \ {id}
        BY <1>2, <1>3, <1>4, <2>3, <2>4, <2>6
      <4>2. id \in S
        BY <1>2, <2>3, <2>6, <3>2
      <4>3. Cardinality(S \ {id}) = Cardinality(S) - 1
        BY <2>2, <4>2, FS_RemoveElement
      <4>4. Cardinality(S \ {id}) \in Nat
        <5>1. IsFiniteSet(S \ {id})
          BY <2>2, FS_Subset
        <5> QED BY <5>1, FS_CardinalityType
      <4>5. borrowerLoanCount'[b] = borrowerLoanCount[b] - 1
        BY <1>1, <2>2, <2>6, <3>2, <4>3, <4>4 DEF decrement_borrower_loan_count, LoansTyped
      <4> QED BY <2>2, <4>1, <4>3, <4>5
    <3> QED BY <3>1, <3>2
  <2> QED BY <1>3, <2>5, <2>6
<1> QED BY <1>8, <1>10, <1>11, <1>12, <1>13, <1>14 DEF LoanInv

------------------------------------------------------------------------------
(* The calls that rewrite one loan.                                        *)

LEMMA StoredLoan ==
    ASSUME LoanInv, NEW id \in DOMAIN loans, NEW l, l = loans[id]
    PROVE  /\ l \in LoanRecords /\ Sound(l, ledger)
           /\ l.borrower \in Borrowers /\ l.borrower \in Accounts
           /\ l.borrower # Manager /\ l.borrower # Pool
           /\ l.amount \in Nat \ {0} /\ l.collateral_amount \in Nat
<1>1. l \in LoanRecords /\ Sound(l, ledger)
  BY DEF LoanInv, LoansTyped, AllSound
<1>2. l.borrower \in Borrowers /\ l.amount \in Nat \ {0} /\ l.collateral_amount \in Nat
  BY <1>1 DEF LoanRecords
<1> QED BY <1>1, <1>2, AccountFacts

(* Only a running loan accrues.                                            *)
LEMMA RunningLoan ==
    ASSUME LoanInv, NEW id \in DOMAIN loans, NEW l, l = Accrued(loans[id]), l.status = "Approved"
    PROVE  /\ loans[id].status = "Approved"
           /\ l \in LoanRecords /\ SameTerms(l, loans[id]) /\ Sound(l, ledger)
           /\ Debt(l) \in Nat /\ Debt(l) > 0 /\ remaining_principal(l) \in Nat
           /\ l.borrower \in Borrowers /\ l.borrower \in Accounts
           /\ l.borrower # Manager /\ l.borrower # Pool
           /\ l.amount \in Nat \ {0} /\ l.collateral_amount \in Nat
<1>1. loans[id] \in LoanRecords /\ Sound(loans[id], ledger)
  BY StoredLoan
<1>2. loans[id].status = "Approved"
  <2> SUFFICES ASSUME loans[id].status # "Approved" PROVE FALSE
    OBVIOUS
  <2>1. accrue_interest(loans[id], ledger) = loans[id]
    BY Zenon DEF accrue_interest
  <2>2. accrue_late_fee(loans[id], ledger) = loans[id]
    BY Zenon DEF accrue_late_fee
  <2> QED BY <2>1, <2>2 DEF Accrued
<1>3. config \in Configurations /\ ledger \in Nat
  BY DEF LoanInv, Configured, LoansTyped
<1>4. l \in LoanRecords /\ SameTerms(l, loans[id]) /\ Sound(l, ledger)
  BY <1>1, <1>2, <1>3, AccruedFacts
<1>5. Debt(l) \in Nat /\ Debt(l) > 0 /\ remaining_principal(l) \in Nat
  BY <1>4 DEF Sound, IsLive, Debt, remaining_principal, LoanRecords
<1>6. l.borrower \in Borrowers /\ l.amount \in Nat \ {0} /\ l.collateral_amount \in Nat
  BY <1>4 DEF LoanRecords
<1> QED BY <1>2, <1>4, <1>5, <1>6, AccountFacts

LEMMA WithdrawnKeeps ==
    ASSUME LoanInv, NEW id \in DOMAIN loans, NEW s \in {"Cancelled", "Rejected"}, Withdrawn(id, s)
    PROVE  LoanInv'
<1>1. PICK l : l = loans[id]
  OBVIOUS
<1>2. /\ l.status = "Pending"
      /\ loans' = [loans EXCEPT ![id] = [l EXCEPT !.status = s, !.collateral_amount = 0]]
      /\ decrement_borrower_loan_count(l.borrower)
      /\ balance' = Moved(balance, Manager, l.borrower, l.collateral_amount)
      /\ ledger' = ledger /\ config' = config /\ admin' = admin
      /\ loanCounter' = loanCounter /\ borrowerLoans' = borrowerLoans
      /\ totalOutstanding' = totalOutstanding
  BY <1>1 DEF Withdrawn, Put, outside, governed
<1>3. /\ l \in LoanRecords /\ Sound(l, ledger)
      /\ l.borrower \in Accounts /\ l.borrower # Manager
  BY <1>1, StoredLoan
<1>4. l.collateral_amount = 0
  BY <1>2, <1>3 DEF Sound
<1>5. PICK new : new = [l EXCEPT !.status = s, !.collateral_amount = 0]
  OBVIOUS
<1>6. /\ new \in LoanRecords /\ new.borrower = l.borrower /\ new.status = s
      /\ new.collateral_amount = 0 /\ new.principal_paid = l.principal_paid
      /\ new.amount = l.amount
  BY <1>3, <1>5 DEF LoanRecords, Statuses
<1>7. Sound(new, ledger) /\ IsLive(l) /\ ~IsLive(new) /\ Lending(new) = 0 /\ Lending(l) = 0
  BY <1>2, <1>3, <1>6 DEF Sound, IsLive, Lending
<1>8. balance \in [Accounts -> Int] /\ totalOutstanding \in Int
  BY DEF LoanInv, LoansTyped
<1>9. balance' \in [Accounts -> Int] /\ balance'[Manager] = balance[Manager] - l.collateral_amount
  <2>1. Manager \in Accounts /\ l.collateral_amount \in Int
    BY <1>4, AccountFacts
  <2> QED BY <1>2, <1>3, <1>8, <2>1, MovedFacts, ZenonT(40)
<1>10. /\ balance'[Manager] = balance[Manager] + new.collateral_amount - l.collateral_amount
       /\ totalOutstanding' - totalOutstanding >= Lending(new) - Lending(l)
       /\ totalOutstanding' \in Int
  BY <1>2, <1>4, <1>6, <1>7, <1>8, <1>9, AccountFacts
<1>11. Rewrites(id, new)
  BY <1>1, <1>2, <1>5, <1>6, <1>7, <1>9, <1>10 DEF Rewrites
<1> QED BY <1>11, OneLoanChanges

LEMMA ApproveKeeps ==
    ASSUME LoanInv, NEW id \in DOMAIN loans, ApproveLoan(id)
    PROVE  LoanInv'
<1>1. PICK l : l = loans[id]
  OBVIOUS
<1>2. PICK due : due = ledger + l.term_ledgers
  OBVIOUS
<1>3. PICK fees : fees = due + config.grace
  OBVIOUS
<1>4. PICK new : new = [l EXCEPT !.status = "Approved", !.due_date = due,
                                 !.last_interest_ledger = ledger, !.last_late_fee_ledger = fees]
  OBVIOUS
<1>5. /\ l.status = "Pending"
      /\ loans' = [loans EXCEPT ![id] = new]
      /\ totalOutstanding' = totalOutstanding + l.amount
      /\ balance' = Moved(balance, Pool, l.borrower, l.amount)
      /\ ledger' = ledger /\ config' = config /\ admin' = admin
      /\ loanCounter' = loanCounter /\ borrowerLoans' = borrowerLoans
      /\ borrowerLoanCount' = borrowerLoanCount
  BY <1>1, <1>2, <1>3, <1>4 DEF ApproveLoan, Put, adjust_total_outstanding, outside, governed
<1>6. /\ l \in LoanRecords /\ Sound(l, ledger) /\ l.amount \in Nat
      /\ l.borrower \in Accounts /\ l.borrower # Manager
  BY <1>1, StoredLoan
<1>7. ledger \in Nat /\ due \in Nat /\ fees \in Nat
  <2>1. ledger \in Nat /\ config.grace \in Nat
    BY DEF LoanInv, LoansTyped, Configured, Configurations
  <2>2. l.term_ledgers \in Nat
    BY <1>6 DEF LoanRecords
  <2> QED BY <1>2, <1>3, <2>1, <2>2
<1>8. new \in LoanRecords
  BY <1>4, <1>6, <1>7 DEF LoanRecords, Statuses
<1>9. /\ new.borrower = l.borrower /\ new.status = "Approved" /\ new.amount = l.amount
      /\ new.collateral_amount = l.collateral_amount /\ new.principal_paid = l.principal_paid
      /\ new.accrued_interest = l.accrued_interest /\ new.accrued_late_fee = l.accrued_late_fee
      /\ new.last_interest_ledger = ledger
  BY <1>4, <1>6 DEF LoanRecords
<1>10. Sound(new, ledger)
  BY <1>5, <1>6, <1>7, <1>9 DEF Sound, IsLive, Debt, remaining_principal
<1>11. balance \in [Accounts -> Int] /\ totalOutstanding \in Int
  BY DEF LoanInv, LoansTyped
<1>12. balance' \in [Accounts -> Int] /\ balance'[Manager] = balance[Manager]
  <2>1. Pool \in Accounts /\ Pool # Manager /\ l.amount \in Int
    BY <1>6, AccountFacts
  <2> QED BY <1>5, <1>6, <1>11, <2>1, MovedFacts
<1>13. IsLive(new) /\ IsLive(l) /\ Lending(new) = l.amount /\ Lending(l) = 0
  BY <1>5, <1>9 DEF IsLive, Lending
<1>14. /\ totalOutstanding' - totalOutstanding >= Lending(new) - Lending(l)
       /\ totalOutstanding' \in Int
  BY <1>5, <1>6, <1>11, <1>13
<1>15. balance'[Manager] = balance[Manager] + new.collateral_amount - l.collateral_amount
  BY <1>6, <1>9, <1>11, <1>12, AccountFacts DEF LoanRecords
<1>16. Rewrites(id, new)
  BY <1>1, <1>5, <1>8, <1>9, <1>10, <1>12, <1>13, <1>14, <1>15 DEF Rewrites
<1> QED BY <1>16, OneLoanChanges

(* What a repayment leaves: a running loan that owes less, or a repaid one *)
(* that holds no collateral.                                               *)
LEMMA RepaymentFacts ==
    ASSUME LoanInv, NEW l \in LoanRecords, Sound(l, ledger), l.status = "Approved",
           NEW amount \in 1..Debt(l), NEW new, new = AfterRepayment(l, amount)
    PROVE  /\ new \in LoanRecords /\ Sound(new, ledger) /\ new.borrower = l.borrower
           /\ \/ /\ new.status = "Repaid" /\ new.collateral_amount = 0
              \/ /\ new.status = "Approved" /\ new.amount = l.amount
                 /\ new.collateral_amount = l.collateral_amount
<1>1. PICK paid : paid = apply_debt_recovery(l, amount)
  OBVIOUS
<1>2. /\ l.principal_paid <= l.amount /\ Debt(l) > 0 /\ l.last_interest_ledger <= ledger
      /\ remaining_principal(l) + l.accrued_late_fee <= l.amount * MAX_PENALTY_MULTIPLIER
  BY DEF Sound, IsLive
<1>3. Debt(l) \in Nat /\ amount \in 0..Debt(l)
  <2>1. Debt(l) \in Nat
    BY <1>2 DEF Debt, remaining_principal, LoanRecords
  <2> QED BY <2>1
<1>4. /\ paid \in LoanRecords
      /\ paid.borrower = l.borrower /\ paid.amount = l.amount
      /\ paid.collateral_amount = l.collateral_amount /\ paid.status = l.status
      /\ paid.last_interest_ledger = l.last_interest_ledger
      /\ paid.principal_paid >= l.principal_paid /\ paid.principal_paid <= l.amount
      /\ paid.accrued_interest <= l.accrued_interest
      /\ paid.accrued_late_fee <= l.accrued_late_fee
  BY <1>1, <1>2, <1>3, RecoveryFacts
<1>5. CASE IsDust(l) \/ FullyRepaid(paid)
  <2>1. PICK n : n = paid.amount
    OBVIOUS
  <2>2. new = [paid EXCEPT !.status = "Repaid", !.collateral_amount = 0,
                           !.principal_paid = n, !.accrued_interest = 0, !.accrued_late_fee = 0]
    BY <1>1, <1>5, <2>1 DEF AfterRepayment
  <2>3. n \in Nat
    BY <1>4, <2>1 DEF LoanRecords
  <2>4. new \in LoanRecords
    <3>1. "Repaid" \in Statuses
      BY DEF Statuses
    <3>2. PICK ended \in Statuses, none \in Nat : ended = "Repaid" /\ none = 0
      BY <3>1
    <3>3. new = [paid EXCEPT !.status = ended, !.collateral_amount = none,
                             !.principal_paid = n, !.accrued_interest = none,
                             !.accrued_late_fee = none]
      BY <2>2, <3>2
    <3> QED BY <1>4, <2>3, <3>3, ZenonT(40) DEF LoanRecords
  <2>5. /\ new.borrower = l.borrower /\ new.status = "Repaid" /\ new.collateral_amount = 0
        /\ new.principal_paid = n /\ new.amount = n
    BY <1>4, <2>1, <2>2 DEF LoanRecords
  <2>6. Sound(new, ledger)
    BY <2>3, <2>5 DEF Sound, IsLive
  <2> QED BY <2>4, <2>5, <2>6
<1>6. CASE ~(IsDust(l) \/ FullyRepaid(paid))
  <2>1. new = paid
    BY <1>1, <1>6 DEF AfterRepayment
  <2>2. Debt(paid) \in Nat /\ Debt(paid) # 0
    <3>1. Debt(paid) # 0
      BY <1>6 DEF FullyRepaid
    <3> QED BY <1>4, <3>1 DEF Debt, remaining_principal, LoanRecords
  <2>3. PICK cap : cap = l.amount * MAX_PENALTY_MULTIPLIER
    OBVIOUS
  <2>4. cap \in Nat
    BY <2>3, LoanConstants DEF LoanRecords
  <2>5. remaining_principal(paid) + paid.accrued_late_fee <= cap
    BY <1>2, <1>4, <2>3, <2>4 DEF remaining_principal, LoanRecords
  <2>6. paid.amount * MAX_PENALTY_MULTIPLIER = cap
    BY <1>4, <2>3
  <2>7. Debt(paid) > 0 /\ paid.last_interest_ledger <= ledger /\ paid.status = "Approved"
        /\ paid.principal_paid <= paid.amount
    BY <1>2, <1>4, <2>2
  <2>8. Sound(paid, ledger)
    BY <2>5, <2>6, <2>7 DEF Sound
  <2> QED BY <1>4, <2>1, <2>8
<1> QED BY <1>5, <1>6

LEMMA RepayKeeps ==
    ASSUME LoanInv, NEW id \in DOMAIN loans, NEW amount \in Amounts, Repay(id, amount)
    PROVE  LoanInv'
<1>1. PICK l : l = Accrued(loans[id])
  OBVIOUS
<1>2. PICK new : new = AfterRepayment(l, amount)
  OBVIOUS
<1>3. PICK released : released = Released(l, amount)
  OBVIOUS
<1>4. PICK old : old = loans[id]
  OBVIOUS
<1>5. /\ amount > 0 /\ l.status = "Approved" /\ amount <= Debt(l)
      /\ loans' = [loans EXCEPT ![id] = new]
      /\ \/ /\ new.status = "Repaid" /\ totalOutstanding' = totalOutstanding - l.amount
            /\ decrement_borrower_loan_count(l.borrower)
         \/ /\ new.status # "Repaid" /\ totalOutstanding' = totalOutstanding
            /\ borrowerLoanCount' = borrowerLoanCount
      /\ balance' = Moved(Moved(balance, l.borrower, Pool, amount), Manager, l.borrower, released)
      /\ released = IF new.status = "Repaid" THEN l.collateral_amount ELSE 0
      /\ ledger' = ledger /\ config' = config /\ admin' = admin
      /\ loanCounter' = loanCounter /\ borrowerLoans' = borrowerLoans
  <2>1. l.amount \in Int /\ totalOutstanding \in Int
    <3>1. l.status = "Approved"
      BY <1>1, Zenon DEF Repay, MayRepay
    <3>2. l.amount \in Nat
      BY <1>1, <3>1, RunningLoan
    <3> QED BY <3>2 DEF LoanInv, LoansTyped
  <2> QED BY <1>1, <1>2, <1>3, <2>1
          DEF Repay, MayRepay, PaysEnough, Put, adjust_total_outstanding, Released, outside, governed
<1>6. /\ old.status = "Approved"
      /\ l \in LoanRecords /\ SameTerms(l, old) /\ Sound(l, ledger)
      /\ Debt(l) \in Nat /\ l.borrower \in Accounts
      /\ l.borrower # Manager /\ l.borrower # Pool
      /\ l.amount \in Nat /\ l.collateral_amount \in Nat
  BY <1>1, <1>4, <1>5, RunningLoan
<1>7. amount \in 1..Debt(l) /\ amount \in Int
  BY <1>5, <1>6, LoanConstants
<1>8. /\ new \in LoanRecords /\ Sound(new, ledger) /\ new.borrower = l.borrower
      /\ \/ /\ new.status = "Repaid" /\ new.collateral_amount = 0
         \/ /\ new.status = "Approved" /\ new.amount = l.amount
            /\ new.collateral_amount = l.collateral_amount
  BY <1>2, <1>5, <1>6, <1>7, RepaymentFacts
<1>9. /\ old.borrower = l.borrower /\ old.amount = l.amount
      /\ old.collateral_amount = l.collateral_amount
  BY <1>6 DEF SameTerms
<1>10. balance \in [Accounts -> Int] /\ totalOutstanding \in Int
  BY DEF LoanInv, LoansTyped
<1>11. released \in Int /\ balance' \in [Accounts -> Int] /\ balance'[Manager] = balance[Manager] - released
  <2>1. Manager \in Accounts /\ Pool \in Accounts /\ Pool # Manager /\ released \in Int
    BY <1>5, <1>6, AccountFacts
  <2>2. PICK paid : paid = Moved(balance, l.borrower, Pool, amount)
    OBVIOUS
  <2>3. paid \in [Accounts -> Int] /\ paid[Manager] = balance[Manager]
    BY <1>6, <1>7, <1>10, <2>1, <2>2, MovedFacts, ZenonT(40)
  <2>4. PICK left : left = Moved(paid, Manager, l.borrower, released)
    OBVIOUS
  <2>5. left \in [Accounts -> Int] /\ left[Manager] = paid[Manager] - released
    BY <1>6, <2>1, <2>3, <2>4, MovedFacts
  <2>6. balance' = left
    BY <1>5, <2>2, <2>4
  <2> QED BY <2>1, <2>3, <2>5, <2>6
<1>12. balance[Manager] \in Int
  BY <1>10, AccountFacts
<1>13. /\ balance'[Manager] = balance[Manager] + new.collateral_amount - old.collateral_amount
       /\ totalOutstanding' - totalOutstanding >= Lending(new) - Lending(old)
       /\ totalOutstanding' \in Int
       /\ \/ /\ IsLive(new) <=> IsLive(old)
             /\ borrowerLoanCount' = borrowerLoanCount
          \/ /\ IsLive(old) /\ ~IsLive(new)
             /\ decrement_borrower_loan_count(old.borrower)
  <2>1. CASE new.status = "Repaid"
    BY <1>5, <1>6, <1>8, <1>9, <1>10, <1>11, <1>12, <2>1 DEF Lending, IsLive
  <2>2. CASE new.status # "Repaid"
    BY <1>5, <1>6, <1>8, <1>9, <1>10, <1>11, <1>12, <2>2 DEF Lending, IsLive
  <2> QED BY <2>1, <2>2
<1>14. Rewrites(id, new)
  BY <1>4, <1>5, <1>8, <1>9, <1>11, <1>13 DEF Rewrites
<1> QED BY <1>14, OneLoanChanges

LEMMA DepositKeeps ==
    ASSUME LoanInv, NEW id \in DOMAIN loans, NEW amount \in Amounts, DepositCollateral(id, amount)
    PROVE  LoanInv'
<1>1. PICK l : l = loans[id]
  OBVIOUS
<1>2. PICK held : held = l.collateral_amount + amount
  OBVIOUS
<1>3. PICK new : new = [l EXCEPT !.collateral_amount = held]
  OBVIOUS
<1>4. /\ l.status = "Approved" /\ amount > 0
      /\ loans' = [loans EXCEPT ![id] = new]
      /\ balance' = Moved(balance, l.borrower, Manager, amount)
      /\ ledger' = ledger /\ config' = config /\ admin' = admin
      /\ loanCounter' = loanCounter /\ borrowerLoans' = borrowerLoans
      /\ borrowerLoanCount' = borrowerLoanCount /\ totalOutstanding' = totalOutstanding
  BY <1>1, <1>2, <1>3 DEF DepositCollateral, Put, outside, governed
<1>5. /\ l \in LoanRecords /\ Sound(l, ledger) /\ l.amount \in Nat /\ l.collateral_amount \in Nat
      /\ l.borrower \in Accounts /\ l.borrower # Manager
  BY <1>1, StoredLoan
<1>6. amount \in Int /\ held \in Nat
  BY <1>2, <1>4, <1>5, LoanConstants
<1>7. new \in LoanRecords
  BY <1>3, <1>5, <1>6 DEF LoanRecords
<1>8. /\ new.borrower = l.borrower /\ new.status = l.status /\ new.amount = l.amount
      /\ new.collateral_amount = held /\ new.principal_paid = l.principal_paid
      /\ new.accrued_interest = l.accrued_interest /\ new.accrued_late_fee = l.accrued_late_fee
      /\ new.last_interest_ledger = l.last_interest_ledger
  BY <1>3, <1>5 DEF LoanRecords
<1>9. Sound(new, ledger)
  BY <1>4, <1>5, <1>8 DEF Sound, IsLive, Debt, remaining_principal
<1>10. balance \in [Accounts -> Int] /\ totalOutstanding \in Int
  BY DEF LoanInv, LoansTyped
<1>11. balance' \in [Accounts -> Int] /\ balance'[Manager] = balance[Manager] + amount
       /\ balance[Manager] \in Int
  <2>1. Manager \in Accounts
    BY AccountFacts
  <2> QED BY <1>4, <1>5, <1>6, <1>10, <2>1, MovedFacts
<1>12. /\ balance'[Manager] = balance[Manager] + new.collateral_amount - l.collateral_amount
       /\ totalOutstanding' - totalOutstanding >= Lending(new) - Lending(l)
       /\ totalOutstanding' \in Int /\ (IsLive(new) <=> IsLive(l))
  BY <1>2, <1>4, <1>5, <1>6, <1>8, <1>10, <1>11 DEF Lending, IsLive
<1>13. Rewrites(id, new)
  BY <1>1, <1>4, <1>7, <1>8, <1>9, <1>11, <1>12 DEF Rewrites
<1> QED BY <1>13, OneLoanChanges

LEMMA ReleaseKeeps ==
    ASSUME LoanInv, NEW id \in DOMAIN loans, ReleaseCollateral(id)
    PROVE  LoanInv'
<1>1. PICK l : l = loans[id]
  OBVIOUS
<1>2. PICK new : new = [l EXCEPT !.collateral_amount = 0]
  OBVIOUS
<1>3. /\ l.status = "Repaid"
      /\ loans' = [loans EXCEPT ![id] = new]
      /\ balance' = Moved(balance, Manager, l.borrower, l.collateral_amount)
      /\ ledger' = ledger /\ config' = config /\ admin' = admin
      /\ loanCounter' = loanCounter /\ borrowerLoans' = borrowerLoans
      /\ borrowerLoanCount' = borrowerLoanCount /\ totalOutstanding' = totalOutstanding
  BY <1>1, <1>2 DEF ReleaseCollateral, Put, outside, governed
<1>4. /\ l \in LoanRecords /\ Sound(l, ledger) /\ l.amount \in Nat /\ l.collateral_amount \in Nat
      /\ l.borrower \in Accounts /\ l.borrower # Manager
  BY <1>1, StoredLoan
<1>5. l.collateral_amount = 0 /\ new = l
  <2>1. l.collateral_amount = 0
    BY <1>3, <1>4 DEF Sound
  <2> QED BY <1>2, <1>4, <2>1 DEF LoanRecords
<1>6. balance \in [Accounts -> Int] /\ totalOutstanding \in Int
  BY DEF LoanInv, LoansTyped
<1>7. balance' \in [Accounts -> Int] /\ balance'[Manager] = balance[Manager] - l.collateral_amount
      /\ balance[Manager] \in Int
  <2>1. Manager \in Accounts /\ l.collateral_amount \in Int
    BY <1>4, AccountFacts
  <2> QED BY <1>3, <1>4, <1>6, <2>1, MovedFacts
<1>8. /\ balance'[Manager] = balance[Manager] + new.collateral_amount - l.collateral_amount
      /\ totalOutstanding' - totalOutstanding >= Lending(new) - Lending(l)
      /\ totalOutstanding' \in Int
  BY <1>3, <1>4, <1>5, <1>6, <1>7 DEF Lending
<1>9. Rewrites(id, new)
  BY <1>1, <1>3, <1>4, <1>5, <1>7, <1>8 DEF Rewrites
<1> QED BY <1>9, OneLoanChanges

LEMMA ExtendKeeps ==
    ASSUME LoanInv, NEW id \in DOMAIN loans, NEW extra \in Extensions, ExtendLoan(id, extra)
    PROVE  LoanInv'
<1>1. PICK l : l = loans[id]
  OBVIOUS
<1>2. PICK fee : fee = (remaining_principal(l) * EXTENSION_FEE_BPS) \div BPS
  OBVIOUS
<1>3. PICK due : due = l.due_date + extra
  OBVIOUS
<1>4. PICK count : count = l.extension_count + 1
  OBVIOUS
<1>5. PICK new : new = [l EXCEPT !.due_date = due, !.extension_count = count]
  OBVIOUS
<1>6. /\ l.status = "Approved"
      /\ loans' = [loans EXCEPT ![id] = new]
      /\ balance' = Moved(balance, l.borrower, Pool, fee)
      /\ ledger' = ledger /\ config' = config /\ admin' = admin
      /\ loanCounter' = loanCounter /\ borrowerLoans' = borrowerLoans
      /\ borrowerLoanCount' = borrowerLoanCount /\ totalOutstanding' = totalOutstanding
  BY <1>1, <1>2, <1>3, <1>4, <1>5 DEF ExtendLoan, Put, outside, governed
<1>7. /\ l \in LoanRecords /\ Sound(l, ledger) /\ l.amount \in Nat /\ l.collateral_amount \in Nat
      /\ l.borrower \in Accounts /\ l.borrower # Manager /\ l.borrower # Pool
  BY <1>1, StoredLoan
<1>8. due \in Nat /\ count \in Nat
  BY <1>3, <1>4, <1>7, LoanConstants DEF LoanRecords
<1>9. fee \in Int
  <2>1. remaining_principal(l) \in Nat /\ EXTENSION_FEE_BPS \in Nat /\ BPS \in Nat \ {0}
    BY <1>7, LoanConstants DEF Sound, remaining_principal, LoanRecords
  <2>2. remaining_principal(l) * EXTENSION_FEE_BPS \in Nat
    BY <2>1
  <2> QED BY <1>2, <2>1, <2>2, QuotientBounds
<1>10. new \in LoanRecords
  BY <1>5, <1>7, <1>8 DEF LoanRecords
<1>11. /\ new.borrower = l.borrower /\ new.status = l.status /\ new.amount = l.amount
       /\ new.collateral_amount = l.collateral_amount /\ new.principal_paid = l.principal_paid
       /\ new.accrued_interest = l.accrued_interest /\ new.accrued_late_fee = l.accrued_late_fee
       /\ new.last_interest_ledger = l.last_interest_ledger
  BY <1>5, <1>7 DEF LoanRecords
<1>12. Sound(new, ledger)
  BY <1>6, <1>7, <1>11 DEF Sound, IsLive, Debt, remaining_principal
<1>13. balance \in [Accounts -> Int] /\ totalOutstanding \in Int
  BY DEF LoanInv, LoansTyped
<1>14. balance' \in [Accounts -> Int] /\ balance'[Manager] = balance[Manager]
       /\ balance[Manager] \in Int
  <2>1. Manager \in Accounts /\ Pool \in Accounts /\ Pool # Manager
    BY AccountFacts
  <2> QED BY <1>6, <1>7, <1>9, <1>13, <2>1, MovedFacts
<1>15. /\ balance'[Manager] = balance[Manager] + new.collateral_amount - l.collateral_amount
       /\ totalOutstanding' - totalOutstanding >= Lending(new) - Lending(l)
       /\ totalOutstanding' \in Int /\ (IsLive(new) <=> IsLive(l))
  BY <1>6, <1>7, <1>11, <1>13, <1>14 DEF Lending, IsLive
<1>16. Rewrites(id, new)
  BY <1>1, <1>6, <1>10, <1>11, <1>12, <1>14, <1>15 DEF Rewrites
<1> QED BY <1>16, OneLoanChanges

(* The shares of a liquidation are the collateral, no more and no less.    *)
LEMMA LiquidationFacts ==
    ASSUME config \in Configurations, NEW collateral \in Nat, NEW debt \in Nat,
           NEW share, share = Liquidation(collateral, debt)
    PROVE  /\ share.debt_repaid \in 0..debt
           /\ share.liquidator_bonus \in Nat /\ share.borrower_refund \in Nat
           /\ share.debt_repaid + share.liquidator_bonus + share.borrower_refund = collateral
<1>1. PICK configured : configured = (collateral * config.bonus) \div BPS
  OBVIOUS
<1>2. configured \in Nat
  <2>1. config.bonus \in Nat /\ BPS \in Nat \ {0}
    BY LoanConstants DEF Configurations
  <2>2. collateral * config.bonus \in Nat
    BY <2>1
  <2> QED BY <1>1, <2>1, <2>2, QuotientBounds
<1>3. PICK repaid : repaid = smaller(collateral, debt)
  OBVIOUS
<1>4. PICK bonus : bonus = smaller(configured, collateral - repaid)
  OBVIOUS
<1>5. /\ repaid \in 0..debt /\ repaid <= collateral
      /\ bonus \in Nat /\ bonus <= collateral - repaid
  BY <1>2, <1>3, <1>4 DEF smaller
<1>6. share = [debt_repaid |-> repaid, liquidator_bonus |-> bonus,
               borrower_refund |-> collateral - repaid - bonus]
  BY <1>1, <1>3, <1>4 DEF Liquidation
<1> QED BY <1>5, <1>6

LEMMA LiquidateKeeps ==
    ASSUME LoanInv, NEW id \in DOMAIN loans, NEW a \in Liquidators \cup Borrowers, Liquidate(a, id)
    PROVE  LoanInv'
<1>1. PICK l : l = Accrued(loans[id])
  OBVIOUS
<1>2. PICK old : old = loans[id]
  OBVIOUS
<1>3. PICK share : share = Liquidation(l.collateral_amount, Debt(l))
  OBVIOUS
<1>4. PICK paid : paid = apply_debt_recovery(l, share.debt_repaid)
  OBVIOUS
<1>5. PICK new : new = [paid EXCEPT !.status = "Liquidated", !.collateral_amount = 0]
  OBVIOUS
<1>6. l.status = "Approved"
  BY <1>1, Zenon DEF Liquidate
<1>7. /\ old.status = "Approved"
      /\ l \in LoanRecords /\ SameTerms(l, old) /\ Sound(l, ledger)
      /\ Debt(l) \in Nat /\ Debt(l) > 0 /\ l.borrower \in Accounts
      /\ l.borrower # Manager /\ l.borrower # Pool
      /\ l.amount \in Nat /\ l.collateral_amount \in Nat
  BY <1>1, <1>2, <1>6, RunningLoan
<1>8. balance \in [Accounts -> Int] /\ totalOutstanding \in Int /\ balance[Manager] \in Int
      /\ config \in Configurations
  BY AccountFacts DEF LoanInv, LoansTyped, Configured
<1>9. /\ loans' = [loans EXCEPT ![id] = new]
      /\ totalOutstanding' = totalOutstanding - l.amount
      /\ decrement_borrower_loan_count(l.borrower)
      /\ balance' = Moved(Moved(Moved(balance, Manager, Pool, share.debt_repaid),
                          Manager, a, share.liquidator_bonus),
                          Manager, l.borrower, share.borrower_refund)
      /\ ledger' = ledger /\ config' = config /\ admin' = admin
      /\ loanCounter' = loanCounter /\ borrowerLoans' = borrowerLoans
  BY <1>1, <1>3, <1>4, <1>5, <1>7, <1>8
     DEF Liquidate, Put, adjust_total_outstanding, outside, governed
<1>10. PICK repaid \in 0..Debt(l), bonus \in Nat, refund \in Nat :
          /\ repaid = share.debt_repaid /\ bonus = share.liquidator_bonus
          /\ refund = share.borrower_refund
          /\ repaid + bonus + refund = l.collateral_amount
  <2>1. PICK c \in Nat, d \in Nat : c = l.collateral_amount /\ d = Debt(l)
    BY <1>7
  <2>2. /\ share.debt_repaid \in 0..d
        /\ share.liquidator_bonus \in Nat /\ share.borrower_refund \in Nat
        /\ share.debt_repaid + share.liquidator_bonus + share.borrower_refund = c
    BY <1>3, <1>8, <2>1, LiquidationFacts
  <2> QED BY <2>1, <2>2
<1>11. /\ paid \in LoanRecords /\ paid.borrower = l.borrower /\ paid.amount = l.amount
       /\ paid.principal_paid <= l.amount
  <2>1. l.principal_paid <= l.amount
    BY <1>7 DEF Sound
  <2> QED BY <1>4, <1>7, <1>10, <2>1, RecoveryFacts
<1>12. new \in LoanRecords
  BY <1>5, <1>11 DEF LoanRecords, Statuses
<1>13. /\ new.borrower = l.borrower /\ new.amount = l.amount /\ new.status = "Liquidated"
       /\ new.collateral_amount = 0 /\ new.principal_paid = paid.principal_paid
  BY <1>5, <1>11 DEF LoanRecords
<1>14. Sound(new, ledger) /\ ~IsLive(new) /\ IsLive(old) /\ Lending(new) = 0
  BY <1>7, <1>11, <1>13 DEF Sound, IsLive, Lending
<1>15. /\ old.borrower = l.borrower /\ Lending(old) = l.amount
       /\ old.collateral_amount = l.collateral_amount
  BY <1>7 DEF SameTerms, Lending
<1>16. balance' \in [Accounts -> Int] /\ balance'[Manager] = balance[Manager] - l.collateral_amount
  <2>1. /\ Manager \in Accounts /\ Pool \in Accounts /\ Pool # Manager
        /\ a \in Accounts /\ a # Manager /\ repaid \in Int /\ bonus \in Int /\ refund \in Int
    BY <1>7, AccountFacts
  <2>2. PICK first : first = Moved(balance, Manager, Pool, repaid)
    OBVIOUS
  <2>3. first \in [Accounts -> Int] /\ first[Manager] = balance[Manager] - repaid
    BY <1>8, <2>1, <2>2, MovedFacts
  <2>4. PICK second : second = Moved(first, Manager, a, bonus)
    OBVIOUS
  <2>5. second \in [Accounts -> Int] /\ second[Manager] = first[Manager] - bonus
    BY <2>1, <2>3, <2>4, MovedFacts, ZenonT(40)
  <2>6. PICK third : third = Moved(second, Manager, l.borrower, refund)
    OBVIOUS
  <2>7. third \in [Accounts -> Int] /\ third[Manager] = second[Manager] - refund
    BY <1>7, <2>1, <2>5, <2>6, MovedFacts, ZenonT(40)
  <2>8. balance' = third
    BY <1>9, <1>10, <2>2, <2>4, <2>6
  <2> QED BY <1>7, <1>8, <1>10, <2>1, <2>3, <2>5, <2>7, <2>8
<1>17. /\ balance'[Manager] = balance[Manager] + new.collateral_amount - old.collateral_amount
       /\ totalOutstanding' - totalOutstanding >= Lending(new) - Lending(old)
       /\ totalOutstanding' \in Int
  BY <1>7, <1>8, <1>9, <1>13, <1>14, <1>15, <1>16
<1>18. Rewrites(id, new)
  BY <1>2, <1>9, <1>12, <1>13, <1>14, <1>15, <1>16, <1>17 DEF Rewrites
<1> QED BY <1>18, OneLoanChanges

(* Whatever the oracle answers, the rate is positive.                      *)
LEMMA RatePositive ==
    ASSUME LoanInv, NEW answer \in OracleAnswers
    PROVE  compute_interest_rate(answer) \in Nat \ {0}
<1>1. /\ config.rate \in Nat \ {0} /\ config.min_rate \in Nat \ {0} /\ config.max_rate \in Nat
      /\ answer \in Int
  BY LoanConstants DEF LoanInv, Configured, Configurations, NoAnswer
<1> QED BY <1>1 DEF compute_interest_rate

LEMMA CapCoversPrincipal ==
    ASSUME NEW n \in Nat
    PROVE  n <= n * MAX_PENALTY_MULTIPLIER
<1>1. MAX_PENALTY_MULTIPLIER \in Nat /\ 1 <= MAX_PENALTY_MULTIPLIER
  BY LoanConstants
<1>2. n * 1 <= n * MAX_PENALTY_MULTIPLIER
  BY <1>1, ProductMonotone
<1> QED BY <1>2

LEMMA RefinanceKeeps ==
    ASSUME LoanInv, NEW id \in DOMAIN loans, NEW amount \in Amounts, NEW term \in Terms,
           NEW answer \in OracleAnswers, RefinanceLoan(id, amount, term, answer)
    PROVE  LoanInv'
<1>1. PICK l : l = Accrued(loans[id])
  OBVIOUS
<1>2. PICK old : old = loans[id]
  OBVIOUS
<1>3. PICK rest : rest = remaining_principal(l)
  OBVIOUS
<1>4. PICK settlement : settlement = l.accrued_interest + l.accrued_late_fee
  OBVIOUS
<1>5. PICK excess : excess = IF amount < rest THEN rest - amount ELSE 0
  OBVIOUS
<1>6. PICK additional : additional = IF amount > rest THEN amount - rest ELSE 0
  OBVIOUS
<1>7. PICK returned : returned = ExcessCollateral(l, rest, amount)
  OBVIOUS
<1>8. PICK settled : settled = Moved(balance, l.borrower, Pool, settlement)
  OBVIOUS
<1>9. PICK lent : lent = Moved(settled, Pool, l.borrower, additional)
  OBVIOUS
<1>10. PICK funded : funded = Moved(lent, l.borrower, Pool, excess)
  OBVIOUS
<1>11. PICK held : held = l.collateral_amount - returned
  OBVIOUS
<1>12. PICK rate : rate = compute_interest_rate(answer)
  OBVIOUS
<1>13. PICK due : due = ledger + term
  OBVIOUS
<1>14. PICK closed : closed = [l EXCEPT !.accrued_interest = 0, !.accrued_late_fee = 0,
                                        !.collateral_amount = held,
                                        !.amount = amount, !.principal_paid = 0]
  OBVIOUS
<1>15. PICK new : new = [closed EXCEPT !.interest_rate_bps = rate, !.last_interest_ledger = ledger,
                                       !.due_date = due, !.last_late_fee_ledger = due]
  OBVIOUS
<1>16. l.status = "Approved"
  BY <1>1, Zenon DEF RefinanceLoan
<1>17. /\ old.status = "Approved"
       /\ l \in LoanRecords /\ SameTerms(l, old) /\ Sound(l, ledger)
       /\ rest \in Nat /\ l.borrower \in Accounts
       /\ l.borrower # Manager /\ l.borrower # Pool
       /\ l.amount \in Nat /\ l.collateral_amount \in Nat
  BY <1>1, <1>2, <1>3, <1>16, RunningLoan
<1>18. balance \in [Accounts -> Int] /\ totalOutstanding \in Int /\ balance[Manager] \in Int
       /\ ledger \in Nat
  BY AccountFacts DEF LoanInv, LoansTyped
<1>19. /\ amount \in Nat \ {0} /\ term \in Nat /\ due \in Nat /\ rate \in Nat \ {0}
  <2>1. amount \in 1..config.max_amount
    BY Zenon DEF RefinanceLoan
  <2>2. amount \in Nat \ {0}
    BY <2>1, LoanConstants
  <2>3. term \in Nat
    BY LoanConstants
  <2> QED BY <1>12, <1>13, <1>18, <2>2, <2>3, RatePositive
<1>20. loans' = [loans EXCEPT ![id] = new]
  <2>1. loans' = [loans EXCEPT ![id] = [l EXCEPT
               !.accrued_interest = 0, !.accrued_late_fee = 0,
               !.collateral_amount = l.collateral_amount - returned,
               !.amount = amount, !.principal_paid = 0,
               !.interest_rate_bps = compute_interest_rate(answer),
               !.last_interest_ledger = ledger,
               !.due_date = ledger + term,
               !.last_late_fee_ledger = ledger + term]]
    BY <1>1, <1>3, <1>7 DEF RefinanceLoan, Put
  <2> QED BY <1>11, <1>12, <1>13, <1>14, <1>15, <2>1
<1>21. /\ totalOutstanding' = totalOutstanding + (amount - rest)
       /\ balance' = Moved(funded, Manager, l.borrower, returned)
       /\ ledger' = ledger /\ config' = config /\ admin' = admin
       /\ loanCounter' = loanCounter /\ borrowerLoans' = borrowerLoans
       /\ borrowerLoanCount' = borrowerLoanCount
  BY <1>1, <1>3, <1>4, <1>5, <1>6, <1>7, <1>8, <1>9, <1>10
     DEF RefinanceLoan, adjust_total_outstanding, outside, governed
<1>22. returned \in Nat /\ returned <= l.collateral_amount
  <2>1. CASE amount < rest
    <3>1. rest \in Nat \ {0} /\ rest - amount \in Nat /\ rest - amount <= rest
      BY <1>17, <1>19, <2>1
    <3>2. PICK c \in Nat, part \in Nat : c = l.collateral_amount /\ part = rest - amount
      BY <1>17, <3>1
    <3>3. c * part \in Nat /\ c * part <= c * rest
      BY <1>17, <3>1, <3>2, ProductMonotone
    <3>4. c * part <= rest * c
      BY <1>17, <3>3
    <3>5. (c * part) \div rest \in Nat /\ (c * part) \div rest <= c
      BY <3>1, <3>3, <3>4, QuotientBounds, QuotientLeast
    <3> QED BY <1>7, <2>1, <3>2, <3>5 DEF ExcessCollateral
  <2>2. CASE ~(amount < rest)
    BY <1>7, <1>17, <2>2 DEF ExcessCollateral
  <2> QED BY <2>1, <2>2
<1>23. held \in Nat
  BY <1>11, <1>17, <1>22
<1>24. closed \in LoanRecords
  <2>1. PICK none \in Nat : none = 0
    OBVIOUS
  <2>2. closed = [l EXCEPT !.accrued_interest = none, !.accrued_late_fee = none,
                           !.collateral_amount = held, !.amount = amount, !.principal_paid = none]
    BY <1>14, <2>1
  <2> QED BY <1>17, <1>19, <1>23, <2>2 DEF LoanRecords
<1>25. new \in LoanRecords
  BY <1>15, <1>18, <1>19, <1>24 DEF LoanRecords
<1>26. /\ closed.borrower = l.borrower /\ closed.status = l.status /\ closed.amount = amount
       /\ closed.collateral_amount = held /\ closed.principal_paid = 0
       /\ closed.accrued_interest = 0 /\ closed.accrued_late_fee = 0
  BY <1>14, <1>17 DEF LoanRecords
<1>27. /\ new.borrower = closed.borrower /\ new.status = closed.status
       /\ new.amount = closed.amount /\ new.collateral_amount = closed.collateral_amount
       /\ new.principal_paid = closed.principal_paid
       /\ new.accrued_interest = closed.accrued_interest
       /\ new.accrued_late_fee = closed.accrued_late_fee /\ new.last_interest_ledger = ledger
  BY <1>15, <1>24 DEF LoanRecords
<1>28. Sound(new, ledger) /\ new.status = "Approved"
  <2>1. amount <= amount * MAX_PENALTY_MULTIPLIER
    BY <1>19, CapCoversPrincipal
  <2>2. /\ new.status = "Approved" /\ new.amount = amount /\ new.principal_paid = 0
        /\ new.accrued_interest = 0 /\ new.accrued_late_fee = 0 /\ new.last_interest_ledger = ledger
    BY <1>16, <1>26, <1>27
  <2>3. Debt(new) = amount /\ remaining_principal(new) = amount
    BY <1>19, <2>2 DEF Debt, remaining_principal
  <2> QED BY <1>18, <1>19, <2>1, <2>2, <2>3 DEF Sound
<1>29. balance' \in [Accounts -> Int] /\ balance'[Manager] = balance[Manager] - returned
  <2>1. /\ Manager \in Accounts /\ Pool \in Accounts /\ Pool # Manager
        /\ additional \in Int /\ excess \in Int /\ returned \in Int /\ settlement \in Int
    BY <1>4, <1>5, <1>6, <1>17, <1>19, <1>22, AccountFacts DEF LoanRecords
  <2>2. settled \in [Accounts -> Int] /\ settled[Manager] = balance[Manager]
    <3>1. l.borrower \in Accounts /\ l.borrower # Manager /\ balance \in [Accounts -> Int]
      BY <1>17, <1>18
    <3> QED BY <1>8, <2>1, <3>1, MovedFacts, ZenonT(40)
  <2>3. lent \in [Accounts -> Int] /\ lent[Manager] = settled[Manager]
    BY <1>9, <1>17, <2>1, <2>2, MovedFacts, ZenonT(40)
  <2>4. funded \in [Accounts -> Int] /\ funded[Manager] = lent[Manager]
    BY <1>10, <1>17, <2>1, <2>3, MovedFacts, ZenonT(40)
  <2>5. PICK left : left = Moved(funded, Manager, l.borrower, returned)
    OBVIOUS
  <2>6. left \in [Accounts -> Int] /\ left[Manager] = funded[Manager] - returned
    BY <1>17, <2>1, <2>4, <2>5, MovedFacts, ZenonT(40)
  <2> QED BY <1>21, <2>2, <2>3, <2>4, <2>5, <2>6
<1>30. /\ old.borrower = l.borrower /\ old.collateral_amount = l.collateral_amount
       /\ Lending(old) = l.amount /\ Lending(new) = amount /\ IsLive(old) /\ IsLive(new)
  BY <1>16, <1>17, <1>26, <1>27, <1>28 DEF SameTerms, Lending, IsLive
<1>31. rest <= l.amount
  BY <1>3, <1>17 DEF remaining_principal, LoanRecords
<1>32. /\ balance'[Manager] = balance[Manager] + new.collateral_amount - old.collateral_amount
       /\ totalOutstanding' - totalOutstanding >= Lending(new) - Lending(old)
       /\ totalOutstanding' \in Int
  BY <1>11, <1>17, <1>18, <1>19, <1>21, <1>22, <1>26, <1>27, <1>29, <1>30, <1>31
<1>33. Rewrites(id, new)
  BY <1>2, <1>20, <1>21, <1>25, <1>26, <1>27, <1>28, <1>29, <1>30, <1>32 DEF Rewrites
<1> QED BY <1>33, OneLoanChanges

------------------------------------------------------------------------------
(* A new loan, a removed one, and loans that default together.             *)

LEMMA RequestKeeps ==
    ASSUME LoanInv, NEW b \in Borrowers, NEW amount \in Amounts, NEW term \in Terms,
           NEW answer \in OracleAnswers, RequestLoan(b, amount, term, answer)
    PROVE  LoanInv'
<1>1. /\ LoansTyped /\ NoneBeforeInitialize /\ AllSound /\ Custody /\ Coverage
      /\ SlotsCounted /\ LoanListsExact /\ Configured
  BY DEF LoanInv
<1>2. PICK id : id = loanCounter + 1
  OBVIOUS
<1>3. PICK rate : rate = compute_interest_rate(answer)
  OBVIOUS
<1>4. PICK new : new =
          [borrower |-> b, amount |-> amount, collateral_amount |-> 0,
           principal_paid |-> 0, accrued_interest |-> 0, accrued_late_fee |-> 0,
           interest_rate_bps |-> rate, due_date |-> 0, last_interest_ledger |-> 0,
           last_late_fee_ledger |-> 0, status |-> "Pending",
           interest_residual |-> 0, extension_count |-> 0, term_ledgers |-> term]
  OBVIOUS
<1>5. /\ admin # NoAddress /\ amount \in 1..config.max_amount
      /\ loans' = [i \in DOMAIN loans \cup {id} |-> IF i = id THEN new ELSE loans[i]]
      /\ loanCounter' = id
      /\ borrowerLoanCount' = [borrowerLoanCount EXCEPT ![b] = @ + 1]
      /\ borrowerLoans' = [borrowerLoans EXCEPT ![b] = Append(@, id)]
      /\ ledger' = ledger /\ balance' = balance /\ admin' = admin /\ config' = config
      /\ totalOutstanding' = totalOutstanding
  BY <1>2, <1>3, <1>4 DEF RequestLoan, Authorised, outside, governed
<1>6. /\ loanCounter \in Nat /\ id \in Nat /\ id \notin DOMAIN loans
      /\ DOMAIN loans \subseteq 1..loanCounter /\ ledger \in Nat
      /\ loans \in [DOMAIN loans -> LoanRecords]
  BY <1>1, <1>2 DEF LoansTyped
<1>7. amount \in Nat \ {0} /\ term \in Nat /\ rate \in Nat \ {0}
  BY <1>3, <1>5, LoanConstants, RatePositive
<1>8. new \in LoanRecords
  BY <1>4, <1>7 DEF LoanRecords, Statuses
<1>9. /\ new.borrower = b /\ new.status = "Pending" /\ new.amount = amount
      /\ new.collateral_amount = 0 /\ new.principal_paid = 0 /\ new.accrued_interest = 0
      /\ new.accrued_late_fee = 0 /\ new.last_interest_ledger = 0
  BY <1>4
<1>10. Sound(new, ledger)
  <2>1. amount <= amount * MAX_PENALTY_MULTIPLIER
    BY <1>7, CapCoversPrincipal
  <2>2. Debt(new) = amount /\ remaining_principal(new) = amount
    BY <1>7, <1>9 DEF Debt, remaining_principal
  <2> QED BY <1>6, <1>7, <1>9, <2>1, <2>2 DEF Sound
<1>11. /\ DOMAIN loans' = DOMAIN loans \cup {id} /\ loans'[id] = new
       /\ \A i \in DOMAIN loans : loans'[i] = loans[i]
       /\ loans' \in [DOMAIN loans' -> LoanRecords]
  BY <1>5, <1>6, <1>8
<1>12. /\ borrowerLoanCount \in [Borrowers -> Nat] /\ borrowerLoans \in [Borrowers -> Seq(Int)]
       /\ borrowerLoans[b] \in Seq(Int) /\ id \in Int
  BY <1>1, <1>6 DEF LoansTyped
<1>13. PICK list : list = Append(borrowerLoans[b], id)
  OBVIOUS
<1>14. /\ list \in Seq(Int) /\ Entries(list) = Entries(borrowerLoans[b]) \cup {id}
       /\ /\ Ascending(borrowerLoans[b]) /\ \A y \in Entries(borrowerLoans[b]) : y < id
          => Ascending(list)
  BY <1>12, <1>13, AppendFacts
<1>15. borrowerLoans' = [borrowerLoans EXCEPT ![b] = list]
  BY <1>5, <1>13
<1>16. LoansTyped'
  <2>1. DOMAIN loans' \subseteq 1..loanCounter'
    BY <1>2, <1>5, <1>6, <1>11
  <2>2. borrowerLoanCount' \in [Borrowers -> Nat]
    BY <1>5, <1>12
  <2>3. borrowerLoans' \in [Borrowers -> Seq(Int)]
    BY <1>12, <1>14, <1>15
  <2> QED BY <1>1, <1>5, <1>6, <1>11, <2>1, <2>2, <2>3 DEF LoansTyped
<1>17. AllSound'
  <2>1. \A i \in DOMAIN loans \cup {id} : Sound(loans'[i], ledger)
    BY <1>1, <1>10, <1>11 DEF AllSound
  <2> QED BY <1>5, <1>11, <2>1 DEF AllSound
<1>18. Custody' /\ Coverage'
  <2>1. PICK S : S = DOMAIN loans \cup {id}
    OBVIOUS
  <2>2. DOMAIN loans \in SUBSET S /\ S \ DOMAIN loans = {id} /\ DOMAIN loans' = S
    BY <1>6, <1>11, <2>1
  <2>3. (\A i \in DOMAIN loans : Held[i] = Held'[i]) /\ Held'[id] = 0
    BY <1>9, <1>11 DEF Held
  <2>4. (\A i \in DOMAIN loans : Lends[i] = Lends'[i]) /\ Lends'[id] = 0
    BY <1>9, <1>11 DEF Lends, Lending
  <2>5. Total(Held, DOMAIN loans) = Total(Held', S)
    BY <2>2, <2>3, TotalSupport
  <2>6. Total(Lends, DOMAIN loans) = Total(Lends', S)
    BY <2>2, <2>4, TotalSupport
  <2> QED BY <1>1, <1>5, <2>2, <2>5, <2>6 DEF Custody, Coverage
<1>19. SlotsCounted'
  <2> SUFFICES ASSUME NEW c \in Borrowers
               PROVE  borrowerLoanCount'[c] = Cardinality(LoansOf(c)' \cap Live')
    BY DEF SlotsCounted
  <2>1. PICK S : S = LoansOf(c) \cap Live
    OBVIOUS
  <2>2. borrowerLoanCount[c] = Cardinality(S) /\ IsFiniteSet(S)
    BY <1>1, <2>1, LoansFinite DEF SlotsCounted
  <2>3. \A i : i \in S <=> i \in DOMAIN loans /\ loans[i].borrower = c /\ IsLive(loans[i])
    BY <2>1 DEF LoansOf, Live, IsLive
  <2>4. \A i : i \in LoansOf(c)' \cap Live' <=>
              i \in DOMAIN loans \cup {id} /\ loans'[i].borrower = c /\ IsLive(loans'[i])
    BY <1>11 DEF LoansOf, Live, IsLive
  <2>5. id \notin S
    BY <1>6, <2>3
  <2>6. IsLive(new)
    BY <1>9 DEF IsLive
  <2>7. CASE c = b
    <3>1. LoansOf(c)' \cap Live' = S \cup {id}
      BY <1>9, <1>11, <2>3, <2>4, <2>6, <2>7
    <3>2. Cardinality(S \cup {id}) = Cardinality(S) + 1
      BY <2>2, <2>5, FS_AddElement
    <3>3. borrowerLoanCount'[c] = borrowerLoanCount[c] + 1
      BY <1>5, <1>12, <2>7
    <3> QED BY <2>2, <3>1, <3>2, <3>3
  <2>8. CASE c # b
    <3>1. LoansOf(c)' \cap Live' = S
      BY <1>6, <1>9, <1>11, <2>3, <2>4, <2>8
    <3>2. borrowerLoanCount'[c] = borrowerLoanCount[c]
      BY <1>5, <1>12, <2>8
    <3> QED BY <2>2, <3>1, <3>2
  <2> QED BY <2>7, <2>8
<1>20. LoanListsExact'
  <2> SUFFICES ASSUME NEW c \in Borrowers
               PROVE  Ascending(borrowerLoans'[c]) /\ Entries(borrowerLoans'[c]) = LoansOf(c)'
    BY DEF LoanListsExact
  <2>1. \A d \in Borrowers : Ascending(borrowerLoans[d]) /\ Entries(borrowerLoans[d]) = LoansOf(d)
    BY <1>1 DEF LoanListsExact
  <2>2. \A i : i \in LoansOf(c) <=> i \in DOMAIN loans /\ loans[i].borrower = c
    BY DEF LoansOf
  <2>3. \A i : i \in LoansOf(c)' <=> i \in DOMAIN loans \cup {id} /\ loans'[i].borrower = c
    BY <1>11 DEF LoansOf
  <2>4. CASE c = b
    <3>1. LoansOf(c)' = LoansOf(c) \cup {id}
      BY <1>9, <1>11, <2>2, <2>3, <2>4
    <3>2. \A y \in LoansOf(c) : y < id
      BY <1>2, <1>6, <2>2
    <3>3. borrowerLoans'[c] = list
      BY <1>12, <1>15, <2>4
    <3> QED BY <1>14, <2>1, <2>4, <3>1, <3>2, <3>3
  <2>5. CASE c # b
    <3>1. LoansOf(c)' = LoansOf(c)
      <4>1. \A i \in DOMAIN loans : i \in LoansOf(c)' <=> i \in LoansOf(c)
        BY <1>11, <2>2, <2>3
      <4>2. id \notin LoansOf(c)'
        BY <1>9, <1>11, <2>3, <2>5
      <4>3. \A i : i \in LoansOf(c)' <=> i \in LoansOf(c)
        BY <2>2, <2>3, <4>1, <4>2
      <4> QED BY <4>3
    <3>2. borrowerLoans'[c] = borrowerLoans[c]
      BY <1>12, <1>15, <2>5
    <3> QED BY <2>1, <3>1, <3>2
  <2> QED BY <2>4, <2>5
<1>21. NoneBeforeInitialize' /\ Configured'
  BY <1>1, <1>5 DEF NoneBeforeInitialize, Configured, ConfigCoherent
<1> QED BY <1>16, <1>17, <1>18, <1>19, <1>20, <1>21 DEF LoanInv

LEMMA PurgeKeeps ==
    ASSUME LoanInv, NEW id \in DOMAIN loans, PurgeLoan(id)
    PROVE  LoanInv'
<1>1. /\ LoansTyped /\ NoneBeforeInitialize /\ AllSound /\ Custody /\ Coverage
      /\ SlotsCounted /\ LoanListsExact /\ Configured
  BY DEF LoanInv
<1>2. PICK l : l = loans[id]
  OBVIOUS
<1>3. PICK b : b = l.borrower
  OBVIOUS
<1>4. PICK list : list = Without(borrowerLoans[b], id)
  OBVIOUS
<1>5. /\ l.status \in Purgable
      /\ balance' = Moved(balance, Manager, b, l.collateral_amount)
      /\ loans' = [i \in DOMAIN loans \ {id} |-> loans[i]]
      /\ borrowerLoans' = [borrowerLoans EXCEPT ![b] = list]
      /\ ledger' = ledger /\ admin' = admin /\ config' = config /\ loanCounter' = loanCounter
      /\ borrowerLoanCount' = borrowerLoanCount /\ totalOutstanding' = totalOutstanding
  BY <1>2, <1>3, <1>4 DEF PurgeLoan, outside, governed
<1>6. /\ l \in LoanRecords /\ Sound(l, ledger) /\ l.collateral_amount \in Nat
      /\ b \in Borrowers /\ b \in Accounts /\ b # Manager
  BY <1>2, <1>3, StoredLoan
<1>7. l.collateral_amount = 0 /\ Lending(l) = 0 /\ ~IsLive(l)
  BY <1>5, <1>6 DEF Purgable, Sound, Lending, IsLive
<1>8. /\ DOMAIN loans' = DOMAIN loans \ {id}
      /\ \A i \in DOMAIN loans \ {id} : loans'[i] = loans[i]
      /\ loans' \in [DOMAIN loans' -> LoanRecords]
  BY <1>1, <1>5 DEF LoansTyped
<1>9. /\ balance \in [Accounts -> Int] /\ borrowerLoans \in [Borrowers -> Seq(Int)]
      /\ borrowerLoans[b] \in Seq(Int)
  BY <1>1, <1>6 DEF LoansTyped
<1>10. balance' \in [Accounts -> Int] /\ balance'[Manager] = balance[Manager]
  <2>1. Manager \in Accounts /\ l.collateral_amount \in Int /\ balance[Manager] \in Int
    BY <1>6, <1>9, AccountFacts
  <2>2. PICK left : left = Moved(balance, Manager, b, l.collateral_amount)
    OBVIOUS
  <2>3. left \in [Accounts -> Int] /\ left[Manager] = balance[Manager] - l.collateral_amount
    BY <1>6, <1>9, <2>1, <2>2, MovedFacts
  <2> QED BY <1>5, <1>7, <2>1, <2>2, <2>3
<1>11. /\ list \in Seq(Int) /\ Entries(list) = Entries(borrowerLoans[b]) \ {id}
       /\ Ascending(borrowerLoans[b]) => Ascending(list)
  BY <1>4, <1>9, WithoutFacts
<1>12. LoansTyped'
  <2>1. borrowerLoans' \in [Borrowers -> Seq(Int)]
    BY <1>5, <1>9, <1>11
  <2> QED BY <1>1, <1>5, <1>8, <1>10, <2>1 DEF LoansTyped
<1>13. AllSound' /\ NoneBeforeInitialize' /\ Configured'
  <2>1. \A i \in DOMAIN loans \ {id} : Sound(loans'[i], ledger)
    BY <1>1, <1>8 DEF AllSound
  <2>2. AllSound'
    BY <1>5, <1>8, <2>1 DEF AllSound
  <2> QED BY <1>1, <1>5, <1>8, <2>2 DEF NoneBeforeInitialize, Configured, ConfigCoherent
<1>14. Custody' /\ Coverage'
  <2>1. PICK T : T = DOMAIN loans \ {id}
    OBVIOUS
  <2>2. T \in SUBSET DOMAIN loans /\ DOMAIN loans \ T = {id} /\ DOMAIN loans' = T
    BY <1>8, <2>1
  <2>3. (\A i \in T : Held'[i] = Held[i]) /\ Held[id] = 0
    BY <1>2, <1>7, <1>8, <2>1 DEF Held
  <2>4. (\A i \in T : Lends'[i] = Lends[i]) /\ Lends[id] = 0
    BY <1>2, <1>7, <1>8, <2>1 DEF Lends
  <2>5. Total(Held', T) = Total(Held, DOMAIN loans)
    BY <2>2, <2>3, TotalSupport
  <2>6. Total(Lends', T) = Total(Lends, DOMAIN loans)
    BY <2>2, <2>4, TotalSupport
  <2> QED BY <1>1, <1>5, <1>10, <2>2, <2>5, <2>6 DEF Custody, Coverage
<1>15. SlotsCounted'
  <2> SUFFICES ASSUME NEW c \in Borrowers
               PROVE  LoansOf(c)' \cap Live' = LoansOf(c) \cap Live
    BY <1>1, <1>5 DEF SlotsCounted
  <2>1. \A i : i \in LoansOf(c) \cap Live <=>
              i \in DOMAIN loans /\ loans[i].borrower = c /\ IsLive(loans[i])
    BY DEF LoansOf, Live, IsLive
  <2>2. \A i : i \in LoansOf(c)' \cap Live' <=>
              i \in DOMAIN loans \ {id} /\ loans'[i].borrower = c /\ IsLive(loans'[i])
    BY <1>8 DEF LoansOf, Live, IsLive
  <2> QED BY <1>2, <1>7, <1>8, <2>1, <2>2
<1>16. LoanListsExact'
  <2> SUFFICES ASSUME NEW c \in Borrowers
               PROVE  Ascending(borrowerLoans'[c]) /\ Entries(borrowerLoans'[c]) = LoansOf(c)'
    BY DEF LoanListsExact
  <2>1. \A d \in Borrowers : Ascending(borrowerLoans[d]) /\ Entries(borrowerLoans[d]) = LoansOf(d)
    BY <1>1 DEF LoanListsExact
  <2>2. \A i : i \in LoansOf(c) <=> i \in DOMAIN loans /\ loans[i].borrower = c
    BY DEF LoansOf
  <2>3. \A i : i \in LoansOf(c)' <=> i \in DOMAIN loans \ {id} /\ loans'[i].borrower = c
    BY <1>8 DEF LoansOf
  <2>4. LoansOf(c)' = LoansOf(c) \ {id}
    BY <1>8, <2>2, <2>3
  <2>5. CASE c = b
    <3>1. borrowerLoans'[c] = list
      BY <1>5, <1>9, <2>5
    <3> QED BY <1>11, <2>1, <2>4, <2>5, <3>1
  <2>6. CASE c # b
    <3>1. LoansOf(c) \ {id} = LoansOf(c)
      BY <1>2, <1>3, <2>2, <2>6
    <3>2. borrowerLoans'[c] = borrowerLoans[c]
      BY <1>5, <1>9, <2>6
    <3> QED BY <2>1, <2>4, <3>1, <3>2
  <2> QED BY <2>5, <2>6
<1> QED BY <1>12, <1>13, <1>14, <1>15, <1>16 DEF LoanInv

LEMMA DefaultKeeps ==
    ASSUME LoanInv, NEW ids \in SUBSET DOMAIN loans,
           \A i \in ids : loans[i].status = "Approved", Default(ids)
    PROVE  LoanInv'
<1>1. /\ LoansTyped /\ NoneBeforeInitialize /\ AllSound /\ Custody /\ Coverage
      /\ SlotsCounted /\ LoanListsExact /\ Configured
  BY DEF LoanInv
<1>2. PICK seized : seized = Seized(ids)
  OBVIOUS
<1>3. PICK lent : lent = Lent(ids)
  OBVIOUS
<1>4. /\ IsFiniteSet(DOMAIN loans) /\ IsFiniteSet(ids)
      /\ Held \in [DOMAIN loans -> Nat] /\ Lends \in [DOMAIN loans -> Nat]
      /\ \A b : IsFiniteSet(LoansOf(b) \cap Live)
  BY <1>1, LoansFinite, FS_Subset
<1>5. seized = Total(Held, ids) /\ lent = Total(Lends, ids) /\ seized \in Nat /\ lent \in Nat
  <2> DEFINE collateral == [i \in ids |-> loans[i].collateral_amount]
             amounts == [i \in ids |-> loans[i].amount]
  <2>1. (\A i \in ids : collateral[i] = Held[i]) /\ (\A i \in ids : amounts[i] = Lends[i])
    BY DEF Held, Lends, Lending
  <2>2. collateral \in [ids -> Nat] /\ amounts \in [ids -> Nat]
    BY <1>1 DEF LoansTyped, LoanRecords
  <2>3. seized = Total(collateral, ids) /\ lent = Total(amounts, ids)
    BY <1>2, <1>3, Zenon DEF Seized, Lent
  <2>4. ids \in SUBSET ids /\ ids \ ids = {}
    OBVIOUS
  <2> HIDE DEF collateral, amounts
  <2>5. Total(collateral, ids) = Total(Held, ids)
    BY <2>1, <2>4, TotalSupport
  <2>6. Total(amounts, ids) = Total(Lends, ids)
    BY <2>1, <2>4, TotalSupport
  <2>7. Total(collateral, ids) \in Nat /\ Total(amounts, ids) \in Nat
    BY <1>4, <2>2, TotalNat
  <2> QED BY <2>3, <2>5, <2>6, <2>7
<1>6. /\ loans' = [i \in DOMAIN loans |-> IF i \in ids
                       THEN [loans[i] EXCEPT !.status = "Defaulted", !.collateral_amount = 0]
                       ELSE loans[i]]
      /\ totalOutstanding' = totalOutstanding - lent
      /\ borrowerLoanCount' = [b \in Borrowers |->
               IF borrowerLoanCount[b] < Cardinality(OfBorrower(b, ids)) THEN 0
               ELSE borrowerLoanCount[b] - Cardinality(OfBorrower(b, ids))]
      /\ balance' = Moved(balance, Manager, Pool, seized)
      /\ ledger' = ledger /\ admin' = admin /\ config' = config
      /\ loanCounter' = loanCounter /\ borrowerLoans' = borrowerLoans
  <2>1. /\ loans' = [i \in DOMAIN loans |-> IF i \in ids
                         THEN [loans[i] EXCEPT !.status = "Defaulted", !.collateral_amount = 0]
                         ELSE loans[i]]
        /\ borrowerLoanCount' = [b \in Borrowers |->
                 IF borrowerLoanCount[b] < Cardinality(OfBorrower(b, ids)) THEN 0
                 ELSE borrowerLoanCount[b] - Cardinality(OfBorrower(b, ids))]
        /\ balance' = Moved(balance, Manager, Pool, seized)
    BY <1>2, Zenon DEF Default
  <2>2. totalOutstanding' = totalOutstanding + (-lent)
    BY <1>3, Zenon DEF Default, adjust_total_outstanding
  <2>3. /\ ledger' = ledger /\ admin' = admin /\ config' = config
        /\ loanCounter' = loanCounter /\ borrowerLoans' = borrowerLoans
    BY Zenon DEF Default, outside, governed
  <2>4. totalOutstanding' = totalOutstanding - lent
    BY <1>1, <1>5, <2>2 DEF LoansTyped
  <2> QED BY <2>1, <2>3, <2>4
<1>7. ASSUME NEW i \in ids
      PROVE  /\ loans'[i] \in LoanRecords /\ Sound(loans'[i], ledger)
             /\ loans'[i].borrower = loans[i].borrower /\ loans'[i].status = "Defaulted"
             /\ loans'[i].collateral_amount = 0
  <2>1. PICK l : l = loans[i]
    OBVIOUS
  <2>2. PICK new : new = [l EXCEPT !.status = "Defaulted", !.collateral_amount = 0]
    OBVIOUS
  <2>3. loans'[i] = new
    BY <1>6, <2>1, <2>2
  <2>4. l \in LoanRecords /\ Sound(l, ledger)
    BY <2>1, StoredLoan
  <2>5. new \in LoanRecords
    BY <2>2, <2>4 DEF LoanRecords, Statuses
  <2>6. /\ new.borrower = l.borrower /\ new.status = "Defaulted" /\ new.collateral_amount = 0
        /\ new.principal_paid = l.principal_paid /\ new.amount = l.amount
    BY <2>2, <2>4 DEF LoanRecords
  <2>7. Sound(new, ledger)
    BY <2>4, <2>6 DEF Sound, IsLive
  <2> QED BY <2>1, <2>3, <2>5, <2>6, <2>7
<1>8. /\ DOMAIN loans' = DOMAIN loans
      /\ \A i \in DOMAIN loans \ ids : loans'[i] = loans[i]
  BY <1>6
<1>9. loans' \in [DOMAIN loans -> LoanRecords]
  <2>1. \A i \in DOMAIN loans : loans'[i] \in LoanRecords
    BY <1>1, <1>7, <1>8 DEF LoansTyped
  <2> QED BY <1>6, <2>1
<1>10. \A i \in DOMAIN loans : loans'[i].borrower = loans[i].borrower
  BY <1>7, <1>8
<1>11. balance' \in [Accounts -> Int] /\ balance'[Manager] = balance[Manager] - seized
  <2>1. /\ Manager \in Accounts /\ Pool \in Accounts /\ Pool # Manager /\ seized \in Int
        /\ balance \in [Accounts -> Int]
    BY <1>1, <1>5, AccountFacts DEF LoansTyped
  <2> QED BY <1>6, <2>1, MovedFacts
<1>12. ASSUME NEW b \in Borrowers
       PROVE  /\ borrowerLoanCount'[b] \in Nat
              /\ borrowerLoanCount'[b] = Cardinality(LoansOf(b)' \cap Live')
  <2>1. PICK S : S = LoansOf(b) \cap Live
    OBVIOUS
  <2>2. PICK T : T = OfBorrower(b, ids)
    OBVIOUS
  <2>3. borrowerLoanCount[b] = Cardinality(S) /\ IsFiniteSet(S)
    BY <1>1, <1>4, <2>1 DEF SlotsCounted
  <2>4. \A i : i \in S <=> i \in DOMAIN loans /\ loans[i].borrower = b /\ IsLive(loans[i])
    BY <2>1 DEF LoansOf, Live, IsLive
  <2>5. \A i : i \in LoansOf(b)' \cap Live' <=>
              i \in DOMAIN loans /\ loans'[i].borrower = b /\ IsLive(loans'[i])
    BY <1>8 DEF LoansOf, Live, IsLive
  <2>6. \A i : i \in T <=> i \in ids /\ loans[i].borrower = b
    BY <2>2 DEF OfBorrower
  <2>7. \A i \in ids : IsLive(loans[i]) /\ ~IsLive(loans'[i])
    BY <1>7 DEF IsLive
  <2>8. T \subseteq S /\ S \cap T = T
    BY <2>4, <2>6, <2>7
  <2>9. LoansOf(b)' \cap Live' = S \ T
    <3>1. \A i \in DOMAIN loans : i \in LoansOf(b)' \cap Live' <=> i \in S \ T
      BY <1>8, <1>10, <2>4, <2>5, <2>6, <2>7
    <3>2. \A i : i \in LoansOf(b)' \cap Live' <=> i \in S \ T
      BY <2>4, <2>5, <3>1
    <3> QED BY <3>2
  <2>10. IsFiniteSet(S \ T) /\ Cardinality(S \ T) = Cardinality(S) - Cardinality(S \cap T)
    BY <2>3, FS_Difference
  <2>11. Cardinality(S \ T) \in Nat /\ Cardinality(S) \in Nat /\ Cardinality(T) \in Nat
    <3>1. IsFiniteSet(T)
      BY <2>3, <2>8, FS_Subset
    <3> QED BY <2>3, <2>10, <3>1, FS_CardinalityType
  <2>12. borrowerLoanCount'[b] = IF Cardinality(S) < Cardinality(T) THEN 0
                                 ELSE Cardinality(S) - Cardinality(T)
    BY <1>6, <2>2, <2>3
  <2>13. Cardinality(S \ T) = Cardinality(S) - Cardinality(T)
    BY <2>8, <2>10
  <2>14. borrowerLoanCount'[b] = Cardinality(S \ T)
    BY <2>11, <2>12, <2>13
  <2> QED BY <2>9, <2>11, <2>14
<1>13. SlotsCounted' /\ borrowerLoanCount' \in [Borrowers -> Nat]
  <2>1. SlotsCounted'
    BY <1>12 DEF SlotsCounted
  <2> QED BY <1>6, <1>12, <2>1
<1>14. LoansTyped'
  <2>1. totalOutstanding' \in Int
    <3>1. totalOutstanding' = totalOutstanding - lent
      BY <1>6
    <3>2. totalOutstanding \in Int
      BY <1>1 DEF LoansTyped
    <3> QED BY <1>5, <3>1, <3>2
  <2>2. /\ ledger' \in Nat /\ loanCounter' \in Nat /\ borrowerLoans' \in [Borrowers -> Seq(Int)]
        /\ DOMAIN loans' \subseteq 1..loanCounter'
    <3>1. ledger' = ledger /\ loanCounter' = loanCounter /\ borrowerLoans' = borrowerLoans
      BY <1>6
    <3> QED BY <1>1, <1>8, <3>1 DEF LoansTyped
  <2>3. loans' \in [DOMAIN loans' -> LoanRecords]
    BY <1>8, <1>9
  <2> QED BY <1>11, <1>13, <2>1, <2>2, <2>3 DEF LoansTyped
<1>15. AllSound' /\ NoneBeforeInitialize' /\ Configured'
  <2>1. \A i \in DOMAIN loans : Sound(loans'[i], ledger)
    BY <1>1, <1>7, <1>8 DEF AllSound
  <2>2. AllSound'
    BY <1>6, <1>8, <2>1 DEF AllSound
  <2> QED BY <1>1, <1>6, <1>8, <2>2 DEF NoneBeforeInitialize, Configured, ConfigCoherent
<1>16. LoanListsExact'
  <2>1. \A b : LoansOf(b)' = LoansOf(b)
    BY <1>8, <1>10 DEF LoansOf
  <2> QED BY <1>1, <1>6, <2>1 DEF LoanListsExact
<1>17. Custody' /\ Coverage'
  <2>1. PICK T : T = DOMAIN loans \ ids
    OBVIOUS
  <2>2. T \in SUBSET DOMAIN loans /\ DOMAIN loans \ T = ids
    BY <2>1
  <2>3. (\A i \in T : Held[i] = Held'[i]) /\ (\A i \in ids : Held'[i] = 0)
    BY <1>7, <1>8, <2>1 DEF Held
  <2>4. (\A i \in T : Lends[i] = Lends'[i]) /\ (\A i \in ids : Lends'[i] = 0)
    BY <1>7, <1>8, <2>1 DEF Lends, Lending
  <2>5. Total(Held, T) = Total(Held', DOMAIN loans)
    BY <2>2, <2>3, TotalSupport
  <2>6. Total(Lends, T) = Total(Lends', DOMAIN loans)
    BY <2>2, <2>4, TotalSupport
  <2>7. Total(Held, DOMAIN loans) = Total(Held, T) + seized
    BY <1>4, <1>5, <2>1, TotalParts
  <2>8. Total(Lends, DOMAIN loans) = Total(Lends, T) + lent
    BY <1>4, <1>5, <2>1, TotalParts
  <2>9. /\ Total(Held', DOMAIN loans) \in Nat /\ Total(Lends', DOMAIN loans) \in Nat
    <3>1. Held' \in [DOMAIN loans -> Nat] /\ Lends' \in [DOMAIN loans -> Nat]
      <4>1. IsFiniteSet(DOMAIN loans') /\ Held' \in [DOMAIN loans' -> Nat] /\ Lends' \in [DOMAIN loans' -> Nat]
        <5>1. \A i \in DOMAIN loans' : loans'[i].collateral_amount \in Nat /\ Lending(loans'[i]) \in Nat
          BY <1>8, <1>9 DEF LoanRecords, Lending
        <5> QED BY <1>4, <1>8, <5>1 DEF Held, Lends
      <4> QED BY <1>8, <4>1
    <3> QED BY <1>4, <3>1, TotalNat
  <2>10. /\ balance'[Manager] = Total(Held', DOMAIN loans)
         /\ totalOutstanding' >= Total(Lends', DOMAIN loans)
    <3>1. balance[Manager] = Total(Held, T) + seized /\ totalOutstanding >= Total(Lends, T) + lent
          /\ totalOutstanding \in Int
      BY <1>1, <2>7, <2>8 DEF Custody, Coverage, LoansTyped
    <3>2. balance'[Manager] = balance[Manager] - seized /\ totalOutstanding' = totalOutstanding - lent
      BY <1>6, <1>11
    <3> QED BY <1>5, <2>5, <2>6, <2>9, <3>1, <3>2
  <2> QED BY <1>8, <2>10 DEF Custody, Coverage
<1> QED BY <1>13, <1>14, <1>15, <1>16, <1>17 DEF LoanInv

LEMMA CheckDefaultKeeps ==
    ASSUME LoanInv, NEW id \in DOMAIN loans, CheckDefault(id)
    PROVE  LoanInv'
<1>1. {id} \in SUBSET DOMAIN loans /\ (\A i \in {id} : loans[i].status = "Approved") /\ Default({id})
  BY DEF CheckDefault, MayCheckDefault
<1> QED BY <1>1, DefaultKeeps

LEMMA CheckDefaultsKeeps ==
    ASSUME LoanInv, NEW ids \in SUBSET DOMAIN loans, CheckDefaults(ids)
    PROVE  LoanInv'
<1>1. PICK past : past = {i \in ids : PastWindow(i)}
  OBVIOUS
<1>2. past \in SUBSET DOMAIN loans /\ (\A i \in past : loans[i].status = "Approved") /\ Default(past)
  BY <1>1 DEF CheckDefaults, PastWindow
<1> QED BY <1>2, DefaultKeeps

------------------------------------------------------------------------------
(* Steps that leave the loans alone.                                       *)

Untouched ==
    /\ balance' = balance /\ loans' = loans /\ borrowerLoanCount' = borrowerLoanCount
    /\ borrowerLoans' = borrowerLoans /\ totalOutstanding' = totalOutstanding

LEMMA UntouchedKeeps ==
    ASSUME LoanInv, Untouched, ledger' \in Nat, ledger' >= ledger,
           loanCounter' = loanCounter \/ (DOMAIN loans = {} /\ loanCounter' \in Nat),
           admin' = NoAddress => admin = NoAddress,
           config' \in Configurations, ConfigCoherent'
    PROVE  LoanInv'
<1>1. /\ LoansTyped /\ NoneBeforeInitialize /\ AllSound /\ Custody /\ Coverage
      /\ SlotsCounted /\ LoanListsExact
  BY DEF LoanInv
<1>2. /\ balance' = balance /\ loans' = loans /\ borrowerLoanCount' = borrowerLoanCount
      /\ borrowerLoans' = borrowerLoans /\ totalOutstanding' = totalOutstanding
  BY DEF Untouched
<1>3. LoansTyped'
  BY <1>1, <1>2 DEF LoansTyped
<1>4. AllSound'
  <2> SUFFICES ASSUME NEW id \in DOMAIN loans PROVE Sound(loans[id], ledger')
    BY <1>2 DEF AllSound
  <2>1. Sound(loans[id], ledger) /\ loans[id] \in LoanRecords /\ ledger \in Nat
    BY <1>1 DEF AllSound, LoansTyped
  <2>2. loans[id].last_interest_ledger \in Nat
    BY <2>1 DEF LoanRecords
  <2> QED BY <2>1, <2>2 DEF Sound
<1>5. Custody' /\ Coverage'
  BY <1>1, <1>2 DEF Custody, Coverage, Held, Lends
<1>6. SlotsCounted' /\ LoanListsExact'
  BY <1>1, <1>2 DEF SlotsCounted, LoanListsExact, LoansOf, Live
<1>7. NoneBeforeInitialize' /\ Configured'
  BY <1>1, <1>2 DEF NoneBeforeInitialize, Configured
<1> QED BY <1>3, <1>4, <1>5, <1>6, <1>7 DEF LoanInv

(* What the setters may be passed.                                         *)
LEMMA SettingFacts ==
    /\ Settings.late_fee_rate \subseteq Nat /\ Settings.threshold \subseteq Nat
    /\ Settings.bonus \subseteq Nat /\ Settings.grace \subseteq Nat /\ Settings.window \subseteq Nat
    /\ Settings.min_score \subseteq Nat /\ Settings.max_amount \subseteq Int
    /\ Settings.min_repayment \subseteq Int /\ Settings.max_loans \subseteq Nat
    /\ Settings.rate \subseteq Nat /\ Settings.min_rate \subseteq Nat
    /\ Settings.max_rate \subseteq Nat /\ Settings.default_term \subseteq Nat
    /\ Settings.min_term \subseteq Nat /\ Settings.max_term \subseteq Nat
<1>1. \A f \in ConfigFields : Settings[f] \subseteq IF f \in SignedFields THEN Int ELSE Nat
  BY ConfigConstants
<1> QED BY <1>1 DEF ConfigFields, SignedFields

Coherent(c) ==
    /\ c \in Configurations
    /\ c.grace <= c.window /\ c.min_rate <= c.max_rate /\ c.min_term <= c.max_term
    /\ c.max_loans > 0 /\ c.max_amount > 0

LEMMA ConfigureKeeps ==
    ASSUME LoanInv, NEW f, NEW v, Configure(f, v), Coherent([config EXCEPT ![f] = v])
    PROVE  LoanInv'
<1>0. PICK c : c = [config EXCEPT ![f] = v]
  OBVIOUS
<1>1. /\ config' = c /\ Untouched /\ ledger' = ledger /\ loanCounter' = loanCounter
      /\ admin' = admin
  BY <1>0 DEF Configure, Untouched, outside, books
<1>2. config' \in Configurations /\ ConfigCoherent'
  <2>1. Coherent(c)
    BY <1>0
  <2>2. c \in Configurations /\ c.rate \in Nat /\ c.rate > 0
    BY <2>1 DEF Coherent, Configurations
  <2> QED BY <1>1, <2>1, <2>2 DEF ConfigCoherent, Coherent
<1>3. ledger' \in Nat /\ ledger' >= ledger
  BY <1>1 DEF LoanInv, LoansTyped
<1> QED BY <1>1, <1>2, <1>3, UntouchedKeeps

LEMMA SettingKeeps ==
    ASSUME LoanInv, ConfigNext
    PROVE  LoanInv'
<1>1. /\ config \in Configurations
      /\ config.grace <= config.window /\ config.min_rate <= config.max_rate
      /\ config.min_term <= config.max_term /\ config.max_loans > 0 /\ config.max_amount > 0
  BY DEF LoanInv, Configured, ConfigCoherent
<1>2. CASE SetRateOracle
  <2>1. Configure("oracle", TRUE) /\ Coherent([config EXCEPT !["oracle"] = TRUE])
    BY <1>1, <1>2 DEF SetRateOracle, Coherent, Configurations
  <2> QED BY <2>1, ConfigureKeeps
<1>3. ASSUME NEW v \in Settings.late_fee_rate, SetLateFeeRate(v) PROVE LoanInv'
  <2>1. v \in Nat
    BY SettingFacts
  <2>2. Configure("late_fee_rate", v) /\ Coherent([config EXCEPT !["late_fee_rate"] = v])
    BY <1>1, <1>3, <2>1 DEF SetLateFeeRate, Coherent, Configurations
  <2> QED BY <2>2, ConfigureKeeps
<1>4. ASSUME NEW v \in Settings.threshold, SetLiquidationThreshold(v) PROVE LoanInv'
  <2>1. v \in Nat
    BY SettingFacts
  <2>2. Configure("threshold", v) /\ Coherent([config EXCEPT !["threshold"] = v])
    BY <1>1, <1>4, <2>1 DEF SetLiquidationThreshold, Coherent, Configurations
  <2> QED BY <2>2, ConfigureKeeps
<1>5. ASSUME NEW v \in Settings.bonus, SetLiquidationBonusBps(v) PROVE LoanInv'
  <2>1. v \in Nat
    BY SettingFacts
  <2>2. Configure("bonus", v) /\ Coherent([config EXCEPT !["bonus"] = v])
    BY <1>1, <1>5, <2>1 DEF SetLiquidationBonusBps, Coherent, Configurations
  <2> QED BY <2>2, ConfigureKeeps
<1>6. ASSUME NEW v \in Settings.grace, SetGracePeriodLedgers(v) PROVE LoanInv'
  <2>1. v \in Nat
    BY SettingFacts
  <2>2. Configure("grace", v) /\ Coherent([config EXCEPT !["grace"] = v])
    BY <1>1, <1>6, <2>1 DEF SetGracePeriodLedgers, Coherent, Configurations
  <2> QED BY <2>2, ConfigureKeeps
<1>7. ASSUME NEW v \in Settings.window, SetDefaultWindowLedgers(v) PROVE LoanInv'
  <2>1. v \in Nat
    BY SettingFacts
  <2>2. Configure("window", v) /\ Coherent([config EXCEPT !["window"] = v])
    BY <1>1, <1>7, <2>1 DEF SetDefaultWindowLedgers, Coherent, Configurations
  <2> QED BY <2>2, ConfigureKeeps
<1>8. ASSUME NEW v \in Settings.min_score, SetMinScore(v) PROVE LoanInv'
  <2>1. v \in Nat
    BY SettingFacts
  <2>2. Configure("min_score", v) /\ Coherent([config EXCEPT !["min_score"] = v])
    BY <1>1, <1>8, <2>1 DEF SetMinScore, Coherent, Configurations
  <2> QED BY <2>2, ConfigureKeeps
<1>9. ASSUME NEW v \in Settings.max_amount, SetMaxLoanAmount(v) PROVE LoanInv'
  <2>1. v \in Int
    BY SettingFacts
  <2>2. Configure("max_amount", v) /\ Coherent([config EXCEPT !["max_amount"] = v])
    BY <1>1, <1>9, <2>1 DEF SetMaxLoanAmount, Coherent, Configurations
  <2> QED BY <2>2, ConfigureKeeps
<1>10. ASSUME NEW v \in Settings.min_repayment, SetMinRepaymentAmount(v) PROVE LoanInv'
  <2>1. v \in Int
    BY SettingFacts
  <2>2. Configure("min_repayment", v) /\ Coherent([config EXCEPT !["min_repayment"] = v])
    BY <1>1, <1>10, <2>1 DEF SetMinRepaymentAmount, Coherent, Configurations
  <2> QED BY <2>2, ConfigureKeeps
<1>11. ASSUME NEW v \in Settings.max_loans, SetMaxLoansPerBorrower(v) PROVE LoanInv'
  <2>1. v \in Nat
    BY SettingFacts
  <2>2. Configure("max_loans", v) /\ Coherent([config EXCEPT !["max_loans"] = v])
    BY <1>1, <1>11, <2>1 DEF SetMaxLoansPerBorrower, Coherent, Configurations
  <2> QED BY <2>2, ConfigureKeeps
<1>12. ASSUME NEW v \in Settings.rate, SetInterestRate(v) PROVE LoanInv'
  <2>1. v \in Nat
    BY SettingFacts
  <2>2. Configure("rate", v) /\ Coherent([config EXCEPT !["rate"] = v])
    BY <1>1, <1>12, <2>1 DEF SetInterestRate, Coherent, Configurations
  <2> QED BY <2>2, ConfigureKeeps
<1>13. ASSUME NEW v \in Settings.min_rate, SetMinRateBps(v) PROVE LoanInv'
  <2>1. v \in Nat
    BY SettingFacts
  <2>2. Configure("min_rate", v) /\ Coherent([config EXCEPT !["min_rate"] = v])
    BY <1>1, <1>13, <2>1 DEF SetMinRateBps, Coherent, Configurations
  <2> QED BY <2>2, ConfigureKeeps
<1>14. ASSUME NEW v \in Settings.max_rate, SetMaxRateBps(v) PROVE LoanInv'
  <2>1. v \in Nat
    BY SettingFacts
  <2>2. Configure("max_rate", v) /\ Coherent([config EXCEPT !["max_rate"] = v])
    BY <1>1, <1>14, <2>1 DEF SetMaxRateBps, Coherent, Configurations
  <2> QED BY <2>2, ConfigureKeeps
<1>15. ASSUME NEW v \in Settings.default_term, SetDefaultTerm(v) PROVE LoanInv'
  <2>1. v \in Nat
    BY SettingFacts
  <2>2. Configure("default_term", v) /\ Coherent([config EXCEPT !["default_term"] = v])
    BY <1>1, <1>15, <2>1 DEF SetDefaultTerm, Coherent, Configurations
  <2> QED BY <2>2, ConfigureKeeps
<1>16. ASSUME NEW v \in Settings.min_term, SetMinTermLedgers(v) PROVE LoanInv'
  <2>1. v \in Nat
    BY SettingFacts
  <2>2. Configure("min_term", v) /\ Coherent([config EXCEPT !["min_term"] = v])
    BY <1>1, <1>16, <2>1 DEF SetMinTermLedgers, Coherent, Configurations
  <2> QED BY <2>2, ConfigureKeeps
<1>17. ASSUME NEW v \in Settings.max_term, SetMaxTermLedgers(v) PROVE LoanInv'
  <2>1. v \in Nat
    BY SettingFacts
  <2>2. Configure("max_term", v) /\ Coherent([config EXCEPT !["max_term"] = v])
    BY <1>1, <1>17, <2>1 DEF SetMaxTermLedgers, Coherent, Configurations
  <2> QED BY <2>2, ConfigureKeeps
<1> QED
  BY <1>2, <1>3, <1>4, <1>5, <1>6, <1>7, <1>8, <1>9, <1>10, <1>11, <1>12, <1>13, <1>14, <1>15, <1>16, <1>17, Zenon
     DEF ConfigNext, SettingNext

LEMMA DefaultsCoherent == Coherent(DefaultConfig)
BY ConfigConstants DEF Coherent, Configurations

LEMMA InitKeeps ==
    ASSUME Init
    PROVE  LoanInv
<1>1. /\ ledger = 1 /\ config = DefaultConfig /\ loanCounter = 0 /\ totalOutstanding = 0
      /\ loans = [i \in {} |-> {}] /\ borrowerLoanCount = [b \in Borrowers |-> 0]
      /\ borrowerLoans = [b \in Borrowers |-> <<>>]
  BY DEF Init
<1>2. balance \in [Accounts -> Int] /\ balance[Manager] = 0
  <2>1. Manager \in Accounts /\ Manager # Pool /\ Manager \notin Borrowers
    BY LoanConstants DEF Accounts
  <2>2. PoolLiquidity \in Int /\ InitialBalance \in Int
    BY LoanConstants
  <2> QED BY <2>1, <2>2 DEF Init
<1>3. DOMAIN loans = {}
  BY <1>1
<1>4. LoansTyped
  <2>1. loans \in [DOMAIN loans -> LoanRecords] /\ DOMAIN loans \subseteq 1..loanCounter
    BY <1>1, <1>3
  <2>2. <<>> \in Seq(Int)
    OBVIOUS
  <2>3. borrowerLoans \in [Borrowers -> Seq(Int)] /\ borrowerLoanCount \in [Borrowers -> Nat]
    BY <1>1, <2>2
  <2> QED BY <1>1, <1>2, <2>1, <2>3 DEF LoansTyped
<1>5. Custody /\ Coverage
  <2>1. Total(Held, DOMAIN loans) = 0 /\ Total(Lends, DOMAIN loans) = 0
    BY <1>3, TotalZero
  <2> QED BY <1>1, <1>2, <2>1 DEF Custody, Coverage
<1>6. \A b : LoansOf(b) = {}
  BY <1>3 DEF LoansOf
<1>7. SlotsCounted
  <2>1. Cardinality({}) = 0
    BY FS_EmptySet
  <2>2. \A b : LoansOf(b) \cap Live = {}
    BY <1>6
  <2> QED BY <1>1, <2>1, <2>2 DEF SlotsCounted
<1>8. LoanListsExact
  <2>1. Ascending(<<>>) /\ Entries(<<>>) = {}
    BY DEF Ascending, Entries
  <2> QED BY <1>1, <1>6, <2>1 DEF LoanListsExact
<1>9. Configured
  <2>1. DefaultConfig.rate > 0
    BY DefaultsCoherent DEF Coherent, Configurations
  <2> QED BY <1>1, <2>1, DefaultsCoherent DEF Configured, ConfigCoherent, Coherent
<1> QED BY <1>3, <1>4, <1>5, <1>7, <1>8, <1>9 DEF LoanInv, NoneBeforeInitialize, AllSound

LEMMA LoanStep ==
    ASSUME LoanInv, NEW id \in DOMAIN loans,
           \/ CancelLoan(id) \/ RejectLoan(id) \/ ApproveLoan(id)
           \/ ReleaseCollateral(id) \/ PurgeLoan(id) \/ CheckDefault(id)
           \/ \E n \in Amounts : Repay(id, n) \/ DepositCollateral(id, n)
           \/ \E a \in Liquidators \cup Borrowers : Liquidate(a, id)
           \/ \E n \in Amounts, t \in Terms, r \in OracleAnswers : RefinanceLoan(id, n, t, r)
           \/ \E n \in Extensions : ExtendLoan(id, n)
    PROVE  LoanInv'
<1>1. CASE CancelLoan(id)
  BY <1>1, WithdrawnKeeps DEF CancelLoan
<1>2. CASE RejectLoan(id)
  BY <1>2, WithdrawnKeeps DEF RejectLoan
<1>3. CASE ApproveLoan(id)
  BY <1>3, ApproveKeeps
<1>4. CASE ReleaseCollateral(id)
  BY <1>4, ReleaseKeeps
<1>5. CASE PurgeLoan(id)
  BY <1>5, PurgeKeeps
<1>6. CASE CheckDefault(id)
  BY <1>6, CheckDefaultKeeps
<1>7. ASSUME NEW n \in Amounts, Repay(id, n) PROVE LoanInv'
  BY <1>7, RepayKeeps
<1>8. ASSUME NEW n \in Amounts, DepositCollateral(id, n) PROVE LoanInv'
  BY <1>8, DepositKeeps
<1>9. ASSUME NEW a \in Liquidators \cup Borrowers, Liquidate(a, id) PROVE LoanInv'
  BY <1>9, LiquidateKeeps
<1>10. ASSUME NEW n \in Amounts, NEW t \in Terms, NEW r \in OracleAnswers,
              RefinanceLoan(id, n, t, r)
       PROVE  LoanInv'
  BY <1>10, RefinanceKeeps
<1>11. ASSUME NEW n \in Extensions, ExtendLoan(id, n) PROVE LoanInv'
  BY <1>11, ExtendKeeps
<1> QED BY <1>1, <1>2, <1>3, <1>4, <1>5, <1>6, <1>7, <1>8, <1>9, <1>10, <1>11, Zenon

(* Every call keeps the invariant.                                         *)
LEMMA LoanInvStep == LoanInv /\ [Next]_vars => LoanInv'
<1> SUFFICES ASSUME LoanInv, [Next]_vars PROVE LoanInv'
  OBVIOUS
<1>0. /\ ledger \in Nat /\ config \in Configurations /\ ConfigCoherent
      /\ (admin = NoAddress => DOMAIN loans = {})
  BY DEF LoanInv, LoansTyped, Configured, NoneBeforeInitialize
<1>1. ASSUME NEW a \in Admins, Initialize(a) PROVE LoanInv'
  <2>1. /\ Untouched /\ ledger' = ledger /\ loanCounter' = 0 /\ DOMAIN loans = {}
        /\ config' = DefaultConfig /\ admin' = a
    BY <1>0, <1>1 DEF Initialize, Untouched, outside
  <2>2. config' \in Configurations /\ ConfigCoherent'
    <3>1. DefaultConfig.rate > 0
      BY DefaultsCoherent DEF Coherent, Configurations
    <3> QED BY <2>1, <3>1, DefaultsCoherent DEF Coherent, ConfigCoherent
  <2>3. admin' # NoAddress
    BY <2>1, LoanConstants
  <2> QED BY <1>0, <2>1, <2>2, <2>3, UntouchedKeeps
<1>2. CASE RequestNext
  BY <1>2, RequestKeeps DEF RequestNext
<1>3. CASE LoanNext
  BY <1>3, LoanStep, Zenon DEF LoanNext
<1>4. CASE BatchNext
  BY <1>4, CheckDefaultsKeeps DEF BatchNext
<1>5. CASE ConfigNext
  BY <1>5, SettingKeeps
<1>6. CASE \/ CloseLedger \/ AdminNext \/ OutsideNext \/ UNCHANGED vars
  <2>1. Untouched /\ loanCounter' = loanCounter /\ config' = config
    BY <1>6 DEF CloseLedger, AdminNext, OutsideNext, ProposeAdmin, AcceptAdmin, Pause, Unpause,
                NeighboursChange, ReputationChanges, Untouched, vars, outside, governed, books
  <2>2. \/ ledger' = ledger + 1
        \/ ledger' = ledger
    BY <1>6 DEF CloseLedger, AdminNext, OutsideNext, ProposeAdmin, AcceptAdmin, Pause, Unpause,
                NeighboursChange, ReputationChanges, vars, outside, governed
  <2>3. admin' = NoAddress => admin = NoAddress
    BY <1>6 DEF CloseLedger, AdminNext, OutsideNext, ProposeAdmin, AcceptAdmin, Pause, Unpause,
                NeighboursChange, ReputationChanges, vars, governed
  <2>4. config' \in Configurations /\ ConfigCoherent'
    BY <1>0, <2>1 DEF ConfigCoherent
  <2> QED BY <1>0, <2>1, <2>2, <2>3, <2>4, UntouchedKeeps
<1> QED
  BY <1>1, <1>2, <1>3, <1>4, <1>5, <1>6, Zenon DEF Next, LifecycleNext

THEOREM LoanInvariant == Spec => []LoanInv
<1>1. Init => LoanInv
  BY InitKeeps
<1> QED BY <1>1, LoanInvStep, PTL DEF Spec

------------------------------------------------------------------------------
(* What the invariant says of the books.                                   *)

LEMMA BooksFollow ==
    ASSUME LoanInv
    PROVE  BooksAgree
<1>1. /\ LoansTyped /\ AllSound /\ Custody /\ Coverage /\ SlotsCounted /\ LoanListsExact
  BY DEF LoanInv
<1>2. Approved \in SUBSET DOMAIN loans
  BY DEF Approved
<1>3. \A id \in DOMAIN loans \ Approved : loans[id].collateral_amount = 0 /\ Lending(loans[id]) = 0
  BY <1>1 DEF AllSound, Sound, Approved, Lending
<1>4. SumOf("collateral_amount", Approved) = Total(Held, DOMAIN loans)
  <2> DEFINE f == [id \in Approved |-> loans[id]["collateral_amount"]]
  <2>1. (\A id \in Approved : f[id] = Held[id]) /\ (\A id \in DOMAIN loans \ Approved : Held[id] = 0)
    BY <1>2, <1>3 DEF Held
  <2> HIDE DEF f
  <2>2. Total(f, Approved) = Total(Held, DOMAIN loans)
    BY <1>2, <2>1, TotalSupport
  <2> QED BY <2>2 DEF f, SumOf
<1>5. SumOf("amount", Approved) = Total(Lends, DOMAIN loans)
  <2> DEFINE f == [id \in Approved |-> loans[id]["amount"]]
  <2>1. (\A id \in Approved : f[id] = Lends[id]) /\ (\A id \in DOMAIN loans \ Approved : Lends[id] = 0)
    BY <1>2, <1>3 DEF Lends, Lending, Approved
  <2> HIDE DEF f
  <2>2. Total(f, Approved) = Total(Lends, DOMAIN loans)
    BY <1>2, <2>1, TotalSupport
  <2> QED BY <2>2 DEF f, SumOf
<1> QED BY <1>1, <1>3, <1>4, <1>5
        DEF BooksAgree, CollateralInCustody, OutstandingCovers, Custody, Coverage

(* The books agree with the loans, whatever the numbers of borrowers and   *)
(* loans, the amounts, the configuration and the order of the calls: the   *)
(* contract holds exactly the collateral of its running loans, counts and  *)
(* lists every borrower's loans exactly, and its outstanding counter       *)
(* covers every running loan.                                              *)
THEOREM BooksAlwaysAgree == Spec => []BooksAgree
BY LoanInvariant, BooksFollow, PTL

------------------------------------------------------------------------------
(* What the invariant says of a debt.                                      *)

LEMMA OneTotal ==
    ASSUME NEW x, NEW f \in [{x} -> Nat]
    PROVE  Total(f, {x}) = f[x]
<1>1. IsFiniteSet({x})
  BY FS_Singleton
<1>2. Total(f, {x}) = Total(f, {x} \ {x}) + f[x]
  BY <1>1, TotalSplit
<1>3. {x} \ {x} = {}
  OBVIOUS
<1>4. Total(f, {}) = 0
  BY TotalZero
<1> QED BY <1>2, <1>3, <1>4

LEMMA LoanCanEndFollows ==
    ASSUME LoanInv
    PROVE  LoanCanEnd
<1> SUFFICES ASSUME NEW id \in Approved, NEW l, l = Accrued(loans[id]),
                    require_not_paused, isMinter, FitsU32(DefaultEnds(l))
             PROVE  IF ledger <= DefaultEnds(l)
                    THEN CanPay(l.borrower, Debt(l)) => MayRepay(id, Debt(l))
                    ELSE MayCheckDefault(id)
  BY DEF LoanCanEnd
<1>1. id \in DOMAIN loans /\ loans[id].status = "Approved"
  BY DEF Approved
<1>2. /\ LoansTyped /\ Custody /\ Coverage /\ NoneBeforeInitialize
      /\ config \in Configurations /\ ledger \in Nat /\ totalOutstanding \in Int
  BY DEF LoanInv, Configured, LoansTyped
<1>3. loans[id] \in LoanRecords /\ Sound(loans[id], ledger)
  BY <1>1, StoredLoan
<1>4. l \in LoanRecords /\ SameTerms(l, loans[id]) /\ Sound(l, ledger)
  BY <1>1, <1>2, <1>3, AccruedFacts
<1>5. /\ l.status = "Approved" /\ l.amount = loans[id].amount /\ l.due_date = loans[id].due_date
      /\ l.collateral_amount = loans[id].collateral_amount
  BY <1>1, <1>4 DEF SameTerms
<1>6. /\ Debt(l) \in Nat /\ Debt(l) > 0 /\ l.amount \in Nat /\ l.collateral_amount \in Nat
  BY <1>1, <1>5, RunningLoan
<1>7. Authorised
  BY <1>1, <1>2 DEF NoneBeforeInitialize, Authorised
<1>8. /\ IsFiniteSet(DOMAIN loans)
      /\ Held \in [DOMAIN loans -> Nat] /\ Lends \in [DOMAIN loans -> Nat]
  BY <1>2, LoansFinite
<1>9. balance[Manager] >= l.collateral_amount
  <2>1. Held[id] <= Total(Held, DOMAIN loans)
    BY <1>1, <1>8, TotalBoundsPart
  <2>2. Held[id] = l.collateral_amount
    BY <1>1, <1>5 DEF Held
  <2>3. Total(Held, DOMAIN loans) \in Nat
    BY <1>8, TotalNat
  <2> QED BY <1>2, <1>6, <2>1, <2>2, <2>3 DEF Custody
<1>10. totalOutstanding >= l.amount /\ Adjustable(-l.amount)
  <2>1. Lends[id] <= Total(Lends, DOMAIN loans)
    BY <1>1, <1>8, TotalBoundsPart
  <2>2. Lends[id] = l.amount
    BY <1>1, <1>5 DEF Lends, Lending
  <2>3. Total(Lends, DOMAIN loans) \in Nat
    BY <1>8, TotalNat
  <2>4. totalOutstanding >= l.amount
    BY <1>2, <1>6, <2>1, <2>2, <2>3 DEF Coverage
  <2> QED BY <1>2, <1>6, <2>4 DEF Adjustable
<1>11. ASSUME ledger <= DefaultEnds(l), CanPay(l.borrower, Debt(l))
       PROVE  MayRepay(id, Debt(l))
  <2>1. PICK amount \in Nat : amount = Debt(l)
    BY <1>6
  <2>2. PaysEnough(l, amount)
    BY <2>1 DEF PaysEnough
  <2>3. CanPay(Manager, Released(l, amount))
    <3>1. Released(l, amount) = l.collateral_amount \/ Released(l, amount) = 0
      BY DEF Released
    <3>2. balance[Manager] \in Int
      BY <1>2, AccountFacts DEF LoansTyped
    <3> QED BY <1>6, <1>9, <3>1, <3>2 DEF CanPay
  <2>4. MayRepay(id, amount)
    BY <1>5, <1>6, <1>7, <1>10, <1>11, <2>1, <2>2, <2>3 DEF MayRepay
  <2> QED BY <2>1, <2>4
<1>12. ASSUME ~(ledger <= DefaultEnds(l)) PROVE MayCheckDefault(id)
  <2>1. DefaultEnds(loans[id]) = DefaultEnds(l) /\ DefaultEnds(l) \in Int
    <3>1. config.window \in Nat /\ l.due_date \in Nat
      BY <1>2, <1>4 DEF Configurations, LoanRecords
    <3> QED BY <1>5, <3>1 DEF DefaultEnds
  <2>2. PastWindow(id)
    BY <1>1, <1>2, <1>12, <2>1 DEF PastWindow
  <2>3. Seized({id}) = l.collateral_amount
    <3> DEFINE f == [i \in {id} |-> loans[i].collateral_amount]
    <3>1. f \in [{id} -> Nat] /\ f[id] = l.collateral_amount
      BY <1>5, <1>6
    <3> HIDE DEF f
    <3>2. Total(f, {id}) = f[id]
      BY <3>1, OneTotal
    <3> QED BY <3>1, <3>2 DEF f, Seized
  <2>4. Lent({id}) = l.amount
    <3> DEFINE f == [i \in {id} |-> loans[i].amount]
    <3>1. f \in [{id} -> Nat] /\ f[id] = l.amount
      BY <1>5, <1>6
    <3> HIDE DEF f
    <3>2. Total(f, {id}) = f[id]
      BY <3>1, OneTotal
    <3> QED BY <3>1, <3>2 DEF f, Lent
  <2>5. MayDefault({id})
    BY <1>7, <1>9, <1>10, <2>3, <2>4 DEF MayDefault, CanPay
  <2> QED BY <1>1, <2>1, <2>2, <2>5 DEF MayCheckDefault
<1> QED BY <1>11, <1>12

LEMMA RemainderCarried ==
    ASSUME NEW n \in Nat, NEW b \in Nat, NEW p \in Nat \ {0}
    PROVE  (n + b) \div p = (n \div p) + ((n % p) + b) \div p
<1>1. PICK q \in Nat, r \in Nat : q = n \div p /\ r = n % p /\ n = p * q + r
  BY QuotientBounds, DivisionSplits
<1>2. PICK t \in Nat : t = (r + b) \div p /\ p * t <= r + b /\ r + b < p * t + p
  <2>1. r + b \in Nat
    OBVIOUS
  <2> QED BY <2>1, QuotientBounds
<1>3. PICK x \in Int, y \in Int : x = p * q /\ y = p * t /\ p * (q + t) = x + y
  OBVIOUS
<1>4. PICK v \in Nat, w \in Nat : v = n + b /\ w = q + t
  OBVIOUS
<1>5. p * w <= v /\ v < p * w + p
  BY <1>1, <1>2, <1>3, <1>4
<1>6. v \div p = w
  BY <1>5, QuotientUnique
<1> QED BY <1>1, <1>2, <1>4, <1>6

(* Interest accrued in two goes is the interest accrued in one, but for    *)
(* the unit that dividing twice may hold back.                             *)
LEMMA TwoAccruals ==
    ASSUME NEW u \in Nat, NEW b \in Nat, NEW w \in Nat, NEW p \in Nat \ {0},
           w \in {u + b, u + b + 1}
    PROVE  (u \div p) + ((u % p) + b) \div p \in {w \div p - 1, w \div p}
<1>1. PICK v \in Nat : v = u + b
  OBVIOUS
<1>2. PICK s \in Nat : s = w \div p
  BY QuotientBounds
<1>3. PICK k \in Nat : k = v \div p
  BY QuotientBounds
<1>4. (v + 1) \div p \in {k, k + 1}
  BY <1>3, QuotientNext
<1>5. w = v \/ w = v + 1
  BY <1>1
<1>6. s = k \/ s = k + 1
  BY <1>2, <1>3, <1>4, <1>5
<1>7. k \in {s - 1, s}
  BY <1>6
<1>8. k = (u \div p) + ((u % p) + b) \div p
  BY <1>1, <1>3, RemainderCarried, ZenonT(40)
<1> QED BY <1>2, <1>7, <1>8

LEMMA AccrualsFollow ==
    ASSUME LoanInv
    PROVE  AccrualPathIndependent
<1> SUFFICES ASSUME NEW id \in Approved, NEW later \in ledger..MaxLedger
             PROVE  accrue_interest(accrue_interest(loans[id], ledger), later).accrued_interest
                        \in {accrue_interest(loans[id], later).accrued_interest - 1,
                             accrue_interest(loans[id], later).accrued_interest}
  BY Zenon DEF AccrualPathIndependent
<1>before. PICK l : l = loans[id]
  OBVIOUS
<1>midway. PICK m : m = accrue_interest(l, ledger)
  OBVIOUS
<1>once. PICK once : once = accrue_interest(l, later).accrued_interest
  OBVIOUS
<1>twice. PICK twice : twice = accrue_interest(m, later).accrued_interest
  OBVIOUS
<1> SUFFICES twice \in {once - 1, once}
  BY <1>before, <1>midway, <1>once, <1>twice
<1>1. id \in DOMAIN loans /\ l.status = "Approved"
  BY <1>before DEF Approved
<1>2. config \in Configurations /\ ledger \in Nat /\ later \in Nat /\ later >= ledger
  <2>1. MaxLedger \in Int
    BY LoanConstants
  <2> QED BY <2>1 DEF LoanInv, Configured, LoansTyped
<1>3. /\ l \in LoanRecords /\ l.last_interest_ledger <= ledger /\ l.principal_paid <= l.amount
  BY <1>1, <1>before, StoredLoan DEF Sound, IsLive
<1>4. /\ m \in LoanRecords /\ SameTerms(m, l)
  BY <1>2, <1>3, <1>midway, InterestAccrues
<1>5. PICK from \in Nat, ai \in Nat, residual \in Nat, rate \in Nat, rest \in Nat, d \in Nat \ {0} :
        /\ from = l.last_interest_ledger /\ ai = l.accrued_interest
        /\ residual = l.interest_residual /\ rate = l.interest_rate_bps
        /\ rest = remaining_principal(l) /\ d = BPS * TermOf(l)
  <2>1. BPS * TermOf(l) \in Nat \ {0}
    BY <1>2, <1>3, PositiveTerm
  <2>2. /\ l.last_interest_ledger \in Nat /\ l.accrued_interest \in Nat
        /\ l.interest_residual \in Nat /\ l.interest_rate_bps \in Nat
        /\ remaining_principal(l) \in Nat
    BY <1>3 DEF LoanRecords, remaining_principal
  <2> QED BY <2>1, <2>2
<1>6. /\ m.status = "Approved" /\ remaining_principal(m) = rest /\ m.interest_rate_bps = rate
      /\ BPS * TermOf(m) = d
  BY <1>1, <1>4, <1>5 DEF SameTerms, remaining_principal, TermOf
<1>7. CASE from = 0 \/ ledger - from <= 0
  <2>1. m = l
    BY <1>5, <1>7, <1>midway, Zenon DEF accrue_interest
  <2>2. twice = once
    BY <1>once, <1>twice, <2>1
  <2>3. once \in Int
    <3>1. l.last_interest_ledger <= later
      BY <1>2, <1>3, <1>5
    <3>2. accrue_interest(l, later) \in LoanRecords
      BY <1>2, <1>3, <3>1, InterestAccrues
    <3> QED BY <1>once, <3>2 DEF LoanRecords
  <2> QED BY <2>2, <2>3
<1>8. CASE ~(from = 0 \/ ledger - from <= 0) /\ rest <= 0
  <2>1. ~(later - from <= 0)
    BY <1>2, <1>5, <1>8
  <2>2. accrue_interest(l, later) = [l EXCEPT !.last_interest_ledger = later]
    BY <1>1, <1>5, <1>8, <2>1, Zenon DEF accrue_interest
  <2>3. m = [l EXCEPT !.last_interest_ledger = ledger]
    BY <1>1, <1>5, <1>8, <1>midway, Zenon DEF accrue_interest
  <2>4. once = ai /\ m.accrued_interest = ai
    BY <1>3, <1>5, <1>once, <2>2, <2>3 DEF LoanRecords
  <2>5. \/ accrue_interest(m, later) = m
        \/ accrue_interest(m, later) = [m EXCEPT !.last_interest_ledger = later]
    BY <1>6, <1>8, Zenon DEF accrue_interest
  <2>6. twice = ai
    BY <1>4, <1>twice, <2>4, <2>5 DEF LoanRecords
  <2> QED BY <1>5, <2>4, <2>6
<1>9. CASE ~(from = 0 \/ ledger - from <= 0) /\ ~(rest <= 0)
  <2>1. PICK p \in Nat \ {0} : p = PRECISION
    BY LoanConstants
  <2>2. PICK x : x = rest * rate * (ledger - from) * PRECISION
    OBVIOUS
  <2>3. PICK z : z = rest * rate * (later - from) * PRECISION
    OBVIOUS
  <2>4. PICK y : y = rest * rate * (later - ledger) * PRECISION
    OBVIOUS
  <2>5. x \in Nat /\ y \in Nat /\ z = x + y
    <3>1. PICK k \in Nat : k = rest * rate
      OBVIOUS
    <3>2. PICK first \in Nat, second \in Nat :
             first = ledger - from /\ second = later - ledger /\ first + second = later - from
      <4>1. ledger - from \in Nat /\ later - ledger \in Nat
        BY <1>2, <1>3, <1>5
      <4> QED BY <1>2, <4>1
    <3>3. PICK i \in Nat, j \in Nat : i = k * first /\ j = k * second
      OBVIOUS
    <3>4. k * (first + second) = i + j
      BY <3>3
    <3>5. (i + j) * p = i * p + j * p
      OBVIOUS
    <3>6. x = i * p /\ y = j * p /\ z = (i + j) * p
      BY <2>1, <2>2, <2>3, <2>4, <3>1, <3>2, <3>3, <3>4
    <3> QED BY <3>5, <3>6
  <2>6. PICK u \in Nat : u = residual + x \div d
    <3>1. x \div d \in Nat
      BY <2>5, QuotientBounds
    <3> QED BY <3>1
  <2>7. m = [l EXCEPT !.accrued_interest = l.accrued_interest + u \div PRECISION,
                      !.interest_residual = u % PRECISION, !.last_interest_ledger = ledger]
    <3>1. m = [l EXCEPT !.accrued_interest = @ + (residual + x \div d) \div PRECISION,
                        !.interest_residual = (residual + x \div d) % PRECISION,
                        !.last_interest_ledger = ledger]
      BY <1>1, <1>5, <1>9, <1>midway, <2>2, Zenon DEF accrue_interest
    <3> QED BY <2>6, <3>1
  <2>8. PICK q \in Nat, r \in Nat : q = u \div p /\ r = u % p
    BY QuotientBounds, DivisionSplits
  <2>9. PICK paid \in Nat : paid = ai + q
    OBVIOUS
  <2>10. m = [l EXCEPT !.accrued_interest = paid, !.interest_residual = r, !.last_interest_ledger = ledger]
    BY <1>5, <2>1, <2>7, <2>8, <2>9
  <2>11. m.accrued_interest = paid /\ m.interest_residual = r /\ m.last_interest_ledger = ledger
    BY <1>3, <2>10 DEF LoanRecords
  <2>12. PICK w \in Nat : w = residual + z \div d
    <3>1. z \in Nat
      BY <2>5
    <3>2. z \div d \in Nat
      BY <3>1, QuotientBounds
    <3> QED BY <3>2
  <2>13. PICK s \in Nat : s = w \div p
    BY QuotientBounds
  <2>14. once = ai + s
    <3>1. ~(later - from <= 0)
      BY <1>2, <1>5, <1>9
    <3>2. accrue_interest(l, later) =
            [l EXCEPT !.accrued_interest = @ + (residual + z \div d) \div PRECISION,
                      !.interest_residual = (residual + z \div d) % PRECISION,
                      !.last_interest_ledger = later]
      BY <1>1, <1>5, <1>9, <2>3, <3>1, Zenon DEF accrue_interest
    <3>3. PICK a, b : a = ai + s /\ b = w % PRECISION
      OBVIOUS
    <3>4. accrue_interest(l, later) =
            [l EXCEPT !.accrued_interest = a, !.interest_residual = b, !.last_interest_ledger = later]
      BY <1>5, <2>1, <2>12, <2>13, <3>2, <3>3
    <3> QED BY <1>3, <1>once, <3>3, <3>4 DEF LoanRecords
  <2>15. PICK t \in Nat : t = (r + y \div d) \div p
    <3>1. y \div d \in Nat
      BY <2>5, QuotientBounds
    <3>2. r + y \div d \in Nat
      BY <3>1
    <3> QED BY <3>2, QuotientBounds
  <2>16. q + t \in {s - 1, s}
    <3>1. PICK b \in Nat : b = y \div d
      BY <2>5, QuotientBounds
    <3>2. w \in {u + b, u + b + 1}
      <4>1. PICK a \in Nat, c \in Nat : a = x \div d /\ c = z \div d
        <5>1. x \in Nat /\ z \in Nat
          BY <2>5
        <5>2. x \div d \in Nat /\ z \div d \in Nat
          BY <5>1, QuotientBounds
        <5> QED BY <5>2
      <4>2. c \in {a + b, a + b + 1}
        BY <2>5, <3>1, <4>1, QuotientSum
      <4> QED BY <2>6, <2>12, <4>1, <4>2
    <3>3. (u \div p) + ((u % p) + b) \div p \in {w \div p - 1, w \div p}
      BY <3>2, TwoAccruals
    <3>4. t = (r + b) \div p
      BY <2>15, <3>1
    <3> QED BY <2>8, <2>13, <3>3, <3>4
  <2>17. twice = paid + t
    <3>1. CASE later - ledger <= 0
      <4>1. accrue_interest(m, later) = m
        BY <2>11, <3>1, Zenon DEF accrue_interest
      <4>2. later = ledger
        BY <1>2, <3>1
      <4>3. y = 0
        BY <2>4, <4>2, LoanConstants
      <4>4. t = 0
        <5>1. 0 \div d = 0
          BY QuotientUnique
        <5>2. r \div p = 0
          BY <2>8
        <5> QED BY <2>15, <4>3, <5>1, <5>2
      <4> QED BY <1>twice, <2>9, <2>11, <4>1, <4>4
    <3>2. CASE ~(later - ledger <= 0)
      <4>1. ~(ledger = 0)
        BY <1>2, <1>5, <1>9
      <4>2. accrue_interest(m, later) =
              [m EXCEPT !.accrued_interest = @ + (r + y \div d) \div PRECISION,
                        !.interest_residual = (r + y \div d) % PRECISION,
                        !.last_interest_ledger = later]
        BY <1>6, <1>9, <2>4, <2>11, <3>2, <4>1, Zenon DEF accrue_interest
      <4>3. PICK a, b : a = paid + t /\ b = (r + y \div d) % PRECISION
        OBVIOUS
      <4>4. accrue_interest(m, later) =
              [m EXCEPT !.accrued_interest = a, !.interest_residual = b, !.last_interest_ledger = later]
        BY <2>1, <2>11, <2>15, <4>2, <4>3
      <4> QED BY <1>4, <1>twice, <4>3, <4>4 DEF LoanRecords
    <3> QED BY <3>1, <3>2
  <2> QED BY <2>9, <2>14, <2>16, <2>17
<1> QED BY <1>7, <1>8, <1>9

LEMMA DebtsFollow ==
    ASSUME LoanInv
    PROVE  LateFeesCapped /\ NoFreeLoans /\ ConfigCoherent
<1>1. LateFeesCapped
  <2> SUFFICES ASSUME NEW id \in Approved
               PROVE  remaining_principal(loans[id]) + loans[id].accrued_late_fee
                          <= loans[id].amount * MAX_PENALTY_MULTIPLIER
    BY DEF LateFeesCapped
  <2>1. id \in DOMAIN loans /\ IsLive(loans[id])
    BY DEF Approved, IsLive
  <2> QED BY <2>1, StoredLoan DEF Sound
<1>2. NoFreeLoans
  <2> SUFFICES ASSUME NEW id \in DOMAIN loans PROVE loans[id].interest_rate_bps > 0
    BY DEF NoFreeLoans
  <2>1. loans[id] \in LoanRecords
    BY StoredLoan
  <2> QED BY <2>1 DEF LoanRecords
<1>3. ConfigCoherent
  BY DEF LoanInv, Configured
<1> QED BY <1>1, <1>2, <1>3

(* A debt is what the terms say: touching a loan early changes its         *)
(* interest by at most the unit that rounding holds back, late fees stay   *)
(* within their cap, and a borrower with the money can close every loan    *)
(* inside its window, as anyone can default it afterwards.                 *)
THEOREM DebtsAlwaysWellFormed == Spec => []DebtWellFormed
<1>1. LoanInv => DebtWellFormed
  BY AccrualsFollow, DebtsFollow, LoanCanEndFollows DEF DebtWellFormed
<1> QED BY <1>1, LoanInvariant, PTL

(* Whatever the admin configures, the oracle answers and others do to a    *)
(* borrower's reputation, every running loan can end, the configuration is *)
(* coherent and no loan is free.                                           *)
THEOREM LoansAlwaysOutliveAdministration == Spec => []LoansOutliveAdministration
<1>1. LoanInv => LoansOutliveAdministration
  BY DebtsFollow, LoanCanEndFollows DEF LoansOutliveAdministration
<1> QED BY <1>1, LoanInvariant, PTL

------------------------------------------------------------------------------
(* What the pool may lose: its cash and what it has lent, before and after *)
(* each call.                                                              *)

(* What the pool has lent to a loan, and to each of the stored ones.       *)
Owed(l) == IF l.status = "Approved" THEN remaining_principal(l) ELSE 0

OwedBy(all) == [id \in DOMAIN all |-> Owed(all[id])]

LEMMA LentPrincipal ==
    ASSUME NEW all, NEW running, running = {id \in DOMAIN all : all[id].status = "Approved"}
    PROVE  Total([id \in running |-> remaining_principal(all[id])], running)
               = Total(OwedBy(all), DOMAIN all)
<1> DEFINE f == [id \in running |-> remaining_principal(all[id])]
<1>1. running \in SUBSET DOMAIN all
  OBVIOUS
<1>2. \A id \in running : f[id] = OwedBy(all)[id]
  BY DEF OwedBy, Owed
<1>3. \A id \in DOMAIN all \ running : OwedBy(all)[id] = 0
  BY DEF OwedBy, Owed
<1> HIDE DEF f
<1>4. Total(f, running) = Total(OwedBy(all), DOMAIN all)
  BY <1>1, <1>2, <1>3, TotalSupport
<1> QED BY <1>4 DEF f

LEMMA WorthIs ==
    /\ PoolWorth = balance[Pool] + Total(OwedBy(loans), DOMAIN loans)
    /\ PoolWorth' = balance'[Pool] + Total(OwedBy(loans'), DOMAIN loans')
<1>1. PoolWorth = balance[Pool] + Total(OwedBy(loans), DOMAIN loans)
  <2>1. PICK running : running = Approved
    OBVIOUS
  <2>2. running = {id \in DOMAIN loans : loans[id].status = "Approved"}
    BY <2>1 DEF Approved
  <2>3. PoolWorth = balance[Pool] + Total([id \in running |-> remaining_principal(loans[id])], running)
    BY <2>1, Zenon DEF PoolWorth
  <2> QED BY <2>2, <2>3, LentPrincipal
<1>2. PoolWorth' = balance'[Pool] + Total(OwedBy(loans'), DOMAIN loans')
  <2>1. PICK running : running = Approved'
    OBVIOUS
  <2>2. running = {id \in DOMAIN loans' : loans'[id].status = "Approved"}
    BY <2>1 DEF Approved
  <2>3. PoolWorth' = balance'[Pool]
                         + Total([id \in running |-> remaining_principal(loans'[id])], running)
    BY <2>1, Zenon DEF PoolWorth, remaining_principal
  <2> QED BY <2>2, <2>3, LentPrincipal
<1> QED BY <1>1, <1>2

LEMMA OwedNat ==
    ASSUME NEW S, IsFiniteSet(S), NEW all \in [S -> LoanRecords],
           \A id \in S : all[id].principal_paid <= all[id].amount
    PROVE  OwedBy(all) \in [S -> Nat] /\ Total(OwedBy(all), S) \in Nat
<1>1. \A id \in S : Owed(all[id]) \in Nat
  BY DEF Owed, remaining_principal, LoanRecords
<1>2. OwedBy(all) \in [S -> Nat]
  BY <1>1 DEF OwedBy
<1> QED BY <1>2, TotalNat

(* A write-off is an amount, and the write-offs of a step add up.          *)
Ended == {id \in Approved : id \in DOMAIN loans'}

Forgiven == IF config.min_repayment > 0 THEN config.min_repayment - 1 ELSE 0

Short(l, n) == IF n > l.collateral_amount THEN n - l.collateral_amount ELSE 0

LEMMA WriteOffCases ==
    ASSUME NEW id, NEW l, l = Accrued(loans[id])
    PROVE  WriteOff(id) =
             IF loans'[id].status = "Defaulted" THEN Short(l, remaining_principal(l))
             ELSE IF loans'[id].status = "Liquidated" THEN Short(l, Debt(l))
             ELSE IF loans'[id].status = "Repaid" THEN Forgiven
             ELSE 0
BY DEF WriteOff, Short, Forgiven

LEMMA WriteOffsNat ==
    ASSUME LoanInv
    PROVE  /\ IsFiniteSet(Ended)
           /\ [id \in Ended |-> WriteOff(id)] \in [Ended -> Nat]
           /\ Total([id \in Ended |-> WriteOff(id)], Ended) \in Nat
<1>1. Ended \in SUBSET DOMAIN loans /\ IsFiniteSet(Ended)
  <2>1. IsFiniteSet(DOMAIN loans)
    BY LoansFinite DEF LoanInv
  <2> QED BY <2>1, FS_Subset DEF Ended, Approved
<1>2. ASSUME NEW id \in Ended PROVE WriteOff(id) \in Nat
  <2>1. PICK l : l = Accrued(loans[id])
    OBVIOUS
  <2>2. id \in DOMAIN loans /\ loans[id].status = "Approved"
    BY DEF Ended, Approved
  <2>3. loans[id] \in LoanRecords /\ Sound(loans[id], ledger)
    BY <2>2, StoredLoan
  <2>4. config \in Configurations /\ ledger \in Nat
    BY DEF LoanInv, Configured, LoansTyped
  <2>5. l \in LoanRecords /\ SameTerms(l, loans[id]) /\ Sound(l, ledger)
    BY <2>1, <2>2, <2>3, <2>4, AccruedFacts
  <2>6. l.status = "Approved"
    BY <2>2, <2>5 DEF SameTerms
  <2>7. remaining_principal(l) \in Nat /\ Debt(l) \in Nat /\ l.collateral_amount \in Nat
    BY <2>1, <2>2, <2>6, RunningLoan
  <2>8. Short(l, remaining_principal(l)) \in Nat /\ Short(l, Debt(l)) \in Nat
    BY <2>7 DEF Short
  <2>9. Forgiven \in Nat
    BY <2>4 DEF Forgiven, Configurations
  <2> QED BY <2>1, <2>8, <2>9, WriteOffCases
<1> DEFINE f == [id \in Ended |-> WriteOff(id)]
<1>3. f \in [Ended -> Nat]
  BY <1>2
<1> HIDE DEF f
<1>4. Total(f, Ended) \in Nat
  BY <1>1, <1>3, TotalNat
<1> QED BY <1>1, <1>3, <1>4 DEF f

(* A step is explained when the pool is worth no less, or when it loses no *)
(* more than the write-off of one loan.                                    *)
LEMMA Explained ==
    ASSUME LoanInv, NEW was \in Int, NEW is \in Int, PoolWorth = was, PoolWorth' = is,
           \/ is >= was
           \/ \E id \in Ended : is >= was - WriteOff(id)
    PROVE  LossesExplained
<1> DEFINE f == [id \in Ended |-> WriteOff(id)]
<1>1. IsFiniteSet(Ended) /\ f \in [Ended -> Nat] /\ Total(f, Ended) \in Nat
  BY WriteOffsNat
<1>2. LossesExplained <=> PoolWorth' >= PoolWorth - Total(f, Ended)
  BY Zenon DEF LossesExplained, Ended
<1>3. \A id \in Ended : f[id] = WriteOff(id)
  OBVIOUS
<1> HIDE DEF f
<1>4. \A id \in Ended : f[id] <= Total(f, Ended) /\ f[id] \in Nat
  BY <1>1, TotalBoundsPart
<1>5. is >= was - Total(f, Ended)
  <2>1. PICK total \in Nat : total = Total(f, Ended)
    BY <1>1
  <2>2. CASE is >= was
    BY <2>1, <2>2
  <2>3. ASSUME NEW id \in Ended, is >= was - WriteOff(id) PROVE is >= was - Total(f, Ended)
    <3>1. PICK n \in Nat : n = WriteOff(id) /\ n <= total
      BY <1>3, <1>4, <2>1
    <3> QED BY <2>1, <2>3, <3>1
  <2> QED BY <2>2, <2>3
<1> QED BY <1>2, <1>5

LEMMA PoolFacts ==
    ASSUME LoanInv, LoanInv'
    PROVE  /\ IsFiniteSet(DOMAIN loans) /\ IsFiniteSet(DOMAIN loans')
           /\ OwedBy(loans) \in [DOMAIN loans -> Nat] /\ OwedBy(loans') \in [DOMAIN loans' -> Nat]
           /\ Total(OwedBy(loans), DOMAIN loans) \in Nat
           /\ Total(OwedBy(loans'), DOMAIN loans') \in Nat
           /\ balance[Pool] \in Int /\ balance'[Pool] \in Int
<1>1. /\ loans \in [DOMAIN loans -> LoanRecords] /\ loans' \in [DOMAIN loans' -> LoanRecords]
      /\ DOMAIN loans \subseteq 1..loanCounter /\ DOMAIN loans' \subseteq 1..loanCounter'
      /\ loanCounter \in Nat /\ loanCounter' \in Nat
      /\ balance[Pool] \in Int /\ balance'[Pool] \in Int
  BY AccountFacts DEF LoanInv, LoansTyped
<1>2. IsFiniteSet(DOMAIN loans) /\ IsFiniteSet(DOMAIN loans')
  <2>1. PICK S, m : S = DOMAIN loans /\ m = loanCounter
    OBVIOUS
  <2>2. PICK T, n : T = DOMAIN loans' /\ n = loanCounter'
    OBVIOUS
  <2>3. m \in Nat /\ S \in SUBSET (1..m) /\ n \in Nat /\ T \in SUBSET (1..n)
    BY <1>1, <2>1, <2>2
  <2>4. IsFiniteSet(1..m) /\ IsFiniteSet(1..n)
    BY <2>3, FS_Interval
  <2>5. IsFiniteSet(S)
    BY <2>3, <2>4, FS_Subset
  <2>6. IsFiniteSet(T)
    BY <2>3, <2>4, FS_Subset
  <2> QED BY <2>1, <2>2, <2>5, <2>6
<1>3. /\ \A id \in DOMAIN loans : loans[id].principal_paid <= loans[id].amount
      /\ \A id \in DOMAIN loans' : loans'[id].principal_paid <= loans'[id].amount
  BY DEF LoanInv, AllSound, Sound
<1>4. OwedBy(loans) \in [DOMAIN loans -> Nat] /\ Total(OwedBy(loans), DOMAIN loans) \in Nat
  BY <1>1, <1>2, <1>3, OwedNat
<1>5. OwedBy(loans') \in [DOMAIN loans' -> Nat] /\ Total(OwedBy(loans'), DOMAIN loans') \in Nat
  BY <1>1, <1>2, <1>3, OwedNat
<1> QED BY <1>1, <1>2, <1>4, <1>5

(* One loan is rewritten while the pool gains (or pays out) some tokens.   *)
LEMMA OneLoanLoses ==
    ASSUME LoanInv, LoanInv', NEW id \in DOMAIN loans, NEW old, old = loans[id], NEW new,
           loans' = [loans EXCEPT ![id] = new],
           \/ balance'[Pool] + Owed(new) >= balance[Pool] + Owed(old)
           \/ /\ old.status = "Approved"
              /\ balance'[Pool] + Owed(new) >= balance[Pool] + Owed(old) - WriteOff(id)
    PROVE  LossesExplained
<1>1. PICK S : S = DOMAIN loans
  OBVIOUS
<1>2. PICK f, g : f = OwedBy(loans) /\ g = OwedBy(loans')
  OBVIOUS
<1>3. DOMAIN loans' = S /\ id \in S /\ loans'[id] = new /\ \A i \in S \ {id} : loans'[i] = loans[i]
  BY <1>1 DEF LoanInv, LoansTyped
<1>4. /\ IsFiniteSet(S) /\ f \in [S -> Nat] /\ g \in [S -> Nat]
      /\ Total(f, S) \in Nat /\ Total(g, S) \in Nat 
      /\ balance[Pool] \in Int /\ balance'[Pool] \in Int
  BY <1>1, <1>2, <1>3, PoolFacts
<1>5. f[id] = Owed(old) /\ g[id] = Owed(new) /\ \A i \in S \ {id} : g[i] = f[i]
  BY <1>1, <1>2, <1>3 DEF OwedBy
<1>6. Total(g, S) = Total(f, S) - f[id] + g[id]
  BY <1>3, <1>4, <1>5, TotalUpdate
<1>7. PICK before \in Nat, after \in Nat, cash \in Int, left \in Int, owed \in Nat, owes \in Nat :
          /\ before = Total(f, S) /\ after = Total(g, S) /\ cash = balance[Pool] /\ left = balance'[Pool]
          /\ owed = Owed(old) /\ owes = Owed(new)
  BY <1>3, <1>4, <1>5
<1>8. after = before - owed + owes
  BY <1>5, <1>6, <1>7
<1>9. PICK was \in Int, is \in Int : was = cash + before /\ is = left + after
  OBVIOUS
<1>10. PoolWorth = was /\ PoolWorth' = is
  BY <1>1, <1>2, <1>3, <1>7, <1>9, WorthIs
<1>11. CASE left + owes >= cash + owed
  <2>1. is >= was
    BY <1>7, <1>8, <1>9, <1>11
  <2> QED BY <1>10, <2>1, Explained
<1>12. CASE old.status = "Approved" /\ left + owes >= cash + owed - WriteOff(id)
  <2>1. id \in Ended
    BY <1>1, <1>3, <1>12 DEF Ended, Approved
  <2>2. WriteOff(id) \in Nat
    BY <2>1, WriteOffsNat
  <2>3. is >= was - WriteOff(id)
    BY <1>7, <1>8, <1>9, <1>12, <2>2
  <2> QED BY <1>10, <2>1, <2>3, Explained
<1> QED BY <1>7, <1>11, <1>12

LEMMA PoolMoved ==
    ASSUME NEW b \in [Accounts -> Int], NEW from \in Accounts, NEW to \in Accounts, NEW n \in Int
    PROVE  /\ Moved(b, from, to, n) \in [Accounts -> Int]
           /\ from # Pool /\ to # Pool => Moved(b, from, to, n)[Pool] = b[Pool]
           /\ from = Pool /\ to # Pool => Moved(b, from, to, n)[Pool] = b[Pool] - n
           /\ from # Pool /\ to = Pool => Moved(b, from, to, n)[Pool] = b[Pool] + n
BY AccountFacts DEF Moved

LEMMA PoolPays ==
    ASSUME NEW b \in [Accounts -> Int], NEW to \in Accounts, to # Pool, NEW n \in Int
    PROVE  /\ Moved(b, Pool, to, n) \in [Accounts -> Int]
           /\ Moved(b, Pool, to, n)[Pool] = b[Pool] - n
BY AccountFacts DEF Moved

LEMMA PoolAside ==
    ASSUME NEW b \in [Accounts -> Int], NEW from \in Accounts, NEW to \in Accounts, NEW n,
           from # Pool, to # Pool
    PROVE  Moved(b, from, to, n)[Pool] = b[Pool]
BY AccountFacts DEF Moved

LEMMA PoolReceives ==
    ASSUME NEW b \in [Accounts -> Int], NEW from \in Accounts, from # Pool, NEW n \in Int
    PROVE  /\ Moved(b, from, Pool, n) \in [Accounts -> Int]
           /\ Moved(b, from, Pool, n)[Pool] = b[Pool] + n
BY AccountFacts DEF Moved

LEMMA SimpleLosses ==
    ASSUME LoanInv, LoanInv', NEW id \in DOMAIN loans,
           \/ \E s \in {"Cancelled", "Rejected"} : Withdrawn(id, s)
           \/ ReleaseCollateral(id)
           \/ \E n \in Amounts : DepositCollateral(id, n)
    PROVE  LossesExplained
<1>1. PICK l : l = loans[id]
  OBVIOUS
<1>2. /\ l \in LoanRecords /\ l.borrower \in Accounts /\ l.borrower # Pool
      /\ l.collateral_amount \in Int
  BY <1>1, StoredLoan
<1>3. balance \in [Accounts -> Int] /\ balance[Pool] \in Int /\ Manager \in Accounts /\ Manager # Pool
  BY AccountFacts DEF LoanInv, LoansTyped
<1>4. ASSUME NEW s \in {"Cancelled", "Rejected"}, Withdrawn(id, s) PROVE LossesExplained
  <2>1. PICK new : new = [l EXCEPT !.status = s, !.collateral_amount = 0]
    OBVIOUS
  <2>2. /\ l.status = "Pending" /\ loans' = [loans EXCEPT ![id] = new]
        /\ balance' = Moved(balance, Manager, l.borrower, l.collateral_amount)
    BY <1>1, <1>4, <2>1 DEF Withdrawn, Put
  <2>3. balance'[Pool] = balance[Pool]
    BY <1>2, <1>3, <2>2, PoolMoved
  <2>4. Owed(new) = 0 /\ Owed(l) = 0
    BY <1>2, <2>1, <2>2 DEF Owed, LoanRecords
  <2>5. balance'[Pool] + Owed(new) >= balance[Pool] + Owed(l)
    BY <1>3, <2>3, <2>4
  <2> QED BY <1>1, <2>2, <2>5, OneLoanLoses
<1>5. CASE ReleaseCollateral(id)
  <2>1. PICK new : new = [l EXCEPT !.collateral_amount = 0]
    OBVIOUS
  <2>2. /\ l.status = "Repaid" /\ loans' = [loans EXCEPT ![id] = new]
        /\ balance' = Moved(balance, Manager, l.borrower, l.collateral_amount)
    BY <1>1, <1>5, <2>1 DEF ReleaseCollateral, Put
  <2>3. balance'[Pool] = balance[Pool]
    BY <1>2, <1>3, <2>2, PoolMoved
  <2>4. Owed(new) = 0 /\ Owed(l) = 0
    BY <1>2, <2>1, <2>2 DEF Owed, LoanRecords
  <2>5. balance'[Pool] + Owed(new) >= balance[Pool] + Owed(l)
    BY <1>3, <2>3, <2>4
  <2> QED BY <1>1, <2>2, <2>5, OneLoanLoses
<1>6. ASSUME NEW n \in Amounts, DepositCollateral(id, n) PROVE LossesExplained
  <2>1. PICK held : held = l.collateral_amount + n
    OBVIOUS
  <2>2. PICK new : new = [l EXCEPT !.collateral_amount = held]
    OBVIOUS
  <2>3. /\ loans' = [loans EXCEPT ![id] = new]
        /\ balance' = Moved(balance, l.borrower, Manager, n)
    BY <1>1, <1>6, <2>1, <2>2 DEF DepositCollateral, Put
  <2>4. balance'[Pool] = balance[Pool]
    <3>1. n \in Int
      BY LoanConstants
    <3> QED BY <1>2, <1>3, <2>3, <3>1, PoolMoved
  <2>5. Owed(new) = Owed(l) /\ Owed(l) \in Int
    BY <1>2, <2>2 DEF Owed, remaining_principal, LoanRecords
  <2>6. balance'[Pool] + Owed(new) >= balance[Pool] + Owed(l)
    BY <1>3, <2>4, <2>5
  <2> QED BY <1>1, <2>3, <2>6, OneLoanLoses
<1> QED BY <1>4, <1>5, <1>6

LEMMA ApproveLosses ==
    ASSUME LoanInv, LoanInv', NEW id \in DOMAIN loans, ApproveLoan(id)
    PROVE  LossesExplained
<1>1. PICK l : l = loans[id]
  OBVIOUS
<1>2. PICK due : due = ledger + l.term_ledgers
  OBVIOUS
<1>3. PICK fees : fees = due + config.grace
  OBVIOUS
<1>4. PICK new : new = [l EXCEPT !.status = "Approved", !.due_date = due,
                                 !.last_interest_ledger = ledger, !.last_late_fee_ledger = fees]
  OBVIOUS
<1>5. /\ l.status = "Pending"
      /\ loans' = [loans EXCEPT ![id] = new]
      /\ balance' = Moved(balance, Pool, l.borrower, l.amount)
  BY <1>1, <1>2, <1>3, <1>4 DEF ApproveLoan, Put
<1>6. /\ l \in LoanRecords /\ Sound(l, ledger) /\ l.amount \in Nat
      /\ l.borrower \in Accounts /\ l.borrower # Pool
  BY <1>1, StoredLoan
<1>7. balance \in [Accounts -> Int] /\ balance[Pool] \in Int /\ Pool \in Accounts
  BY AccountFacts DEF LoanInv, LoansTyped
<1>8. balance'[Pool] = balance[Pool] - l.amount
  <2>1. PICK n \in Int, b \in Accounts : n = l.amount /\ b = l.borrower
    BY <1>6
  <2>2. PICK left : left = Moved(balance, Pool, b, n)
    OBVIOUS
  <2>3. left[Pool] = balance[Pool] - n
    BY <1>6, <1>7, <2>1, <2>2, PoolPays
  <2> QED BY <1>5, <2>1, <2>2, <2>3
<1>9. Owed(l) = 0 /\ Owed(new) = l.amount
  <2>1. new.status = "Approved" /\ new.amount = l.amount /\ new.principal_paid = l.principal_paid
    BY <1>4, <1>6 DEF LoanRecords
  <2>2. l.principal_paid = 0
    BY <1>5, <1>6 DEF Sound
  <2> QED BY <1>5, <1>6, <2>1, <2>2 DEF Owed, remaining_principal
<1>10. balance'[Pool] + Owed(new) >= balance[Pool] + Owed(l)
  BY <1>6, <1>7, <1>8, <1>9
<1> QED BY <1>1, <1>5, <1>10, OneLoanLoses

(* At most the whole payment goes to the principal.                        *)
LEMMA PrincipalPart ==
    ASSUME NEW l \in LoanRecords, l.principal_paid <= l.amount,
           NEW amount \in 1..Debt(l), NEW r, r = apply_debt_recovery(l, amount)
    PROVE  r.principal_paid <= l.principal_paid + amount
<1>1. PICK dues : dues = Dues(l)
  OBVIOUS
<1>2. /\ remaining_principal(l) \in Nat /\ l.accrued_interest \in Nat /\ l.accrued_late_fee \in Nat
      /\ l.amount \in Nat /\ l.principal_paid \in Nat
  BY DEF LoanRecords, remaining_principal
<1>3. /\ dues \in [Buckets -> Nat]
      /\ dues[1] = remaining_principal(l) /\ dues[2] = l.accrued_interest
      /\ dues[3] = l.accrued_late_fee
  BY <1>1, <1>2 DEF Dues, Buckets
<1>4. TotalDue(dues) = Debt(l)
  BY <1>3 DEF TotalDue, Debt
<1>5. PICK parts : parts = proportional_repayment_split(dues, amount)
  OBVIOUS
<1>6. 1 \in Buckets /\ 2 \in Buckets /\ 3 \in Buckets
  BY DEF Buckets
<1>7. Debt(l) \in Nat /\ amount \in 1..TotalDue(dues) /\ amount \in 0..TotalDue(dues) /\ TotalDue(dues) > 0
  BY <1>2, <1>4 DEF Debt
<1>8. \A i \in Buckets : parts[i] \in 0..dues[i]
  BY <1>3, <1>5, <1>7, SplitWithinDues
<1>9. parts[1] \in Nat /\ parts[2] \in Nat /\ parts[3] \in Nat
  BY <1>3, <1>6, <1>8
<1>10. TotalDue(parts) = amount
  BY <1>3, <1>5, <1>7, SplitConserves
<1>11. parts[1] <= amount
  BY <1>7, <1>9, <1>10 DEF TotalDue
<1>12. PICK p, i, f : /\ p = l.principal_paid + parts[1]
                      /\ i = l.accrued_interest - parts[2] /\ f = l.accrued_late_fee - parts[3]
  OBVIOUS
<1>13. r = [l EXCEPT !.principal_paid = p, !.accrued_interest = i, !.accrued_late_fee = f]
  BY <1>1, <1>5, <1>12 DEF apply_debt_recovery
<1>14. r.principal_paid = p
  BY <1>13 DEF LoanRecords
<1> QED BY <1>2, <1>7, <1>9, <1>11, <1>12, <1>14

(* A repayment costs the pool the dust it forgives, at most.               *)
LEMMA RepaymentCosts ==
    ASSUME LoanInv, NEW l \in LoanRecords, Sound(l, ledger), l.status = "Approved",
           NEW amount \in 1..Debt(l), NEW new, new = AfterRepayment(l, amount)
    PROVE  \/ amount + Owed(new) >= Owed(l)
           \/ new.status = "Repaid" /\ amount + Owed(new) >= Owed(l) - Forgiven
<1>1. PICK paid : paid = apply_debt_recovery(l, amount)
  OBVIOUS
<1>2. l.principal_paid <= l.amount /\ Debt(l) > 0
  BY DEF Sound, IsLive
<1>3. Debt(l) \in Nat /\ amount \in 0..Debt(l) /\ amount \in Nat /\ amount >= 1
  <2>1. Debt(l) \in Nat
    BY <1>2 DEF Debt, remaining_principal, LoanRecords
  <2> QED BY <2>1
<1>4. /\ paid \in LoanRecords /\ paid.amount = l.amount /\ paid.status = l.status
      /\ paid.principal_paid <= l.amount
  BY <1>1, <1>2, <1>3, RecoveryFacts
<1>5. paid.principal_paid <= l.principal_paid + amount
  BY <1>1, <1>2, PrincipalPart
<1>6. /\ l.amount \in Nat /\ l.principal_paid \in Nat /\ paid.principal_paid \in Nat
      /\ Owed(l) = l.amount - l.principal_paid
  BY <1>4 DEF Owed, remaining_principal, LoanRecords
<1>7. CASE IsDust(l) \/ FullyRepaid(paid)
  <2>1. PICK n : n = paid.amount
    OBVIOUS
  <2>2. new = [paid EXCEPT !.status = "Repaid", !.collateral_amount = 0,
                           !.principal_paid = n, !.accrued_interest = 0, !.accrued_late_fee = 0]
    BY <1>1, <1>7, <2>1 DEF AfterRepayment
  <2>3. new.status = "Repaid"
    BY <1>4, <2>2 DEF LoanRecords
  <2>4. Owed(new) = 0
    BY <2>3 DEF Owed
  <2>5. CASE FullyRepaid(paid)
    <3>1. /\ paid.amount \in Nat /\ paid.principal_paid \in Nat /\ paid.accrued_interest \in Nat
          /\ paid.accrued_late_fee \in Nat
      BY <1>4 DEF LoanRecords
    <3>2. paid.amount - paid.principal_paid + paid.accrued_interest + paid.accrued_late_fee = 0
      BY <2>5 DEF FullyRepaid, Debt, remaining_principal
    <3>3. PICK p \in Nat, i \in Nat, f \in Nat :
             p = paid.principal_paid /\ i = paid.accrued_interest /\ f = paid.accrued_late_fee
      BY <3>1
    <3>4. PICK a \in Nat : a = l.amount /\ a = paid.amount
      BY <1>4, <1>6
    <3>5. p <= a /\ a - p + i + f = 0
      BY <1>4, <3>2, <3>3, <3>4
    <3>6. p = a
      BY <3>5
    <3> QED BY <1>3, <1>5, <1>6, <2>4, <3>3, <3>4, <3>6
  <2>6. CASE IsDust(l)
    <3>1. config.min_repayment \in Nat
      BY DEF LoanInv, Configured, Configurations
    <3>2. Owed(l) <= Debt(l)
      BY <1>2, <1>6 DEF Debt, remaining_principal, LoanRecords
    <3>3. Debt(l) <= config.min_repayment
      BY <2>6 DEF IsDust
    <3>4. Forgiven = config.min_repayment - 1
      BY <1>2, <1>3, <3>1, <3>3 DEF Forgiven
    <3> QED BY <1>3, <1>6, <2>3, <2>4, <3>1, <3>2, <3>3, <3>4
  <2> QED BY <1>7, <2>5, <2>6
<1>8. CASE ~(IsDust(l) \/ FullyRepaid(paid))
  <2>1. new = paid
    BY <1>1, <1>8 DEF AfterRepayment
  <2>2. Owed(new) = l.amount - paid.principal_paid
    BY <1>4, <2>1 DEF Owed, remaining_principal
  <2> QED BY <1>3, <1>5, <1>6, <2>2
<1> QED BY <1>7, <1>8

LEMMA RepayLosses ==
    ASSUME LoanInv, LoanInv', NEW id \in DOMAIN loans, NEW amount \in Amounts, Repay(id, amount)
    PROVE  LossesExplained
<1>1. PICK l : l = Accrued(loans[id])
  OBVIOUS
<1>2. PICK new : new = AfterRepayment(l, amount)
  OBVIOUS
<1>3. PICK released : released = Released(l, amount)
  OBVIOUS
<1>4. PICK old : old = loans[id]
  OBVIOUS
<1>5. /\ amount > 0 /\ l.status = "Approved" /\ amount <= Debt(l)
      /\ loans' = [loans EXCEPT ![id] = new]
      /\ balance' = Moved(Moved(balance, l.borrower, Pool, amount), Manager, l.borrower, released)
      /\ released = IF new.status = "Repaid" THEN l.collateral_amount ELSE 0
  BY <1>1, <1>2, <1>3, Zenon DEF Repay, MayRepay, PaysEnough, Put, Released
<1>6. /\ old.status = "Approved"
      /\ l \in LoanRecords /\ SameTerms(l, old) /\ Sound(l, ledger)
      /\ Debt(l) \in Nat /\ l.borrower \in Accounts
      /\ l.borrower # Pool /\ l.collateral_amount \in Nat
  BY <1>1, <1>4, <1>5, RunningLoan
<1>7. amount \in 1..Debt(l) /\ amount \in Int
  BY <1>5, <1>6, LoanConstants
<1>8. balance \in [Accounts -> Int] /\ balance[Pool] \in Int
      /\ Manager \in Accounts /\ Pool \in Accounts /\ Manager # Pool
  BY AccountFacts DEF LoanInv, LoansTyped
<1>9. balance'[Pool] = balance[Pool] + amount
  <2>1. released \in Int
    BY <1>5, <1>6
  <2>2. PICK paid : paid = Moved(balance, l.borrower, Pool, amount)
    OBVIOUS
  <2>3. paid \in [Accounts -> Int] /\ paid[Pool] = balance[Pool] + amount
    BY <1>6, <1>7, <1>8, <2>2, PoolMoved
  <2>4. PICK left : left = Moved(paid, Manager, l.borrower, released)
    OBVIOUS
  <2>5. left[Pool] = paid[Pool]
    BY <1>6, <1>8, <2>1, <2>3, <2>4, PoolMoved
  <2> QED BY <1>5, <2>2, <2>3, <2>4, <2>5
<1>10. \/ amount + Owed(new) >= Owed(l)
       \/ new.status = "Repaid" /\ amount + Owed(new) >= Owed(l) - Forgiven
  BY <1>2, <1>5, <1>6, <1>7, RepaymentCosts
<1>11. /\ Owed(l) = Owed(old) /\ Owed(l) \in Int /\ Owed(new) \in Int /\ Forgiven \in Int
  <2>1. Owed(l) = Owed(old)
    BY <1>5, <1>6 DEF Owed, SameTerms, remaining_principal
  <2>2. new \in LoanRecords
    BY <1>2, <1>5, <1>6, <1>7, RepaymentFacts
  <2>3. config.min_repayment \in Nat
    BY DEF LoanInv, Configured, Configurations
  <2> QED BY <1>6, <2>1, <2>2, <2>3 DEF Owed, remaining_principal, LoanRecords, Forgiven
<1>12. CASE amount + Owed(new) >= Owed(l)
  <2>1. balance'[Pool] + Owed(new) >= balance[Pool] + Owed(old)
    BY <1>7, <1>8, <1>9, <1>11, <1>12
  <2> QED BY <1>4, <1>5, <2>1, OneLoanLoses
<1>13. CASE new.status = "Repaid" /\ amount + Owed(new) >= Owed(l) - Forgiven
  <2>1. loans'[id] = new
    BY <1>5 DEF LoanInv, LoansTyped
  <2>2. WriteOff(id) = Forgiven
    BY <1>1, <1>13, <2>1, WriteOffCases
  <2>3. balance'[Pool] + Owed(new) >= balance[Pool] + Owed(old) - WriteOff(id)
    BY <1>7, <1>8, <1>9, <1>11, <1>13, <2>2
  <2> QED BY <1>4, <1>5, <1>6, <2>3, OneLoanLoses
<1> QED BY <1>10, <1>12, <1>13

LEMMA ExtendLosses ==
    ASSUME LoanInv, LoanInv', NEW id \in DOMAIN loans, NEW extra \in Extensions,
           ExtendLoan(id, extra)
    PROVE  LossesExplained
<1>1. PICK l : l = loans[id]
  OBVIOUS
<1>2. PICK fee : fee = (remaining_principal(l) * EXTENSION_FEE_BPS) \div BPS
  OBVIOUS
<1>3. PICK due, count : due = l.due_date + extra /\ count = l.extension_count + 1
  OBVIOUS
<1>4. PICK new : new = [l EXCEPT !.due_date = due, !.extension_count = count]
  OBVIOUS
<1>5. /\ loans' = [loans EXCEPT ![id] = new]
      /\ balance' = Moved(balance, l.borrower, Pool, fee)
  BY <1>1, <1>2, <1>3, <1>4 DEF ExtendLoan, Put
<1>6. /\ l \in LoanRecords /\ Sound(l, ledger)
      /\ l.borrower \in Accounts /\ l.borrower # Pool
  BY <1>1, StoredLoan
<1>7. fee \in Nat
  <2>1. remaining_principal(l) \in Nat /\ EXTENSION_FEE_BPS \in Nat /\ BPS \in Nat \ {0}
    BY <1>6, LoanConstants DEF Sound, remaining_principal, LoanRecords
  <2>2. remaining_principal(l) * EXTENSION_FEE_BPS \in Nat
    BY <2>1
  <2> QED BY <1>2, <2>1, <2>2, QuotientBounds
<1>8. balance \in [Accounts -> Int] /\ balance[Pool] \in Int /\ Pool \in Accounts
  BY AccountFacts DEF LoanInv, LoansTyped
<1>9. balance'[Pool] = balance[Pool] + fee
  BY <1>5, <1>6, <1>7, <1>8, PoolReceives
<1>10. Owed(new) = Owed(l) /\ Owed(l) \in Int
  BY <1>4, <1>6 DEF Owed, remaining_principal, LoanRecords
<1>11. balance'[Pool] + Owed(new) >= balance[Pool] + Owed(l)
  BY <1>7, <1>8, <1>9, <1>10
<1> QED BY <1>1, <1>5, <1>11, OneLoanLoses

(* A liquidation brings the pool the debt or all of the collateral.        *)
LEMMA LiquidateLosses ==
    ASSUME LoanInv, LoanInv', NEW id \in DOMAIN loans, NEW a \in Liquidators \cup Borrowers,
           Liquidate(a, id)
    PROVE  LossesExplained
<1>1. PICK l : l = Accrued(loans[id])
  OBVIOUS
<1>2. PICK old : old = loans[id]
  OBVIOUS
<1>3. PICK share : share = Liquidation(l.collateral_amount, Debt(l))
  OBVIOUS
<1>4. PICK paid : paid = apply_debt_recovery(l, share.debt_repaid)
  OBVIOUS
<1>5. PICK new : new = [paid EXCEPT !.status = "Liquidated", !.collateral_amount = 0]
  OBVIOUS
<1>6. /\ l.status = "Approved" /\ loans' = [loans EXCEPT ![id] = new]
      /\ balance' = Moved(Moved(Moved(balance, Manager, Pool, share.debt_repaid),
                          Manager, a, share.liquidator_bonus),
                          Manager, l.borrower, share.borrower_refund)
  BY <1>1, <1>3, <1>4, <1>5, Zenon DEF Liquidate, Put
<1>7. /\ old.status = "Approved"
      /\ l \in LoanRecords /\ SameTerms(l, old) /\ Sound(l, ledger)
      /\ Debt(l) \in Nat /\ Debt(l) > 0 /\ l.borrower \in Accounts
      /\ l.borrower # Pool /\ l.collateral_amount \in Nat /\ remaining_principal(l) \in Nat
  BY <1>1, <1>2, <1>6, RunningLoan
<1>8. balance \in [Accounts -> Int] /\ balance[Pool] \in Int /\ config \in Configurations
      /\ Manager \in Accounts /\ Pool \in Accounts /\ Manager # Pool
      /\ a \in Accounts /\ a # Pool
  BY AccountFacts DEF LoanInv, LoansTyped, Configured
<1>9. PICK c \in Nat, d \in Nat : c = l.collateral_amount /\ d = Debt(l)
  BY <1>7
<1>10. PICK repaid \in Nat, bonus \in Int, refund \in Int :
          /\ repaid = share.debt_repaid /\ bonus = share.liquidator_bonus
          /\ refund = share.borrower_refund /\ repaid \in 0..d /\ repaid = smaller(c, d)
  <2>1. /\ share.debt_repaid \in 0..d
        /\ share.liquidator_bonus \in Nat /\ share.borrower_refund \in Nat
    BY <1>3, <1>8, <1>9, LiquidationFacts
  <2>2. share.debt_repaid = smaller(c, d)
    BY <1>3, <1>9 DEF Liquidation
  <2> QED BY <2>1, <2>2
<1>11. /\ paid \in LoanRecords
  <2>1. l.principal_paid <= l.amount
    BY <1>7 DEF Sound
  <2> QED BY <1>4, <1>7, <1>9, <1>10, <2>1, RecoveryFacts
<1>12. new.status = "Liquidated" /\ Owed(new) = 0
  BY <1>5, <1>11 DEF LoanRecords, Owed
<1>13. balance'[Pool] = balance[Pool] + repaid
  <2>1. PICK first : first = Moved(balance, Manager, Pool, repaid)
    OBVIOUS
  <2>2. first \in [Accounts -> Int] /\ first[Pool] = balance[Pool] + repaid
    BY <1>8, <2>1, PoolMoved
  <2>3. PICK second : second = Moved(first, Manager, a, bonus)
    OBVIOUS
  <2>4. second \in [Accounts -> Int] /\ second[Pool] = first[Pool]
    BY <1>8, <2>2, <2>3, PoolMoved, ZenonT(40)
  <2>5. PICK third : third = Moved(second, Manager, l.borrower, refund)
    OBVIOUS
  <2>6. third[Pool] = second[Pool]
    BY <1>7, <1>8, <2>4, <2>5, PoolMoved, ZenonT(40)
  <2>7. balance' = third
    BY <1>6, <1>10, <2>1, <2>3, <2>5
  <2> QED BY <2>2, <2>4, <2>6, <2>7
<1>14. Owed(old) = remaining_principal(l) /\ Owed(old) \in Nat /\ Owed(old) <= d
  <2>1. Owed(old) = remaining_principal(l)
    BY <1>6, <1>7 DEF Owed, SameTerms, remaining_principal
  <2>2. remaining_principal(l) <= d
    BY <1>7, <1>9 DEF Debt, LoanRecords
  <2> QED BY <1>7, <2>1, <2>2
<1>15. WriteOff(id) = IF d > c THEN d - c ELSE 0
  <2>1. loans'[id] = new
    BY <1>6 DEF LoanInv, LoansTyped
  <2> QED BY <1>1, <1>9, <1>12, <2>1, WriteOffCases DEF Short
<1>16. balance'[Pool] + Owed(new) >= balance[Pool] + Owed(old) - WriteOff(id)
  BY <1>8, <1>10, <1>12, <1>13, <1>14, <1>15 DEF smaller
<1> QED BY <1>2, <1>6, <1>7, <1>16, OneLoanLoses

(* Refinancing settles the fees in cash and turns principal into cash or   *)
(* cash into principal.                                                    *)
LEMMA RefinanceLosses ==
    ASSUME LoanInv, LoanInv', NEW id \in DOMAIN loans, NEW amount \in Amounts, NEW term \in Terms,
           NEW answer \in OracleAnswers, RefinanceLoan(id, amount, term, answer)
    PROVE  LossesExplained
<1>1. PICK l : l = Accrued(loans[id])
  OBVIOUS
<1>2. PICK old : old = loans[id]
  OBVIOUS
<1>3. PICK rest : rest = remaining_principal(l)
  OBVIOUS
<1>4. PICK settlement : settlement = l.accrued_interest + l.accrued_late_fee
  OBVIOUS
<1>5. PICK excess : excess = IF amount < rest THEN rest - amount ELSE 0
  OBVIOUS
<1>6. PICK additional : additional = IF amount > rest THEN amount - rest ELSE 0
  OBVIOUS
<1>7. PICK returned : returned = ExcessCollateral(l, rest, amount)
  OBVIOUS
<1>8. PICK settled : settled = Moved(balance, l.borrower, Pool, settlement)
  OBVIOUS
<1>9. PICK lent : lent = Moved(settled, Pool, l.borrower, additional)
  OBVIOUS
<1>10. PICK funded : funded = Moved(lent, l.borrower, Pool, excess)
  OBVIOUS
<1>11. PICK held, rate, due : /\ held = l.collateral_amount - returned
                              /\ rate = compute_interest_rate(answer) /\ due = ledger + term
  OBVIOUS
<1>12. PICK new : new = [l EXCEPT !.accrued_interest = 0, !.accrued_late_fee = 0,
                                  !.collateral_amount = held, !.amount = amount,
                                  !.principal_paid = 0, !.interest_rate_bps = rate,
                                  !.last_interest_ledger = ledger, !.due_date = due,
                                  !.last_late_fee_ledger = due]
  OBVIOUS
<1>13. l.status = "Approved" /\ amount \in 1..config.max_amount
  BY <1>1, Zenon DEF RefinanceLoan
<1>14. /\ old.status = "Approved"
       /\ l \in LoanRecords /\ SameTerms(l, old)
       /\ rest \in Nat /\ l.borrower \in Accounts /\ l.borrower # Pool
  BY <1>1, <1>2, <1>3, <1>13, RunningLoan
<1>15. loans' = [loans EXCEPT ![id] = new]
  <2>1. loans' = [loans EXCEPT ![id] = [l EXCEPT
               !.accrued_interest = 0, !.accrued_late_fee = 0,
               !.collateral_amount = l.collateral_amount - returned,
               !.amount = amount, !.principal_paid = 0,
               !.interest_rate_bps = compute_interest_rate(answer),
               !.last_interest_ledger = ledger,
               !.due_date = ledger + term,
               !.last_late_fee_ledger = ledger + term]]
    BY <1>1, <1>3, <1>7 DEF RefinanceLoan, Put
  <2> QED BY <1>11, <1>12, <2>1
<1>16. balance' = Moved(funded, Manager, l.borrower, returned)
  BY <1>1, <1>3, <1>4, <1>5, <1>6, <1>7, <1>8, <1>9, <1>10 DEF RefinanceLoan
<1>17. /\ balance \in [Accounts -> Int] /\ balance[Pool] \in Int
       /\ Manager \in Accounts /\ Pool \in Accounts /\ Manager # Pool
  BY AccountFacts DEF LoanInv, LoansTyped
<1>18. amount \in Int /\ settlement \in Nat /\ excess \in Int /\ additional \in Int
  BY <1>4, <1>5, <1>6, <1>14, LoanConstants DEF LoanRecords
<1>19. balance'[Pool] = balance[Pool] + settlement - additional + excess
  <2>1. settled \in [Accounts -> Int] /\ settled[Pool] = balance[Pool] + settlement
    BY <1>8, <1>14, <1>17, <1>18, PoolReceives
  <2>2. lent \in [Accounts -> Int] /\ lent[Pool] = settled[Pool] - additional
    BY <1>9, <1>14, <1>18, <2>1, PoolPays
  <2>3. funded \in [Accounts -> Int] /\ funded[Pool] = lent[Pool] + excess
    BY <1>10, <1>14, <1>17, <1>18, <2>2, PoolMoved, ZenonT(40)
  <2>4. balance'[Pool] = funded[Pool]
    BY <1>14, <1>16, <1>17, <2>3, PoolAside
  <2> QED BY <1>17, <1>18, <2>1, <2>2, <2>3, <2>4
<1>20. Owed(new) = amount
  <2>1. new.status = l.status /\ new.amount = amount /\ new.principal_paid = 0
    BY <1>12, <1>14 DEF LoanRecords
  <2> QED BY <1>13, <1>18, <2>1 DEF Owed, remaining_principal
<1>21. Owed(old) = rest
  BY <1>3, <1>14 DEF Owed, SameTerms, remaining_principal
<1>22. balance'[Pool] + Owed(new) >= balance[Pool] + Owed(old)
  BY <1>5, <1>6, <1>14, <1>17, <1>18, <1>19, <1>20, <1>21
<1> QED BY <1>2, <1>15, <1>22, OneLoanLoses

(* Of each loan that defaults, seizure and write-off cover the principal.  *)
LEMMA DefaultLosses ==
    ASSUME LoanInv, LoanInv', NEW ids \in SUBSET DOMAIN loans,
           \A i \in ids : loans[i].status = "Approved", Default(ids)
    PROVE  LossesExplained
<1>1. PICK D : D = DOMAIN loans
  OBVIOUS
<1>2. PICK seized : seized = Seized(ids)
  OBVIOUS
<1>3. /\ loans' = [i \in DOMAIN loans |-> IF i \in ids
                       THEN [loans[i] EXCEPT !.status = "Defaulted", !.collateral_amount = 0]
                       ELSE loans[i]]
      /\ balance' = Moved(balance, Manager, Pool, seized)
  BY <1>2, Zenon DEF Default
<1>4. DOMAIN loans' = D /\ \A i \in D \ ids : loans'[i] = loans[i]
  BY <1>1, <1>3
<1>5. PICK f, g : f = OwedBy(loans) /\ g = OwedBy(loans')
  OBVIOUS
<1>6. PICK c : c = [i \in D |-> IF i \in ids THEN loans[i].collateral_amount ELSE 0]
  OBVIOUS
<1>7. PICK v : v = [i \in D |-> IF i \in Ended THEN WriteOff(i) ELSE 0]
  OBVIOUS
<1>8. PICK u : u = [i \in D |-> c[i] + v[i]]
  OBVIOUS
<1>9. /\ IsFiniteSet(D) /\ f \in [D -> Nat] /\ g \in [D -> Nat]
      /\ Total(f, D) \in Nat /\ Total(g, D) \in Nat /\ balance[Pool] \in Int
  BY <1>1, <1>4, <1>5, PoolFacts
<1>10. \A i \in D : loans[i].collateral_amount \in Nat
  BY <1>1, StoredLoan
<1>11. c \in [D -> Nat]
  BY <1>6, <1>10
<1>12. v \in [D -> Nat]
  <2> DEFINE w == [i \in Ended |-> WriteOff(i)]
  <2>1. w \in [Ended -> Nat]
    BY WriteOffsNat
  <2>2. \A i \in Ended : w[i] = WriteOff(i)
    OBVIOUS
  <2> HIDE DEF w
  <2>3. \A i \in Ended : WriteOff(i) \in Nat
    BY <2>1, <2>2
  <2> QED BY <1>7, <2>3
<1>13. u \in [D -> Nat] /\ \A i \in D : u[i] <= c[i] + v[i]
  BY <1>8, <1>11, <1>12
<1>14. ASSUME NEW i \in D PROVE f[i] <= g[i] + u[i]
  <2>1. f[i] = Owed(loans[i]) /\ g[i] = Owed(loans'[i]) /\ f[i] \in Nat /\ g[i] \in Nat /\ u[i] \in Nat
    BY <1>1, <1>4, <1>5, <1>9, <1>13 DEF OwedBy
  <2>2. CASE i \notin ids
    BY <1>4, <2>1, <2>2
  <2>3. CASE i \in ids
    <3>1. PICK l : l = Accrued(loans[i])
      OBVIOUS
    <3>2. i \in Ended
      BY <1>1, <1>4, <2>3 DEF Ended, Approved
    <3>3. loans'[i].status = "Defaulted"
      <4>1. PICK old : old = loans[i]
        OBVIOUS
      <4>2. old \in LoanRecords
        BY <1>1, <4>1, StoredLoan
      <4>3. loans'[i] = [old EXCEPT !.status = "Defaulted", !.collateral_amount = 0]
        BY <1>1, <1>3, <2>3, <4>1
      <4> QED BY <4>2, <4>3 DEF LoanRecords
    <3>4. loans[i] \in LoanRecords /\ Sound(loans[i], ledger) /\ loans[i].status = "Approved"
      BY <1>1, <2>3, StoredLoan
    <3>5. config \in Configurations /\ ledger \in Nat
      BY DEF LoanInv, Configured, LoansTyped
    <3>6. l \in LoanRecords /\ SameTerms(l, loans[i])
      BY <3>1, <3>4, <3>5, AccruedFacts
    <3>7. Owed(loans[i]) = remaining_principal(l) /\ l.collateral_amount = loans[i].collateral_amount
      BY <3>4, <3>6 DEF Owed, SameTerms, remaining_principal
    <3>8. WriteOff(i) = Short(l, remaining_principal(l))
      BY <3>1, <3>3, WriteOffCases
    <3>9. c[i] = l.collateral_amount /\ v[i] = Short(l, f[i]) /\ u[i] = c[i] + v[i]
      BY <1>6, <1>7, <1>8, <2>1, <2>3, <3>2, <3>7, <3>8
    <3>10. PICK a \in Nat, n \in Nat : a = c[i] /\ n = f[i]
      BY <1>11, <2>1
    <3>11. v[i] = IF n > a THEN n - a ELSE 0
      BY <3>9, <3>10 DEF Short
    <3> QED BY <2>1, <3>9, <3>10, <3>11
  <2> QED BY <2>2, <2>3
<1>15. Total(c, D) = seized
  <2> DEFINE k == [i \in ids |-> loans[i].collateral_amount]
  <2>1. \A i \in ids : k[i] = c[i]
    BY <1>1, <1>6
  <2>2. \A i \in D \ ids : c[i] = 0
    BY <1>6
  <2>3. seized = Total(k, ids)
    BY <1>2, Zenon DEF Seized
  <2> HIDE DEF k
  <2> QED BY <1>1, <2>1, <2>2, <2>3, TotalSupport
<1>16. Total(v, D) = Total([i \in Ended |-> WriteOff(i)], Ended)
  <2> DEFINE w == [i \in Ended |-> WriteOff(i)]
  <2>1. Ended \in SUBSET D
    BY <1>1 DEF Ended, Approved
  <2>2. \A i \in Ended : w[i] = v[i]
    BY <1>7, <2>1
  <2>3. \A i \in D \ Ended : v[i] = 0
    BY <1>7
  <2> HIDE DEF w
  <2>4. Total(w, Ended) = Total(v, D)
    BY <2>1, <2>2, <2>3, TotalSupport
  <2> QED BY <2>4 DEF w
<1>17. Total(f, D) <= Total(g, D) + Total(u, D)
  BY <1>9, <1>13, <1>14, TotalCovered
<1>18. Total(u, D) <= Total(c, D) + Total(v, D)
  BY <1>9, <1>11, <1>12, <1>13, TotalCovered
<1>19. Total(u, D) \in Nat /\ Total(c, D) \in Nat /\ Total(v, D) \in Nat
  BY <1>9, <1>11, <1>12, <1>13, TotalNat
<1>20. balance'[Pool] = balance[Pool] + seized
  <2>1. /\ balance \in [Accounts -> Int] /\ Manager \in Accounts /\ Manager # Pool /\ seized \in Int
    BY <1>15, <1>19, AccountFacts DEF LoanInv, LoansTyped
  <2> QED BY <1>3, <2>1, PoolReceives
<1>21. PoolWorth' >= PoolWorth - Total(v, D)
  <2>1. PoolWorth = balance[Pool] + Total(f, D) /\ PoolWorth' = balance'[Pool] + Total(g, D)
    BY <1>1, <1>4, <1>5, WorthIs
  <2> QED BY <1>9, <1>15, <1>17, <1>18, <1>19, <1>20, <2>1
<1>22. LossesExplained <=> PoolWorth' >= PoolWorth - Total([i \in Ended |-> WriteOff(i)], Ended)
  BY Zenon DEF LossesExplained, Ended
<1> QED BY <1>16, <1>21, <1>22

LEMMA PurgeLosses ==
    ASSUME LoanInv, LoanInv', NEW id \in DOMAIN loans, PurgeLoan(id)
    PROVE  LossesExplained
<1>1. PICK l : l = loans[id]
  OBVIOUS
<1>2. /\ l.status \in Purgable
      /\ balance' = Moved(balance, Manager, l.borrower, l.collateral_amount)
      /\ loans' = [i \in DOMAIN loans \ {id} |-> loans[i]]
  BY <1>1 DEF PurgeLoan
<1>3. PICK D, T, f, g : /\ D = DOMAIN loans /\ T = DOMAIN loans'
                        /\ f = OwedBy(loans) /\ g = OwedBy(loans')
  OBVIOUS
<1>4. T = D \ {id} /\ T \in SUBSET D /\ \A i \in T : loans'[i] = loans[i]
  BY <1>2, <1>3
<1>5. (\A i \in T : g[i] = f[i]) /\ f[id] = 0
  BY <1>1, <1>2, <1>3, <1>4 DEF OwedBy, Owed, Purgable
<1>6. \A i \in D \ T : f[i] = 0
  BY <1>4, <1>5
<1>7. Total(g, T) = Total(f, D)
  BY <1>4, <1>5, <1>6, TotalSupport
<1>8. Total(f, D) \in Nat /\ balance[Pool] \in Int
  BY <1>3, PoolFacts
<1>9. balance'[Pool] = balance[Pool]
  <2>1. /\ balance \in [Accounts -> Int] /\ Manager \in Accounts /\ Manager # Pool
        /\ l.borrower \in Accounts /\ l.borrower # Pool
    BY <1>1, StoredLoan, AccountFacts DEF LoanInv, LoansTyped
  <2> QED BY <1>2, <2>1, PoolAside
<1>10. PICK was \in Int : was = balance[Pool] + Total(f, D)
  BY <1>8
<1>11. PoolWorth = was /\ PoolWorth' = was
  BY <1>3, <1>7, <1>9, <1>10, WorthIs
<1> QED BY <1>11, Explained

LEMMA RequestLosses ==
    ASSUME LoanInv, LoanInv', NEW b \in Borrowers, NEW amount \in Amounts, NEW term \in Terms,
           NEW answer \in OracleAnswers, RequestLoan(b, amount, term, answer)
    PROVE  LossesExplained
<1>1. PICK id : id = loanCounter + 1
  OBVIOUS
<1>2. PICK rate : rate = compute_interest_rate(answer)
  OBVIOUS
<1>3. PICK new : new =
          [borrower |-> b, amount |-> amount, collateral_amount |-> 0,
           principal_paid |-> 0, accrued_interest |-> 0, accrued_late_fee |-> 0,
           interest_rate_bps |-> rate, due_date |-> 0, last_interest_ledger |-> 0,
           last_late_fee_ledger |-> 0, status |-> "Pending",
           interest_residual |-> 0, extension_count |-> 0, term_ledgers |-> term]
  OBVIOUS
<1>4. /\ loans' = [i \in DOMAIN loans \cup {id} |-> IF i = id THEN new ELSE loans[i]]
      /\ balance' = balance
  BY <1>1, <1>2, <1>3 DEF RequestLoan
<1>5. id \notin DOMAIN loans
  BY <1>1 DEF LoanInv, LoansTyped
<1>6. PICK D, T, f, g : /\ D = DOMAIN loans /\ T = DOMAIN loans'
                        /\ f = OwedBy(loans) /\ g = OwedBy(loans')
  OBVIOUS
<1>7. T = D \cup {id} /\ D \in SUBSET T /\ loans'[id] = new /\ \A i \in D : loans'[i] = loans[i]
  BY <1>4, <1>5, <1>6
<1>8. (\A i \in D : f[i] = g[i]) /\ g[id] = 0
  BY <1>3, <1>6, <1>7 DEF OwedBy, Owed
<1>9. \A i \in T \ D : g[i] = 0
  BY <1>7, <1>8
<1>10. Total(f, D) = Total(g, T)
  BY <1>7, <1>8, <1>9, TotalSupport
<1>11. Total(f, D) \in Nat /\ balance[Pool] \in Int
  BY <1>6, PoolFacts
<1>12. PICK was \in Int : was = balance[Pool] + Total(f, D)
  BY <1>11
<1>13. PoolWorth = was /\ PoolWorth' = was
  BY <1>4, <1>6, <1>10, <1>12, WorthIs
<1> QED BY <1>13, Explained

LEMMA UntouchedLosses ==
    ASSUME LoanInv, LoanInv', loans' = loans, balance' = balance
    PROVE  LossesExplained
<1>1. PICK was \in Int : was = balance[Pool] + Total(OwedBy(loans), DOMAIN loans)
  <2>1. Total(OwedBy(loans), DOMAIN loans) \in Nat /\ balance[Pool] \in Int
    BY PoolFacts
  <2> QED BY <2>1
<1>2. PoolWorth = was /\ PoolWorth' = was
  BY <1>1, WorthIs
<1> QED BY <1>2, Explained

LEMMA LoanLosses ==
    ASSUME LoanInv, LoanInv', NEW id \in DOMAIN loans,
           \/ CancelLoan(id) \/ RejectLoan(id) \/ ApproveLoan(id)
           \/ ReleaseCollateral(id) \/ PurgeLoan(id) \/ CheckDefault(id)
           \/ \E n \in Amounts : Repay(id, n) \/ DepositCollateral(id, n)
           \/ \E a \in Liquidators \cup Borrowers : Liquidate(a, id)
           \/ \E n \in Amounts, t \in Terms, r \in OracleAnswers : RefinanceLoan(id, n, t, r)
           \/ \E n \in Extensions : ExtendLoan(id, n)
    PROVE  LossesExplained
<1>1. CASE CancelLoan(id)
  BY <1>1, SimpleLosses DEF CancelLoan
<1>2. CASE RejectLoan(id)
  BY <1>2, SimpleLosses DEF RejectLoan
<1>3. CASE ApproveLoan(id)
  BY <1>3, ApproveLosses
<1>4. CASE ReleaseCollateral(id)
  BY <1>4, SimpleLosses
<1>5. CASE PurgeLoan(id)
  BY <1>5, PurgeLosses
<1>6. CASE CheckDefault(id)
  <2>1. {id} \in SUBSET DOMAIN loans /\ (\A i \in {id} : loans[i].status = "Approved") /\ Default({id})
    BY <1>6 DEF CheckDefault, MayCheckDefault
  <2> QED BY <2>1, DefaultLosses
<1>7. ASSUME NEW n \in Amounts, Repay(id, n) PROVE LossesExplained
  BY <1>7, RepayLosses
<1>8. ASSUME NEW n \in Amounts, DepositCollateral(id, n) PROVE LossesExplained
  BY <1>8, SimpleLosses
<1>9. ASSUME NEW a \in Liquidators \cup Borrowers, Liquidate(a, id) PROVE LossesExplained
  BY <1>9, LiquidateLosses
<1>10. ASSUME NEW n \in Amounts, NEW t \in Terms, NEW r \in OracleAnswers,
              RefinanceLoan(id, n, t, r)
       PROVE  LossesExplained
  BY <1>10, RefinanceLosses
<1>11. ASSUME NEW n \in Extensions, ExtendLoan(id, n) PROVE LossesExplained
  BY <1>11, ExtendLosses
<1> QED BY <1>1, <1>2, <1>3, <1>4, <1>5, <1>6, <1>7, <1>8, <1>9, <1>10, <1>11, Zenon

LEMMA LossesStep == LoanInv /\ LoanInv' /\ [Next]_vars => LossesExplained
<1> SUFFICES ASSUME LoanInv, LoanInv', [Next]_vars PROVE LossesExplained
  OBVIOUS
<1>1. CASE RequestNext
  BY <1>1, RequestLosses DEF RequestNext
<1>2. CASE LoanNext
  BY <1>2, LoanLosses, Zenon DEF LoanNext
<1>3. CASE BatchNext
  <2>1. PICK ids \in SUBSET DOMAIN loans : CheckDefaults(ids)
    BY <1>3 DEF BatchNext
  <2>2. PICK past : past = {i \in ids : PastWindow(i)}
    OBVIOUS
  <2>3. past \in SUBSET DOMAIN loans /\ (\A i \in past : loans[i].status = "Approved") /\ Default(past)
    BY <2>1, <2>2 DEF CheckDefaults, PastWindow
  <2> QED BY <2>3, DefaultLosses
<1>4. ASSUME NEW a \in Admins, Initialize(a) PROVE LossesExplained
  <2>1. loans' = loans /\ balance' = balance
    BY <1>4 DEF Initialize
  <2> QED BY <2>1, UntouchedLosses
<1>5. CASE ConfigNext
  <2>1. loans' = loans /\ balance' = balance
    BY <1>5 DEF ConfigNext, SettingNext, Configure, SetRateOracle, SetLateFeeRate,
                SetLiquidationThreshold, SetLiquidationBonusBps, SetGracePeriodLedgers,
                SetDefaultWindowLedgers, SetMinScore, SetMaxLoanAmount, SetMinRepaymentAmount,
                SetMaxLoansPerBorrower, SetInterestRate, SetMinRateBps, SetMaxRateBps,
                SetDefaultTerm, SetMinTermLedgers, SetMaxTermLedgers, books
  <2> QED BY <2>1, UntouchedLosses
<1>6. CASE \/ CloseLedger \/ AdminNext \/ OutsideNext \/ UNCHANGED vars
  <2>1. loans' = loans /\ balance' = balance
    BY <1>6 DEF CloseLedger, AdminNext, OutsideNext, ProposeAdmin, AcceptAdmin, Pause, Unpause,
                NeighboursChange, ReputationChanges, vars, books
  <2> QED BY <2>1, UntouchedLosses
<1> QED
  BY <1>1, <1>2, <1>3, <1>4, <1>5, <1>6, Zenon DEF Next, LifecycleNext

(* For any borrowers, amounts, configurations and order of calls, a step   *)
(* lowers what the pool holds and has lent only where a loan ends, and by  *)
(* no more than the principal or debt its collateral does not cover, or    *)
(* the forgiven dust.                                                      *)
THEOREM PoolOnlyWritesOff == Spec => PoolLosesOnlyWriteOffs
<1>1. LoanInv /\ LoanInv' /\ [Next]_vars => [LossesExplained]_vars
  BY LossesStep
<1> QED BY <1>1, LoanInvariant, LoanInvStep, PTL DEF Spec, PoolLosesOnlyWriteOffs
==============================================================================
