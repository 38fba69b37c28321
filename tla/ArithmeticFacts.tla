---------------------------- MODULE ArithmeticFacts ---------------------------
(***************************************************************************)
(* Facts the component proofs cite.  About Total: it is a natural number,  *)
(* it bounds each part, it is zero when every part is, and changing one    *)
(* part changes it by the difference.  About integer division: the         *)
(* quotient is the greatest integer whose multiple fits the dividend.      *)
(* About the naturals: induction, with a set in the place of a predicate,  *)
(* and with it the increasing enumeration of a finite set of numbers and   *)
(* the existence of a function defined by recursion.                       *)
(* About lists: what is left of one without an entry.                      *)
(***************************************************************************)
EXTENDS Aggregates, Functions, FiniteSetTheorems, WellFoundedInduction, TLAPS

(* The units of one account are finite and as many as its quantity.        *)
LEMMA OneAccountUnits ==
    ASSUME NEW a, NEW n \in Nat
    PROVE  /\ IsFiniteSet({a} \X (1..n))
           /\ Cardinality({a} \X (1..n)) = n
<1>1. IsFiniteSet({a}) /\ Cardinality({a}) = 1
  BY FS_Singleton
<1>2. IsFiniteSet(1..n) /\ Cardinality(1..n) = n
  BY FS_Interval
<1>3. /\ IsFiniteSet({a} \X (1..n))
      /\ Cardinality({a} \X (1..n)) = Cardinality({a}) * Cardinality(1..n)
  BY <1>1, <1>2, FS_Product
<1>4. 1 * n = n
  OBVIOUS
<1> QED
  BY <1>1, <1>2, <1>3, <1>4

(* Finitely many accounts hold finitely many units.                        *)
LEMMA UnitsFinite ==
    ASSUME NEW S, IsFiniteSet(S), NEW f \in [S -> Nat]
    PROVE  IsFiniteSet(UnitsOf(f, S))
<1> DEFINE U == {{a} \X (1..f[a]) : a \in S}
           g == [a \in S |-> {a} \X (1..f[a])]
<1>1. g \in Surjection(S, U)
  BY DEF Surjection
<1>2. IsFiniteSet(U)
  BY <1>1, FS_Surjection
<1>3. ASSUME NEW T \in U PROVE IsFiniteSet(T)
  <2>1. PICK a \in S : T = {a} \X (1..f[a])
    OBVIOUS
  <2>2. f[a] \in Nat
    OBVIOUS
  <2> QED BY <2>1, <2>2, OneAccountUnits
<1> HIDE DEF U
<1>4. IsFiniteSet(UNION U)
  BY <1>2, <1>3, FS_UNION
<1> QED
  BY <1>4 DEF U, UnitsOf

(* A total is a natural number.                                            *)
LEMMA TotalNat ==
    ASSUME NEW S, IsFiniteSet(S), NEW f \in [S -> Nat]
    PROVE  Total(f, S) \in Nat
BY UnitsFinite, FS_CardinalityType DEF Total

(* Taking account x apart: its units and the units of the others.          *)
LEMMA TotalSplit ==
    ASSUME NEW S, IsFiniteSet(S), NEW f \in [S -> Nat], NEW x \in S
    PROVE  Total(f, S) = Total(f, S \ {x}) + f[x]
<1> DEFINE A == UnitsOf(f, S \ {x})
           B == {x} \X (1..f[x])
<1>1. UnitsOf(f, S) = A \cup B
  BY DEF UnitsOf
<1>2. A \cap B = {}
  BY DEF UnitsOf
<1>3. IsFiniteSet(UnitsOf(f, S))
  BY UnitsFinite
<1>4. A \subseteq UnitsOf(f, S)
  BY <1>1
<1>5. IsFiniteSet(A) /\ Cardinality(A) \in Nat
  BY <1>3, <1>4, FS_Subset, FS_CardinalityType
<1>6. IsFiniteSet(B) /\ Cardinality(B) = f[x]
  BY OneAccountUnits
<1> HIDE DEF A, B
<1>7. Cardinality(A \cup B) = Cardinality(A) + Cardinality(B) - Cardinality(A \cap B)
  BY <1>5, <1>6, FS_Union
<1>8. Cardinality(A \cap B) = 0
  BY <1>2, FS_EmptySet
<1> QED
  BY <1>1, <1>5, <1>6, <1>7, <1>8 DEF A, Total

(* No part exceeds the total.                                              *)
LEMMA TotalBoundsPart ==
    ASSUME NEW S, IsFiniteSet(S), NEW f \in [S -> Nat], NEW x \in S
    PROVE  f[x] <= Total(f, S)
<1>1. f \in [S -> Nat] /\ [a \in S \ {x} |-> f[a]] \in [S \ {x} -> Nat]
  OBVIOUS
<1>2. UnitsOf(f, S \ {x}) = UnitsOf([a \in S \ {x} |-> f[a]], S \ {x})
  BY DEF UnitsOf
<1>3. IsFiniteSet(S \ {x})
  BY FS_Subset
<1>4. Total(f, S \ {x}) \in Nat
  BY <1>1, <1>2, <1>3, TotalNat DEF Total
<1> QED
  BY <1>4, TotalSplit

(* Writing the entry of x alone moves the total by the difference.         *)
LEMMA TotalUpdate ==
    ASSUME NEW S, IsFiniteSet(S), NEW f \in [S -> Nat], NEW x \in S,
           NEW g \in [S -> Nat], \A a \in S \ {x} : g[a] = f[a]
    PROVE  Total(g, S) = Total(f, S) - f[x] + g[x]
<1>1. g[x] \in Nat /\ f[x] \in Nat
  OBVIOUS
<1>2. UnitsOf(g, S \ {x}) = UnitsOf(f, S \ {x})
  BY DEF UnitsOf
<1>3. Total(g, S) = Total(g, S \ {x}) + g[x]
  BY TotalSplit
<1>4. Total(f, S) = Total(f, S \ {x}) + f[x]
  BY TotalSplit
<1>5. Total(g, S \ {x}) = Total(f, S \ {x})
  BY <1>2 DEF Total
<1>6. Total(f, S) \in Nat /\ Total(g, S) \in Nat
  BY <1>1, TotalNat
<1>7. Total(f, S \ {x}) \in Int
  <2>1. UnitsOf(f, S \ {x}) \subseteq UnitsOf(f, S)
    BY DEF UnitsOf
  <2>2. IsFiniteSet(UnitsOf(f, S))
    BY UnitsFinite
  <2>3. IsFiniteSet(UnitsOf(f, S \ {x}))
    BY <2>1, <2>2, FS_Subset
  <2> QED BY <2>3, FS_CardinalityType DEF Total
<1> QED
  BY <1>1, <1>3, <1>4, <1>5, <1>6, <1>7

(* Nothing held, nothing in total.                                         *)
LEMMA TotalZero ==
    ASSUME NEW S, NEW f, \A a \in S : f[a] = 0
    PROVE  Total(f, S) = 0
<1>1. UnitsOf(f, S) = {}
  BY DEF UnitsOf
<1> QED BY <1>1, FS_EmptySet DEF Total

------------------------------------------------------------------------------
(* A larger factor gives a larger product.                                 *)
LEMMA ProductMonotone ==
    ASSUME NEW k \in Nat, NEW a \in Int, NEW b \in Int, a <= b
    PROVE  k * a <= k * b /\ a * k <= b * k
OBVIOUS

(* A positive factor cancels from an inequality.                           *)
LEMMA ProductCancel ==
    ASSUME NEW d \in Nat \ {0}, NEW a \in Int, NEW b \in Int
    PROVE  /\ d * a <= d * b => a <= b
           /\ d * a <  d * b => a < b
<1>1. ASSUME a > b PROVE d * a > d * b
  <2>1. a - b \in Nat \ {0}
    BY <1>1
  <2>2. d * (a - b) > 0
    BY <2>1
  <2>3. d * (a - b) = d * a - d * b
    OBVIOUS
  <2> QED BY <2>2, <2>3
<1>2. a = b => d * a = d * b
  OBVIOUS
<1> QED
  BY <1>1, <1>2

(* Truncating division of a natural number by a positive one.              *)
LEMMA QuotientBounds ==
    ASSUME NEW n \in Nat, NEW d \in Nat \ {0}
    PROVE  /\ n \div d \in Nat
           /\ d * (n \div d) <= n
           /\ n < d * (n \div d) + d
OBVIOUS

(* The quotient is the greatest integer whose multiple fits the dividend.  *)
LEMMA QuotientGreatest ==
    ASSUME NEW n \in Nat, NEW d \in Nat \ {0}, NEW q \in Int, d * q <= n
    PROVE  q <= n \div d
<1> DEFINE m == n \div d
<1>1. m \in Nat /\ n < d * m + d
  BY QuotientBounds
<1> HIDE DEF m
<1>2. d * (m + 1) = d * m + d
  BY <1>1
<1>3. d * q < d * (m + 1)
  BY <1>1, <1>2
<1>4. q < m + 1
  BY <1>1, <1>3, ProductCancel
<1> QED
  BY <1>1, <1>4 DEF m

(* The quotient is the least one whose next multiple exceeds the dividend. *)
LEMMA QuotientLeast ==
    ASSUME NEW n \in Nat, NEW d \in Nat \ {0}, NEW q \in Int, n <= d * q
    PROVE  n \div d <= q
<1> DEFINE m == n \div d
<1>1. m \in Nat /\ d * m <= n
  BY QuotientBounds
<1> HIDE DEF m
<1>2. d * m <= d * q
  BY <1>1
<1> QED
  BY <1>1, <1>2, ProductCancel DEF m

(* Quotient and remainder.                                                 *)
LEMMA DivisionSplits ==
    ASSUME NEW n \in Nat, NEW d \in Nat \ {0}
    PROVE  n % d \in Nat /\ n = d * (n \div d) + (n % d)
<1>1. n = d * (n \div d) + (n % d)
  OBVIOUS
<1>2. n % d \in Nat
  OBVIOUS
<1> QED BY <1>1, <1>2

(* Only the quotient has the dividend between its multiple and the next.   *)
LEMMA QuotientUnique ==
    ASSUME NEW n \in Nat, NEW d \in Nat \ {0}, NEW q \in Nat, d * q <= n, n < d * q + d
    PROVE  n \div d = q
<1>1. PICK m \in Nat : m = n \div d
  BY QuotientBounds
<1>2. q <= m
  BY <1>1, QuotientGreatest
<1>3. d * m <= n
  BY <1>1, QuotientBounds
<1>4. d * (q + 1) = d * q + d /\ d * m \in Int /\ d * q \in Int
  BY <1>1
<1>5. d * m < d * (q + 1)
  BY <1>3, <1>4
<1>6. m < q + 1
  BY <1>1, <1>5, ProductCancel
<1> QED BY <1>1, <1>2, <1>6

(* Dividing in two parts loses at most one unit.                           *)
LEMMA QuotientSum ==
    ASSUME NEW n \in Nat, NEW m \in Nat, NEW d \in Nat \ {0}
    PROVE  (n + m) \div d \in {n \div d + m \div d, n \div d + m \div d + 1}
<1>1. PICK a \in Nat, b \in Nat, q \in Nat : a = n \div d /\ b = m \div d /\ q = (n + m) \div d
  <2>1. n + m \in Nat
    OBVIOUS
  <2> QED BY <2>1, QuotientBounds
<1>2. d * a <= n /\ n < d * a + d /\ d * b <= m /\ m < d * b + d
  BY <1>1, QuotientBounds
<1>3. d * q <= n + m
  <2>1. n + m \in Nat
    OBVIOUS
  <2> QED BY <1>1, <2>1, QuotientBounds
<1>4. d * (a + b) = d * a + d * b /\ d * (a + b + 2) = d * a + d * b + 2 * d
  BY <1>1
<1>5. d * a \in Int /\ d * b \in Int /\ d * q \in Int
  BY <1>1
<1>6. d * (a + b) <= n + m /\ d * q < d * (a + b + 2)
  BY <1>2, <1>3, <1>4, <1>5
<1>7. a + b <= q
  BY <1>1, <1>6, QuotientGreatest
<1>8. q < a + b + 2
  BY <1>1, <1>6, ProductCancel
<1> QED BY <1>1, <1>7, <1>8

(* One more in the dividend is at most one more in the quotient.           *)
LEMMA QuotientNext ==
    ASSUME NEW n \in Nat, NEW d \in Nat \ {0}
    PROVE  (n + 1) \div d \in {n \div d, n \div d + 1}
<1>1. PICK a \in Nat, q \in Nat : a = n \div d /\ q = (n + 1) \div d
  <2>1. n + 1 \in Nat
    OBVIOUS
  <2> QED BY <2>1, QuotientBounds
<1>2. d * a <= n /\ n < d * a + d /\ d * a \in Int
  BY <1>1, QuotientBounds
<1>3. d * (a + 1) = d * a + d
  BY <1>1
<1>4. d * a <= n + 1 /\ n + 1 <= d * (a + 1)
  BY <1>2, <1>3
<1>5. a <= q
  BY <1>1, <1>4, QuotientGreatest
<1>6. q <= a + 1
  BY <1>1, <1>4, QuotientLeast
<1> QED BY <1>1, <1>5, <1>6

------------------------------------------------------------------------------
(* Every set of naturals has a least element.                              *)
LEMMA LeastNatural ==
    ASSUME NEW S \in SUBSET Nat, S # {}
    PROVE  \E n \in S : \A m \in S : n <= m
<1>1. IsWellFoundedOn(OpToRel(<, Nat), Nat)
  BY NatLessThanWellFounded
<1>2. PICK n \in S : \A m \in S : ~(<<m, n>> \in OpToRel(<, Nat))
  BY <1>1, WFMin, Zenon
<1>3. \A m \in S : ~(m < n)
  BY <1>2 DEF OpToRel
<1> QED BY <1>3

(* Induction: a set that has 0 and the successor of each natural in it has *)
(* them all.                                                               *)
LEMMA SetInduction ==
    ASSUME NEW S, 0 \in S, \A n \in Nat : n \in S => n + 1 \in S
    PROVE  Nat \subseteq S
<1> DEFINE Missing == {n \in Nat : n \notin S}
<1> SUFFICES ASSUME Missing # {} PROVE FALSE
  OBVIOUS
<1>1. PICK n \in Missing : \A m \in Missing : n <= m
  BY LeastNatural
<1>2. n # 0 /\ n - 1 \in Nat
  BY <1>1
<1>3. n - 1 \in S
  BY <1>1, <1>2
<1> QED BY <1>1, <1>2, <1>3

(* The greatest element of a bounded set of naturals.                      *)
LEMMA GreatestNatural ==
    ASSUME NEW bound \in Nat, NEW S \in SUBSET (0 .. bound), S # {}
    PROVE  \E n \in S : \A m \in S : m <= n
<1> DEFINE Bounds == {b \in Nat : \A m \in S : m <= b}
<1>1. bound \in Bounds
  OBVIOUS
<1>2. PICK b \in Bounds : \A c \in Bounds : b <= c
  BY <1>1, LeastNatural
<1>3. b \in S
  <2>1. SUFFICES ASSUME b \notin S PROVE FALSE
    OBVIOUS
  <2>2. PICK m \in S : TRUE
    OBVIOUS
  <2>3. \A k \in S : k \in Nat /\ k <= b /\ k # b
    BY <1>2, <2>1
  <2>4. b - 1 \in Nat
    <3>1. b \in Nat /\ m <= b /\ m # b
      BY <1>2, <2>2, <2>3
    <3>2. m \in Nat
      BY <2>2, <2>3
    <3> QED BY <3>1, <3>2
  <2>5. b - 1 \in Bounds
    BY <1>2, <2>3, <2>4
  <2> QED BY <1>2, <2>5
<1> QED BY <1>2, <1>3

(* The numbers of a finite set can be put in order.                        *)
LEMMA NumbersInOrder ==
    ASSUME NEW bound \in Nat, NEW S \in SUBSET (0 .. bound)
    PROVE  Increasing(Cardinality(S), S) # {}
<1> DEFINE Sizes == {n \in Nat : \A T \in SUBSET (0 .. bound) :
                         Cardinality(T) = n => Increasing(n, T) # {}}
<1>0. ASSUME NEW T \in SUBSET (0 .. bound)
      PROVE  IsFiniteSet(T) /\ Cardinality(T) \in Nat
  <2>1. IsFiniteSet(0 .. bound)
    BY FS_Interval
  <2> QED BY <2>1, FS_Subset, FS_CardinalityType
<1>1. 0 \in Sizes
  <2> SUFFICES ASSUME NEW T \in SUBSET (0 .. bound) PROVE Increasing(0, T) # {}
    OBVIOUS
  <2>1. [i \in 1 .. 0 |-> i] \in Increasing(0, T)
    BY DEF Increasing
  <2> QED BY <2>1
<1>2. ASSUME NEW n \in Nat, n \in Sizes PROVE n + 1 \in Sizes
  <2> SUFFICES ASSUME NEW T \in SUBSET (0 .. bound), Cardinality(T) = n + 1
               PROVE  Increasing(n + 1, T) # {}
    OBVIOUS
  <2>1. T # {}
    BY FS_EmptySet
  <2>2. PICK top \in T : \A m \in T : m <= top
    BY <2>1, GreatestNatural
  <2>3. Cardinality(T \ {top}) = n
    BY <1>0, <2>2, FS_RemoveElement
  <2>4. PICK f \in Increasing(n, T \ {top}) : TRUE
    BY <1>2, <2>3
  <2> DEFINE g == [i \in 1 .. n + 1 |-> IF i = n + 1 THEN top ELSE f[i]]
  <2>5. \A i \in 1 .. n : f[i] \in T /\ f[i] < top
    <3> SUFFICES ASSUME NEW i \in 1 .. n PROVE f[i] \in T /\ f[i] < top
      OBVIOUS
    <3>1. f[i] \in T \ {top}
      BY <2>4 DEF Increasing
    <3>2. T \subseteq Nat
      OBVIOUS
    <3>3. f[i] \in Nat /\ top \in Nat /\ f[i] <= top /\ f[i] # top
      BY <2>2, <3>1, <3>2
    <3> QED BY <3>1, <3>3
  <2>6. g \in [1 .. n + 1 -> T]
    BY <2>2, <2>5
  <2>7. \A i, j \in 1 .. n + 1 : i < j => g[i] < g[j]
    <3> SUFFICES ASSUME NEW i \in 1 .. n + 1, NEW j \in 1 .. n + 1, i < j PROVE g[i] < g[j]
      OBVIOUS
    <3>1. i \in 1 .. n /\ g[i] = f[i]
      OBVIOUS
    <3>2. CASE j = n + 1
      BY <2>5, <3>1, <3>2
    <3>3. CASE j # n + 1
      BY <2>4, <3>1, <3>3 DEF Increasing
    <3> QED BY <3>2, <3>3
  <2> QED BY <2>6, <2>7 DEF Increasing
<1> HIDE DEF Sizes
<1>3. Nat \subseteq Sizes
  BY <1>1, <1>2, SetInduction
<1> QED BY <1>0, <1>3 DEF Sizes

------------------------------------------------------------------------------
(* Taking one account apart from some of the accounts.                     *)
LEMMA TotalSplitWithin ==
    ASSUME NEW S, IsFiniteSet(S), NEW f \in [S -> Nat], NEW T \in SUBSET S, NEW x \in T
    PROVE  /\ Total(f, T) = Total(f, T \ {x}) + f[x]
           /\ Total(f, T \ {x}) \in Nat
<1> DEFINE g == [a \in T |-> f[a]]
           h == [a \in T \ {x} |-> f[a]]
<1>1. IsFiniteSet(T) /\ IsFiniteSet(T \ {x})
  BY FS_Subset
<1>2. g \in [T -> Nat] /\ h \in [T \ {x} -> Nat] /\ g[x] = f[x]
  OBVIOUS
<1>3. /\ UnitsOf(g, T) = UnitsOf(f, T)
      /\ UnitsOf(g, T \ {x}) = UnitsOf(f, T \ {x})
      /\ UnitsOf(h, T \ {x}) = UnitsOf(f, T \ {x})
  BY DEF UnitsOf
<1> HIDE DEF g, h
<1>4. Total(g, T) = Total(g, T \ {x}) + g[x]
  BY <1>1, <1>2, TotalSplit
<1>5. Total(h, T \ {x}) \in Nat
  BY <1>1, <1>2, TotalNat
<1> QED BY <1>2, <1>3, <1>4, <1>5 DEF Total

(* A bound on every part in proportion is a bound on the total.            *)
LEMMA TotalScaled ==
    ASSUME NEW S, IsFiniteSet(S), NEW f \in [S -> Nat], NEW g \in [S -> Nat],
           NEW d \in Nat, NEW k \in Nat, \A a \in S : d * g[a] <= k * f[a]
    PROVE  d * Total(g, S) <= k * Total(f, S)
<1> DEFINE Sizes == {n \in Nat : \A T \in SUBSET S :
                         Cardinality(T) = n => d * Total(g, T) <= k * Total(f, T)}
<1>0. ASSUME NEW T \in SUBSET S PROVE IsFiniteSet(T) /\ Cardinality(T) \in Nat
  BY FS_Subset, FS_CardinalityType
<1>1. 0 \in Sizes
  <2> SUFFICES ASSUME NEW T \in SUBSET S, Cardinality(T) = 0
               PROVE  d * Total(g, T) <= k * Total(f, T)
    OBVIOUS
  <2>1. T = {}
    BY <1>0, FS_EmptySet
  <2>2. Total(g, T) = 0 /\ Total(f, T) = 0
    BY <2>1, TotalZero
  <2> QED BY <2>2
<1>2. ASSUME NEW n \in Nat, n \in Sizes PROVE n + 1 \in Sizes
  <2> SUFFICES ASSUME NEW T \in SUBSET S, Cardinality(T) = n + 1
               PROVE  d * Total(g, T) <= k * Total(f, T)
    OBVIOUS
  <2>1. PICK x \in T : TRUE
    <3>1. T # {}
      BY FS_EmptySet
    <3> QED BY <3>1
  <2>2. Cardinality(T \ {x}) = n
    BY <1>0, <2>1, FS_RemoveElement
  <2> DEFINE restG == Total(g, T \ {x})
             restF == Total(f, T \ {x})
  <2>3. d * restG <= k * restF
    BY <1>2, <2>2
  <2>4. /\ Total(g, T) = restG + g[x] /\ restG \in Nat
        /\ Total(f, T) = restF + f[x] /\ restF \in Nat
    BY <2>1, TotalSplitWithin
  <2>5. g[x] \in Nat /\ f[x] \in Nat /\ d * g[x] <= k * f[x]
    BY <2>1
  <2> HIDE DEF restG, restF
  <2>6. d * (restG + g[x]) = d * restG + d * g[x] /\ k * (restF + f[x]) = k * restF + k * f[x]
    BY <2>4, <2>5
  <2>7. d * restG \in Int /\ d * g[x] \in Int /\ k * restF \in Int /\ k * f[x] \in Int
    BY <2>4, <2>5
  <2>8. d * restG + d * g[x] <= k * restF + k * f[x]
    BY <2>3, <2>5, <2>7
  <2> QED BY <2>4, <2>6, <2>8
<1> HIDE DEF Sizes
<1>3. Nat \subseteq Sizes
  BY <1>1, <1>2, SetInduction
<1> QED BY <1>0, <1>3 DEF Sizes
------------------------------------------------------------------------------
(* Copying the other entries of a list leaves out x and nothing else, and  *)
(* a list that has no repetitions, or is in order, stays so.               *)
NoRepeats(list) == \A i, j \in DOMAIN list : list[i] = list[j] => i = j

LEMMA WithoutFacts ==
    ASSUME NEW S, NEW list \in Seq(S), NEW x
    PROVE  /\ Without(list, x) \in Seq(S)
           /\ Entries(Without(list, x)) = Entries(list) \ {x}
           /\ NoRepeats(list) => NoRepeats(Without(list, x))
           /\ Ascending(list) => Ascending(Without(list, x))
           /\ Len(Without(list, x)) <= Len(list)
<1> DEFINE kept == {i \in DOMAIN list : list[i] # x}
           nth  == CHOOSE f \in Increasing(Cardinality(kept), kept) : TRUE
<1>1. PICK m \in Nat : m = Len(list) /\ DOMAIN list = 1 .. m /\ \A i \in 1 .. m : list[i] \in S
  OBVIOUS
<1>2. kept \in SUBSET (0 .. m) /\ kept \in SUBSET (1 .. m)
  BY <1>1
<1>3. \A i : i \in kept <=> i \in 1 .. m /\ list[i] # x
  BY <1>1
<1>4. Without(list, x) = [n \in 1 .. Cardinality(kept) |-> list[nth[n]]]
  BY Zenon DEF Without
<1> HIDE DEF kept
<1>5. nth \in Increasing(Cardinality(kept), kept)
  <2>1. Increasing(Cardinality(kept), kept) # {}
    BY <1>1, <1>2, NumbersInOrder
  <2> QED BY <2>1, Zenon
<1>6. IsFiniteSet(1 .. m) /\ Cardinality(1 .. m) = m
  BY FS_Interval
<1>7. IsFiniteSet(kept) /\ Cardinality(kept) <= m
  BY <1>2, <1>6, FS_Subset
<1>8. PICK c \in Nat : c = Cardinality(kept)
  BY <1>7, FS_CardinalityType
<1> HIDE DEF nth
<1>9. /\ nth \in [1 .. c -> kept]
      /\ \A i, j \in 1 .. c : i < j => nth[i] < nth[j]
  BY <1>5, <1>8 DEF Increasing
<1>10. \A i, j \in 1 .. c : nth[i] = nth[j] => i = j
  <2>1. \A i \in 1 .. c : nth[i] \in Int
    <3>1. \A i \in kept : i \in Int
      BY <1>3
    <3> QED BY <1>9, <3>1
  <2> QED BY <1>9, <2>1
<1>11. nth \in Surjection(1 .. c, kept)
  <2>1. IsFiniteSet(1 .. c) /\ Cardinality(1 .. c) = c
    BY <1>8, FS_Interval
  <2>2. nth \in Injection(1 .. c, kept)
    BY <1>9, <1>10 DEF Injection, IsInjective
  <2> QED BY <1>7, <1>8, <2>1, <2>2, FS_Injection
<1>12. \A i \in kept : \E n \in 1 .. c : nth[n] = i
  BY <1>11 DEF Surjection
<1>13. PICK w : w = Without(list, x)
  OBVIOUS
<1>14. w = [n \in 1 .. c |-> list[nth[n]]]
  BY <1>4, <1>8, <1>13
<1>15. w \in Seq(S) /\ Len(w) = c /\ DOMAIN w = 1 .. c /\ \A n \in 1 .. c : w[n] = list[nth[n]]
  <2>1. \A n \in 1 .. c : list[nth[n]] \in S
    BY <1>1, <1>3, <1>9
  <2> QED BY <1>14, <2>1
<1>16. Entries(w) = Entries(list) \ {x}
  <2>1. ASSUME NEW n \in 1 .. c PROVE w[n] \in Entries(list) \ {x}
    BY <1>1, <1>3, <1>9, <1>15 DEF Entries
  <2>2. ASSUME NEW i \in 1 .. m, list[i] # x PROVE list[i] \in Entries(w)
    <3>1. PICK n \in 1 .. c : nth[n] = i
      BY <1>3, <1>12, <2>2
    <3> QED BY <1>15, <3>1 DEF Entries
  <2> QED BY <1>1, <1>15, <2>1, <2>2 DEF Entries
<1>17. NoRepeats(list) => NoRepeats(w)
  BY <1>1, <1>3, <1>9, <1>10, <1>15 DEF NoRepeats
<1>18. Ascending(list) => Ascending(w)
  <2>1. \A i \in 1 .. c : nth[i] \in 1 .. m
    BY <1>3, <1>9
  <2> QED BY <1>1, <1>9, <1>15, <2>1 DEF Ascending
<1> QED BY <1>1, <1>7, <1>8, <1>13, <1>15, <1>16, <1>17, <1>18

(* A list without repetitions is as long as the set of its entries.        *)
LEMMA LengthCounts ==
    ASSUME NEW S, NEW list \in Seq(S), NoRepeats(list)
    PROVE  IsFiniteSet(Entries(list)) /\ Cardinality(Entries(list)) = Len(list)
<1>1. PICK m \in Nat : m = Len(list) /\ DOMAIN list = 1 .. m
  OBVIOUS
<1>2. IsFiniteSet(1 .. m) /\ Cardinality(1 .. m) = m
  BY FS_Interval
<1>3. list \in Bijection(1 .. m, Entries(list))
  BY <1>1 DEF Entries, NoRepeats, Bijection, Injection, Surjection, IsInjective
<1>4. ExistsBijection(1 .. m, Entries(list))
  BY <1>3 DEF ExistsBijection
<1> QED BY <1>1, <1>2, <1>4, FS_Bijection

------------------------------------------------------------------------------
(* A new greatest entry at the end of a list.                              *)
LEMMA AppendFacts ==
    ASSUME NEW list \in Seq(Int), NEW x \in Int
    PROVE  /\ Append(list, x) \in Seq(Int)
           /\ Entries(Append(list, x)) = Entries(list) \cup {x}
           /\ Ascending(list) /\ (\A y \in Entries(list) : y < x) => Ascending(Append(list, x))
<1>1. PICK m \in Nat : m = Len(list) /\ DOMAIN list = 1 .. m /\ \A i \in 1 .. m : list[i] \in Int
  OBVIOUS
<1>2. PICK w : w = Append(list, x)
  OBVIOUS
<1>3. /\ w \in Seq(Int) /\ DOMAIN w = 1 .. m + 1 /\ w[m + 1] = x
      /\ \A i \in 1 .. m : w[i] = list[i]
  BY <1>1, <1>2
<1>4. Entries(w) = Entries(list) \cup {x}
  <2>1. \A i \in 1 .. m + 1 : i \in 1 .. m \/ i = m + 1
    BY <1>1
  <2>2. \A i \in 1 .. m : i \in 1 .. m + 1
    BY <1>1
  <2>3. m + 1 \in 1 .. m + 1
    BY <1>1
  <2> QED BY <1>1, <1>3, <2>1, <2>2, <2>3 DEF Entries
<1>5. ASSUME Ascending(list), \A y \in Entries(list) : y < x PROVE Ascending(w)
  <2> SUFFICES ASSUME NEW i \in 1 .. m + 1, NEW j \in 1 .. m + 1, i < j PROVE w[i] < w[j]
    BY <1>3 DEF Ascending
  <2>1. i \in 1 .. m /\ w[i] = list[i]
    BY <1>1, <1>3
  <2>2. CASE j = m + 1
    BY <1>1, <1>3, <1>5, <2>1, <2>2 DEF Entries
  <2>3. CASE j # m + 1
    <3>1. j \in 1 .. m /\ w[j] = list[j]
      BY <1>1, <1>3, <2>3, SMTT(30)
    <3>2. list[i] < list[j]
      BY <1>1, <1>5, <2>1, <3>1 DEF Ascending
    <3> QED BY <2>1, <3>1, <3>2
  <2> QED BY <2>2, <2>3
<1> QED BY <1>2, <1>3, <1>4, <1>5

------------------------------------------------------------------------------
(* Accounts that hold nothing may be left out of a total.                  *)
LEMMA TotalSupport ==
    ASSUME NEW S, NEW T \in SUBSET S, NEW f, NEW g,
           \A a \in T : f[a] = g[a], \A a \in S \ T : g[a] = 0
    PROVE  Total(f, T) = Total(g, S)
<1>1. \A a \in S \ T : 1..g[a] = {}
  OBVIOUS
<1>2. UnitsOf(g, S) = UnitsOf(g, T)
  BY <1>1 DEF UnitsOf
<1>3. UnitsOf(f, T) = UnitsOf(g, T)
  BY DEF UnitsOf
<1> QED BY <1>2, <1>3 DEF Total

(* Some of the accounts and the others.                                    *)
LEMMA TotalParts ==
    ASSUME NEW S, IsFiniteSet(S), NEW f \in [S -> Nat], NEW T \in SUBSET S
    PROVE  Total(f, S) = Total(f, S \ T) + Total(f, T)
<1> DEFINE A == UnitsOf(f, S \ T)
           B == UnitsOf(f, T)
<1>1. UnitsOf(f, S) = A \cup B
  BY DEF UnitsOf
<1>2. A \cap B = {}
  BY DEF UnitsOf
<1>3. IsFiniteSet(UnitsOf(f, S))
  BY UnitsFinite
<1>4. IsFiniteSet(A) /\ IsFiniteSet(B)
  BY <1>1, <1>3, FS_Subset
<1> HIDE DEF A, B
<1>5. Cardinality(A) \in Nat /\ Cardinality(B) \in Nat
  BY <1>4, FS_CardinalityType
<1>6. Cardinality(A \cup B) = Cardinality(A) + Cardinality(B) - Cardinality(A \cap B)
  BY <1>4, FS_Union
<1>7. Cardinality(A \cap B) = 0
  BY <1>2, FS_EmptySet
<1> QED BY <1>1, <1>5, <1>6, <1>7 DEF A, B, Total

(* A quantity that two others cover account by account is covered in sum.  *)
LEMMA TotalCovered ==
    ASSUME NEW S, IsFiniteSet(S), NEW h \in [S -> Nat], NEW f \in [S -> Nat], NEW g \in [S -> Nat],
           \A a \in S : h[a] <= f[a] + g[a]
    PROVE  Total(h, S) <= Total(f, S) + Total(g, S)
<1> DEFINE Sizes == {n \in Nat : \A T \in SUBSET S :
                         Cardinality(T) = n => Total(h, T) <= Total(f, T) + Total(g, T)}
<1>0. ASSUME NEW T \in SUBSET S PROVE IsFiniteSet(T) /\ Cardinality(T) \in Nat
  BY FS_Subset, FS_CardinalityType
<1>1. 0 \in Sizes
  <2> SUFFICES ASSUME NEW T \in SUBSET S, Cardinality(T) = 0
               PROVE  Total(h, T) <= Total(f, T) + Total(g, T)
    OBVIOUS
  <2>1. T = {}
    BY <1>0, FS_EmptySet
  <2>2. Total(h, T) = 0 /\ Total(f, T) = 0 /\ Total(g, T) = 0
    BY <2>1, TotalZero
  <2> QED BY <2>2
<1>2. ASSUME NEW n \in Nat, n \in Sizes PROVE n + 1 \in Sizes
  <2> SUFFICES ASSUME NEW T \in SUBSET S, Cardinality(T) = n + 1
               PROVE  Total(h, T) <= Total(f, T) + Total(g, T)
    OBVIOUS
  <2>1. PICK x \in T : TRUE
    <3>1. Cardinality({}) = 0
      BY FS_EmptySet
    <3>2. T # {}
      BY <3>1
    <3> QED BY <3>2
  <2>2. Cardinality(T \ {x}) = n
    BY <1>0, <2>1, FS_RemoveElement
  <2> DEFINE restH == Total(h, T \ {x})
             restF == Total(f, T \ {x})
             restG == Total(g, T \ {x})
  <2>3. restH <= restF + restG
    BY <1>2, <2>2
  <2>4. /\ Total(h, T) = restH + h[x] /\ restH \in Nat
        /\ Total(f, T) = restF + f[x] /\ restF \in Nat
        /\ Total(g, T) = restG + g[x] /\ restG \in Nat
    BY <2>1, TotalSplitWithin, ZenonT(40)
  <2>5. h[x] \in Nat /\ f[x] \in Nat /\ g[x] \in Nat /\ h[x] <= f[x] + g[x]
    BY <2>1
  <2> HIDE DEF restH, restF, restG
  <2> QED BY <2>3, <2>4, <2>5
<1> HIDE DEF Sizes
<1>3. Nat \subseteq Sizes
  BY <1>1, <1>2, SetInduction
<1> QED BY <1>0, <1>3 DEF Sizes

(* A quantity that is the sum of two others account by account is so in    *)
(* total.                                                                  *)
LEMMA TotalOfSums ==
    ASSUME NEW S, IsFiniteSet(S), NEW h \in [S -> Nat], NEW f \in [S -> Nat], NEW g \in [S -> Nat],
           \A a \in S : h[a] = f[a] + g[a]
    PROVE  Total(h, S) = Total(f, S) + Total(g, S)
<1> DEFINE Sizes == {n \in Nat : \A T \in SUBSET S :
                         Cardinality(T) = n => Total(h, T) = Total(f, T) + Total(g, T)}
<1>0. ASSUME NEW T \in SUBSET S PROVE IsFiniteSet(T) /\ Cardinality(T) \in Nat
  BY FS_Subset, FS_CardinalityType
<1>1. 0 \in Sizes
  <2> SUFFICES ASSUME NEW T \in SUBSET S, Cardinality(T) = 0
               PROVE  Total(h, T) = Total(f, T) + Total(g, T)
    OBVIOUS
  <2>1. T = {}
    BY <1>0, FS_EmptySet
  <2>2. Total(h, T) = 0 /\ Total(f, T) = 0 /\ Total(g, T) = 0
    BY <2>1, TotalZero
  <2> QED BY <2>2
<1>2. ASSUME NEW n \in Nat, n \in Sizes PROVE n + 1 \in Sizes
  <2> SUFFICES ASSUME NEW T \in SUBSET S, Cardinality(T) = n + 1
               PROVE  Total(h, T) = Total(f, T) + Total(g, T)
    OBVIOUS
  <2>1. PICK x \in T : TRUE
    <3>1. Cardinality({}) = 0
      BY FS_EmptySet
    <3>2. T # {}
      BY <3>1
    <3> QED BY <3>2
  <2>2. Cardinality(T \ {x}) = n
    <3>1. IsFiniteSet(T)
      BY <1>0
    <3>2. Cardinality(T \ {x}) = Cardinality(T) - 1
      BY <2>1, <3>1, FS_RemoveElement
    <3> QED BY <3>2
  <2> DEFINE restH == Total(h, T \ {x})
             restF == Total(f, T \ {x})
             restG == Total(g, T \ {x})
  <2>3. restH = restF + restG
    BY <1>2, <2>2
  <2>4. /\ Total(h, T) = restH + h[x] /\ restH \in Nat
        /\ Total(f, T) = restF + f[x] /\ restF \in Nat
        /\ Total(g, T) = restG + g[x] /\ restG \in Nat
    BY <2>1, TotalSplitWithin, ZenonT(40)
  <2>5. h[x] \in Nat /\ f[x] \in Nat /\ g[x] \in Nat /\ h[x] = f[x] + g[x]
    BY <2>1
  <2> HIDE DEF restH, restF, restG
  <2> QED BY <2>3, <2>4, <2>5
<1> HIDE DEF Sizes
<1>3. Nat \subseteq Sizes
  BY <1>1, <1>2, SetInduction
<1> QED BY <1>0, <1>3 DEF Sizes

(* A multiple of every part is that multiple of the total.                 *)
LEMMA TotalOfMultiples ==
    ASSUME NEW S, IsFiniteSet(S), NEW f \in [S -> Nat], NEW g \in [S -> Nat], NEW k \in Nat,
           \A a \in S : g[a] = k * f[a]
    PROVE  Total(g, S) = k * Total(f, S)
<1>1. \A a \in S : 1 * g[a] <= k * f[a] /\ k * f[a] <= 1 * g[a]
  OBVIOUS
<1>2. 1 * Total(g, S) <= k * Total(f, S)
  BY <1>1, TotalScaled
<1>3. k * Total(f, S) <= 1 * Total(g, S)
  BY <1>1, TotalScaled
<1>4. Total(f, S) \in Nat /\ Total(g, S) \in Nat
  BY TotalNat
<1> QED BY <1>2, <1>3, <1>4

(* One unit for every member of a set: as many units as members.           *)
LEMMA TotalOfUnits ==
    ASSUME NEW S, IsFiniteSet(S), NEW T \in SUBSET S
    PROVE  Total([a \in S |-> IF a \in T THEN 1 ELSE 0], S) = Cardinality(T)
<1> DEFINE f == [a \in S |-> IF a \in T THEN 1 ELSE 0]
<1>1. UnitsOf(f, S) = T \X {1}
  <2>1. 1 .. 1 = {1} /\ 1 .. 0 = {}
    OBVIOUS
  <2>2. \A a \in T : a \in S /\ {a} \X (1 .. f[a]) = {a} \X {1}
    BY <2>1
  <2>3. \A a \in S \ T : 1 .. f[a] = {}
    BY <2>1
  <2>4. UnitsOf(f, S) = UNION {{a} \X {1} : a \in T}
    BY <2>2, <2>3 DEF UnitsOf
  <2> QED BY <2>4
<1>2. IsFiniteSet(T) /\ Cardinality(T) \in Nat
  BY FS_Subset, FS_CardinalityType
<1>3. IsFiniteSet({1}) /\ Cardinality({1}) = 1
  BY FS_Singleton
<1>4. Cardinality(T \X {1}) = Cardinality(T) * Cardinality({1})
  BY <1>2, <1>3, FS_Product
<1>5. Cardinality(T) * 1 = Cardinality(T)
  BY <1>2
<1> HIDE DEF f
<1>6. Total(f, S) = Cardinality(T)
  BY <1>1, <1>3, <1>4, <1>5 DEF Total
<1> QED BY <1>6 DEF f

(* Quantities equal account by account are equal in total.                 *)
LEMMA TotalSame ==
    ASSUME NEW S, NEW f, NEW g, \A a \in S : f[a] = g[a]
    PROVE  Total(f, S) = Total(g, S)
<1>1. UnitsOf(f, S) = UnitsOf(g, S)
  BY DEF UnitsOf
<1> QED BY <1>1 DEF Total

(* The two sides of a quantity that may be negative.                       *)
HeldSide(f, S) == [a \in S |-> IF f[a] > 0 THEN f[a] ELSE 0]
OwedSide(f, S) == [a \in S |-> IF f[a] < 0 THEN -f[a] ELSE 0]

LEMMA SignedSides ==
    ASSUME NEW S, IsFiniteSet(S), NEW f \in [S -> Int]
    PROVE  /\ HeldSide(f, S) \in [S -> Nat] /\ OwedSide(f, S) \in [S -> Nat]
           /\ \A a \in S : f[a] = HeldSide(f, S)[a] - OwedSide(f, S)[a]
           /\ SignedTotal(f, S) = Total(HeldSide(f, S), S) - Total(OwedSide(f, S), S)
           /\ Total(HeldSide(f, S), S) \in Nat /\ Total(OwedSide(f, S), S) \in Nat
<1>1. HeldSide(f, S) \in [S -> Nat] /\ OwedSide(f, S) \in [S -> Nat]
  BY DEF HeldSide, OwedSide
<1>2. \A a \in S : f[a] = HeldSide(f, S)[a] - OwedSide(f, S)[a]
  BY DEF HeldSide, OwedSide
<1>3. SignedTotal(f, S) = Total(HeldSide(f, S), S) - Total(OwedSide(f, S), S)
  BY DEF SignedTotal, HeldSide, OwedSide
<1> QED BY <1>1, <1>2, <1>3, TotalNat

(* Writing the entry of x alone moves the total by the difference.         *)
LEMMA SignedTotalUpdate ==
    ASSUME NEW S, IsFiniteSet(S), NEW f \in [S -> Int], NEW x \in S,
           NEW g \in [S -> Int], \A a \in S \ {x} : g[a] = f[a]
    PROVE  SignedTotal(g, S) = SignedTotal(f, S) - f[x] + g[x]
<1>1. PICK fh : fh = HeldSide(f, S)
  OBVIOUS
<1>2. PICK fo : fo = OwedSide(f, S)
  OBVIOUS
<1>3. PICK gh : gh = HeldSide(g, S)
  OBVIOUS
<1>4. PICK go : go = OwedSide(g, S)
  OBVIOUS
<1>5. /\ fh \in [S -> Nat] /\ fo \in [S -> Nat] /\ f[x] = fh[x] - fo[x]
      /\ SignedTotal(f, S) = Total(fh, S) - Total(fo, S)
      /\ Total(fh, S) \in Nat /\ Total(fo, S) \in Nat
  BY <1>1, <1>2, SignedSides
<1>6. /\ gh \in [S -> Nat] /\ go \in [S -> Nat] /\ g[x] = gh[x] - go[x]
      /\ SignedTotal(g, S) = Total(gh, S) - Total(go, S)
      /\ Total(gh, S) \in Nat /\ Total(go, S) \in Nat
  BY <1>3, <1>4, SignedSides
<1>7. \A a \in S \ {x} : gh[a] = fh[a] /\ go[a] = fo[a]
  BY <1>1, <1>2, <1>3, <1>4 DEF HeldSide, OwedSide
<1>8. Total(gh, S) = Total(fh, S) - fh[x] + gh[x]
  BY <1>5, <1>6, <1>7, TotalUpdate
<1>9. Total(go, S) = Total(fo, S) - fo[x] + go[x]
  BY <1>5, <1>6, <1>7, TotalUpdate
<1>10. fh[x] \in Nat /\ fo[x] \in Nat /\ gh[x] \in Nat /\ go[x] \in Nat
  BY <1>5, <1>6
<1> QED BY <1>5, <1>6, <1>8, <1>9, <1>10

(* Taking account x apart.                                                 *)
LEMMA SignedTotalSplit ==
    ASSUME NEW S, IsFiniteSet(S), NEW f \in [S -> Int], NEW x \in S
    PROVE  /\ SignedTotal(f, S) = SignedTotal(f, S \ {x}) + f[x]
           /\ SignedTotal(f, S \ {x}) \in Int
<1>1. PICK fh : fh = HeldSide(f, S)
  OBVIOUS
<1>2. PICK fo : fo = OwedSide(f, S)
  OBVIOUS
<1>3. /\ fh \in [S -> Nat] /\ fo \in [S -> Nat] /\ f[x] = fh[x] - fo[x]
      /\ SignedTotal(f, S) = Total(fh, S) - Total(fo, S)
  BY <1>1, <1>2, SignedSides
<1>4. /\ \A a \in S \ {x} : HeldSide(f, S \ {x})[a] = fh[a]
      /\ \A a \in S \ {x} : OwedSide(f, S \ {x})[a] = fo[a]
  BY <1>1, <1>2 DEF HeldSide, OwedSide
<1>5. /\ Total(HeldSide(f, S \ {x}), S \ {x}) = Total(fh, S \ {x})
      /\ Total(OwedSide(f, S \ {x}), S \ {x}) = Total(fo, S \ {x})
  BY <1>4, TotalSame
<1>6. SignedTotal(f, S \ {x}) = Total(fh, S \ {x}) - Total(fo, S \ {x})
  BY <1>5 DEF SignedTotal, HeldSide, OwedSide
<1>7. Total(fh, S) = Total(fh, S \ {x}) + fh[x] /\ Total(fh, S \ {x}) \in Nat
  BY <1>3, TotalSplitWithin
<1>8. Total(fo, S) = Total(fo, S \ {x}) + fo[x] /\ Total(fo, S \ {x}) \in Nat
  BY <1>3, TotalSplitWithin
<1>9. fh[x] \in Nat /\ fo[x] \in Nat
  BY <1>3
<1> QED BY <1>3, <1>6, <1>7, <1>8, <1>9

(* Nothing is owed: the total is the sum.                                  *)
LEMMA SignedTotalOfNat ==
    ASSUME NEW S, IsFiniteSet(S), NEW f \in [S -> Nat]
    PROVE  SignedTotal(f, S) = Total(f, S)
<1>1. \A a \in S : HeldSide(f, S)[a] = f[a] /\ OwedSide(f, S)[a] = 0
  BY DEF HeldSide, OwedSide
<1>2. Total(HeldSide(f, S), S) = Total(f, S)
  BY <1>1, TotalSame
<1>3. Total(OwedSide(f, S), S) = 0
  BY <1>1, TotalZero
<1>4. Total(f, S) \in Nat
  BY TotalNat
<1> QED BY <1>2, <1>3, <1>4 DEF SignedTotal, HeldSide, OwedSide

------------------------------------------------------------------------------
(* A function defined by its first value and by what follows from the      *)
(* value before exists, and has its values in the set the step stays in.   *)
LEMMA Recursion ==
    ASSUME NEW m \in Nat, NEW T, NEW base \in T, NEW step \in [1 .. m -> [T -> T]]
    PROVE  \E f \in [0 .. m -> T] : f[0] = base /\ \A n \in 1 .. m : f[n] = step[n][f[n - 1]]
<1> DEFINE Good(k, f) == /\ f[0] = base
                         /\ \A n \in 1 .. k : f[n] = step[n][f[n - 1]]
           Sizes == {k \in Nat : k <= m => \E f \in [0 .. k -> T] : Good(k, f)}
<1>1. 0 \in Sizes
  <2>1. [n \in 0 .. 0 |-> base] \in [0 .. 0 -> T] /\ Good(0, [n \in 0 .. 0 |-> base])
    OBVIOUS
  <2> QED BY <2>1
<1>2. ASSUME NEW k \in Nat, k \in Sizes PROVE k + 1 \in Sizes
  <2> SUFFICES ASSUME k + 1 <= m PROVE \E f \in [0 .. k + 1 -> T] : Good(k + 1, f)
    OBVIOUS
  <2>1. PICK f \in [0 .. k -> T] : Good(k, f)
    BY <1>2
  <2>2. k + 1 \in 1 .. m /\ f[k] \in T
    BY <2>1
  <2>3. PICK v \in T : v = step[k + 1][f[k]]
    BY <2>2
  <2> DEFINE g == [n \in 0 .. k + 1 |-> IF n = k + 1 THEN v ELSE f[n]]
  <2>4. g \in [0 .. k + 1 -> T]
    BY <2>1, <2>3
  <2>5. g[0] = base
    BY <2>1
  <2>6. ASSUME NEW n \in 1 .. k + 1 PROVE g[n] = step[n][g[n - 1]]
    <3>1. n - 1 \in 0 .. k /\ g[n - 1] = f[n - 1]
      OBVIOUS
    <3>2. CASE n = k + 1
      BY <2>3, <3>1, <3>2
    <3>3. CASE n # k + 1
      <4>1. n \in 1 .. k /\ g[n] = f[n]
        BY <3>3
      <4>2. f[n] = step[n][f[n - 1]]
        BY <2>1, <4>1
      <4> QED BY <3>1, <4>1, <4>2
    <3> QED BY <3>2, <3>3
  <2> QED BY <2>4, <2>5, <2>6
<1> HIDE DEF Sizes
<1>3. Nat \subseteq Sizes
  BY <1>1, <1>2, SetInduction
<1>4. m \in Sizes
  BY <1>3
<1>5. \E f \in [0 .. m -> T] : Good(m, f)
  BY <1>4 DEF Sizes
<1> QED BY <1>5

(* Counting up to m.                                                       *)
LEMMA CountUp ==
    ASSUME NEW m \in Nat, NEW S, 0 \in S, \A n \in 1 .. m : n - 1 \in S => n \in S
    PROVE  0 .. m \subseteq S
<1> DEFINE T == {n \in Nat : n <= m => n \in S}
<1>1. 0 \in T
  OBVIOUS
<1>2. ASSUME NEW n \in Nat, n \in T PROVE n + 1 \in T
  <2> SUFFICES ASSUME n + 1 <= m PROVE n + 1 \in S
    OBVIOUS
  <2>1. n \in S /\ n + 1 \in 1 .. m /\ (n + 1) - 1 = n
    BY <1>2
  <2> QED BY <2>1
<1> HIDE DEF T
<1>3. Nat \subseteq T
  BY <1>1, <1>2, SetInduction
<1> QED BY <1>3 DEF T
==============================================================================
