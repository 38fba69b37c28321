----------------------------- MODULE Aggregates -----------------------------
(***************************************************************************)
(* Totals of per-account quantities, what the contracts' loops over a      *)
(* stored Vec compute, and the split of a repayment, said without          *)
(* recursion: the same definitions serve TLC and the proofs.               *)
(***************************************************************************)
EXTENDS Integers, Sequences, FiniteSets

(* A quantity held by an account is counted unit by unit: an account a     *)
(* holding n units contributes the pairs <<a, 1>>, ..., <<a, n>>, and the  *)
(* total is the number of pairs.  This is ordinary summation for           *)
(* natural-valued functions.                                               *)
UnitsOf(f, S) == UNION {{a} \X (1..f[a]) : a \in S}

Total(f, S) == Cardinality(UnitsOf(f, S))

(* Of quantities that may be negative: what is held less what is owed.     *)
SignedTotal(f, S) ==
    Total([a \in S |-> IF f[a] > 0 THEN f[a] ELSE 0], S)
        - Total([a \in S |-> IF f[a] < 0 THEN -f[a] ELSE 0], S)

------------------------------------------------------------------------------
(* The ways to count the numbers of a set from the least to the greatest:  *)
(* one, if the set has n members.                                          *)
Increasing(n, S) ==
    {f \in [1 .. n -> S] : \A i, j \in 1 .. n : i < j => f[i] < f[j]}

Ascending(list) == \A i, j \in DOMAIN list : i < j => list[i] < list[j]

Entries(list) == {list[i] : i \in DOMAIN list}

(* The entries of a list other than x, copied in their order.              *)
Without(list, x) ==
    LET kept == {i \in DOMAIN list : list[i] # x}
        nth  == CHOOSE f \in Increasing(Cardinality(kept), kept) : TRUE
    IN  [n \in 1 .. Cardinality(kept) |-> list[nth[n]]]

------------------------------------------------------------------------------
(* What LoanManager's proportional_repayment_split computes: a payment is  *)
(* divided over the three buckets of a debt (1 principal, 2 interest,      *)
(* 3 late fees) in proportion to what each is due, rounded down, and the   *)
(* units lost to rounding go one each to the buckets with the largest      *)
(* remainders, the lower index first on a tie.  The loop that computes it  *)
(* is RepaymentAllocation.                                                 *)
Buckets == 1..3

TotalDue(dues) == dues[1] + dues[2] + dues[3]

FloorShare(dues, amount, i) == (amount * dues[i]) \div TotalDue(dues)

Remainder(dues, amount, i) == (amount * dues[i]) % TotalDue(dues)

Unallocated(dues, amount) ==
    amount - FloorShare(dues, amount, 1) - FloorShare(dues, amount, 2)
           - FloorShare(dues, amount, 3)

(* The buckets that are served an extra unit before bucket i.              *)
ServedBefore(dues, amount, i) ==
    {j \in Buckets :
        /\ dues[j] > 0
        /\ \/ Remainder(dues, amount, j) > Remainder(dues, amount, i)
           \/ Remainder(dues, amount, j) = Remainder(dues, amount, i) /\ j < i}

ExtraUnit(dues, amount, i) ==
    IF Cardinality(ServedBefore(dues, amount, i)) < Unallocated(dues, amount)
    THEN 1 ELSE 0

proportional_repayment_split(dues, amount) ==
    [i \in Buckets |->
        IF dues[i] <= 0 THEN 0
        ELSE FloorShare(dues, amount, i) + ExtraUnit(dues, amount, i)]
==============================================================================
