------------------------- MODULE RepaymentAllocation -------------------------
(***************************************************************************)
(* The loops of LoanManager::proportional_repayment_split, one action per  *)
(* iteration: the floor share of each bucket, then one unit at a time to   *)
(* the bucket with the largest remainder.  A division by zero, an          *)
(* underflow or an exhausted allocation is a panic in the code: here the   *)
(* step is missing.  An operator whose name ends in Faulty is a seeded     *)
(* fault (see PROJECT.json, mutants).                                      *)
(***************************************************************************)
EXTENDS Aggregates

CONSTANT MaxDue           \* bound on each bucket of the debt

ASSUME AllocationConstants == MaxDue \in Nat

(* The arguments and locals of the call: at is 0 before it, the bucket of  *)
(* the first loop, then 4.                                                 *)
VARIABLE split

EachBucket(n) == [i \in Buckets |-> n]

AllocationInit ==
    split = [at |-> 0, due |-> EachBucket(0), amount |-> 0, paid |-> EachBucket(0),
             remainder |-> EachBucket(-1), unallocated |-> 0]

(* repay, liquidate or refinance splits a payment of at most the debt.     *)
SplitCalled ==
    /\ split.at = 0
    /\ \E due \in [Buckets -> 0..MaxDue] : \E amount \in 1..TotalDue(due) :
          split' = [split EXCEPT !.at = 1, !.due = due, !.amount = amount,
                                 !.unallocated = amount]

FloorStep ==
    /\ split.at \in Buckets
    /\ LET i == split.at
           total == TotalDue(split.due)
           payment == (split.amount * split.due[i]) \div total
       IN  split' = IF split.due[i] <= 0 THEN [split EXCEPT !.at = i + 1]
                    ELSE [split EXCEPT !.at = i + 1, !.paid[i] = payment,
                             !.remainder[i] = split.amount * split.due[i] - payment * total,
                             !.unallocated = @ - payment]

Eligible == {i \in Buckets : split.due[i] > split.paid[i] /\ split.remainder[i] >= 0}

Selected_Faulty ==
    CHOOSE i \in Eligible : \A j \in Eligible :
        \/ split.remainder[i] > split.remainder[j]
        \/ split.remainder[i] = split.remainder[j] /\ i >= j

Selected ==
    CHOOSE i \in Eligible : \A j \in Eligible :
        \/ split.remainder[i] > split.remainder[j]
        \/ split.remainder[i] = split.remainder[j] /\ i <= j

Allocating == split.at = 4 /\ split.unallocated > 0

UnitStep ==
    /\ Allocating /\ Eligible # {}
    /\ split' = [split EXCEPT !.paid[Selected] = @ + 1, !.remainder[Selected] = -1,
                              !.unallocated = @ - 1]

AllocationNext == SplitCalled \/ FloorStep \/ UnitStep

AllocationSpec == AllocationInit /\ [][AllocationNext]_split

------------------------------------------------------------------------------
(* The loop over the units lost to rounding never runs out of buckets, and *)
(* when it is over it has computed the largest-remainder split: exactly    *)
(* the amount, never more than a bucket is due, and to every bucket its    *)
(* exact share rounded down or up, so that a borrower cannot steer a       *)
(* payment away from the principal.                                        *)
SplitComputed ==
    /\ Allocating => Eligible # {}
    /\ split.at = 4 /\ split.unallocated = 0 =>
          /\ split.paid = proportional_repayment_split(split.due, split.amount)
          /\ TotalDue(split.paid) = split.amount
          /\ \A i \in Buckets :
                LET exact == split.amount * split.due[i]
                    total == TotalDue(split.due)
                IN  /\ split.paid[i] \in 0..split.due[i]
                    /\ split.paid[i] * total \in (exact - total + 1)..(exact + total - 1)
==============================================================================
