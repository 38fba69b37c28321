---------------------------- MODULE MCLendingPool ----------------------------
(***************************************************************************)
(* A small instance of LendingPool.  A virtual offset of 2 next to amounts *)
(* up to 3 makes deposits, exits and yield round in most states; the       *)
(* amounts include a negative one and zero, which the entry points must    *)
(* refuse.  A behaviour belongs to one of two slices, chosen initially:    *)
(* the books of two providers under fixed rules, or one provider under     *)
(* rules (pause, cap, cooldown, admin) that change as ledgers close.       *)
(***************************************************************************)
EXTENDS LendingPool

CONSTANTS p1, p2, borrower, pool, a1, none

VARIABLE slice

AnyAmount == -1..3

(* In the second slice the second provider stays out and the pool small.   *)
InSlice ==
    /\ UNCHANGED slice
    /\ IF slice = "books"
       THEN UNCHANGED <<ledger, governed, totalOutstanding>>
       ELSE /\ shares'[p2] = 0
            /\ UNCHANGED balance[p2]
            /\ balance'[borrower] >= InitialBalance - 1
            /\ balance'[pool] <= 3 /\ totalManagedAssets' <= 3

SliceInit == Init /\ slice \in {"books", "rules"}

SliceSpec == SliceInit /\ [][Next /\ InSlice]_<<vars, slice>>
==============================================================================
