----------------------------- MODULE MCLoanDebt -----------------------------
(***************************************************************************)
(* The debt of one loan, and the loop that splits a payment over its three *)
(* parts.  LoanManager uses the split in closed form; a behaviour of this  *)
(* instance is one of the loan or one of the loop.                         *)
(***************************************************************************)
EXTENDS MCLoanManager, RepaymentAllocation

DebtInit == Init /\ AllocationInit

DebtNext ==
    \/ LifecycleNext /\ AllocationInit /\ UNCHANGED split
    \/ AllocationNext /\ Init /\ UNCHANGED vars

DebtSpec == DebtInit /\ [][DebtNext]_<<vars, split>>
==============================================================================
