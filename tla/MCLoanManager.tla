---------------------------- MODULE MCLoanManager ----------------------------
(***************************************************************************)
(* Small instances of LoanManager.  One hundred per cent is 4 (BPS), so    *)
(* that interest, late fees, bonus and threshold round in most states, and *)
(* the interest residual counts halves (PRECISION = 2).                    *)
(***************************************************************************)
EXTENDS LoanManager

(* 50% interest and 100% late fees per term, one ledger of grace, default  *)
(* after three; liquidation below 150%, with a bonus of 50%.                *)
LifecycleConfig ==
    [min_score |-> 1, min_repayment |-> 2, max_amount |-> 3, max_loans |-> 2,
     rate |-> 2, default_term |-> 2, late_fee_rate |-> 4, min_term |-> 0,
     max_term |-> U32_MAX, grace |-> 1, window |-> 3, oracle |-> FALSE,
     threshold |-> 6, bonus |-> 2, min_rate |-> 1, max_rate |-> 3]

(* No grace, default after one ledger; 100% interest, no late fees.        *)
TwoLoansConfig ==
    [LifecycleConfig EXCEPT !.rate = 4, !.late_fee_rate = 0, !.grace = 0,
                            !.window = 1, !.max_amount = 2, !.min_repayment = 0]

NoSettings == [f \in ConfigFields |-> {}]

(* The settings that constrain one another, each with a value the current  *)
(* one of the others may rule out, and zero.                               *)
CoupledSettings ==
    [NoSettings EXCEPT !.grace = {0, 2}, !.window = {0, 1},
        !.min_rate = {0, 3}, !.max_rate = {0, 1}, !.rate = {0, 1},
        !.min_term = {0, 2}, !.max_term = {0, 1}]

(* The settings that change the rules of loans already running.            *)
LimitSettings ==
    [NoSettings EXCEPT !.late_fee_rate = {2}, !.threshold = {4}, !.bonus = {0},
        !.min_score = {0}, !.max_amount = {1}, !.min_repayment = {0},
        !.max_loans = {1}, !.default_term = {1}]

Unanswered == {NoAnswer}

(* An oracle that fails, quotes zero, a rate in bounds and an absurd one.  *)
AnyAnswer == {NoAnswer, 0, 3, 9}

(* What a seizure by another authorised minter leaves.                     *)
SeizedReputation == {[minted(2) EXCEPT !.seized = TRUE]}
==============================================================================
