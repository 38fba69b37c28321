----------------------------- MODULE LoanManager -----------------------------
(***************************************************************************)
(* The Soroban contract contracts/loan_manager: the life of a loan from    *)
(* request_loan to repay, liquidate, check_default, cancel_loan,           *)
(* reject_loan and purge_loan, with collateral, refinancing, extensions    *)
(* and the configuration the admin may change in between.                  *)
(*                                                                         *)
(* An invocation is atomic and rolls back on an error or a panic, so an    *)
(* action is the successful call and its guard is the conjunction of the   *)
(* checks.  u32 ledger arithmetic that would overflow panics (checked_add, *)
(* overflow-checks = true); FitsU32 is that check.  The token contract,    *)
(* the pause flags of the pool and the NFT contract, and what other        *)
(* callers do to a borrower's reputation are external.  The reporting      *)
(* totals interest_paid and late_fee_paid of a loan, which no entry point  *)
(* reads back, and the event payloads are left out.                        *)
(***************************************************************************)
EXTENDS Aggregates, Reputation, Sequences, FiniteSetsExt

CONSTANTS
    Borrowers, Liquidators,
    Pool,                 \* the lending pool's address
    Manager,              \* this contract's address
    Admins, NoAddress,
    Amounts,              \* i128 amounts a caller may pass
    Terms,                \* u32 terms of request_loan and refinance_loan
    Extensions,           \* u32 extra_ledgers of extend_loan
    OracleAnswers,        \* what get_rate may return, NoAnswer when it fails
    Settings,             \* field of the configuration -> values a setter may pass
    OutsideReputations,   \* what other callers may make of a reputation
    DefaultConfig,        \* the configuration initialize writes
    BPS,                  \* 10_000: one hundred per cent
    PRECISION,            \* of the interest residual
    U32_MAX,
    MAX_LATE_FEE_CAP_BPS, MAX_LIQUIDATION_BONUS_BPS, MIN_DEFAULT_WINDOW,
    MAX_EXTENSIONS, EXTENSION_FEE_BPS, MAX_PENALTY_MULTIPLIER,
    LATE_REPAYMENT_SCORE_PENALTY, DEFAULT_SCORE_PENALTY_POINTS,
    SCORE_AMOUNT_FLOOR,   \* the literal 100 of repay
    STROOPS_PER_POINT,    \* 100 * STROOPS_PER_TOKEN
    BurnThreshold,        \* the NFT contract's default_burn_threshold
    InitialScore, InitialBalance, PoolLiquidity,
    MaxLoans,             \* bound on LoanCounter
    MaxOutstanding,       \* bound on the outstanding counter
    MaxLedger             \* bound on the ledger sequence

Accounts == Borrowers \cup Liquidators \cup {Pool, Manager}

NoAnswer == -1

ASSUME LoanConstants ==
    /\ IsFiniteSet(Borrowers) /\ IsFiniteSet(Liquidators)
    /\ Pool # Manager /\ {Pool, Manager} \cap (Borrowers \cup Liquidators) = {}
    /\ NoAddress \notin Admins
    /\ Amounts \subseteq Int /\ Terms \subseteq Nat /\ Extensions \subseteq Nat
    /\ OracleAnswers \subseteq Nat \cup {NoAnswer}
    /\ BPS \in Nat \ {0} /\ PRECISION \in Nat \ {0} /\ U32_MAX \in Nat
    /\ {MAX_LATE_FEE_CAP_BPS, MAX_LIQUIDATION_BONUS_BPS, MIN_DEFAULT_WINDOW,
        MAX_EXTENSIONS, EXTENSION_FEE_BPS,
        LATE_REPAYMENT_SCORE_PENALTY, DEFAULT_SCORE_PENALTY_POINTS} \subseteq Nat
    /\ MAX_PENALTY_MULTIPLIER \in Nat \ {0}
    /\ SCORE_AMOUNT_FLOOR \in Nat /\ STROOPS_PER_POINT \in Nat \ {0}
    /\ BurnThreshold \in Nat \ {0}
    /\ InitialScore \in MIN_CREDIT_SCORE..MAX_SCORE
    /\ OutsideReputations \subseteq Reputations
    /\ InitialBalance \in Nat /\ PoolLiquidity \in Nat
    /\ MaxLoans \in Nat /\ MaxOutstanding \in Nat /\ MaxLedger \in Nat

ConfigFields == {"min_score", "min_repayment", "max_amount", "max_loans", "rate",
                 "default_term", "late_fee_rate", "min_term", "max_term", "grace",
                 "window", "threshold", "bonus", "min_rate", "max_rate"}

(* The i128 fields; the others are u32.                                    *)
SignedFields == {"max_amount", "min_repayment"}

(* The configuration that initialize writes, and what the getters answer   *)
(* for a key that no setter has written.                                   *)
ASSUME ConfigConstants ==
    /\ DefaultConfig \in
           [min_score : Nat, min_repayment : Nat, max_amount : Nat, max_loans : Nat,
            rate : Nat \ {0}, default_term : Nat \ {0}, late_fee_rate : Nat,
            min_term : Nat, max_term : Nat, grace : Nat, window : Nat, oracle : BOOLEAN,
            threshold : Nat, bonus : Nat, min_rate : Nat \ {0}, max_rate : Nat]
    /\ DefaultConfig.grace <= DefaultConfig.window
    /\ DefaultConfig.min_rate <= DefaultConfig.max_rate
    /\ DefaultConfig.min_term <= DefaultConfig.max_term
    /\ DefaultConfig.max_loans > 0 /\ DefaultConfig.max_amount > 0
    /\ DOMAIN Settings = ConfigFields
    /\ \A f \in ConfigFields : Settings[f] \subseteq IF f \in SignedFields THEN Int ELSE Nat

VARIABLES
    ledger,
    balance,              \* token contract: account -> tokens held
    nft,                  \* NFT contract: borrower -> Reputations
    nftPaused, poolPaused,
    isMinter,             \* NFT contract: this contract is an authorised minter
    admin, proposedAdmin,
    pausedAt,             \* PausedAtLedger, NotPausedMark when Paused is false
    config,               \* the configuration keys
    loans,                \* DataKey::Loan: loan id -> Loan
    loanCounter,
    borrowerLoanCount,    \* DataKey::BorrowerLoanCount
    borrowerLoans,        \* DataKey::BorrowerLoans
    totalOutstanding      \* DataKey::TotalOutstanding

outside  == <<ledger, nftPaused, poolPaused, isMinter>>
governed == <<admin, proposedAdmin, pausedAt, config>>
books    == <<loans, loanCounter, borrowerLoanCount, borrowerLoans, totalOutstanding>>
vars == <<outside, balance, nft, governed, books>>

NotPausedMark == -1

Put(id, l) == loans' = [loans EXCEPT ![id] = l]

FitsU32(n) == n <= U32_MAX

------------------------------------------------------------------------------
(* Token transfers (external).                                             *)

CanPay(from, amount) == balance[from] >= amount

Moved(b, from, to, amount) == [b EXCEPT ![from] = @ - amount, ![to] = @ + amount]

------------------------------------------------------------------------------
(* Interest, late fees and debt.                                           *)

remaining_principal(l) == l.amount - l.principal_paid

Debt(l) == remaining_principal(l) + l.accrued_interest + l.accrued_late_fee

TermOf(l) == IF l.term_ledgers = 0 THEN config.default_term ELSE l.term_ledgers

accrue_interest_Faulty(l, now) ==
    LET elapsed == now - l.last_interest_ledger
        units == (remaining_principal(l) * l.interest_rate_bps * elapsed * PRECISION)
                     \div (BPS * TermOf(l))
    IN  IF l.status # "Approved" \/ l.last_interest_ledger = 0 \/ elapsed <= 0 THEN l
        ELSE [l EXCEPT !.accrued_interest = @ + (units + l.interest_residual) \div PRECISION,
                       !.interest_residual = @ + (units % PRECISION),
                       !.last_interest_ledger = now]

accrue_interest(l, now) ==
    LET elapsed == now - l.last_interest_ledger
        units == l.interest_residual
                 + (remaining_principal(l) * l.interest_rate_bps * elapsed * PRECISION)
                       \div (BPS * TermOf(l))
    IN  IF l.status # "Approved" \/ l.last_interest_ledger = 0 \/ elapsed <= 0 THEN l
        ELSE IF remaining_principal(l) <= 0 THEN [l EXCEPT !.last_interest_ledger = now]
        ELSE [l EXCEPT !.accrued_interest = @ + units \div PRECISION,
                       !.interest_residual = units % PRECISION,
                       !.last_interest_ledger = now]

GraceEnds(l) == l.due_date + config.grace

(* The global debt cap, as far as late fees are concerned.                 *)
capped_fee(l, fee) ==
    LET capacity == l.amount * MAX_PENALTY_MULTIPLIER - Debt(l)
    IN  IF capacity <= 0 THEN 0 ELSE IF fee > capacity THEN capacity ELSE fee

accrue_late_fee(l, now) ==
    LET start == IF l.last_late_fee_ledger > GraceEnds(l)
                 THEN l.last_late_fee_ledger ELSE GraceEnds(l)
        fee == (remaining_principal(l) * config.late_fee_rate * (now - start))
                   \div (BPS * TermOf(l))
    IN  IF l.status # "Approved" \/ l.due_date = 0 \/ now <= start THEN l
        ELSE IF remaining_principal(l) <= 0 THEN [l EXCEPT !.last_late_fee_ledger = now]
        ELSE [l EXCEPT !.accrued_late_fee = @ + capped_fee(l, fee),
                       !.last_late_fee_ledger = now]

(* current_total_debt: the loan brought up to the current ledger.          *)
Accrued(l) == accrue_late_fee(accrue_interest(l, ledger), ledger)

Dues(l) == <<remaining_principal(l), l.accrued_interest, l.accrued_late_fee>>

apply_debt_recovery(l, amount) ==
    LET parts == proportional_repayment_split(Dues(l), amount)
    IN  [l EXCEPT !.principal_paid = @ + parts[1],
                  !.accrued_interest = @ - parts[2],
                  !.accrued_late_fee = @ - parts[3]]

DefaultEnds(l) == l.due_date + config.window

is_collateral_ratio_below_threshold(collateral_amount, total_debt) ==
    /\ total_debt > 0 /\ collateral_amount > 0
    /\ collateral_amount * BPS < total_debt * config.threshold

compute_interest_rate(answer) ==
    IF config.oracle /\ answer \in config.min_rate..config.max_rate
    THEN answer ELSE config.rate

------------------------------------------------------------------------------
(* Pauses, slots and the outstanding counter.                              *)

require_not_paused == pausedAt = NotPausedMark /\ ~poolPaused /\ ~nftPaused

Authorised == admin # NoAddress

(* The counter is checked: a step that would take it below zero panics.    *)
Adjustable(delta) == totalOutstanding + delta >= 0

adjust_total_outstanding(delta) ==
    Adjustable(delta) /\ totalOutstanding' = totalOutstanding + delta

decrement_borrower_loan_count(b) ==
    borrowerLoanCount' = [borrowerLoanCount EXCEPT ![b] = IF @ = 0 THEN 0 ELSE @ - 1]

TermAllowed(term) == term \in config.min_term..config.max_term

------------------------------------------------------------------------------
(* Requests and what ends them before money moves.                         *)

RequestLoan(b, amount, term, answer) ==
    LET id == loanCounter + 1
        new == [borrower |-> b, amount |-> amount, collateral_amount |-> 0,
                principal_paid |-> 0, accrued_interest |-> 0, accrued_late_fee |-> 0,
                interest_rate_bps |-> compute_interest_rate(answer),
                due_date |-> 0, last_interest_ledger |-> 0,
                last_late_fee_ledger |-> 0, status |-> "Pending",
                interest_residual |-> 0, extension_count |-> 0,
                term_ledgers |-> term]
    IN  /\ Authorised
        /\ require_not_paused
        /\ amount \in 1..config.max_amount
        /\ term # 0 /\ TermAllowed(term)
        /\ get_score(nft[b]) >= config.min_score
        /\ ~nft[b].seized
        /\ borrowerLoanCount[b] < config.max_loans
        /\ loanCounter < MaxLoans
        /\ loans' = [i \in DOMAIN loans \cup {id} |-> IF i = id THEN new ELSE loans[i]]
        /\ loanCounter' = id
        /\ borrowerLoanCount' = [borrowerLoanCount EXCEPT ![b] = @ + 1]
        /\ borrowerLoans' = [borrowerLoans EXCEPT ![b] = Append(@, id)]
        /\ UNCHANGED <<outside, balance, nft, governed, totalOutstanding>>

(* cancel_loan by the borrower, reject_loan by the admin.                  *)
Withdrawn_Faulty(id, status) ==
    LET l == loans[id]
    IN  /\ l.status = "Pending"
        /\ Put(id, [l EXCEPT !.status = status, !.collateral_amount = 0])
        /\ CanPay(Manager, l.collateral_amount)
        /\ balance' = Moved(balance, Manager, l.borrower, l.collateral_amount)
        /\ UNCHANGED <<outside, nft, governed, loanCounter, borrowerLoanCount,
                       borrowerLoans, totalOutstanding>>

Withdrawn(id, status) ==
    LET l == loans[id]
    IN  /\ l.status = "Pending"
        /\ Put(id, [l EXCEPT !.status = status, !.collateral_amount = 0])
        /\ decrement_borrower_loan_count(l.borrower)
        /\ CanPay(Manager, l.collateral_amount)
        /\ balance' = Moved(balance, Manager, l.borrower, l.collateral_amount)
        /\ UNCHANGED <<outside, nft, governed, loanCounter, borrowerLoans,
                       totalOutstanding>>

CancelLoan(id) == Withdrawn(id, "Cancelled")

RejectLoan(id) == Authorised /\ Withdrawn(id, "Rejected")

ApproveLoan(id) ==
    LET l == loans[id]
        due == ledger + l.term_ledgers
    IN  /\ Authorised
        /\ require_not_paused
        /\ l.status = "Pending"
        /\ ~nft[l.borrower].seized
        /\ l.term_ledgers # 0
        /\ CanPay(Pool, l.amount)
        /\ FitsU32(due) /\ FitsU32(due + config.grace)
        /\ Put(id, [l EXCEPT !.status = "Approved", !.due_date = due,
                             !.last_interest_ledger = ledger,
                             !.last_late_fee_ledger = due + config.grace])
        /\ totalOutstanding + l.amount <= MaxOutstanding
        /\ adjust_total_outstanding(l.amount)
        /\ balance' = Moved(balance, Pool, l.borrower, l.amount)
        /\ UNCHANGED <<outside, nft, governed, loanCounter, borrowerLoanCount,
                       borrowerLoans>>

------------------------------------------------------------------------------
(* repay.                                                                  *)

IsDust(l) == Debt(l) <= config.min_repayment

PaysEnough_Faulty(l, amount) == amount <= Debt(l) /\ amount >= config.min_repayment

(* A payment may be below the minimum only if it clears the debt or the    *)
(* debt is itself dust.                                                    *)
PaysEnough(l, amount) ==
    /\ amount <= Debt(l)
    /\ amount = Debt(l) \/ amount >= config.min_repayment \/ IsDust(l)

FullyRepaid(l) == Debt(l) = 0

(* Score of the borrower after a repayment: a late final payment costs     *)
(* points, any other one earns them.                                       *)
ScoreAfterRepayment(r, amount, completed, was_late) ==
    IF amount < SCORE_AMOUNT_FLOOR \/ get_score(r) = 0 THEN r
    ELSE IF completed /\ was_late THEN decrease_score(r, LATE_REPAYMENT_SCORE_PENALTY)
    ELSE apply_score_delta(r, amount \div STROOPS_PER_POINT)

CallsNft(r, amount, completed, was_late) ==
    /\ amount >= SCORE_AMOUNT_FLOOR
    /\ get_score(r) > 0
    /\ (completed /\ was_late) \/ amount \div STROOPS_PER_POINT > 0

AfterRepayment(l, amount) ==
    LET paid == apply_debt_recovery(l, amount)
    IN  IF IsDust(l) \/ FullyRepaid(paid)
        THEN [paid EXCEPT !.status = "Repaid", !.collateral_amount = 0,
                          !.principal_paid = paid.amount, !.accrued_interest = 0,
                          !.accrued_late_fee = 0]
        ELSE paid

Released(l, amount) ==
    IF AfterRepayment(l, amount).status = "Repaid" THEN l.collateral_amount ELSE 0

was_late(l) == ledger > GraceEnds(l)

MayRepay(id, amount) ==
    LET l == Accrued(loans[id])
        b == l.borrower
        completed == AfterRepayment(l, amount).status = "Repaid"
    IN  /\ Authorised
        /\ require_not_paused
        /\ amount > 0
        /\ l.status = "Approved"
        /\ FitsU32(DefaultEnds(l)) /\ ledger <= DefaultEnds(l)
        /\ PaysEnough(l, amount)
        /\ completed => Adjustable(-l.amount)
        /\ CanPay(b, amount) /\ CanPay(Manager, Released(l, amount))
        /\ CallsNft(nft[b], amount, completed, was_late(l)) => isMinter

Repay(id, amount) ==
    LET l == Accrued(loans[id])
        b == l.borrower
        completed == AfterRepayment(l, amount).status = "Repaid"
    IN  /\ MayRepay(id, amount)
        /\ Put(id, AfterRepayment(l, amount))
        /\ IF completed
           THEN adjust_total_outstanding(-l.amount) /\ decrement_borrower_loan_count(b)
           ELSE UNCHANGED <<totalOutstanding, borrowerLoanCount>>
        /\ balance' = Moved(Moved(balance, b, Pool, amount),
                            Manager, b, Released(l, amount))
        /\ nft' = [nft EXCEPT ![b] =
                      ScoreAfterRepayment(@, amount, completed, was_late(l))]
        /\ UNCHANGED <<outside, governed, loanCounter, borrowerLoans>>

------------------------------------------------------------------------------
(* Collateral.                                                             *)

DepositCollateral(id, amount) ==
    LET l == loans[id]
    IN  /\ Authorised
        /\ require_not_paused
        /\ amount > 0
        /\ l.status = "Approved"
        /\ ~nft[l.borrower].seized
        /\ CanPay(l.borrower, amount)
        /\ balance' = Moved(balance, l.borrower, Manager, amount)
        /\ Put(id, [l EXCEPT !.collateral_amount = @ + amount])
        /\ UNCHANGED <<outside, nft, governed, loanCounter, borrowerLoanCount,
                       borrowerLoans, totalOutstanding>>

(* release_collateral, which anyone may call for a repaid loan.            *)
ReleaseCollateral(id) ==
    LET l == loans[id]
    IN  /\ l.status = "Repaid"
        /\ CanPay(Manager, l.collateral_amount)
        /\ balance' = Moved(balance, Manager, l.borrower, l.collateral_amount)
        /\ Put(id, [l EXCEPT !.collateral_amount = 0])
        /\ UNCHANGED <<outside, nft, governed, loanCounter, borrowerLoanCount,
                       borrowerLoans, totalOutstanding>>

smaller(x, y) == IF x < y THEN x ELSE y

(* Who gets what of the collateral: the pool first, then the bonus, and    *)
(* the borrower what is left.                                              *)
Liquidation_Faulty(collateral, total_debt) ==
    LET bonus == (collateral * config.bonus) \div BPS
        debt_repaid == smaller(collateral - bonus, total_debt)
    IN  [debt_repaid |-> debt_repaid, liquidator_bonus |-> bonus,
         borrower_refund |-> collateral - debt_repaid - bonus]

Liquidation(collateral, total_debt) ==
    LET configured_bonus == (collateral * config.bonus) \div BPS
        debt_repaid == smaller(collateral, total_debt)
        bonus == smaller(configured_bonus, collateral - debt_repaid)
    IN  [debt_repaid |-> debt_repaid, liquidator_bonus |-> bonus,
         borrower_refund |-> collateral - debt_repaid - bonus]

(* The NFT calls for a borrower that failed a loan.                        *)
FailedLoan(r) == record_default(decrease_score(r, DEFAULT_SCORE_PENALTY_POINTS),
                                BurnThreshold)

Liquidate(liquidator, id) ==
    LET l == Accrued(loans[id])
        share == Liquidation(l.collateral_amount, Debt(l))
    IN  /\ Authorised
        /\ require_not_paused
        /\ l.status = "Approved"
        /\ l.collateral_amount > 0
        /\ FitsU32(GraceEnds(l))
        /\ is_collateral_ratio_below_threshold(l.collateral_amount, Debt(l))
        /\ isMinter
        /\ CanPay(Manager, l.collateral_amount)
        /\ Put(id, [apply_debt_recovery(l, share.debt_repaid) EXCEPT
                        !.status = "Liquidated", !.collateral_amount = 0])
        /\ adjust_total_outstanding(-l.amount)
        /\ decrement_borrower_loan_count(l.borrower)
        /\ nft' = [nft EXCEPT ![l.borrower] = FailedLoan(@)]
        /\ balance' = Moved(Moved(Moved(balance,
                          Manager, Pool, share.debt_repaid),
                          Manager, liquidator, share.liquidator_bonus),
                          Manager, l.borrower, share.borrower_refund)
        /\ UNCHANGED <<outside, governed, loanCounter, borrowerLoans>>

------------------------------------------------------------------------------
(* Defaults: the loans of `ids' that are past their default window.        *)

PastWindow(id) == loans[id].status = "Approved" /\ ledger > DefaultEnds(loans[id])

OfBorrower(b, ids) == {i \in ids : loans[i].borrower = b}

Seized(ids) == Total([i \in ids |-> loans[i].collateral_amount], ids)

Lent(ids) == Total([i \in ids |-> loans[i].amount], ids)

(* What the calls made for each defaulted loan need to succeed.            *)
MayDefault(ids) ==
    /\ Authorised
    /\ require_not_paused
    /\ isMinter
    /\ CanPay(Manager, Seized(ids))
    /\ Adjustable(-Lent(ids))

(* Marks the loans `ids' Defaulted and seizes their collateral.            *)
Default(ids) ==
    LET closed(b) == Cardinality(OfBorrower(b, ids))
    IN  /\ MayDefault(ids)
        /\ loans' = [i \in DOMAIN loans |-> IF i \in ids
                         THEN [loans[i] EXCEPT !.status = "Defaulted",
                                               !.collateral_amount = 0]
                         ELSE loans[i]]
        /\ adjust_total_outstanding(-Lent(ids))
        /\ borrowerLoanCount' = [b \in Borrowers |->
               IF borrowerLoanCount[b] < closed(b) THEN 0
               ELSE borrowerLoanCount[b] - closed(b)]
        /\ balance' = Moved(balance, Manager, Pool, Seized(ids))
        /\ nft' = [b \in Borrowers |->
               FoldSet(LAMBDA i, r : FailedLoan(r), nft[b], OfBorrower(b, ids))]
        /\ UNCHANGED <<outside, governed, loanCounter, borrowerLoans>>

MayCheckDefault(id) ==
    /\ loans[id].status = "Approved"
    /\ FitsU32(DefaultEnds(loans[id]))
    /\ PastWindow(id)
    /\ MayDefault({id})

CheckDefault(id) == MayCheckDefault(id) /\ Default({id})

(* The batch skips unknown, inactive and not yet eligible loans; one whose *)
(* window overflows u32 makes the whole batch panic.                       *)
CheckDefaults(ids) ==
    /\ \A i \in ids : loans[i].status = "Approved" => FitsU32(DefaultEnds(loans[i]))
    /\ \E i \in ids : PastWindow(i)
    /\ Default({i \in ids : PastWindow(i)})

------------------------------------------------------------------------------
(* Refinancing, extension and removal.                                     *)

(* Collateral handed back when the principal shrinks from rest to amount.  *)
ExcessCollateral(l, rest, new_amount) ==
    IF new_amount < rest
    THEN (l.collateral_amount * (rest - new_amount)) \div rest ELSE 0

RefinanceLoan(id, new_amount, new_term, answer) ==
    LET l == Accrued(loans[id])
        b == l.borrower
        rest == remaining_principal(l)
        settlement == l.accrued_interest + l.accrued_late_fee
        excess == IF new_amount < rest THEN rest - new_amount ELSE 0
        additional == IF new_amount > rest THEN new_amount - rest ELSE 0
        returned == ExcessCollateral(l, rest, new_amount)
        settled == Moved(balance, b, Pool, settlement)
        funded == Moved(Moved(settled, Pool, b, additional), b, Pool, excess)
    IN  /\ Authorised
        /\ require_not_paused
        /\ l.status = "Approved"
        /\ FitsU32(DefaultEnds(l)) /\ ledger <= DefaultEnds(l)
        /\ new_amount \in 1..config.max_amount
        /\ TermAllowed(new_term)
        /\ get_score(nft[b]) >= config.min_score
        /\ l.collateral_amount >= new_amount
        /\ balance[b] >= settlement
        /\ settled[Pool] >= additional /\ settled[b] >= excess
        /\ CanPay(Manager, returned)
        /\ balance' = Moved(funded, Manager, b, returned)
        /\ totalOutstanding + new_amount - rest <= MaxOutstanding
        /\ adjust_total_outstanding(new_amount - rest)
        /\ FitsU32(ledger + new_term)
        /\ Put(id, [l EXCEPT
               !.accrued_interest = 0, !.accrued_late_fee = 0,
               !.collateral_amount = @ - returned,
               !.amount = new_amount, !.principal_paid = 0,
               !.interest_rate_bps = compute_interest_rate(answer),
               !.last_interest_ledger = ledger,
               !.due_date = ledger + new_term,
               !.last_late_fee_ledger = ledger + new_term])
        /\ UNCHANGED <<outside, nft, governed, loanCounter, borrowerLoanCount,
                       borrowerLoans>>

ExtendLoan(id, extra_ledgers) ==
    LET l == loans[id]
        fee == (remaining_principal(l) * EXTENSION_FEE_BPS) \div BPS
    IN  /\ Authorised
        /\ require_not_paused
        /\ extra_ledgers # 0
        /\ l.status = "Approved"
        /\ FitsU32(DefaultEnds(l)) /\ ledger <= DefaultEnds(l)
        /\ l.extension_count < MAX_EXTENSIONS
        /\ CanPay(l.borrower, fee)
        /\ FitsU32(l.due_date + extra_ledgers)
        /\ balance' = Moved(balance, l.borrower, Pool, fee)
        /\ Put(id, [l EXCEPT !.due_date = @ + extra_ledgers, !.extension_count = @ + 1])
        /\ UNCHANGED <<outside, nft, governed, loanCounter, borrowerLoanCount,
                       borrowerLoans, totalOutstanding>>

Purgable == {"Repaid", "Cancelled", "Rejected"}

PurgeLoan(id) ==
    LET l == loans[id]
    IN  /\ Authorised
        /\ l.status \in Purgable
        /\ CanPay(Manager, l.collateral_amount)
        /\ balance' = Moved(balance, Manager, l.borrower, l.collateral_amount)
        /\ loans' = [i \in DOMAIN loans \ {id} |-> loans[i]]
        /\ borrowerLoans' = [borrowerLoans EXCEPT
               ![l.borrower] = Without(@, id)]
        /\ UNCHANGED <<outside, nft, governed, loanCounter, borrowerLoanCount,
                       totalOutstanding>>

------------------------------------------------------------------------------
(* Administration.                                                         *)

Initialize(a) ==
    /\ admin = NoAddress
    /\ isMinter
    /\ admin' = a
    /\ loanCounter' = 0
    /\ pausedAt' = NotPausedMark
    /\ config' = DefaultConfig
    /\ UNCHANGED <<outside, balance, nft, proposedAdmin, loans, borrowerLoanCount,
                   borrowerLoans, totalOutstanding>>

Configure(field, value) ==
    /\ Authorised
    /\ config' = [config EXCEPT ![field] = value]
    /\ UNCHANGED <<outside, balance, nft, admin, proposedAdmin, pausedAt, books>>

SetLateFeeRate(v) == v <= MAX_LATE_FEE_CAP_BPS /\ Configure("late_fee_rate", v)

SetLiquidationThreshold(v) == v >= BPS /\ Configure("threshold", v)

SetLiquidationBonusBps(v) == v <= MAX_LIQUIDATION_BONUS_BPS /\ Configure("bonus", v)

SetGracePeriodLedgers(v) == v <= config.window /\ Configure("grace", v)

SetDefaultWindowLedgers(v) ==
    v >= MIN_DEFAULT_WINDOW /\ v >= config.grace /\ Configure("window", v)

SetMinScore(v) == v <= MAX_SCORE /\ Configure("min_score", v)

SetMaxLoanAmount(v) == v > 0 /\ Configure("max_amount", v)

SetMinRepaymentAmount(v) == v >= 0 /\ Configure("min_repayment", v)

SetMaxLoansPerBorrower(v) == v > 0 /\ Configure("max_loans", v)

SetInterestRate(v) == v > 0 /\ Configure("rate", v)

SetRateOracle == Configure("oracle", TRUE)

SetMinRateBps(v) == v > 0 /\ v <= config.max_rate /\ Configure("min_rate", v)

SetMaxRateBps(v) == v > 0 /\ v >= config.min_rate /\ Configure("max_rate", v)

SetDefaultTerm(v) == v > 0 /\ Configure("default_term", v)

SetMinTermLedgers(v) == v > 0 /\ v <= config.max_term /\ Configure("min_term", v)

SetMaxTermLedgers(v) == v > 0 /\ v >= config.min_term /\ Configure("max_term", v)

ProposeAdmin(a) ==
    /\ Authorised
    /\ proposedAdmin' = a
    /\ UNCHANGED <<outside, balance, nft, admin, pausedAt, config, books>>

AcceptAdmin ==
    /\ proposedAdmin # NoAddress
    /\ admin' = proposedAdmin
    /\ proposedAdmin' = NoAddress
    /\ UNCHANGED <<outside, balance, nft, pausedAt, config, books>>

Pause ==
    /\ Authorised
    /\ pausedAt' = ledger
    /\ UNCHANGED <<outside, balance, nft, admin, proposedAdmin, config, books>>

Unpause ==
    /\ Authorised
    /\ pausedAt' = NotPausedMark
    /\ UNCHANGED <<outside, balance, nft, admin, proposedAdmin, config, books>>

------------------------------------------------------------------------------
(* Surroundings: ledgers close; the pool and the NFT contract are paused   *)
(* and unpaused, revoke and restore this contract's minter right, and      *)
(* change a borrower's reputation on behalf of other callers.              *)

CloseLedger ==
    /\ ledger < MaxLedger
    /\ ledger' = ledger + 1
    /\ UNCHANGED <<balance, nft, nftPaused, poolPaused, isMinter, governed, books>>

NeighboursChange ==
    /\ nftPaused' \in BOOLEAN /\ poolPaused' \in BOOLEAN /\ isMinter' \in BOOLEAN
    /\ UNCHANGED <<ledger, balance, nft, governed, books>>

ReputationChanges(b, r) ==
    /\ nft' = [nft EXCEPT ![b] = r]
    /\ UNCHANGED <<outside, balance, governed, books>>

------------------------------------------------------------------------------
Init ==
    /\ ledger = 1
    /\ balance = [a \in Accounts |->
           IF a = Pool THEN PoolLiquidity
           ELSE IF a \in Borrowers THEN InitialBalance ELSE 0]
    /\ nft = [b \in Borrowers |-> minted(InitialScore)]
    /\ nftPaused = FALSE /\ poolPaused = FALSE /\ isMinter = TRUE
    /\ admin = NoAddress /\ proposedAdmin = NoAddress
    /\ pausedAt = NotPausedMark
    /\ config = DefaultConfig
    /\ loans = [i \in {} |-> {}]
    /\ loanCounter = 0
    /\ borrowerLoanCount = [b \in Borrowers |-> 0]
    /\ borrowerLoans = [b \in Borrowers |-> <<>>]
    /\ totalOutstanding = 0

RequestNext ==
    \E b \in Borrowers, n \in Amounts, t \in Terms, r \in OracleAnswers :
        RequestLoan(b, n, t, r)

LoanNext ==
    \E id \in DOMAIN loans :
        \/ CancelLoan(id) \/ RejectLoan(id) \/ ApproveLoan(id)
        \/ ReleaseCollateral(id) \/ PurgeLoan(id) \/ CheckDefault(id)
        \/ \E n \in Amounts : Repay(id, n) \/ DepositCollateral(id, n)
        \/ \E a \in Liquidators \cup Borrowers : Liquidate(a, id)
        \/ \E n \in Amounts, t \in Terms, r \in OracleAnswers :
               RefinanceLoan(id, n, t, r)
        \/ \E n \in Extensions : ExtendLoan(id, n)

BatchNext == \E ids \in SUBSET DOMAIN loans : CheckDefaults(ids)

SettingNext(settings) ==
    \/ \E v \in settings.late_fee_rate : SetLateFeeRate(v)
    \/ \E v \in settings.threshold : SetLiquidationThreshold(v)
    \/ \E v \in settings.bonus : SetLiquidationBonusBps(v)
    \/ \E v \in settings.grace : SetGracePeriodLedgers(v)
    \/ \E v \in settings.window : SetDefaultWindowLedgers(v)
    \/ \E v \in settings.min_score : SetMinScore(v)
    \/ \E v \in settings.max_amount : SetMaxLoanAmount(v)
    \/ \E v \in settings.min_repayment : SetMinRepaymentAmount(v)
    \/ \E v \in settings.max_loans : SetMaxLoansPerBorrower(v)
    \/ \E v \in settings.rate : SetInterestRate(v)
    \/ \E v \in settings.min_rate : SetMinRateBps(v)
    \/ \E v \in settings.max_rate : SetMaxRateBps(v)
    \/ \E v \in settings.default_term : SetDefaultTerm(v)
    \/ \E v \in settings.min_term : SetMinTermLedgers(v)
    \/ \E v \in settings.max_term : SetMaxTermLedgers(v)

AdminNext ==
    \/ \E a \in Admins : ProposeAdmin(a)
    \/ AcceptAdmin
    \/ Pause \/ Unpause

OutsideNext ==
    \/ NeighboursChange
    \/ \E b \in Borrowers, r \in OutsideReputations : ReputationChanges(b, r)

LifecycleNext ==
    \/ \E a \in Admins : Initialize(a)
    \/ RequestNext \/ LoanNext \/ BatchNext \/ CloseLedger

ConfigNext == SetRateOracle \/ SettingNext(Settings)

Next == LifecycleNext \/ ConfigNext \/ AdminNext \/ OutsideNext

Spec == Init /\ [][Next]_vars

(* The same contract while nobody touches its configuration or neighbours: *)
(* what the larger loan-lifecycle instances explore.                       *)
LifecycleSpec == Init /\ [][LifecycleNext]_vars


------------------------------------------------------------------------------
(* Properties.                                                             *)

Approved == {id \in DOMAIN loans : loans[id].status = "Approved"}

Live == {id \in DOMAIN loans : loans[id].status \in {"Pending", "Approved"}}

LoansOf(b) == {id \in DOMAIN loans : loans[id].borrower = b}

SumOf(field, ids) == Total([id \in ids |-> loans[id][field]], ids)

(* The contract holds exactly the collateral on its books, and only active *)
(* loans have any: no path (final or forgiven repayment, liquidation,      *)
(* default, batch default, shrinking refinance, cancellation, purge)       *)
(* strands a borrower's collateral or pays it out twice.                   *)
CollateralInCustody ==
    /\ balance[Manager] = SumOf("collateral_amount", Approved)
    /\ \A id \in DOMAIN loans \ Approved : loans[id].collateral_amount = 0

(* BorrowerLoanCount, on which request_loan's max_loans check relies, is   *)
(* the number of the borrower's pending and approved loans, although six   *)
(* entry points decrement it.                                              *)
SlotsCounted ==
    \A b \in Borrowers : borrowerLoanCount[b] = Cardinality(LoansOf(b) \cap Live)

(* BorrowerLoans lists exactly the borrower's stored loans, oldest first.  *)
(* RemittanceNFT::transfer walks this list with get_loan, so an id left    *)
(* behind by purge_loan would make the borrower's NFT untransferable.      *)
LoanListsExact ==
    \A b \in Borrowers :
        Ascending(borrowerLoans[b]) /\ Entries(borrowerLoans[b]) = LoansOf(b)

(* The outstanding counter covers the principal of every active loan, so   *)
(* that adjust_total_outstanding(-amount) never traps a repayment, a       *)
(* liquidation or a default.                                               *)
OutstandingCovers == totalOutstanding >= SumOf("amount", Approved)

(* Whatever the oracle answers and the admin configures, no loan is free   *)
(* (compute_interest_rate's comment on #631).                              *)
NoFreeLoans == \A id \in DOMAIN loans : loans[id].interest_rate_bps > 0

(* The late fees a borrower owes never push fees and principal past the    *)
(* penalty multiple of the loan, over any sequence of accruals, payments,  *)
(* refinancings and rate changes.                                          *)
LateFeesCapped ==
    \A id \in Approved :
        remaining_principal(loans[id]) + loans[id].accrued_late_fee
            <= loans[id].amount * MAX_PENALTY_MULTIPLIER

(* The setters, called in any order, keep the grace period inside the      *)
(* default window and every lower bound below its upper bound: otherwise a *)
(* loan could default before its first late fee, or no term or rate be     *)
(* acceptable.                                                             *)
ConfigCoherent ==
    /\ config.grace <= config.window
    /\ config.min_rate <= config.max_rate
    /\ config.min_term <= config.max_term
    /\ config.rate > 0 /\ config.max_loans > 0 /\ config.max_amount > 0

(* Touching a loan early does not change what it costs: interest accrued   *)
(* now and again `later' is what one accrual would have charged, up to the *)
(* one unit that rounding the residual may still hold back.                *)
AccrualPathIndependent ==
    \A id \in Approved, later \in ledger..MaxLedger :
        LET once  == accrue_interest(loans[id], later).accrued_interest
            twice == accrue_interest(accrue_interest(loans[id], ledger), later)
                         .accrued_interest
        IN  twice \in {once - 1, once}

(* A borrower with the money can always close a loan inside its default    *)
(* window, and one past it can always be defaulted: no earlier rounding,   *)
(* counter or collateral movement leaves an active loan that nobody can    *)
(* end ("Allow repayment until end of default window").  Not covered: a    *)
(* loan whose window ends beyond the u32 range, which approve_loan accepts *)
(* and on which repay and check_default panic.                             *)
LoanCanEnd ==
    \A id \in Approved :
        LET l == Accrued(loans[id])
        IN  require_not_paused /\ isMinter /\ FitsU32(DefaultEnds(l)) =>
                IF ledger <= DefaultEnds(l)
                THEN CanPay(l.borrower, Debt(l)) => MayRepay(id, Debt(l))
                ELSE MayCheckDefault(id)

(* The books agree with the loans: collateral, slots, lists and the        *)
(* outstanding counter, over every ending of two loans of one borrower.    *)
BooksAgree ==
    CollateralInCustody /\ SlotsCounted /\ LoanListsExact /\ OutstandingCovers

(* A debt is what the terms say: no matter how often it was touched, with  *)
(* late fees within their cap, and closable.                               *)
DebtWellFormed == AccrualPathIndependent /\ LateFeesCapped /\ LoanCanEnd

(* No administration, oracle answer or outside seizure leaves a running    *)
(* loan that cannot end, an incoherent configuration or a free loan.       *)
LoansOutliveAdministration == LoanCanEnd /\ ConfigCoherent /\ NoFreeLoans

(* What a step that closes the loan id may cost the pool.                  *)
WriteOff(id) ==
    LET l == Accrued(loans[id])
        short(n) == IF n > l.collateral_amount THEN n - l.collateral_amount ELSE 0
    IN  CASE loans'[id].status = "Defaulted"  -> short(remaining_principal(l))
          [] loans'[id].status = "Liquidated" -> short(Debt(l))
          [] loans'[id].status = "Repaid"     ->
                 IF config.min_repayment > 0 THEN config.min_repayment - 1 ELSE 0
          [] OTHER                            -> 0

PoolWorth ==
    balance[Pool] + Total([id \in Approved |-> remaining_principal(loans[id])], Approved)

LossesExplained ==
    LET ended == {id \in Approved : id \in DOMAIN loans'}
    IN  PoolWorth' >= PoolWorth - Total([id \in ended |-> WriteOff(id)], ended)

(* The pool's cash and lent principal shrink only where a loan ends: by    *)
(* what its collateral does not cover (the liquidator's bonus never comes  *)
(* out of the pool's share) or by forgiven dust below the minimum          *)
(* repayment.  Refinancing, extending and partial repayment cost it        *)
(* nothing.                                                                *)
PoolLosesOnlyWriteOffs == [][LossesExplained]_vars

(* The doc of approve_loan: SeizedBorrower "when the borrower has been     *)
(* seized since the loan was requested" - no loan is approved once a later *)
(* loan of the same borrower has failed.                                   *)
FailedNeverFunded ==
    [][\A id \in DOMAIN loans :
         /\ loans[id].status = "Pending"
         /\ id \in DOMAIN loans' /\ loans'[id].status = "Approved"
         => \A other \in LoansOf(loans[id].borrower) :
                other > id => loans[other].status \notin {"Defaulted", "Liquidated"}]_vars
==============================================================================
