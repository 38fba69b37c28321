------------------------------ MODULE LoanView ------------------------------
(***************************************************************************)
(* One loan as the API shows it: the list, detail and schedule views of    *)
(* controllers/loanController.ts over the indexed events, with the accrual *)
(* of money/loanAccrual.ts, the breakdown of scoreController.ts, and the   *)
(* disputes of adminDisputeController.ts, whose handlers read, write and   *)
(* append without a transaction.  The money policy rounds the amounts.     *)
(***************************************************************************)
EXTENDS Money, FiniteSetsExt, Functions

CONSTANTS
    Amounts,            \* event amounts in stroops
    RateBps, TermLedgers,
    PeriodLedgers,      \* 30 * LEDGER_DAY
    Disputes, Admins,   \* dispute rows; resolve or reject requests
    NoDispute,
    MaxLedger, MaxEvents

ASSUME LoanViewConstants ==
    /\ Amounts \subseteq Nat /\ RateBps \in Nat /\ TermLedgers \in Nat \ {0}
    /\ PeriodLedgers \in Nat \ {0}
    /\ MaxLedger \in Nat

VARIABLES
    indexed,            \* the loan's contract_events, in index order
    indexedLedger,      \* indexer_state.last_indexed_ledger
    dispute,            \* id -> [status, ledger]: status "none" before it is opened
    ruling              \* admin request -> [pc, id]

loanViewVars == <<indexed, indexedLedger, dispute, ruling>>

LoanViewInit ==
    /\ indexed = <<>>
    /\ indexedLedger = 0
    /\ dispute = [d \in Disputes |-> [status |-> "none", ledger |-> 0]]
    /\ ruling = [a \in Admins |-> [pc |-> "idle", id |-> NoDispute]]

------------------------------------------------------------------------------
(* The indexer appends what the contract emits: a loan is requested, then  *)
(* approved once, repaid in any amounts, defaulted.                        *)

Of(type) == {i \in DOMAIN indexed : indexed[i].type = type}     \* their positions

indexLoanEvent(type, amount) ==
    /\ Len(indexed) < MaxEvents
    /\ CASE type = "LoanRequested" -> indexed = <<>>
         [] type = "LoanApproved" -> Of("LoanRequested") # {} /\ Of("LoanApproved") = {}
         [] OTHER -> Of("LoanApproved") # {}
    /\ type \in {"LoanApproved", "LoanDefaulted"} <=> amount = 0
    /\ indexed' = Append(indexed, [type |-> type, amount |-> amount, ledger |-> indexedLedger])
    /\ UNCHANGED <<indexedLedger, dispute, ruling>>

advanceLedger ==
    /\ indexedLedger < MaxLedger
    /\ indexedLedger' = indexedLedger + 1
    /\ UNCHANGED <<indexed, dispute, ruling>>

------------------------------------------------------------------------------
(* Accrual and the views.                                                  *)

remainingPrincipal(principal, repaid) == IF principal > repaid THEN principal - repaid ELSE 0

accrueInterest(remaining, elapsed) ==
    IF remaining <= 0 \/ elapsed <= 0 THEN 0
    ELSE (remaining * RateBps * elapsed) \div (10000 * TermLedgers)

NotNegative(x) == IF x > 0 THEN x ELSE 0
SumOf(events) == Total([i \in events |-> indexed[i].amount], events)

principal == IF Of("LoanRequested") = {} THEN 0 ELSE indexed[Min(Of("LoanRequested"))].amount
totalRepaid == SumOf(Of("LoanRepaid"))
approvedLedger == IF Of("LoanApproved") = {} THEN 0 ELSE indexed[Max(Of("LoanApproved"))].ledger
isPending == approvedLedger = 0 \/ indexedLedger < approvedLedger

StatusFor(totalOwed) ==
    CASE isPending -> "pending_indexing"
      [] Of("LoanDefaulted") # {} -> "defaulted"
      [] totalOwed > 0 -> "active"
      [] OTHER -> "repaid"

(* Fault: the list charges interest on the original principal.             *)
getBorrowerLoans_Faulty ==
    LET accrued == accrueInterest(principal, NotNegative(indexedLedger - approvedLedger))
        totalOwed == principal + accrued - totalRepaid
    IN  [totalOwed |-> totalOwed, accrued |-> accrued, status |-> StatusFor(totalOwed)]

(* The list: one SQL statement; the total may go below zero.               *)
getBorrowerLoans ==
    LET accrued == accrueInterest(NotNegative(principal - totalRepaid),
                                  NotNegative(indexedLedger - approvedLedger))
        totalOwed == principal + accrued - totalRepaid
    IN  [totalOwed |-> totalOwed, accrued |-> accrued, status |-> StatusFor(totalOwed)]

(* An open dispute stops the clock of the detail view at the loan's last   *)
(* event before it.                                                        *)
OpenDisputes == {d \in Disputes : dispute[d].status = "open"}
freezeLedger ==
    LET opened == Min({dispute[d].ledger : d \in OpenDisputes})
        before == {i \in 1 .. Len(indexed) : indexed[i].ledger <= opened}
    IN  indexed[Max(before)].ledger

getLoanDetails ==
    LET elapsed == NotNegative((IF OpenDisputes # {} THEN freezeLedger ELSE indexedLedger) - approvedLedger)
        remaining == remainingPrincipal(principal, totalRepaid)
        accrued == IF isPending THEN 0 ELSE accrueInterest(remaining, elapsed)
    IN  [totalOwed |-> remaining + accrued, accrued |-> accrued, status |-> StatusFor(remaining + accrued)]

------------------------------------------------------------------------------
(* The score breakdown of the loan's borrower.  One statement joins the    *)
(* borrower's scores row with the counts, which are all zero without one.  *)
(* The last repayment, a partial one too, decides between on time and late.*)

BreakdownAt(scored, repaidLedger) ==
    LET repaid == scored /\ Of("LoanRepaid") # {}
        onTime == repaidLedger <= approvedLedger + TermLedgers
        Count(b) == IF b THEN 1 ELSE 0
    IN  [totalLoans |-> Count(scored /\ Of("LoanRequested") # {}),
         repaidOnTime |-> Count(repaid /\ onTime),
         repaidLate |-> Count(repaid /\ ~onTime),
         defaulted |-> Count(scored /\ Of("LoanDefaulted") # {}),
         totalRepaid |-> IF scored THEN totalRepaid ELSE 0]

RepaidLedgers == {indexed[i].ledger : i \in Of("LoanRepaid")} \cup {0}

(* Fault: the first, perhaps partial, repayment decides.                   *)
getScoreBreakdown_Faulty(scored) ==
    BreakdownAt(scored, Min({x \in RepaidLedgers : x > 0} \cup {MaxLedger}))

getScoreBreakdown(scored) == BreakdownAt(scored, Max(RepaidLedgers))

(* Its history is ordered by closing time alone: rows of one ledger come   *)
(* in any order.                                                           *)
Histories ==
    LET rows == Of("LoanRepaid") \cup Of("LoanDefaulted")
        size == Cardinality(rows)
    IN  {h \in Bijection(1 .. size, rows) :
            \A i, j \in 1 .. size : i < j => indexed[h[i]].ledger <= indexed[h[j]].ledger}

Repays(history, n) == indexed[history[n]].type = "LoanRepaid"
streaks(history) ==
    LET after[n \in 0 .. Len(history)] ==
            IF n = 0 THEN [current |-> 0, longest |-> 0]
            ELSE LET temp == IF Repays(history, n) THEN after[n - 1].current + 1 ELSE 0
                 IN  [current |-> temp,
                      longest |-> IF temp > after[n - 1].longest THEN temp ELSE after[n - 1].longest]
    IN  after[Len(history)]

------------------------------------------------------------------------------
(* The amortization schedule: every period pays a share rounded to cents   *)
(* and the last one what is left, for the principal and for the interest   *)
(* alike.  What is rounded is counted in ten-thousandths of the unit of    *)
(* the event amounts (a tenth of a cent), so that a rate in basis points   *)
(* gives a whole number; the portions are cents.  The toFixed(7) before    *)
(* the rounding is left out.                                               *)

Cent == 10 * 10000
roundToCents(x, parts) == roundDiv(x, parts * Cent, DEFAULT_MODE)

buildAmortizationSchedule(amount, periods) ==
    LET share == roundToCents(amount, periods)
        left[i \in 0 .. periods] ==
            IF i = 0 THEN amount ELSE Cent * roundToCents(left[i - 1] - Cent * share, 1)
    IN  [i \in 1 .. periods |-> IF i = periods THEN roundToCents(left[i - 1], 1) ELSE share]

(* Math.round: halves go up; one period at least.                          *)
periodCount(termLedgers) ==
    Max({1, (2 * termLedgers + PeriodLedgers) \div (2 * PeriodLedgers)})

Interest(amount) == amount * RateBps
SchedulesOf(amount, termLedgers) ==
    <<buildAmortizationSchedule(amount * 10000, periodCount(termLedgers)),
      buildAmortizationSchedule(Interest(amount), periodCount(termLedgers))>>

(* 30, 60 or 90 days; an approved loan's own term.                         *)
previewLoanAmortizationSchedule(amount, days) == SchedulesOf(amount, (days \div 30) * PeriodLedgers)
getLoanAmortizationSchedule == SchedulesOf(principal, TermLedgers)

------------------------------------------------------------------------------
(* Disputes.  The event each handler appends leaves out columns that must  *)
(* not be null: the row stays, the answer is a 500 and nobody is notified. *)

contestDefault(d) ==
    /\ Of("LoanDefaulted") # {}
    /\ dispute[d].status = "none"
    /\ dispute' = [dispute EXCEPT ![d] = [status |-> "open", ledger |-> indexedLedger]]
    /\ UNCHANGED <<indexed, indexedLedger, ruling>>

readOpenDispute(a, d) ==
    /\ ruling[a].pc = "idle" /\ dispute[d].status = "open"
    /\ ruling' = [ruling EXCEPT ![a] = [pc |-> "write", id |-> d]]
    /\ UNCHANGED <<indexed, indexedLedger, dispute>>

Rule(a, status) ==
    LET d == ruling[a].id
    IN  /\ ruling[a].pc = "write"
        /\ ruling' = [ruling EXCEPT ![a].pc = "done"]
        /\ dispute' = [dispute EXCEPT ![d].status = status]
        /\ UNCHANGED <<indexed, indexedLedger>>

resolveLoanDispute(a) == Rule(a, "resolved")
rejectLoanDispute(a) == Rule(a, "rejected")

LoanViewNext ==
    \/ \E type \in {"LoanRequested", "LoanApproved", "LoanRepaid", "LoanDefaulted"}, x \in Amounts \cup {0} :
          indexLoanEvent(type, x)
    \/ advanceLedger
    \/ \E d \in Disputes : contestDefault(d)
    \/ \E a \in Admins : resolveLoanDispute(a) \/ rejectLoanDispute(a)
                         \/ \E d \in Disputes : readOpenDispute(a, d)

------------------------------------------------------------------------------
(* A loan whose debt was completed after its term counts as late, however  *)
(* early its first instalment, and the amount repaid is the list's.  The   *)
(* longest streak is the longest run of repayments in the history and a    *)
(* default later than every repayment ends the current one, in whichever   *)
(* order rows of one ledger are read.                                      *)
CountsAgree ==
    LET repaid == Of("LoanRepaid")
        completing == {i \in repaid : SumOf(repaid \cap (1 .. i)) >= principal}
        late == completing # {} /\ indexed[Min(completing)].ledger > approvedLedger + TermLedgers
        answer == getScoreBreakdown(repaid # {} \/ Of("LoanDefaulted") # {})
    IN  /\ answer.repaidOnTime + answer.repaidLate = (IF repaid = {} THEN 0 ELSE 1)
        /\ late => answer.repaidLate = 1
        /\ answer.totalRepaid = principal + getBorrowerLoans.accrued - getBorrowerLoans.totalOwed

StreaksAgree(h) ==
    LET runs == {x[2] - x[1] + 1 : x \in
                     {run \in (1 .. Len(h)) \X (1 .. Len(h)) : \A k \in run[1] .. run[2] : Repays(h, k)}}
        defaultedLast == \E e \in Of("LoanDefaulted") :
                             \A r \in Of("LoanRepaid") : indexed[r].ledger < indexed[e].ledger
    IN  /\ streaks(h).longest = Max(runs \cup {0})
        /\ defaultedLast => streaks(h).current = 0

BreakdownAgrees == CountsAgree /\ \A h \in Histories : StreaksAgree(h)

(* loanAccrual.ts: "the list and detail endpoints agree with each other".  *)
(* They give a loan the same status always, and the same amounts unless a  *)
(* dispute is open (only the detail view stops its clock), the loan is     *)
(* overpaid (only the list goes below zero), or it is not yet indexed.     *)
(* The borrower's score breakdown follows the same events.                 *)
LoanViewsAgree ==
    /\ getBorrowerLoans.status = getLoanDetails.status
    /\ (OpenDisputes = {} /\ totalRepaid <= principal /\ ~isPending) =>
           getBorrowerLoans = getLoanDetails
    /\ BreakdownAgrees

(* A schedule pays the principal and the interest rounded to cents, one    *)
(* cent off at most, and only where the amount ends on exactly half a      *)
(* cent: subtracting a share of an odd number of cents then changes which  *)
(* way the tie is rounded.  One of up to three periods has no negative     *)
(* portion.                                                                *)
PaysOut(amount, portions) ==
    /\ AbsOf(SignedTotal(portions, DOMAIN portions) - roundToCents(amount, 1))
           <= (IF amount % Cent = Cent \div 2 THEN 1 ELSE 0)
    /\ Len(portions) <= 3 => \A i \in DOMAIN portions : portions[i] >= 0

BothPayOut(schedules) ==
    PaysOut(principal * 10000, schedules[1]) /\ PaysOut(Interest(principal), schedules[2])

ScheduleAddsUp ==
    /\ \A days \in {30, 60, 90} : BothPayOut(previewLoanAmortizationSchedule(principal, days))
    /\ BothPayOut(getLoanAmortizationSchedule)

(* The money policy gives what it promises (the nearest amount, of two the *)
(* even one; shown amounts that parse back; splits that pay out the total) *)
(* and the schedules built on it add up: decimal.ts, format.ts, lib.rs.    *)
AmountsAddUp == MoneyAgrees /\ ScheduleAddsUp
==============================================================================
