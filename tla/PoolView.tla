------------------------------ MODULE PoolView ------------------------------
(***************************************************************************)
(* The lending pool as the API shows it: the totals and portfolios of      *)
(* controllers/poolController.ts and the daily series that                 *)
(* services/yieldHistoryService.ts rebuilds by replaying the indexed pool  *)
(* events of the last days.  Of the contract only its books are here: it   *)
(* emits any amounts and shares that they allow, at any price (LendingPool *)
(* has the price).  With the views of a loan and the money policy under    *)
(* them these are all the figures the API shows.                           *)
(***************************************************************************)
EXTENDS LoanView

CONSTANTS
    Depositors,
    PoolAmounts,        \* amounts and shares of one event
    DayLength,          \* ticks between two midnights, the first one at 0
    WindowDays,         \* the requested range
    MAX_POINTS,         \* most buckets of a series
    MaxTick, MaxPoolEvents

ASSUME PoolViewConstants ==
    /\ IsFiniteSet(Depositors) /\ PoolAmounts \subseteq Nat
    /\ DayLength \in Nat \ {0} /\ WindowDays \in Nat /\ MAX_POINTS \in Nat

VARIABLES
    poolLog,            \* indexed pool events, in order of ledger_closed_at
    tick,               \* the time of the request; an event of tick t closes
                        \* after that moment and before the next
    books,              \* what the contract holds: assets, shares, who has them
    booksAt             \* tick -> the contract's books when the tick began

poolViewVars == <<poolLog, tick, books, booksAt>>

NoBooks == [assets |-> 0, shares |-> 0, held |-> [a \in Depositors |-> 0]]

PoolViewInit ==
    /\ poolLog = <<>>
    /\ tick = 0
    /\ books = NoBooks
    /\ booksAt = [d \in {0} |-> NoBooks]

------------------------------------------------------------------------------
(* The contract.                                                           *)

Booked(before, e) ==
    CASE e.type = "Deposit" ->
            [assets |-> before.assets + e.amount, shares |-> before.shares + e.shares,
             held |-> [before.held EXCEPT ![e.address] = @ + e.shares]]
      [] e.type = "Withdraw" ->
            [assets |-> before.assets - e.amount, shares |-> before.shares - e.shares,
             held |-> [before.held EXCEPT ![e.address] = @ - e.shares]]
      [] OTHER -> [before EXCEPT !.assets = @ + e.amount]

Allowed(before, e) ==
    /\ e.shares > 0
    /\ e.type = "Withdraw" => e.shares <= before.held[e.address] /\ e.amount <= before.assets
    /\ e.type = "YieldDistributed" => e.shares = e.amount

emit(e) ==
    /\ Len(poolLog) < MaxPoolEvents
    /\ Allowed(books, e)
    /\ poolLog' = Append(poolLog, e)
    /\ books' = Booked(books, e)
    /\ UNCHANGED <<tick, booksAt>>

nextTick ==
    /\ tick < MaxTick
    /\ tick' = tick + 1
    /\ booksAt' = [d \in 0 .. tick + 1 |-> IF d <= tick THEN booksAt[d] ELSE books]
    /\ UNCHANGED <<poolLog, books>>

PoolViewNext ==
    \/ \E type \in {"Deposit", "Withdraw", "YieldDistributed"}, a \in Depositors,
          amount, shares \in PoolAmounts :
              emit([type |-> type, address |-> a, amount |-> amount, shares |-> shares, at |-> tick])
    \/ nextTick

------------------------------------------------------------------------------
(* The figures of the dashboard, over the log's positions: deposits less   *)
(* withdrawals.                                                            *)

AmountOf(chosen) == Total([i \in chosen |-> poolLog[i].amount], chosen)
OfType(type) == {i \in DOMAIN poolLog : poolLog[i].type = type}
NetOf(chosen) == AmountOf(chosen \cap OfType("Deposit")) - AmountOf(chosen \cap OfType("Withdraw"))

getPoolStats == NetOf(DOMAIN poolLog)
getDepositorPortfolio(a) == NetOf({i \in DOMAIN poolLog : poolLog[i].address = a})

------------------------------------------------------------------------------
(* The series.                                                             *)

AtLeastZero(x) == IF x > 0 THEN x ELSE 0

(* Fault: a withdrawal leaves the share count as it was.                   *)
applyPoolEvent_Faulty(state, e) ==
    CASE e.type = "Deposit" ->
            [balance |-> state.balance + e.amount, shares |-> state.shares + e.shares]
      [] e.type = "Withdraw" -> [state EXCEPT !.balance = AtLeastZero(@ - e.amount)]
      [] OTHER -> [state EXCEPT !.balance = @ + e.amount]

applyPoolEvent(state, e) ==
    CASE e.type = "Deposit" ->
            [balance |-> state.balance + e.amount, shares |-> state.shares + e.shares]
      [] e.type = "Withdraw" ->
            [balance |-> AtLeastZero(state.balance - e.amount),
             shares |-> AtLeastZero(state.shares - e.shares)]
      [] OTHER -> [state EXCEPT !.balance = @ + e.amount]

(* The cost basis is the fraction cost / per: a withdrawal takes away the  *)
(* part of it that its shares are of the position.                         *)
applyDepositorEvent(state, e) ==
    IF e.type = "Deposit"
    THEN [state EXCEPT !.shares = @ + e.shares, !.cost = @ + e.amount * state.per]
    ELSE IF state.shares <= 0 THEN state
    ELSE [shares |-> AtLeastZero(state.shares - e.shares),
          cost |-> state.cost * AtLeastZero(state.shares - e.shares),
          per |-> state.per * state.shares]

(* The range starts at the present time of day; the buckets are midnights, *)
(* from the one before that on, and hold the events up to them.            *)
Since == tick - WindowDays * DayLength
bucketDates ==
    LET first == Since \div DayLength
    IN  {d * DayLength : d \in {d \in first .. (tick \div DayLength) : d < first + MAX_POINTS}}
Replayed(e, b) == e.at >= Since /\ e.at < b

poolState(b) ==
    LET after[n \in 0 .. Len(poolLog)] ==
            IF n = 0 THEN [balance |-> 0, shares |-> 0]
            ELSE IF Replayed(poolLog[n], b) THEN applyPoolEvent(after[n - 1], poolLog[n])
            ELSE after[n - 1]
    IN  after[Len(poolLog)]

OwnEvent(a, e) == e.address = a /\ e.type # "YieldDistributed"
depositorState(a, b) ==
    LET after[n \in 0 .. Len(poolLog)] ==
            IF n = 0 THEN [shares |-> 0, cost |-> 0, per |-> 1]
            ELSE IF OwnEvent(a, poolLog[n]) /\ Replayed(poolLog[n], b)
                 THEN applyDepositorEvent(after[n - 1], poolLog[n])
            ELSE after[n - 1]
    IN  after[Len(poolLog)]

(* assetValueFromShares, times the share count it divides by; the price    *)
(* read from the chain, which may replace the last value, is left out.     *)
ValueTimesShares(a, b) ==
    IF depositorState(a, b).shares <= 0 \/ poolState(b).shares <= 0 THEN 0
    ELSE depositorState(a, b).shares * poolState(b).balance

------------------------------------------------------------------------------
(* The total shown is what the contract manages less all yield, and the    *)
(* portfolios add up to it.  When no event is older than the requested     *)
(* range the rebuilt series is the contract's own history: at every bucket *)
(* its balance, its shares and each depositor's shares are those of that   *)
(* midnight, a position of no shares has no cost, and the depositors'      *)
(* values add up to the balance.  The queries order events by closing time *)
(* alone, so the rows of one ledger (of one tick, at the finest) come in   *)
(* any order: deposits and yield add up in every order, but a withdrawal   *)
(* read before the deposit it takes from is cut off at zero.  Nothing is   *)
(* claimed of a history in which one shares its tick.                      *)
DashboardAgrees ==
    /\ getPoolStats = books.assets - AmountOf(OfType("YieldDistributed"))
    /\ getPoolStats = SignedTotal([a \in Depositors |-> getDepositorPortfolio(a)], Depositors)

SeriesAgrees(b) ==
    /\ poolState(b) = [balance |-> booksAt[b].assets, shares |-> booksAt[b].shares]
    /\ \A a \in Depositors :
          /\ depositorState(a, b).shares = booksAt[b].held[a]
          /\ depositorState(a, b).shares = 0 => depositorState(a, b).cost = 0
    /\ poolState(b).shares > 0 =>
          Total([a \in Depositors |-> ValueTimesShares(a, b)], Depositors)
              = poolState(b).shares * poolState(b).balance

OrderIsGiven ==
    \A i, j \in DOMAIN poolLog :
        (poolLog[i].at = poolLog[j].at /\ poolLog[i].type = "Withdraw") => i = j

PoolViewsAgree ==
    /\ DashboardAgrees
    /\ (OrderIsGiven /\ \A i \in DOMAIN poolLog : poolLog[i].at >= Since) =>
           \A b \in bucketDates \cap (0 .. tick) : SeriesAgrees(b)

(* What the API reports of loans and of the pool agrees with the events    *)
(* the contracts emitted: the borrower's list, the loan detail and the     *)
(* score breakdown with one another, the pool's totals, portfolios and     *)
(* series with the contract's books.                                       *)
ViewsAgree == LoanViewsAgree /\ PoolViewsAgree

------------------------------------------------------------------------------
(* The views and the money policy side by side: they share no variable.    *)
ViewsInit == LoanViewInit /\ PoolViewInit /\ MoneyInit

ViewsNext ==
    \/ LoanViewNext /\ UNCHANGED <<poolViewVars, moneyVars>>
    \/ PoolViewNext /\ UNCHANGED <<loanViewVars, moneyVars>>
    \/ MoneyNext /\ UNCHANGED <<loanViewVars, poolViewVars>>

ViewsSpec == ViewsInit /\ [][ViewsNext]_<<loanViewVars, poolViewVars, moneyVars>>
==============================================================================
