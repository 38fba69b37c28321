# Lend: a TLA+ model of the protocol and its application

Lend issues loans against a credit score earned by remittances. Four Soroban
contracts (Rust, `contracts/`) hold the money and the rules; a Node backend
(`backend/src`) indexes their events, keeps a database copy of what they say,
delivers webhooks and notifications and runs periodic jobs; a Next.js frontend
(`frontend/src`) builds, signs and submits transactions.

This directory models all three, checks them with TLC on small instances and
proves most of their safety properties with TLAPS for every instance: those of
all four contracts, the indexer, the delivery of events, the request path and
the browser (section 4).
`PROJECT.json` lists the parts, the runs, the hazards found while reading (each
at its line) and, under `map`, the source lines every definition stands for.

## 1. The system and its parts

### Contracts

| Part | State | Operations | Depends on |
|---|---|---|---|
| `lending_pool` | per token: shares per provider, total shares, deposited principal, managed assets, depositor count, deposit stamps, cap; cooldown, pause, admin | deposit, withdraw, emergency_withdraw, distribute_yield, adjust_outstanding, setters, admin hand-over | the token contract; the loan manager moves the pool's tokens |
| `loan_manager` | loans, loan counter, per-borrower count and id list, outstanding per token, collateral, fifteen settings, oracle, pause, admin | request, cancel, reject, approve, repay, deposit and release collateral, liquidate, check_default(s), refinance, extend, purge, setters, admin hand-over | token, pool (pause flag, tokens), NFT (score, seizure, defaults), rate oracle |
| `remittance_nft` | per user: score metadata, score log, burned and seized flags, default count, transfer cooldown, documents, remint approval; minters with flags and a bounded list; burn threshold, pause, admin | mint, admin_remint, approve_remint, burn, transfer, update/decrease/apply score, seize, record_default, document updates, setters, admin hand-over | the loan manager, asked for a borrower's loans at transfer |
| `multisig_governance` | one pending proposal with signers, approvals, timelock and expiry; admin; time of the last cancellation | propose, approve, finalize, cancel, emergency cancel, expire | `set_admin` of the target contract |
| `money` | none | rounding division, pro-rata split | mirrored in `backend/src/money` and `frontend/src/app/utils` |

A contract invocation is a transaction: it runs alone, and an error or a panic
in it, or in a contract it calls, undoes all of it. The interleaving that
matters is the order of whole calls by borrowers, providers, liquidators, admins
and keepers, and the ledgers that close between them. What is hard is arithmetic
that rounds in every call, counters kept redundantly in several keys, deadlines
on a 32-bit ledger clock, and state of one contract that is stale when another
acts on it.

### Backend

| Part | State | Hard behaviour |
|---|---|---|
| Event indexer, checkpoints, pause guard | cursor, checkpoints, event and quarantine tables, a pause flag per process and in a row | a transaction callback run twice; crash between commit and dispatch, between two cursor writes; admin jobs beside the poller |
| Default checker | lock in Redis, batches in flight | a run that outlives its lock; timeouts of transactions that still land; loans it never looks at |
| Scores, cross-contract reconciler | score rows, cached scores, reconciliation rows | deltas, absolute corrections and decay from stale reads; outages answered with a default |
| Webhooks | subscriptions, deliveries with attempts | two processors, lost answers, crashes between POST and row |
| Event stream | connection registries with a limit | replay, registration and broadcast in any order; leaks at the limit |
| Notifications | rows with a status and an age | pushes lost around registration, retention |
| Idempotency | lock and cached response per key | unlocking before caching, expiry, Redis down |
| Access, limiters, audit | challenges, tokens, revocations, counters | one challenge used twice; role changes under a live token; fail-open checks |
| Transactions, remittances | unsigned transactions, submission rows, remittance status | duplicates, polls that give up, two submissions of one record |
| Read models, lists | none of their own: SQL over the event table | two views of one loan; rows committed late under a cursor |

The indexer stores events in one database transaction, updates scores in it, and
afterwards starts webhooks, stream, notifications and the pause flag. The default
checker reads the event table and calls `check_defaults`; the reconcilers read
the chain and overwrite the table; every request passes limiters, pause guard,
authentication and idempotency before its handler.

### Frontend

The data hooks share one query cache with fetches in flight, optimistic updates
and invalidations; the transaction flows preview, build, sign, submit, poll and
report; the wallet store follows an extension that switches account and network
when it likes; streams reconnect, and fall back to polling.

## 2. Modules

| Module | Models | Composed in |
|---|---|---|
| `Aggregates` | sums as a count of unit pairs, filtered copies of lists and the closed form of the repayment split, without recursion | |
| `LendingPool` | the pool contract for one token | `MCLendingPool` |
| `Reputation` | one user's record in the NFT contract and the pure part of what the entry points do to it | |
| `RemittanceNFT` | the NFT contract | `MCRemittanceNFT` |
| `RepaymentAllocation` | the loop that computes the split of a payment | `MCLoanDebt` |
| `LoanManager` | the loan contract, with token balances and the borrower's `Reputation` | `MCLoanDebt`, `MCLoanManager`, `MCLoanAdministration` |
| `Governance` | the multisig contract, composed with the target's `set_admin` | `MCGovernance` |
| `EventIndexer` | poller, admin jobs, storing, dispatch, checkpoints, cursor, pause flags | `MCIndexing` |
| `DefaultKeeper` | the default checker of several processes, with the chain and the indexer it depends on | `MCIndexing` |
| `Scores`, `CrossReconciler` | every writer of the score table; the custody events and their judgement | `MCIndexing` |
| `Delivery` | what webhook delivery promises: abstract specification | |
| `WebhookDelivery` | subscriptions, deliveries, processors; refines `Delivery` | `MCFanOut` |
| `EventStream`, `Notifications` | server and browser side of both streams | `MCFanOut` |
| `RequestGates`, `Access`, `Idempotency` | what a request passes before its handler | `MCRequests` |
| `TransactionApi`, `Remittances` | building, submitting and recording; the remittance life cycle | `MCRequests` |
| `Paging` | the paged lists | `MCRequests` |
| `Money`, `LoanView`, `PoolView` | the money policy, the views of a loan that round with it, the views of the pool; `ViewsSpec` puts the three side by side | `MCRequests` |
| `QueryCache`, `ClientFlows`, `WalletSession` | the browser | `MCClient` |
| `ArithmeticFacts` | lemmas on division, products, sums, counting and lists | the proof modules but `GovernanceProofs` |
| `LendingPoolProofs`, `LoanManagerProofs`, `RemittanceNFTProofs`, `GovernanceProofs` | theorems about the contracts | |
| `EventProofs` | theorems about `EventIndexer`, `Notifications`, `EventStream`, `WebhookDelivery`, `DefaultKeeper` | |
| `RequestProofs` | theorems about `Access`, `RequestGates`, `Idempotency`, `Remittances`, `TransactionApi`, `Paging`, `Money`, `LoanView`, `PoolView` | |
| `ClientProofs` | theorems about `WalletSession`, `ClientFlows`, `QueryCache` | |

Correspondence. In the contract modules a variable is a storage key, an action a
successful call of the entry point it is named after, its guard the conjunction
of the checks. In the backend and frontend modules an action is the code between
two awaits: what a handler read before the await is held in its record (`worker`,
`apiRequest`, `reader`, `reconciling`, ...) and used after it, whatever others did
meanwhile. A crash drops those records and keeps the tables. A call that may fail
has the failure as a second disjunct, counted against a bound. An operator whose
name ends in `_Faulty` (or names its fault) is a seeded fault that no
specification uses; PROJECT.json pairs it with the definition it replaces and the
property that then fails.

Abstractions, and why they keep the behaviour:
* one token per pool and per loan manager: keys never mix tokens;
* authorisation (`require_auth`, signatures, JWT encoding) is assumed sound; what
  is modelled is who may call and with which rights;
* i128 amounts are unbounded integers. An i128 overflow panics and undoes the
  call, and needs amounts no token has; u32 ledger sums keep their limit
  (`FitsU32`), because they do overflow within reach;
* storage lifetimes, `upgrade` and `migrate` are left out;
* `interest_paid` and `late_fee_paid` (written, never read back) are left out;
* messages, rows and payloads are what the code compares: an event is its type,
  ledger, loan and user, a payload its size, a transaction its wallet, endpoint,
  sequence number and birth;
* a table's unique keys, `ON CONFLICT` and `GREATEST` are in the actions; SQL that
  does not run (see section 5) is an action that fails;
* the backend's modules share tables, and each has the writes of the others as
  actions of its own (`indexerSees`, `applyEventDeltas`, `CommitEvent`), so none
  needs the others in its state. The `MC` modules put several modules in one
  instance; a behaviour exercises one of them while the others rest in their
  initial state, where none of their fair actions is enabled. This keeps the
  state spaces additive and leaves out no behaviour of any module.

## 3. What the runs check

| Run | Question | Distinct states |
|---|---|---|
| `lending_pool` | do the share ledger, the price and the exits survive every order of calls? | 298 thousand |
| `remittance_nft` | can a bad history be shed, or a trace of it be left on a clean address? | 1.1 million |
| `loan_debt` | is one loan's debt well formed and closable, is a payment split right, and does the pool lose only what is written off? | 65 thousand |
| `loan_lifecycle` | do the redundant records agree through every ending of two loans? | 117 thousand |
| `loan_administration` | do settings, oracle, pauses and outside seizures around a loan break it? | 608 thousand |
| `governance` | does the role move only with a mandate? | 192 thousand |
| `indexing` | does the database follow the chain through faults, retries, crashes and competing jobs? | 191 thousand |
| `fan_out` | does what follows a commit reach endpoints, tabs and lists in the end? | 369 thousand |
| `requests` | do the gates, keys, records, pages and views of the API hold under concurrent requests? | 568 thousand |
| `client` | does the screen tell the truth about data, transactions and wallet? | 605 thousand |
| `loan_failed_funded`, `indexer_retry` | expected violations, section 5 | |

The properties are stated and explained where they are defined. The ones with
most in them:

* `HoldersNeverDiluted` (an action property): no step of anybody lowers what a
  provider that keeps its shares can redeem, which the virtual offset makes true,
  and no deposit on top of a holding closes an exit that was open.
  `ExitsHonoured` uses `ENABLED`: a holding can be redeemed while the tokens are
  there, paused or not.
* `DebtWellFormed`: interest accrued at every touch equals interest accrued once,
  up to the unit a residual may hold back, and the loan can always end.
  `PoolLosesOnlyWriteOffs`, `BooksAgree`, `LoansOutliveAdministration`: money and
  redundant records after any sequence of calls. `SplitComputed` ties the loop
  of the repayment split to its closed form.
* `RecordsAgree`, `BadCreditSticks`, `HandoverIsMandated`: identities and roles.
* `CursorCovers`: nothing behind the cursor was skipped, whatever failed or ran
  twice. `EffectsFollowCommit`, `CatchesUp` (liveness).
* `LockFenced`: no instance deletes a lock that has passed to another, although
  the remembered value is one per process. `OverdueIsCaught`, `CustodyIsJudged`
  and `ScoresConverge` (liveness) state the jobs' purpose and name what escapes
  them: loans repaid in part, behind a suspect range or behind a full page of
  liquidated ones; custody events behind half-applied rows; borrowers behind the
  first batch of the score reconciliation.
* `KeepsDeliveryPromise`: the refinement. `WebhookDelivery` implements
  `Delivery!Promise` under the mapping of a delivery's row to pending, delivered
  or given up (`statusOf`) and of the endpoint's memory to `accepted`: a row says
  delivered only if the endpoint took the event, that is never taken back, and no
  delivery stays due for ever.
* `StreamsAccounted`, `TabsSettle`, `BadgeCountsTheFeed`, `ListConverges`: the
  registries against the connections, and the browser's copies against both.
* `KeysProtect`, `OneTokenPerChallenge`, `ServedWithinRole`, `LimitsHold`: each
  says exactly which failure (of Redis, of an expiry) makes it give way.
* `RecordsMatchChain`, `CompletedWasPaid`: a final status is the ledger's.
* `ViewsAgree`, `AmountsAddUp`, `PagesNeverRepeat`: the read side against
  reference definitions. The score breakdown counts any repayment, a partial one
  too, as on time or late by the last one, so a loan the list still shows as
  active may be counted as repaid on time; what holds is that a debt completed
  after its term is never counted on time. Without a `scores` row the breakdown
  reports no loans at all.
* `GuessesAreProvisional`, `WritesReachScreens`, `SuccessWasConfirmed`,
  `FormReopens`, `ShownWalletIsOne`: the browser, with fetches, dialogs, late
  answers and wallet events overlapping.

### Instances and bounds

Percentages are exaggerated so that small integers round: one hundred per cent
is 4 (`BPS`), the interest residual counts halves, the virtual offset is 2 next
to amounts up to 3. The code uses the constants only through the operators
modelled, so the shape of the arithmetic is the same.

* Pool: two providers are the least that can dilute one another; `MaxManaged`,
  `MaxOutstanding` and `MaxLedger` bound counters that grow for ever.
* NFT: two addresses are what transfers need; the log has two entries and
  overflows at the third; the burn threshold is two and can be set to one.
* Loans: `loan_debt` has one loan with amounts 1 to 3 and six ledgers (approval,
  due date, grace, window and past it), and every debt and payment of the
  allocation loop up to its bound; `loan_lifecycle` has two loans of one borrower
  and four ledgers. `MaxOutstanding` is needed because `refinance_loan` lets the
  outstanding counter drift upwards.
* Governance: three addresses, at most two signers, two proposals, seven seconds
  with a timelock of at least one and a lifetime of three.
* Indexing: five events in two ledgers (a key collision, a malformed event, a
  pause, an unsupported type), one ledger per chunk, two faults, one admin job
  beside the poller; two processes and two loans for the checker with batches of
  one, so that limit, batch and lock all bind, each loan passing its term, its
  default window or into a liquidation when it likes; two borrowers against a
  batch of one, the automatic correction switched on (it is off by default), with
  two score writes, decay runs, outages or changes of who has a loan, over a scale
  of seven and a tolerance of two;
  three custody rows against two per run.
* Fan-out: three events over a payload limit that forces each shrinking step, two
  servers, two retry delays; two tabs (a borrower's and an admin's) against a
  limit of one connection and a replay of one; two notices against a page of one.
* Requests: three calls under one key; one challenge and two logins; two
  requests over three endpoints, one of which cannot be built; two submissions of
  two remittances; two writers and a reader of four lists, with two clock units
  to a millisecond; two amounts of a loan and four events over five ledgers with a
  term of one and a half periods; three pool events over four half days, against a
  range of one day; limits of one and two.
* Client: three queries and two mutations with two calls each, four of the
  flows with two runs each, two accounts and two overlapping syncs with four
  wallet events. The other queries, mutations and flows are in the modules'
  tables and can be named in `Client.cfg`; with all nine flows the run has 1.1
  million states and also passes, in five minutes on four workers.

Every `Max...Faults` bounds failures and crashes together; two are enough for a
fault during the recovery from another. Deadlock is not checked: the bounds make
behaviours stop, and a system nobody calls does nothing.

### Fairness

Contract calls are made by people under no obligation, so the contract runs
assume no fairness; possibility is stated with `ENABLED` instead. Elsewhere weak
fairness is assumed of what a timer or the event loop runs by itself, and of
nothing a user, an admin or a fault decides:

* the poller's next iteration and steps (`scheduleNextPoll` re-arms in `finally`);
* the default checker's schedule and steps, the restart of a dead process, the
  expiry of its lock, the indexer's arrival at a ledger, and the ledgers that
  bring a loan past its term and its window (`MAX_EXTENSIONS` bounds how often a
  due date moves), all once a first process has started;
* the reconcilers' runs (`setInterval`) and what they go on to write;
* the retry processors' ticks and steps; a tab's reconnection timer; the 60 s
  poll of a mounted list; the steps of a transaction flow that is under way
  (not the wallet's answer, which its user gives).

Faults are bounded, which stands for "the last fault passes".

## 4. What is proved

The theorems hold for every value of the constants that satisfies the named
assumptions: any finite number of borrowers, providers, calls, events, tabs or
processes, any amounts, settings, schedules and fault budgets, any order of
steps. Each says `Specification => []Property`, or `=> [][Action]_vars`.

| Module | Theorem | Property of a run |
|---|---|---|
| `LendingPoolProofs` | `PoolTyped`, `PoolSharesAddUp`, `PoolDepositors`, `PoolAtPar`, `PoolPrincipal` | `TypeOK`, `SharesAccounted`, `DepositorsCounted`, `AtOrAbovePar`, `PrincipalBacked` |
| | `NoDilution` | `HoldersNeverDiluted` (action) |
| | `PoolExits` | `ExitsHonoured` without its `ENABLED` |
| `LoanManagerProofs` | `BooksAlwaysAgree` | `BooksAgree` |
| | `DebtsAlwaysWellFormed` | `DebtWellFormed` |
| | `LoansAlwaysOutliveAdministration` | `LoansOutliveAdministration` |
| | `PoolOnlyWritesOff` | `PoolLosesOnlyWriteOffs` (action) |
| | `SplitAlwaysComputed` | `SplitComputed` |
| `RemittanceNFTProofs` | `RecordsAlwaysAgree` | `RecordsAgree` |
| | `BadCreditAlwaysSticks` | `BadCreditSticks` (action) |
| `GovernanceProofs` | `HandoversAreMandated` | `HandoverIsMandated` (action) |
| `EventProofs` | `CursorsCoverEverything` | `CursorCovers` |
| | `EffectsAlwaysFollowCommit` | `EffectsFollowCommit` |
| | `LockAlwaysFenced` | `LockFenced` (action) |
| | `BadgeAlwaysCounts` | `BadgeCountsTheFeed` |
| | `StreamsAlwaysAccounted` | `StreamsAccounted` |
| | `DeliveryReportsAreTrue` | the safety half of `KeepsDeliveryPromise` (refinement) |
| `RequestProofs` | `ChallengesMintOnce`, `RequestsServedWithinRole` | `OneTokenPerChallenge`, `ServedWithinRole` |
| | `LimitsAlwaysHold` | `LimitsHold` |
| | `KeysAlwaysProtect` | `KeysProtect` |
| | `CompletedRemittancesWerePaid` | `CompletedWasPaid` |
| | `SubmissionRowsMatchLedger` | `RecordsMatchChain` |
| | `PagesAlwaysInOrder` | `PagesNeverRepeat` |
| | `ViewsAlwaysAgree` | `ViewsAgree` |
| | `AmountsAlwaysAddUp` | `AmountsAddUp` |
| | `RoundingIsRight`, `SplitIsRight`, `SchedulePaysOut` | the parts of `AmountsAddUp` beyond its instance: any numerator and divisor, any number of weights, any number of periods |
| `ClientProofs` | `WalletShownIsOne` | `ShownWalletIsOne` |
| | `SuccessAlwaysConfirmed` | `SuccessWasConfirmed` |
| | `GuessesAlwaysProvisional`, `WritesAlwaysReachScreens` | `GuessesAreProvisional`, `WritesReachScreens` |

### The arguments

*Pool.* `IInv` is the type invariant with the four accounting invariants, which
need one another: managed assets stay above zero at an exit because the price is
at least par and the shares burnt are part of the total; the principal bound
needs par, because principal is deducted by shares and assets are paid by price.
`NoDilution` compares prices as cross products (`PriceKept`, `ClaimMonotone`); that
an open exit stays open is `StepKeepsStamps`.
`PoolExits` sums the floors of all claims (`ClaimsCovered`) and shows that a
holding worth anything passes every check of `withdraw` as soon as the pool has
the cash (`HoldingsRedeemable`).

*Loans.* `LoanInv` carries the books and each loan's soundness together. Totals
run over all stored loans, with nothing for those that hold none, so that a
change of status alters one entry of a sum instead of its range; no loan exists
before `initialize`, so the counter it resets reuses no id. The debt theorem rests
on two lemmas about the accrual: `RemainderCarried` and `TwoAccruals` (accruing in
two touches is accruing once, but for the unit a residual holds back). What the
pool may lose is proved for one loan (`OneLoanLoses`) and summed over a batch of
defaults (`TotalCovered`). `AllocationInv` says of the repayment split where its
loops are: `Floored` after k buckets of the first, `Served` after k units of the
second, the buckets ranked by remainder; at most two units are left, hence the
closed form and the dues (`SplitWithinDues`).

*NFT and governance.* `IdentityInv` is a condition on one address (`UserOK`: an
inactive address is empty, an active one is not burned, the log is a chain) and
holds for all by symmetry of the steps; `MinterInv` adds the list of minters.
`GovernanceInv` says of a proposal what its creation checked once and finalize
relies on (`ProposalSound`): its approvals are votes of this proposal by its own
signers, and its timelock was within limits.

*Indexer and keeper.* `IndexerInv` ties what each worker holds across its awaits
to the tables (`WorkerSound`: its chunk follows the cursor, is accounted for after
the fetch, what it pushed is stored, and is recorded before the cursor moves),
and says that no table runs ahead of the chain and no effect precedes its row.
`KeeperInv` needs only that a process remembers a lock value of one of its own
runs.

*Fan-out.* `FeedInv` counts a tab's list against the badge. `StreamInv` links
every registered response to a connection and a user (`Linked`, `Entitled`,
`Registered`, `OwnEventsOnly`). `WebhookInv` says that every success about to be
written was accepted by the endpoint (`SuccessesAccepted`), from which a step of
`WebhookDelivery` is a step of `Delivery` or a stutter.

*Requests.* `VisitInv` contains `SignInInv`: a challenge that signed a login in is
gone, and what a visit passed is capped by the rights it read. `KeyInv` counts:
every run of a key but the holder of its reservation is paid for by a lapse.
`ApiInv` and `RemittanceInv` say that a result carried between two awaits is the
ledger's final one. `PagingInv` says that what a reader has seen is behind its
cursor although the cursor forgets microseconds, and that rows which were there
are seen or ahead; `InOrderSorts` shows that ordering by rank is a permutation.

*Views.* `LoanViewInv` says that no event is ahead of the indexed ledger and
that an open dispute has an event before it, so that the clock it stops has a
value. `CountsRight` places the completing repayment no later than the last one,
which decides. `StreakInduction` carries through a history what its streaks are
after n rows: the run of repayments that ends there, and a longest run;
`StreaksRight` adds that rows of one ledger may come in any order. `PoolInv`
keeps the history of the contract's books as a witness (`Chronicle`: the books
after each event of the log, each from the one before, those of a midnight after
the events before it) and the agreement of the dashboard, whose sums one event
changes together (`DashboardAppended`). The rebuilt series folds the same
events, so a replay up to a bucket stops at that midnight's books
(`PoolReplayed`, `DepositorReplayed`), and the depositors' values add up because
their shares do (`ValuesAddUp`).

*Money.* `MoneyAgrees` is inductive as it stands: each call writes what its own
lemma is about. A split pays out because the units left over times the weight sum
are what the shares lost, less than one weight sum each (`LeftoverBounded`), and
ranks are one to each weight, so exactly that many are below it
(`RanksAreDistinct`): the drift error of `splitProRata` and `split_pro_rata` is
never raised. A schedule takes whole cents from whole cents after its first share
(`SchedulePortions`), so its sum and the rounded amount are two roundings of one
amount to the nearest cent, equal unless it is a tie.

*Browser.* `WalletInv`: one synchronisation at a time, and what it has written
stays until it ends or a disconnect clears it. `FlowInv`: an exclusive flow's ref
is held by its one run until it returns (for a repayment, after the invalidations
that follow its success), and a success was confirmed. `CacheInv`: a guess is a
figure of the pool whose call is under way or which is stale, an answer on its way
is no older than the last announced write unless it was overtaken, and data older
than that write is stale.

### Assumptions

The theorems assume the `ASSUME`s of the modules and nothing else; TLC evaluates
each in a run. They say that the sets counted over are finite, that
sentinels are not members, that amounts are integers and that durations, limits
and bounds are naturals. The ones with content are constants of the code:
`VIRTUAL_SHARES = VIRTUAL_ASSETS > 0`; `BPS`, `PRECISION`, `STROOPS_PER_POINT`,
`MAX_PENALTY_MULTIPLIER`, `Limit`, `Millisecond` and `TermLedgers` above zero;
`DISPLAY_DP` no greater than `STROOP_DECIMALS`; score bounds in order; `MIN_TIMELOCK_SECONDS < PROPOSAL_TTL_SECONDS`; the configuration that
`initialize` writes is coherent (`ConfigConstants`); at least one retry delay; a
positive maximum for each configured limiter; tables that define every list,
query, mutation and flow an instance names. The amounts that the contracts' entry
points take are any integers, so their own checks of sign and zero are part of
what is proved; amounts of indexed events are naturals.

### How sums, orders and loops are handled

The provers have no induction over data. A sum is therefore a cardinality
(`Aggregates.Total`), and its facts follow from the library's theorems on finite
sets. Where induction cannot be avoided (a sum scaled or compared term by term,
the increasing enumeration of a set of numbers) it is the induction of the
library in its set form, which takes no predicate (`TotalScaled`, `TotalCovered`,
`NumbersInOrder` in `ArithmeticFacts`). A fold over a sequence is a recursive
function: `Recursion` gives it a value for sequences of any length, from a base and
one step for every position, and `CountUp` carries a fact along it from 0 to the
length (streaks, replayed states, powers of ten, what is left of an amount before
each period). Loops are state machines with an invariant.

### What the proofs corrected in the models

* `EffectsFollowCommit` spoke of the event itself; with two instances the row may
  be another event's with the same unique key. It now names the key.
* `statusOf`, the refinement mapping of webhook delivery, had overlapping cases.
* A running loan can end only if its end fits u32 (`FitsU32(DefaultEnds)`): the
  premise was missing from `LoanCanEnd`, the overflow is noted in section 5.
* Filtered lists were `SelectSeq`, whose definition recurses; they are now defined
  by what they keep (`Without`). The hook tables of `QueryCache` were joined with
  TLC's `@@`, which no prover can open; each is now one record.
* The views folded with the community modules' `FoldSeq`, which recurses too; they
  now fold with recursive functions, and the pool's model carries what the
  contract holds (`books`) instead of reckoning it from the log in the property.
* Powers of ten are `TenTo`, a table as long as the digits in play, and `Money`
  states its bounds (`MoneyConstants`): what is shown has no more digits than what
  is settled.
* `splitProRata` left out the drift error of the code. It is in the model now, and
  the property says that every weight gets a part.
* The schedule property held each portion against zero whatever the number of
  periods, and the instance had three at most. Over more the last one may be
  negative, since every share may be rounded up by half a cent: the property now
  says up to three periods, which all previews have. A long loan of a few cents has
  such a portion.

### What stays with TLC

* Liveness: `CatchesUp`, `OverdueIsCaught`, `CustodyIsJudged`, `ScoresConverge`,
  `TabsSettle`, `ListConverges`, `FormReopens`, and that no delivery stays due
  for ever. The prover reasons about neither fairness nor `ENABLED`.
* The `ENABLED` in `ExitsHonoured`; `PoolExits` proves the guards it stands for.
* The two runs that are expected to fail.

## 5. Where the code and its documentation disagree

Two runs are expected to fail; their findings quote the documentation.

* `loan_failed_funded`: the failure that burns the NFT clears the seizure, and a
  request that was pending is then approved.
* `indexer_retry`: `storeEvents` fills `insertedEvents` and `scoreUpdates` outside
  the callback that `withTransaction` runs again after a transient error, so one
  event moves the score twice and is dispatched twice.

Noted while modelling, without a run of their own. The models behave as the code
does in each case, and the properties say what holds all the same.

Contracts: only late fees respect the documented cap on total debt (loan_manager
`lib.rs:172`, `661`); `refinance_loan` does not check the seizure a comment says
it checks (`1209`, `2018`); a term near the end of the u32 range is accepted and
every function that could end the loan panics on `due_date + window` (`1377`);
after one hand-over the target obeys the new admin, so finalization is not
"callable by anyone" (multisig `lib.rs:366`, `418`); `distribute_yield` never
writes `TotalYieldDistributed` (lending_pool `lib.rs:119`); `decrease_score` raises
a score that `apply_score_delta` took below 300 (remittance_nft `lib.rs:799`).

Indexing and jobs:
* `updateUserScoresBulk` inverts the sign of the delta (`scoresService.ts:36`);
* the unique key (loan, type, ledger) drops a second `LoanRepaid` of a ledger;
* `setPauseState` hands JSON to a `TEXT[]` column, which Postgres refuses; the
  error ends the dispatch loop (`EventIndexer.Dispatch`);
* `reindexRange` visits the first configured contract only; a quarantine insert
  that fails is only logged;
* a suspect range is never cleared, and switches the default checker off for
  good; a partial repayment takes a loan out of its scan for ever, while a
  liquidated one, which has neither `LoanRepaid` nor `LoanDefaulted`, is scanned
  and submitted for ever (the doc at `defaultChecker.ts:233` says "active loans")
  and keeps a place of the limit: as many of them as a run reads starve every
  newer overdue loan, which `OverdueIsCaught` excepts; submissions
  that answer ERROR are counted as successful;
* `getOnChainCreditScore` answers 500 during an outage of the node, and a
  reconciliation with automatic correction writes that over real scores until
  its next run (`Scores.getOnChainCreditScore`); the decay job subtracts the
  decay of all inactive months every day, from stale reads, and leaves the cached
  score; reconciliation looks only at borrowers with an untouched loan, and of
  those only at the first addresses up to its limit, the same on every run;
* half-applied rows are refetched for ever in the order of their ids, and newer
  rows starve behind a page of them.

Delivery: retry batches are snapshots, and two processors send one delivery; a
late failure revives a row that was given up; a deleted subscription may get one
more POST. The stream checks its limit before an await, replays before it
registers, and leaks a slot when the peer leaves in between; the client sends no
`Last-Event-ID`; the lend page subscribes to a route that does not exist.

Requests:
* the idempotency lock is deleted before the response is cached, against
  `idempotency.ts:74-76`; with Redis down every keyed request answers 409; keys
  are not scoped to a user;
* `isTokenRevoked` fails open; a promoted wallet keeps its narrow scopes until it
  signs in again; no role has `write:pool` (`docs/SECURITY-MODEL.md:82`);
* the score limiter admits one less than the "Maximum 5" of
  `rateLimitService.ts:192-195` (`<` at line 88); a refused admin call leaves no
  audit row;
* the arguments of `buildCancelLoanTx` and `buildRejectLoanTx` are not the ones
  the contract takes; an unsigned transaction lives 30 s and is cached 60 s; a
  re-submission overwrites SUCCESS by ERROR;
* two submissions of a remittance check and then act; a crash leaves it
  processing for ever; a poll that gives up marks failed what may still apply;
* the count of `getRemittances` is given one value too few, and
  `listLoanDisputes` with a status filter glues `WHERE` to the table's name: both
  lists answer 500 (`Paging`); keyset pages can miss rows committed late, as
  `pagination.ts:16-18` allows; `getAuditLogs` orders by time and pages by id, so
  concurrent inserts can repeat or lose a row;
* `LoanApproved` carries no amount, so `getPoolStats` reports nothing outstanding;
  the yield history misses the day of the request and, over 90 days, its last bucket;
  its queries leave the order of rows of one ledger open, and a withdrawal read
  before the deposit it takes from is cut off at zero; a loan is
  "repaid" once the principal is, though interest remains; two admins can rule
  one dispute, and the resolution's event lacks NOT NULL columns (500 after the
  status has changed);
* migration `1802000000000_money_stroops_integer.js:55-74` recreates `loan_events`
  without the `address` that `loanAccess.ts:62` selects.

Browser: the 300 ms timer of a closed preview clears the callback of a reopened
one; a score stream that ends normally is never reopened; deposit, withdrawal and
liquidation show success whatever the status; the repay page has no re-entrancy
guard and says "No payment was submitted" of one in flight; a lost answer shows a
failure for a transaction that was applied; the remittance form says "sent
successfully" of a pending row; a 401 for an old token logs a new session out. A
disconnect during a sync is undone by its late `setConnected`; `connect` joins a
silent sync whose failure is swallowed; an account switch during a sync is missed
until the next one; a reload during a sync keeps one account's balances beside
another's address.

## 6. Plan

1. Of the invariants that the runs check only the `ENABLED` of `ExitsHonoured` has
   no proof. What is left to prove is about parts that are not modelled yet.
2. A composition of pool and loan manager with their real call graph, for what
   neither can show alone (managed assets against cash after defaults and
   repayments), and an abstract loan life cycle that `LoanManager` refines.
3. The automatic correction of the cross-contract reconciler beside the other
   writers of scores, notification preferences, profiles.

## 7. Not modelled

* `upgrade` and `migrate`, which replace code; storage lifetimes; event payloads
  beyond what the indexer's rows need; signatures and cryptography.
* Display state of the browser (experience points, toasts, themes, charts, page
  layout): sequential, and nothing depends on it. The gamification store is of
  this kind.
* Start-up wiring, configuration, logging, metrics; deployment scripts, seeds,
  code generators, fuzz targets.
* Profiles and personal data (single-row statements and encryption), simulations
  and read-outs of the chain that change nothing, the hourly reminder job, which
  only creates notifications.
* In the steps that are modelled: `recordCheckpoint` writes the suspect row and
  the verified one in one step (only pollers record, from the ledger after the
  cursor, and a range is recorded before the cursor moves, so that no instance
  has a suspect range between the two); the schedule's `toFixed(7)` before it
  rounds to cents is left out; of the history of a pool in which a withdrawal
  shares its tick with another event nothing is claimed (`OrderIsGiven`).
* Dead code: `buildApproveLoanTx`, `resetRateLimit`, the digest of notifications,
  `useContractMutation` outside an example.
