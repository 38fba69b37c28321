----------------------------- MODULE LendingPool -----------------------------
(***************************************************************************)
(* The Soroban contract contracts/lending_pool: LP-share accounting for    *)
(* one token (every storage key of the contract carries the token, so two  *)
(* tokens never interact).  One action per entry point that changes state. *)
(* The key TotalYieldDistributed, which nothing writes, is left out.       *)
(*                                                                         *)
(* A Soroban invocation is atomic and rolls back on an error or a panic,   *)
(* so an action is the successful call: its guard is the conjunction of    *)
(* the checks, in the order of the code.  The token contract and the       *)
(* LoanManager's use of the pool's tokens are external to this contract    *)
(* and appear as the two actions at the end.                               *)
(***************************************************************************)
EXTENDS Aggregates

CONSTANTS
    Providers,            \* liquidity providers
    Others,               \* every other token holder (borrowers, yield payers)
    Pool,                 \* the pool's own address
    Admins,               \* addresses that may hold the admin role
    NoAddress,            \* an absent Option<Address>
    Amounts,              \* the i128 amounts a caller may pass
    MinOuts,              \* the slippage bounds min_shares_out, min_assets_out
    Cooldowns,            \* the u32 arguments of set_withdrawal_cooldown
    DEFAULT_WITHDRAWAL_COOLDOWN,
    MAX_WITHDRAWAL_COOLDOWN_LEDGERS,
    VIRTUAL_SHARES,
    VIRTUAL_ASSETS,
    InitialBalance,       \* tokens each account but the pool starts with
    MaxLedger,            \* bound on the ledger sequence
    MaxOutstanding,       \* bound on the TotalOutstanding counter
    MaxManaged            \* bound on the TotalManagedAssets counter

Accounts == Providers \cup Others \cup {Pool}

ASSUME PoolConstants ==
    /\ IsFiniteSet(Providers) /\ IsFiniteSet(Others)
    /\ Providers \cap Others = {}
    /\ Pool \notin Providers \cup Others
    /\ NoAddress \notin Admins
    /\ Amounts \subseteq Int /\ MinOuts \subseteq Int
    /\ Cooldowns \subseteq Nat
    /\ DEFAULT_WITHDRAWAL_COOLDOWN \in Nat
    /\ MAX_WITHDRAWAL_COOLDOWN_LEDGERS \in Nat
    /\ VIRTUAL_SHARES \in Nat \ {0}
    /\ VIRTUAL_ASSETS = VIRTUAL_SHARES
    /\ InitialBalance \in Nat
    /\ MaxLedger \in Nat
    /\ MaxOutstanding \in Nat /\ MaxManaged \in Nat

VARIABLES
    balance,              \* token contract: account -> tokens held
    ledger,               \* current ledger sequence
    admin,                \* DataKey::Admin, NoAddress before initialize
    proposedAdmin,        \* DataKey::ProposedAdmin
    paused,               \* DataKey::Paused
    withdrawalCooldown,   \* DataKey::WithdrawalCooldown
    maxPoolSize,          \* DataKey::MaxPoolSize, 0 = unlimited
    shares,               \* DataKey::Shares, 0 when the key is absent
    depositTimestamp,     \* DataKey::DepositTimestamp, NoTimestamp when absent
    totalShares,          \* DataKey::TotalShares
    totalDeposits,        \* DataKey::TotalDeposits
    totalManagedAssets,   \* DataKey::TotalManagedAssets
    totalOutstanding,     \* DataKey::TotalOutstanding
    depositorCount        \* DataKey::DepositorCount

environment == <<balance, ledger>>
governed    == <<admin, proposedAdmin, paused, withdrawalCooldown, maxPoolSize>>
holdings    == <<shares, depositTimestamp, depositorCount, totalShares>>
assets      == <<totalDeposits, totalManagedAssets, totalOutstanding>>
vars == <<environment, governed, holdings, assets>>

NoTimestamp == -1

------------------------------------------------------------------------------
(* Token transfers (external): traps when the sender holds too little.     *)

CanPay(from, amount) == balance[from] >= amount

Transfer(from, to, amount) ==
    /\ CanPay(from, amount)
    /\ balance' = [balance EXCEPT ![from] = @ - amount, ![to] = @ + amount]

(* Share and asset arithmetic.  An operator whose name ends in Faulty is   *)
(* a seeded fault: no specification uses it, and PROJECT.json names the    *)
(* property that notices when it takes the place of the real one.          *)

calc_shares_to_mint_Faulty(amount, managed, total) ==
    (amount * (managed + VIRTUAL_ASSETS)) \div (total + VIRTUAL_SHARES)

calc_shares_to_mint_RoundUpFaulty(amount, managed, total) ==
    (amount * (total + VIRTUAL_SHARES)) \div (managed + VIRTUAL_ASSETS) + 1

calc_shares_to_mint(amount, managed, total) ==
    (amount * (total + VIRTUAL_SHARES)) \div (managed + VIRTUAL_ASSETS)

calc_assets_to_redeem_NoOffsetFaulty(burnt, managed, total) ==
    (burnt * managed) \div (total + VIRTUAL_SHARES)

calc_assets_to_redeem(burnt, managed, total) ==
    (burnt * (managed + VIRTUAL_ASSETS)) \div (total + VIRTUAL_SHARES)

principal_to_deduct_Faulty(burnt) == burnt

principal_to_deduct(burnt) ==
    IF totalShares = 0 THEN 0 ELSE (burnt * totalDeposits) \div totalShares

(* The withdrawal cooldown and its two views.                              *)

CooldownElapsed(provider) ==
    \/ withdrawalCooldown = 0
    \/ depositTimestamp[provider] = NoTimestamp
    \/ ledger >= depositTimestamp[provider] + withdrawalCooldown

get_withdrawal_available_at(provider) ==
    IF withdrawalCooldown = 0 \/ depositTimestamp[provider] = NoTimestamp
    THEN 0
    ELSE depositTimestamp[provider] + withdrawalCooldown

get_withdraw_cooldown_left(provider) ==
    LET available_at == get_withdrawal_available_at(provider)
    IN  IF available_at = 0 \/ ledger >= available_at THEN 0 ELSE available_at - ledger

(* The share ledger: minting to and burning from one provider.             *)

MintTo_Faulty(provider, minted) ==
    /\ depositorCount' = depositorCount + (IF shares[provider] = 0 THEN 1 ELSE 0)
    /\ depositTimestamp' = [depositTimestamp EXCEPT ![provider] = ledger]
    /\ shares' = [shares EXCEPT ![provider] = @ + minted]
    /\ totalShares' = totalShares + minted

MintTo(provider, minted) ==
    /\ depositorCount' = depositorCount + (IF shares[provider] = 0 THEN 1 ELSE 0)
    /\ depositTimestamp' = IF shares[provider] = 0
                           THEN [depositTimestamp EXCEPT ![provider] = ledger]
                           ELSE depositTimestamp
    /\ shares' = [shares EXCEPT ![provider] = @ + minted]
    /\ totalShares' = totalShares + minted

BurnFrom_StampFaulty(provider, burnt) ==
    /\ shares' = [shares EXCEPT ![provider] = @ - burnt]
    /\ depositTimestamp' = depositTimestamp
    /\ depositorCount' = IF shares[provider] = burnt THEN depositorCount - 1
                                                     ELSE depositorCount
    /\ totalShares' = totalShares - burnt

BurnFrom_TotalFaulty(provider, burnt) ==
    /\ shares' = [shares EXCEPT ![provider] = 0]
    /\ depositTimestamp' = [depositTimestamp EXCEPT ![provider] = NoTimestamp]
    /\ depositorCount' = depositorCount - 1
    /\ totalShares' = totalShares - burnt

BurnFrom(provider, burnt) ==
    LET exits == shares[provider] = burnt
    IN  /\ shares' = [shares EXCEPT ![provider] = @ - burnt]
        /\ depositTimestamp' = IF exits
                               THEN [depositTimestamp EXCEPT ![provider] = NoTimestamp]
                               ELSE depositTimestamp
        /\ depositorCount' = IF exits /\ depositorCount > 0
                             THEN depositorCount - 1 ELSE depositorCount
        /\ totalShares' = totalShares - burnt

HoldsShares(provider, burnt) == shares[provider] >= burnt

------------------------------------------------------------------------------
(* Contract entry points.                                                  *)

Initialize(a) ==
    /\ admin = NoAddress
    /\ admin' = a
    /\ paused' = FALSE
    /\ withdrawalCooldown' = DEFAULT_WITHDRAWAL_COOLDOWN
    /\ UNCHANGED <<environment, proposedAdmin, maxPoolSize, holdings, assets>>

NotPaused == ~paused

WithinCap(amount) == maxPoolSize > 0 => totalDeposits + amount <= maxPoolSize

Deposit(provider, amount, min_shares_out) ==
    LET minted == calc_shares_to_mint(amount, totalManagedAssets, totalShares)
    IN  /\ NotPaused
        /\ amount > 0
        /\ min_shares_out >= 0
        /\ WithinCap(amount)
        /\ minted > 0
        /\ minted >= min_shares_out
        /\ totalManagedAssets + amount <= MaxManaged
        /\ Transfer(provider, Pool, amount)
        /\ MintTo(provider, minted)
        /\ totalDeposits' = totalDeposits + amount
        /\ totalManagedAssets' = totalManagedAssets + amount
        /\ UNCHANGED <<ledger, governed, totalOutstanding>>

(* The checks of redeem_shares: arguments, holding, price, liquidity.      *)
Redeemable(provider, burnt, min_assets_out) ==
    LET returned == calc_assets_to_redeem(burnt, totalManagedAssets, totalShares)
    IN  /\ burnt > 0
        /\ min_assets_out >= 0
        /\ HoldsShares(provider, burnt)
        /\ returned > 0
        /\ returned >= min_assets_out
        /\ CanPay(Pool, returned)

RedeemShares(provider, burnt, min_assets_out) ==
    LET returned == calc_assets_to_redeem(burnt, totalManagedAssets, totalShares)
    IN  /\ Redeemable(provider, burnt, min_assets_out)
        /\ Transfer(Pool, provider, returned)
        /\ BurnFrom(provider, burnt)
        /\ totalDeposits' = totalDeposits - principal_to_deduct(burnt)
        /\ totalManagedAssets' = totalManagedAssets - returned
        /\ UNCHANGED <<ledger, governed, totalOutstanding>>

Withdraw(provider, burnt, min_assets_out) ==
    /\ NotPaused
    /\ CooldownElapsed(provider)
    /\ RedeemShares(provider, burnt, min_assets_out)

EmergencyWithdraw(provider, burnt, min_assets_out) ==
    RedeemShares(provider, burnt, min_assets_out)

DistributeYield(from, amount) ==
    /\ NotPaused
    /\ amount > 0
    /\ totalManagedAssets + amount <= MaxManaged
    /\ Transfer(from, Pool, amount)
    /\ totalManagedAssets' = totalManagedAssets + amount
    /\ UNCHANGED <<ledger, governed, holdings, totalDeposits, totalOutstanding>>

AdjustOutstanding(delta) ==
    /\ admin # NoAddress
    /\ delta # 0
    /\ totalOutstanding + delta \in 0..MaxOutstanding
    /\ totalOutstanding' = totalOutstanding + delta
    /\ UNCHANGED <<environment, governed, holdings, totalDeposits,
                   totalManagedAssets>>

SetMaxPoolSize(max) ==
    /\ admin # NoAddress
    /\ max >= 0
    /\ maxPoolSize' = max
    /\ UNCHANGED <<environment, admin, proposedAdmin, paused, withdrawalCooldown,
                   holdings, assets>>

SetWithdrawalCooldown(ledgers) ==
    /\ admin # NoAddress
    /\ ledgers <= MAX_WITHDRAWAL_COOLDOWN_LEDGERS
    /\ withdrawalCooldown' = ledgers
    /\ UNCHANGED <<environment, admin, proposedAdmin, paused, maxPoolSize,
                   holdings, assets>>

SetPaused(value) ==
    /\ admin # NoAddress
    /\ paused' = value
    /\ UNCHANGED <<environment, admin, proposedAdmin, withdrawalCooldown,
                   maxPoolSize, holdings, assets>>

ProposeAdmin(a) ==
    /\ admin # NoAddress
    /\ proposedAdmin' = a
    /\ UNCHANGED <<environment, admin, paused, withdrawalCooldown, maxPoolSize,
                   holdings, assets>>

AcceptAdmin ==
    /\ admin # NoAddress
    /\ proposedAdmin # NoAddress
    /\ admin' = proposedAdmin
    /\ proposedAdmin' = NoAddress
    /\ UNCHANGED <<environment, paused, withdrawalCooldown, maxPoolSize,
                   holdings, assets>>

SetAdmin(a) ==
    /\ admin # NoAddress
    /\ admin' = a
    /\ proposedAdmin' = NoAddress
    /\ UNCHANGED <<environment, paused, withdrawalCooldown, maxPoolSize,
                   holdings, assets>>

------------------------------------------------------------------------------
(* The pool's surroundings: anyone may transfer tokens to the pool's       *)
(* address (a donation, or a LoanManager repayment), the LoanManager       *)
(* disburses loans out of the pool's balance, and ledgers close.           *)

TransferIn(from, amount) ==
    /\ amount > 0
    /\ Transfer(from, Pool, amount)
    /\ UNCHANGED <<ledger, governed, holdings, assets>>

Disburse(to, amount) ==
    /\ amount > 0
    /\ Transfer(Pool, to, amount)
    /\ UNCHANGED <<ledger, governed, holdings, assets>>

CloseLedger ==
    /\ ledger < MaxLedger
    /\ ledger' = ledger + 1
    /\ UNCHANGED <<balance, governed, holdings, assets>>

------------------------------------------------------------------------------
Init ==
    /\ balance = [a \in Accounts |-> IF a = Pool THEN 0 ELSE InitialBalance]
    /\ ledger = 0
    /\ admin = NoAddress
    /\ proposedAdmin = NoAddress
    /\ paused = FALSE
    /\ withdrawalCooldown = DEFAULT_WITHDRAWAL_COOLDOWN
    /\ maxPoolSize = 0
    /\ shares = [p \in Providers |-> 0]
    /\ depositTimestamp = [p \in Providers |-> NoTimestamp]
    /\ totalShares = 0
    /\ totalDeposits = 0
    /\ totalManagedAssets = 0
    /\ totalOutstanding = 0
    /\ depositorCount = 0

ProviderNext ==
    \E p \in Providers, n \in Amounts, min \in MinOuts :
        \/ Deposit(p, n, min)
        \/ Withdraw(p, n, min)
        \/ EmergencyWithdraw(p, n, min)

AdminNext ==
    \/ \E a \in Admins : Initialize(a) \/ ProposeAdmin(a) \/ SetAdmin(a)
    \/ AcceptAdmin
    \/ \E b \in BOOLEAN : SetPaused(b)
    \/ \E n \in Amounts : SetMaxPoolSize(n) \/ AdjustOutstanding(n)
    \/ \E n \in Cooldowns : SetWithdrawalCooldown(n)

OutsideNext ==
    \/ \E a \in Accounts \ {Pool}, n \in Amounts :
           DistributeYield(a, n) \/ TransferIn(a, n) \/ Disburse(a, n)
    \/ CloseLedger

Next == ProviderNext \/ AdminNext \/ OutsideNext

Spec == Init /\ [][Next]_vars

------------------------------------------------------------------------------
(* Correctness.                                                            *)

(* The types; no balance, share count or total goes below zero, the cases  *)
(* the code reports as expect("... underflow").                            *)
TypeOK ==
    /\ balance \in [Accounts -> Nat]
    /\ ledger \in Nat
    /\ admin \in Admins \cup {NoAddress}
    /\ proposedAdmin \in Admins \cup {NoAddress}
    /\ paused \in BOOLEAN
    /\ withdrawalCooldown \in Nat
    /\ maxPoolSize \in Nat
    /\ shares \in [Providers -> Nat]
    /\ depositTimestamp \in [Providers -> Nat \cup {NoTimestamp}]
    /\ totalShares \in Nat
    /\ totalDeposits \in Nat
    /\ totalManagedAssets \in Nat
    /\ totalOutstanding \in Nat
    /\ depositorCount \in Nat

(* The per-provider share balances written by deposit and redeem_shares    *)
(* add up to the TotalShares counter that prices every share.              *)
SharesAccounted == Total(shares, Providers) = totalShares

(* DepositorCount is the number of providers that hold shares, and exactly *)
(* those have a cooldown timestamp: a full exit clears it, so the cooldown *)
(* starts again when the provider returns.                                 *)
Holders == {p \in Providers : shares[p] > 0}

DepositorsCounted ==
    /\ depositorCount = Cardinality(Holders)
    /\ \A p \in Providers : depositTimestamp[p] # NoTimestamp <=> shares[p] > 0

(* Rounding in the pool's favour keeps a share worth at least one unit of  *)
(* the managed assets, whatever mix of deposits, exits and yield precedes. *)
AtOrAbovePar == totalManagedAssets >= totalShares

(* What all providers together could redeem by calc_assets_to_redeem never *)
(* exceeds TotalManagedAssets, so redeem_shares never drives it below 0.   *)
Claim(p) == calc_assets_to_redeem(shares[p], totalManagedAssets, totalShares)

ClaimsCovered ==
    Total([p \in Providers |-> Claim(p)], Providers) <= totalManagedAssets

(* The principal counter behind the MaxPoolSize cap stays within the       *)
(* managed assets and is zero once the last share is burnt, so exits by    *)
(* proportional deduction neither strand principal nor free cap twice.     *)
PrincipalBacked ==
    /\ totalDeposits <= totalManagedAssets
    /\ totalShares = 0 => totalDeposits = 0

(* The view wallets read agrees with the guard of withdraw: no cooldown is *)
(* left exactly when withdraw's cooldown check passes.                     *)
CooldownViewAgrees ==
    \A p \in Providers : get_withdraw_cooldown_left(p) = 0 <=> CooldownElapsed(p)

(* While the pool holds the tokens, no provider's holding can be rounded   *)
(* to nothing, paused or locked in: emergency_withdraw of it is possible.  *)
ExitAlwaysOpen ==
    \A p \in Holders :
        CanPay(Pool, Claim(p)) => ENABLED EmergencyWithdraw(p, shares[p], 0)

(* A provider is never kept from what it is owed: all claims together are  *)
(* covered by the managed assets, a holding can always leave by the        *)
(* emergency path while the tokens are there, and the cooldown a wallet    *)
(* shows is the one withdraw enforces.                                     *)
ExitsHonoured == ClaimsCovered /\ ExitAlwaysOpen /\ CooldownViewAgrees

(* No step by anyone takes from a provider that keeps its shares.  What it *)
(* can redeem never falls: deposits do not dilute holders, exits do not    *)
(* overpay, and tokens moving in or out of the pool's address do not move  *)
(* the price.  And an exit that is open stays open while the cooldown is   *)
(* what it was: a deposit on top of a holding does not restart the wait.   *)
ClaimKept(p) == shares'[p] >= shares[p] => Claim(p)' >= Claim(p)
ExitKept(p) ==
    /\ shares[p] > 0 /\ shares'[p] > 0 /\ CooldownElapsed(p)
    /\ withdrawalCooldown' = withdrawalCooldown
    => CooldownElapsed(p)'

HoldersNeverDiluted == [][\A p \in Providers : ClaimKept(p) /\ ExitKept(p)]_vars

==============================================================================
