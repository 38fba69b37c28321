-------------------------- MODULE LendingPoolProofs --------------------------
(***************************************************************************)
(* The pool's accounting invariants, proved for every set of providers,    *)
(* every amount and every virtual offset.  The inductive invariant is      *)
(* their conjunction: par needs the share total to bound the shares burnt, *)
(* and the principal bound needs par.                                      *)
(***************************************************************************)
EXTENDS LendingPool, ArithmeticFacts

V == VIRTUAL_SHARES

(* What the arithmetic below assumes of the counters.                      *)
PricedPool(A, T) == A \in Nat /\ T \in Nat /\ A >= T

------------------------------------------------------------------------------
(* The price of a share, (A + V) / (T + V), compared by cross-products.    *)

(* Minting rounds down: the shares a deposit mints are worth no more than  *)
(* the assets it brings, and at or above par they are no more than those.  *)
LEMMA MintBounds ==
    ASSUME NEW A, NEW T, PricedPool(A, T), NEW n \in Nat
    PROVE  LET m == calc_shares_to_mint(n, A, T)
           IN  /\ m \in Nat
               /\ m <= n
               /\ (A + V) * m <= n * (T + V)
<1> DEFINE m == calc_shares_to_mint(n, A, T)
           D == A + V
           N == n * (T + V)
<1>0. V \in Nat \ {0} /\ VIRTUAL_ASSETS = V /\ VIRTUAL_SHARES = V
  BY PoolConstants DEF V
<1>1. D \in Nat \ {0} /\ N \in Nat /\ m = N \div D
  BY <1>0 DEF PricedPool, calc_shares_to_mint
<1>2. N <= D * n
  <2>1. T + V \in Int /\ A + V \in Int /\ T + V <= A + V
    BY <1>0 DEF PricedPool
  <2> QED BY <2>1, ProductMonotone
<1> HIDE DEF m, D, N
<1>3. m \in Nat /\ D * m <= N
  BY <1>1, QuotientBounds
<1>4. m <= n
  BY <1>1, <1>2, QuotientLeast
<1> QED
  BY <1>3, <1>4 DEF m, D, N

(* Redeeming rounds down too: the assets returned are worth no more than   *)
(* the shares burnt, at least as many as the shares, and leave the pool at *)
(* or above par.                                                           *)
LEMMA RedeemBounds ==
    ASSUME NEW A, NEW T, PricedPool(A, T), NEW s \in Nat, s <= T
    PROVE  LET r == calc_assets_to_redeem(s, A, T)
           IN  /\ r \in Nat
               /\ s <= r
               /\ r <= A
               /\ A - r >= T - s
               /\ (T + V) * r <= s * (A + V)
<1> DEFINE r == calc_assets_to_redeem(s, A, T)
           D == T + V
           N == s * (A + V)
<1>0. V \in Nat \ {0} /\ VIRTUAL_ASSETS = V /\ VIRTUAL_SHARES = V
  BY PoolConstants DEF V
<1>1. D \in Nat \ {0} /\ N \in Nat /\ r = N \div D
  BY <1>0 DEF PricedPool, calc_assets_to_redeem
<1>2. D * s <= N
  <2>1. T + V \in Int /\ A + V \in Int /\ T + V <= A + V
    BY <1>0 DEF PricedPool
  <2> QED BY <2>1, ProductMonotone
<1>3. N <= D * (s + (A - T))
  <2>1. A - T \in Nat /\ A \in Int /\ T \in Int
    BY DEF PricedPool
  <2>2. s <= T + V
    BY <1>0, <2>1
  <2>3. s * (A - T) <= (T + V) * (A - T)
    BY <1>0, <2>1, <2>2, ProductMonotone
  <2>4. s * (A + V) = s * (T + V) + s * (A - T)
    BY <1>0, <2>1
  <2>5. (T + V) * (s + (A - T)) = s * (T + V) + (T + V) * (A - T)
    BY <1>0, <2>1
  <2> QED BY <1>0, <2>1, <2>3, <2>4, <2>5
<1> HIDE DEF r, D, N
<1>4. r \in Nat /\ D * r <= N
  BY <1>1, QuotientBounds
<1>5. s <= r
  BY <1>1, <1>2, QuotientGreatest
<1>6. r <= s + (A - T)
  BY <1>1, <1>3, QuotientLeast DEF PricedPool
<1>7. r <= A /\ A - r >= T - s
  BY <1>4, <1>6 DEF PricedPool
<1> QED
  BY <1>4, <1>5, <1>7 DEF r, D, N

(* The principal an exit of s of T shares writes off from P.               *)
Deduction(s, P, T) == (s * P) \div T

(* The principal written off by an exit leaves no more principal than      *)
(* managed assets, and none when the last share is burnt.                  *)
LEMMA PrincipalAfterExit ==
    ASSUME NEW A, NEW T, PricedPool(A, T), NEW s \in Nat, s > 0, s <= T,
           NEW P \in Nat, P <= A
    PROVE  LET r == calc_assets_to_redeem(s, A, T)
               w == Deduction(s, P, T)
           IN  /\ w \in Nat
               /\ w <= P
               /\ P - w <= A - r
               /\ s = T => w = P
<1> DEFINE r == calc_assets_to_redeem(s, A, T)
           w == Deduction(s, P, T)
           x == A - r
           D == T + V
<1>0. /\ V \in Nat \ {0} /\ A \in Nat /\ T \in Nat \ {0} /\ A >= T
      /\ D \in Nat \ {0} /\ s * P \in Nat
  BY PoolConstants DEF V, PricedPool
<1>1. w \in Nat /\ T * w <= s * P /\ s * P < T * w + T
  BY <1>0, QuotientBounds DEF Deduction
<1>2. r \in Nat /\ x \in Nat /\ D * r <= s * (A + V)
  BY <1>0, RedeemBounds
<1>3. s * P <= T * P
  BY <1>0, ProductMonotone
<1> HIDE DEF w, r
<1>4. w <= P
  BY <1>0, <1>3, QuotientLeast DEF w, Deduction
<1>5. s = T => w = P
  <2>1. SUFFICES ASSUME s = T PROVE P <= w
    BY <1>1, <1>4
  <2>2. T * P <= s * P
    BY <2>1
  <2> QED BY <1>0, <2>2, QuotientGreatest DEF w, Deduction
<1>6. A * (T - s) <= T * x
  <2> HIDE DEF x
  <2> DEFINE y == A * (T + V) - s * (A + V)
  <2>1. y <= D * x
    <3>1. D * x = A * (T + V) - D * r
      BY <1>0, <1>2 DEF x
    <3> QED BY <1>0, <1>2, <3>1
  <2>2. T * y <= T * (D * x)
    BY <1>0, <1>2, <2>1, ProductMonotone
  <2>3. s * V * T <= s * V * A
    BY <1>0, ProductMonotone
  <2>4. T * y - D * (A * (T - s)) = s * V * A - s * V * T
    BY <1>0
  <2>5. T * (D * x) = D * (T * x)
    BY <1>0, <1>2
  <2>6. D * (A * (T - s)) <= D * (T * x)
    BY <1>0, <1>2, <2>2, <2>3, <2>4, <2>5
  <2> QED BY <1>0, <1>2, <2>6, ProductCancel
<1>7. T * (P - w) < T * (x + 1)
  <2> HIDE DEF x
  <2>1. T * (P - w) < P * (T - s) + T
    BY <1>0, <1>1
  <2>2. P * (T - s) <= A * (T - s)
    BY <1>0, ProductMonotone
  <2>3. T * (x + 1) = T * x + T
    BY <1>0, <1>2
  <2> QED BY <1>0, <1>1, <1>2, <1>6, <2>1, <2>2, <2>3
<1>8. P - w < x + 1
  BY <1>0, <1>1, <1>2, <1>7, ProductCancel
<1>9. P - w <= A - r
  BY <1>0, <1>1, <1>2, <1>8
<1> QED
  BY <1>1, <1>4, <1>5, <1>9 DEF w, r

------------------------------------------------------------------------------
(* The inductive invariant.                                                *)

Books == SharesAccounted /\ DepositorsCounted /\ AtOrAbovePar /\ PrincipalBacked

IInv == TypeOK /\ Books

(* The books only read these variables.                                    *)
LEMMA BooksUntouched ==
    ASSUME Books,
           UNCHANGED <<holdings, totalDeposits>>,
           totalManagedAssets \in Nat, totalManagedAssets' \in Nat,
           totalShares \in Nat, totalDeposits \in Nat,
           totalManagedAssets' >= totalManagedAssets
    PROVE  Books'
<1>1. SharesAccounted' /\ DepositorsCounted'
  BY DEF Books, holdings, SharesAccounted, DepositorsCounted, Holders
<1>2. AtOrAbovePar' /\ PrincipalBacked'
  BY DEF Books, holdings, AtOrAbovePar, PrincipalBacked
<1> QED BY <1>1, <1>2 DEF Books

(* A transfer keeps every balance a natural number.                        *)
LEMMA TransferTyped ==
    ASSUME TypeOK, NEW from \in Accounts, NEW to \in Accounts, NEW n \in Nat,
           Transfer(from, to, n)
    PROVE  balance' \in [Accounts -> Nat]
BY DEF Transfer, CanPay, TypeOK

LEMMA DepositKeepsBooks ==
    ASSUME IInv, NEW p \in Providers, NEW n \in Amounts, NEW min \in MinOuts,
           Deposit(p, n, min)
    PROVE  IInv'
<1> DEFINE m == calc_shares_to_mint(n, totalManagedAssets, totalShares)
<1>0. /\ TypeOK /\ IsFiniteSet(Providers) /\ n \in Nat /\ n > 0 /\ m > 0
      /\ PricedPool(totalManagedAssets, totalShares)
  BY PoolConstants DEF IInv, Books, TypeOK, AtOrAbovePar, PricedPool, Deposit
<1>1. m \in Nat /\ m <= n
  BY <1>0, MintBounds
<1>2. /\ Transfer(p, Pool, n)
      /\ depositorCount' = depositorCount + (IF shares[p] = 0 THEN 1 ELSE 0)
      /\ depositTimestamp' = IF shares[p] = 0
                             THEN [depositTimestamp EXCEPT ![p] = ledger]
                             ELSE depositTimestamp
      /\ shares' = [shares EXCEPT ![p] = shares[p] + m]
      /\ totalShares' = totalShares + m
      /\ totalDeposits' = totalDeposits + n
      /\ totalManagedAssets' = totalManagedAssets + n
      /\ UNCHANGED <<ledger, governed, totalOutstanding>>
  BY DEF Deposit, MintTo
<1> HIDE DEF m
<1>3. TypeOK'
  <2>1. balance' \in [Accounts -> Nat]
    BY <1>0, <1>2, TransferTyped DEF Accounts
  <2> QED BY <1>0, <1>1, <1>2, <2>1 DEF TypeOK, governed, NoTimestamp
<1>4. SharesAccounted'
  <2>1. /\ shares \in [Providers -> Nat] /\ shares' \in [Providers -> Nat]
        /\ shares'[p] = shares[p] + m /\ shares[p] \in Nat
        /\ \A q \in Providers \ {p} : shares'[q] = shares[q]
    BY <1>0, <1>1, <1>2 DEF TypeOK
  <2>2. Total(shares', Providers) = Total(shares, Providers) - shares[p] + shares'[p]
    BY <1>0, <2>1, TotalUpdate
  <2> QED BY <1>0, <1>1, <1>2, <2>1, <2>2 DEF IInv, Books, SharesAccounted, TypeOK
<1>5. DepositorsCounted'
  <2>1. Holders' = Holders \cup {p}
    BY <1>0, <1>1, <1>2 DEF Holders, TypeOK
  <2>2. IsFiniteSet(Holders)
    BY <1>0, FS_Subset DEF Holders
  <2>3. Cardinality(Holders') =
           Cardinality(Holders) + (IF shares[p] = 0 THEN 1 ELSE 0)
    <3>1. p \in Holders <=> shares[p] # 0
      BY <1>0 DEF Holders, TypeOK
    <3>2. Cardinality(Holders) \in Nat
      BY <2>2, FS_CardinalityType
    <3>3. Cardinality(Holders \cup {p}) =
             IF p \in Holders THEN Cardinality(Holders) ELSE Cardinality(Holders) + 1
      BY <2>2, FS_AddElement
    <3> QED BY <2>1, <3>1, <3>2, <3>3
  <2>4. depositorCount' = Cardinality(Holders')
    BY <1>2, <2>3 DEF IInv, Books, DepositorsCounted
  <2>5. \A q \in Providers : depositTimestamp'[q] # NoTimestamp <=> shares'[q] > 0
    BY <1>0, <1>1, <1>2 DEF IInv, Books, DepositorsCounted, TypeOK, NoTimestamp
  <2> QED BY <2>4, <2>5 DEF DepositorsCounted
<1>6. AtOrAbovePar'
  BY <1>0, <1>1, <1>2 DEF AtOrAbovePar, PricedPool
<1>7. PrincipalBacked'
  BY <1>0, <1>1, <1>2 DEF IInv, Books, PrincipalBacked, TypeOK
<1> QED
  BY <1>3, <1>4, <1>5, <1>6, <1>7 DEF IInv, Books

LEMMA RedeemKeepsBooks ==
    ASSUME IInv, NEW p \in Providers, NEW n \in Amounts, NEW min \in MinOuts,
           RedeemShares(p, n, min)
    PROVE  IInv'
<1> DEFINE r == calc_assets_to_redeem(n, totalManagedAssets, totalShares)
           w == Deduction(n, totalDeposits, totalShares)
<1>0. /\ TypeOK /\ IsFiniteSet(Providers) /\ n \in Nat /\ n > 0
      /\ PricedPool(totalManagedAssets, totalShares) /\ n <= shares[p]
      /\ shares[p] \in Nat /\ totalDeposits \in Nat /\ totalShares \in Nat
  BY PoolConstants DEF IInv, Books, TypeOK, AtOrAbovePar, PricedPool, RedeemShares, Redeemable,
     HoldsShares
<1>1. shares[p] <= totalShares
  <2>1. shares \in [Providers -> Nat]
    BY <1>0 DEF TypeOK
  <2> QED BY <1>0, <2>1, TotalBoundsPart DEF IInv, Books, SharesAccounted
<1>2. n <= totalShares /\ totalDeposits <= totalManagedAssets
  BY <1>0, <1>1 DEF IInv, Books, PrincipalBacked
<1>3. /\ r \in Nat /\ r <= totalManagedAssets
      /\ totalManagedAssets - r >= totalShares - n
  BY <1>0, <1>2, RedeemBounds
<1>4. /\ w \in Nat /\ w <= totalDeposits
      /\ totalDeposits - w <= totalManagedAssets - r
      /\ n = totalShares => w = totalDeposits
  BY <1>0, <1>2, PrincipalAfterExit
<1>5. principal_to_deduct(n) = w
  BY <1>0, <1>2 DEF principal_to_deduct, Deduction
<1>6. /\ Transfer(Pool, p, r)
      /\ shares' = [shares EXCEPT ![p] = shares[p] - n]
      /\ depositTimestamp' = IF shares[p] = n
                             THEN [depositTimestamp EXCEPT ![p] = NoTimestamp]
                             ELSE depositTimestamp
      /\ depositorCount' = IF shares[p] = n /\ depositorCount > 0
                           THEN depositorCount - 1 ELSE depositorCount
      /\ totalShares' = totalShares - n
      /\ totalDeposits' = totalDeposits - w
      /\ totalManagedAssets' = totalManagedAssets - r
      /\ UNCHANGED <<ledger, governed, totalOutstanding>>
  BY <1>5 DEF RedeemShares, BurnFrom
<1> HIDE DEF r, w
<1>7. TypeOK'
  <2>1. balance' \in [Accounts -> Nat]
    BY <1>0, <1>3, <1>6, TransferTyped DEF Accounts
  <2> QED BY <1>0, <1>2, <1>3, <1>4, <1>6, <2>1 DEF TypeOK, governed, NoTimestamp
<1>8. SharesAccounted'
  <2>1. /\ shares \in [Providers -> Nat] /\ shares' \in [Providers -> Nat]
        /\ shares'[p] = shares[p] - n /\ shares[p] \in Nat
        /\ \A q \in Providers \ {p} : shares'[q] = shares[q]
    BY <1>0, <1>6 DEF TypeOK
  <2>2. Total(shares', Providers) = Total(shares, Providers) - shares[p] + shares'[p]
    BY <1>0, <2>1, TotalUpdate
  <2> QED BY <1>0, <1>6, <2>1, <2>2 DEF IInv, Books, SharesAccounted
<1>9. DepositorsCounted'
  <2>1. IsFiniteSet(Holders) /\ Cardinality(Holders) \in Nat
    BY <1>0, FS_Subset, FS_CardinalityType DEF Holders
  <2>2. p \in Holders
    BY <1>0 DEF Holders
  <2>3. Holders' = IF shares[p] = n THEN Holders \ {p} ELSE Holders
    BY <1>0, <1>6 DEF Holders, TypeOK
  <2>4. Cardinality(Holders \ {p}) = Cardinality(Holders) - 1
    BY <2>1, <2>2, FS_RemoveElement
  <2>5. Cardinality(Holders) > 0
    BY <2>1, <2>2, FS_EmptySet
  <2>6. depositorCount' = Cardinality(Holders')
    BY <1>6, <2>1, <2>3, <2>4, <2>5 DEF IInv, Books, DepositorsCounted
  <2>7. \A q \in Providers : depositTimestamp'[q] # NoTimestamp <=> shares'[q] > 0
    BY <1>0, <1>6 DEF IInv, Books, DepositorsCounted, TypeOK, NoTimestamp
  <2> QED BY <2>6, <2>7 DEF DepositorsCounted
<1>10. AtOrAbovePar'
  BY <1>0, <1>3, <1>6 DEF AtOrAbovePar, PricedPool
<1>11. PrincipalBacked'
  BY <1>0, <1>2, <1>3, <1>4, <1>6 DEF PrincipalBacked, PricedPool
<1> QED
  BY <1>7, <1>8, <1>9, <1>10, <1>11 DEF IInv, Books

(* Yield raises the managed assets and nothing else.                       *)
LEMMA YieldKeepsBooks ==
    ASSUME IInv, NEW a \in Accounts, NEW n \in Amounts, DistributeYield(a, n)
    PROVE  IInv'
<1>1. n \in Nat /\ TypeOK /\ Books
  BY PoolConstants DEF DistributeYield, IInv
<1>2. balance' \in [Accounts -> Nat]
  BY <1>1, TransferTyped DEF DistributeYield, Accounts
<1>3. TypeOK'
  BY <1>1, <1>2 DEF DistributeYield, TypeOK, governed, holdings
<1>4. totalManagedAssets' >= totalManagedAssets
  BY <1>1 DEF DistributeYield, TypeOK
<1>5. Books'
  BY <1>1, <1>3, <1>4, BooksUntouched DEF DistributeYield, TypeOK
<1> QED BY <1>3, <1>5 DEF IInv

(* The administrative entry points and the pool's surroundings write none  *)
(* of the counters of the books.                                           *)
LEMMA OthersKeepBooks ==
    ASSUME IInv, TypeOK', UNCHANGED <<holdings, totalDeposits, totalManagedAssets>>
    PROVE  IInv'
<1>1. totalManagedAssets' >= totalManagedAssets
  BY DEF IInv, TypeOK
<1>2. Books'
  BY <1>1, BooksUntouched DEF IInv, TypeOK
<1> QED BY <1>2 DEF IInv

LEMMA AdminKeepsBooks ==
    ASSUME IInv, AdminNext
    PROVE  IInv'
<1> USE PoolConstants DEF IInv, TypeOK, environment, governed, holdings, assets
<1>1. ASSUME NEW a \in Admins, Initialize(a) \/ ProposeAdmin(a) \/ SetAdmin(a)
      PROVE  IInv'
  BY <1>1, OthersKeepBooks DEF Initialize, ProposeAdmin, SetAdmin
<1>2. CASE AcceptAdmin
  BY <1>2, OthersKeepBooks DEF AcceptAdmin
<1>3. ASSUME NEW b \in BOOLEAN, SetPaused(b) PROVE IInv'
  BY <1>3, OthersKeepBooks DEF SetPaused
<1>4. ASSUME NEW n \in Amounts, SetMaxPoolSize(n) \/ AdjustOutstanding(n) PROVE IInv'
  BY <1>4, OthersKeepBooks DEF SetMaxPoolSize, AdjustOutstanding
<1>5. ASSUME NEW n \in Cooldowns, SetWithdrawalCooldown(n) PROVE IInv'
  BY <1>5, OthersKeepBooks DEF SetWithdrawalCooldown
<1> QED BY <1>1, <1>2, <1>3, <1>4, <1>5 DEF AdminNext

LEMMA OutsideKeepsBooks ==
    ASSUME IInv, OutsideNext
    PROVE  IInv'
<1>1. ASSUME NEW a \in Accounts \ {Pool}, NEW n \in Amounts,
             TransferIn(a, n) \/ Disburse(a, n)
      PROVE  IInv'
  <2>1. n \in Nat /\ Pool \in Accounts
    BY <1>1, PoolConstants DEF TransferIn, Disburse, Accounts
  <2>2. balance' \in [Accounts -> Nat]
    BY <1>1, <2>1, TransferTyped DEF TransferIn, Disburse, IInv
  <2>3. TypeOK'
    BY <1>1, <2>2 DEF TransferIn, Disburse, IInv, TypeOK, governed, holdings, assets
  <2> QED BY <1>1, <2>3, OthersKeepBooks DEF TransferIn, Disburse, assets
<1>2. CASE CloseLedger
  <2>1. TypeOK'
    BY <1>2 DEF CloseLedger, IInv, TypeOK, governed, holdings, assets
  <2> QED BY <1>2, <2>1, OthersKeepBooks DEF CloseLedger, assets
<1> QED BY <1>1, <1>2, YieldKeepsBooks DEF OutsideNext

LEMMA InitBooks == Init => IInv
<1> SUFFICES ASSUME Init PROVE IInv
  OBVIOUS
<1>1. TypeOK
  BY PoolConstants DEF Init, TypeOK, NoTimestamp, Accounts
<1>2. SharesAccounted
  BY TotalZero DEF Init, SharesAccounted
<1>3. DepositorsCounted
  <2>1. Holders = {}
    BY DEF Init, Holders
  <2> QED BY <2>1, FS_EmptySet DEF Init, DepositorsCounted
<1>4. AtOrAbovePar /\ PrincipalBacked
  BY DEF Init, AtOrAbovePar, PrincipalBacked
<1> QED BY <1>1, <1>2, <1>3, <1>4 DEF IInv, Books

LEMMA StepKeepsBooks == IInv /\ [Next]_vars => IInv'
<1> SUFFICES ASSUME IInv, [Next]_vars PROVE IInv'
  OBVIOUS
<1>1. CASE ProviderNext
  <2>1. PICK p \in Providers, n \in Amounts, min \in MinOuts :
            Deposit(p, n, min) \/ RedeemShares(p, n, min)
    BY <1>1 DEF ProviderNext, Withdraw, EmergencyWithdraw
  <2> QED BY <2>1, DepositKeepsBooks, RedeemKeepsBooks
<1>2. CASE AdminNext
  BY <1>2, AdminKeepsBooks
<1>3. CASE OutsideNext
  BY <1>3, OutsideKeepsBooks
<1>4. CASE UNCHANGED vars
  <2>1. TypeOK'
    BY <1>4 DEF vars, environment, governed, holdings, assets, IInv, TypeOK
  <2> QED BY <1>4, <2>1, OthersKeepBooks DEF vars, assets
<1> QED BY <1>1, <1>2, <1>3, <1>4 DEF Next

LEMMA PoolInvariant == Spec => []IInv
BY InitBooks, StepKeepsBooks, PTL DEF Spec

(* No entry point leaves the contract's storage ill typed: no counter, no  *)
(* share balance and no token balance ever goes below zero.                *)
THEOREM PoolTyped == Spec => []TypeOK
<1>1. IInv => TypeOK
  BY DEF IInv
<1> QED BY <1>1, PoolInvariant, PTL

(* The share balances add up to TotalShares after any sequence of calls.   *)
THEOREM PoolSharesAddUp == Spec => []SharesAccounted
<1>1. IInv => SharesAccounted
  BY DEF IInv, Books
<1> QED BY <1>1, PoolInvariant, PTL

(* DepositorCount and the cooldown timestamps agree with the holdings.     *)
THEOREM PoolDepositors == Spec => []DepositorsCounted
<1>1. IInv => DepositorsCounted
  BY DEF IInv, Books
<1> QED BY <1>1, PoolInvariant, PTL

(* A share is never worth less than one unit of the managed assets.        *)
THEOREM PoolAtPar == Spec => []AtOrAbovePar
<1>1. IInv => AtOrAbovePar
  BY DEF IInv, Books
<1> QED BY <1>1, PoolInvariant, PTL

(* The principal counter is backed, and empties with the pool.             *)
THEOREM PoolPrincipal == Spec => []PrincipalBacked
<1>1. IInv => PrincipalBacked
  BY DEF IInv, Books
<1> QED BY <1>1, PoolInvariant, PTL

------------------------------------------------------------------------------
(* The share price.                                                        *)

(* (A2 + V) / (T2 + V) is no less than (A1 + V) / (T1 + V).                *)
PriceKept(A1, T1, A2, T2) == (T2 + V) * (A1 + V) <= (T1 + V) * (A2 + V)

(* At a price that has not dropped, no fewer shares redeem for no less.    *)
LEMMA ClaimMonotone ==
    ASSUME NEW A1 \in Nat, NEW T1 \in Nat, NEW A2 \in Nat, NEW T2 \in Nat,
           PriceKept(A1, T1, A2, T2),
           NEW s1 \in Nat, NEW s2 \in Nat, s1 <= s2
    PROVE  calc_assets_to_redeem(s1, A1, T1) <= calc_assets_to_redeem(s2, A2, T2)
<1> DEFINE D1 == T1 + V
           D2 == T2 + V
           N1 == A1 + V
           N2 == A2 + V
           q == (s1 * N1) \div D1
<1>0. /\ V \in Nat \ {0} /\ VIRTUAL_ASSETS = V /\ VIRTUAL_SHARES = V
      /\ D1 \in Nat \ {0} /\ D2 \in Nat \ {0} /\ N1 \in Nat /\ N2 \in Nat
  BY PoolConstants DEF V
<1>1. D2 * N1 <= D1 * N2
  BY DEF PriceKept
<1> HIDE DEF D1, D2, N1, N2
<1>2. s1 * N1 \in Nat /\ s2 * N2 \in Nat
  BY <1>0
<1>3. q \in Nat /\ D1 * q <= s1 * N1
  BY <1>0, <1>2, QuotientBounds
<1> HIDE DEF q
<1>4. D1 * (D2 * q) <= D2 * (s1 * N1)
  <2>1. D2 * (D1 * q) <= D2 * (s1 * N1)
    BY <1>0, <1>2, <1>3, ProductMonotone
  <2>2. D2 * (D1 * q) = D1 * (D2 * q)
    BY <1>0, <1>3
  <2> QED BY <2>1, <2>2
<1>5. D2 * (s1 * N1) <= D1 * (s2 * N2)
  <2>1. s1 * (D2 * N1) <= s1 * (D1 * N2)
    BY <1>0, <1>1, ProductMonotone
  <2>2. s1 * (D1 * N2) <= s2 * (D1 * N2)
    BY <1>0, ProductMonotone
  <2>3. s1 * (D2 * N1) = D2 * (s1 * N1) /\ s2 * (D1 * N2) = D1 * (s2 * N2)
    BY <1>0
  <2> QED BY <1>0, <2>1, <2>2, <2>3
<1>6. D2 * q <= s2 * N2
  <2>1. D1 * (D2 * q) <= D1 * (s2 * N2)
    BY <1>0, <1>2, <1>3, <1>4, <1>5
  <2>2. D2 * q \in Int /\ s2 * N2 \in Int
    BY <1>0, <1>3
  <2> QED BY <1>0, <2>1, <2>2, ProductCancel
<1>7. q <= (s2 * N2) \div D2
  BY <1>0, <1>2, <1>3, <1>6, QuotientGreatest
<1> QED
  BY <1>0, <1>7 DEF q, D1, D2, N1, N2, calc_assets_to_redeem

(* Assets added for nothing, or nothing at all, keep the price.            *)
LEMMA PriceKeptByAssets ==
    ASSUME NEW A1 \in Nat, NEW T1 \in Nat, NEW A2 \in Nat, A1 <= A2
    PROVE  PriceKept(A1, T1, A2, T1)
<1>1. V \in Nat
  BY PoolConstants DEF V
<1>2. A1 + V \in Int /\ A2 + V \in Int /\ T1 + V \in Nat /\ A1 + V <= A2 + V
  BY <1>1
<1> QED BY <1>2, ProductMonotone DEF PriceKept

(* No step of the pool or of its surroundings lowers the price.            *)
LEMMA StepKeepsPrice ==
    ASSUME IInv, [Next]_vars
    PROVE  PriceKept(totalManagedAssets, totalShares, totalManagedAssets', totalShares')
<1>0. /\ totalManagedAssets \in Nat /\ totalShares \in Nat /\ totalDeposits \in Nat
      /\ V \in Nat \ {0} /\ PricedPool(totalManagedAssets, totalShares)
  BY PoolConstants DEF V, IInv, Books, TypeOK, AtOrAbovePar, PricedPool
<1>1. ASSUME NEW p \in Providers, NEW n \in Amounts, NEW min \in MinOuts,
             Deposit(p, n, min)
      PROVE  PriceKept(totalManagedAssets, totalShares, totalManagedAssets', totalShares')
  <2> DEFINE A == totalManagedAssets
             T == totalShares
             m == calc_shares_to_mint(n, A, T)
  <2>1. n \in Nat /\ A' = A + n /\ T' = T + m
    BY <1>1, PoolConstants DEF Deposit, MintTo
  <2>2. m \in Nat /\ (A + V) * m <= n * (T + V)
    BY <1>0, <2>1, MintBounds
  <2> HIDE DEF m
  <2>3. (T + m + V) * (A + V) = (T + V) * (A + V) + (A + V) * m
    BY <1>0, <2>2
  <2>4. (T + V) * (A + n + V) = (T + V) * (A + V) + n * (T + V)
    BY <1>0, <2>1
  <2>5. (T + m + V) * (A + V) <= (T + V) * (A + n + V)
    BY <1>0, <2>1, <2>2, <2>3, <2>4
  <2> QED BY <2>1, <2>5 DEF PriceKept
<1>2. ASSUME NEW p \in Providers, NEW n \in Amounts, NEW min \in MinOuts,
             RedeemShares(p, n, min)
      PROVE  PriceKept(totalManagedAssets, totalShares, totalManagedAssets', totalShares')
  <2> DEFINE A == totalManagedAssets
             T == totalShares
             r == calc_assets_to_redeem(n, A, T)
  <2>1. n \in Nat /\ A' = A - r /\ T' = T - n /\ n <= shares[p] /\ shares[p] \in Nat
    BY <1>2, PoolConstants DEF RedeemShares, Redeemable, HoldsShares, BurnFrom, IInv, TypeOK
  <2>2. n <= T
    <3>1. shares \in [Providers -> Nat] /\ IsFiniteSet(Providers)
      BY PoolConstants DEF IInv, TypeOK
    <3>2. shares[p] <= T
      BY <3>1, TotalBoundsPart DEF IInv, Books, SharesAccounted
    <3> QED BY <1>0, <2>1, <3>2
  <2>3. r \in Nat /\ (T + V) * r <= n * (A + V)
    BY <1>0, <2>1, <2>2, RedeemBounds
  <2> HIDE DEF r
  <2>4. (T - n + V) * (A + V) = (T + V) * (A + V) - n * (A + V)
    BY <1>0, <2>1
  <2>5. (T + V) * (A - r + V) = (T + V) * (A + V) - (T + V) * r
    BY <1>0, <2>3
  <2>6. (T - n + V) * (A + V) <= (T + V) * (A - r + V)
    BY <1>0, <2>1, <2>3, <2>4, <2>5
  <2> QED BY <2>1, <2>6 DEF PriceKept
<1>3. ASSUME NEW a \in Accounts, NEW n \in Amounts, DistributeYield(a, n)
      PROVE  PriceKept(totalManagedAssets, totalShares, totalManagedAssets', totalShares')
  <2>1. /\ totalManagedAssets' \in Nat /\ totalManagedAssets <= totalManagedAssets'
        /\ totalShares' = totalShares
    BY <1>0, <1>3, PoolConstants DEF DistributeYield, holdings
  <2> QED BY <1>0, <2>1, PriceKeptByAssets
<1>4. ASSUME UNCHANGED <<totalManagedAssets, totalShares>>
      PROVE  PriceKept(totalManagedAssets, totalShares, totalManagedAssets', totalShares')
  BY <1>0, <1>4, PriceKeptByAssets
<1>5. CASE ProviderNext
  <2>1. PICK p \in Providers, n \in Amounts, min \in MinOuts :
            Deposit(p, n, min) \/ RedeemShares(p, n, min)
    BY <1>5 DEF ProviderNext, Withdraw, EmergencyWithdraw
  <2> QED BY <2>1, <1>1, <1>2
<1>6. CASE AdminNext
  BY <1>6, <1>4 DEF AdminNext, Initialize, ProposeAdmin, SetAdmin, AcceptAdmin,
     SetPaused, SetMaxPoolSize, AdjustOutstanding, SetWithdrawalCooldown,
     holdings, assets
<1>7. CASE OutsideNext
  BY <1>7, <1>3, <1>4 DEF OutsideNext, TransferIn, Disburse, CloseLedger, holdings, assets
<1>8. CASE UNCHANGED vars
  BY <1>8, <1>4 DEF vars, holdings, assets
<1> QED BY <1>5, <1>6, <1>7, <1>8 DEF Next

(* Time goes on, and the stamp of a provider that keeps shares stays.      *)
LEMMA StepKeepsStamps ==
    ASSUME IInv, [Next]_vars, NEW p \in Providers, shares[p] > 0, shares'[p] > 0
    PROVE  /\ depositTimestamp'[p] = depositTimestamp[p]
           /\ ledger' \in Nat /\ ledger' >= ledger
<1>0. /\ ledger \in Nat /\ shares \in [Providers -> Nat]
      /\ depositTimestamp \in [Providers -> Nat \cup {NoTimestamp}]
  BY DEF IInv, TypeOK
<1>1. ASSUME NEW q \in Providers, NEW n \in Amounts, NEW min \in MinOuts,
             Deposit(q, n, min)
      PROVE  depositTimestamp'[p] = depositTimestamp[p] /\ ledger' = ledger
  <2>1. /\ depositTimestamp' = IF shares[q] = 0
                               THEN [depositTimestamp EXCEPT ![q] = ledger]
                               ELSE depositTimestamp
        /\ ledger' = ledger
    BY <1>1 DEF Deposit, MintTo
  <2> QED BY <1>0, <2>1
<1>2. ASSUME NEW q \in Providers, NEW n \in Amounts, NEW min \in MinOuts,
             RedeemShares(q, n, min)
      PROVE  depositTimestamp'[p] = depositTimestamp[p] /\ ledger' = ledger
  <2>1. /\ depositTimestamp' = IF shares[q] = n
                               THEN [depositTimestamp EXCEPT ![q] = NoTimestamp]
                               ELSE depositTimestamp
        /\ shares' = [shares EXCEPT ![q] = shares[q] - n]
        /\ ledger' = ledger
    BY <1>2 DEF RedeemShares, BurnFrom
  <2> QED BY <1>0, <2>1
<1>3. CASE ProviderNext
  <2>1. PICK q \in Providers, n \in Amounts, min \in MinOuts :
            Deposit(q, n, min) \/ RedeemShares(q, n, min)
    BY <1>3 DEF ProviderNext, Withdraw, EmergencyWithdraw
  <2> QED BY <1>0, <2>1, <1>1, <1>2
<1>4. CASE AdminNext
  BY <1>0, <1>4 DEF AdminNext, Initialize, ProposeAdmin, SetAdmin, AcceptAdmin,
     SetPaused, SetMaxPoolSize, AdjustOutstanding, SetWithdrawalCooldown,
     holdings, environment
<1>5. CASE OutsideNext
  BY <1>0, <1>5 DEF OutsideNext, DistributeYield, TransferIn, Disburse, CloseLedger, holdings
<1>6. CASE UNCHANGED vars
  BY <1>0, <1>6 DEF vars, holdings, environment
<1> QED BY <1>3, <1>4, <1>5, <1>6 DEF Next

(* No step takes from a holder: whoever keeps its shares can redeem, by    *)
(* calc_assets_to_redeem, at least what it could before the step, and its  *)
(* exit, once open, closes only if the cooldown is changed.                *)
THEOREM NoDilution == Spec => HoldersNeverDiluted
<1> DEFINE Kept == \A p \in Providers : ClaimKept(p) /\ ExitKept(p)
<1>0. IInv /\ [Next]_vars => \A p \in Providers : ExitKept(p)
  <2> SUFFICES ASSUME IInv, [Next]_vars, NEW p \in Providers, shares[p] > 0, shares'[p] > 0,
                      CooldownElapsed(p), withdrawalCooldown' = withdrawalCooldown
               PROVE  CooldownElapsed(p)'
    BY DEF ExitKept
  <2>1. /\ depositTimestamp'[p] = depositTimestamp[p]
        /\ ledger' \in Nat /\ ledger' >= ledger
    BY StepKeepsStamps
  <2>2. /\ withdrawalCooldown \in Nat /\ ledger \in Nat
        /\ depositTimestamp[p] \in Nat \cup {NoTimestamp}
    BY DEF IInv, TypeOK
  <2> QED BY <2>1, <2>2 DEF CooldownElapsed, NoTimestamp
<1>1. IInv /\ IInv' /\ [Next]_vars => [Kept]_vars
  <2> SUFFICES ASSUME IInv, IInv', [Next]_vars, NEW p \in Providers,
                      shares'[p] >= shares[p]
               PROVE  Claim(p)' >= Claim(p)
    BY <1>0 DEF ClaimKept
  <2>1. PriceKept(totalManagedAssets, totalShares, totalManagedAssets', totalShares')
    BY StepKeepsPrice
  <2>2. /\ totalManagedAssets \in Nat /\ totalShares \in Nat /\ shares[p] \in Nat
        /\ totalManagedAssets' \in Nat /\ totalShares' \in Nat /\ shares'[p] \in Nat
    BY DEF IInv, TypeOK
  <2> DEFINE before == calc_assets_to_redeem(shares[p], totalManagedAssets, totalShares)
             after == calc_assets_to_redeem(shares'[p], totalManagedAssets', totalShares')
  <2>3. before <= after
    BY <2>1, <2>2, ClaimMonotone
  <2> QED BY <2>3 DEF Claim, calc_assets_to_redeem
<1>2. IInv /\ [Next]_vars => IInv'
  BY StepKeepsBooks
<1> QED
  BY <1>1, <1>2, InitBooks, PTL DEF Spec, HoldersNeverDiluted

------------------------------------------------------------------------------
(* Exits.                                                                  *)

(* All claims together: each rounds down, so (T + V) times their sum is at *)
(* most (A + V) times the shares, which par bounds by (T + V) times A.     *)
LEMMA ClaimsAreCovered == IInv => ClaimsCovered
<1> SUFFICES ASSUME IInv PROVE ClaimsCovered
  OBVIOUS
<1> DEFINE A == totalManagedAssets
           T == totalShares
           claims == [p \in Providers |-> Claim(p)]
           sum == Total(claims, Providers)
<1>0. /\ V \in Nat \ {0} /\ A \in Nat /\ T \in Nat /\ A >= T /\ PricedPool(A, T)
      /\ A + V \in Nat /\ T + V \in Nat \ {0}
      /\ IsFiniteSet(Providers) /\ shares \in [Providers -> Nat]
      /\ Total(shares, Providers) = T
  BY PoolConstants DEF V, IInv, Books, TypeOK, AtOrAbovePar, PricedPool, SharesAccounted
<1>1. \A p \in Providers : claims[p] \in Nat /\ (T + V) * claims[p] <= (A + V) * shares[p]
  <2> SUFFICES ASSUME NEW p \in Providers
               PROVE  Claim(p) \in Nat /\ (T + V) * Claim(p) <= (A + V) * shares[p]
    OBVIOUS
  <2>1. shares[p] \in Nat /\ shares[p] <= T
    BY <1>0, TotalBoundsPart
  <2>2. Claim(p) \in Nat /\ (T + V) * Claim(p) <= shares[p] * (A + V)
    BY <1>0, <2>1, RedeemBounds DEF Claim
  <2> QED BY <1>0, <2>1, <2>2
<1>2. claims \in [Providers -> Nat]
  BY <1>1
<1> HIDE DEF claims
<1>3. (T + V) * sum <= (A + V) * T
  BY <1>0, <1>1, <1>2, TotalScaled
<1>4. sum \in Nat
  BY <1>0, <1>2, TotalNat
<1>5. (A + V) * T <= (T + V) * A
  <2>1. V * T <= V * A
    BY <1>0, ProductMonotone
  <2>2. (A + V) * T = A * T + V * T /\ (T + V) * A = A * T + V * A
    BY <1>0
  <2> QED BY <1>0, <2>1, <2>2
<1> HIDE DEF sum
<1>6. (T + V) * sum <= (T + V) * A
  BY <1>0, <1>3, <1>4, <1>5
<1>7. sum <= A
  BY <1>0, <1>4, <1>6, ProductCancel
<1> QED BY <1>7 DEF ClaimsCovered, sum, claims

(* The checks of redeem_shares pass for a provider's whole holding.        *)
HoldingsRedeemable ==
    \A p \in Holders : CanPay(Pool, Claim(p)) => Redeemable(p, shares[p], 0)

(* A provider is never kept from what it is owed: the claims of all        *)
(* providers together are covered by TotalManagedAssets, redeem_shares     *)
(* (and so emergency_withdraw, which adds no check to it) accepts a whole  *)
(* holding whenever the pool has the tokens, and get_withdraw_cooldown_left *)
(* is zero exactly when withdraw's cooldown check passes.                  *)
THEOREM PoolExits == Spec => [](ClaimsCovered /\ HoldingsRedeemable /\ CooldownViewAgrees)
<1>1. IInv => HoldingsRedeemable
  <2> SUFFICES ASSUME IInv, NEW p \in Holders, CanPay(Pool, Claim(p))
               PROVE  Redeemable(p, shares[p], 0)
    BY DEF HoldingsRedeemable
  <2>1. /\ PricedPool(totalManagedAssets, totalShares) /\ IsFiniteSet(Providers)
        /\ shares \in [Providers -> Nat] /\ p \in Providers
        /\ shares[p] \in Nat /\ shares[p] > 0
    BY PoolConstants DEF IInv, Books, TypeOK, AtOrAbovePar, PricedPool, Holders
  <2>2. shares[p] <= totalShares
    BY <2>1, TotalBoundsPart DEF IInv, Books, SharesAccounted
  <2>3. Claim(p) \in Nat /\ shares[p] <= Claim(p)
    BY <2>1, <2>2, RedeemBounds DEF Claim
  <2> QED BY <2>1, <2>3 DEF Redeemable, HoldsShares, Claim
<1>2. IInv => CooldownViewAgrees
  <2> SUFFICES ASSUME IInv, NEW p \in Providers
               PROVE  get_withdraw_cooldown_left(p) = 0 <=> CooldownElapsed(p)
    BY DEF CooldownViewAgrees
  <2>1. /\ ledger \in Nat /\ withdrawalCooldown \in Nat
        /\ depositTimestamp[p] \in Nat \cup {NoTimestamp}
    BY DEF IInv, TypeOK
  <2> QED BY <2>1 DEF get_withdraw_cooldown_left, get_withdrawal_available_at, CooldownElapsed,
                      NoTimestamp
<1> QED BY <1>1, <1>2, ClaimsAreCovered, PoolInvariant, PTL
==============================================================================
