------------------------------- MODULE Money --------------------------------
(***************************************************************************)
(* The money policy that the contracts' money crate, the backend's         *)
(* money/decimal.ts and the frontend's lib/money/format.ts each implement: *)
(* rounded division, conversion between stroops and typed or shown decimal *)
(* amounts, and a split in proportion that loses nothing.  A decimal       *)
(* amount is [neg, n, k]: plus or minus n / 10^k, written with k digits    *)
(* after the point.                                                        *)
(***************************************************************************)
EXTENDS Aggregates

CONSTANTS
    STROOP_DECIMALS,    \* digits of the settlement precision
    DISPLAY_DP,         \* digits shown
    MaxDigits,          \* bounds on what is typed, divided and split
    MaxMoney,
    MaxWeight

ASSUME MoneyConstants ==
    /\ STROOP_DECIMALS \in Nat /\ DISPLAY_DP \in 0 .. STROOP_DECIMALS
    /\ MaxDigits \in Nat /\ MaxMoney \in Nat /\ MaxWeight \in Nat

VARIABLE reckoned       \* the last call: [op, in, out]

moneyVars == <<reckoned>>

DEFAULT_MODE == "half_even"
Modes == {"half_even", "half_up", "floor", "ceil"}

(* The powers of ten that calls within the bounds need.                    *)
TenTo[k \in 0 .. STROOP_DECIMALS + MaxDigits] == IF k = 0 THEN 1 ELSE 10 * TenTo[k - 1]

AbsOf(x) == IF x < 0 THEN -x ELSE x
TruncatedQuotient(n, d) == IF n < 0 THEN -((-n) \div d) ELSE n \div d

(* Fault: an exact tie goes away from zero.                                *)
roundDiv_Faulty(num, den, mode) ==
    LET n == IF den < 0 THEN -num ELSE num
        d == AbsOf(den)
        quotient == TruncatedQuotient(n, d)
        remainder == n - quotient * d
    IN  IF 2 * AbsOf(remainder) >= d
        THEN quotient + (IF remainder < 0 THEN -1 ELSE 1) ELSE quotient

roundDiv(num, den, mode) ==
    LET n == IF den < 0 THEN -num ELSE num
        d == AbsOf(den)
        quotient == TruncatedQuotient(n, d)
        remainder == n - quotient * d
        doubled == 2 * AbsOf(remainder)
        away == CASE mode = "floor" -> remainder < 0
                  [] mode = "ceil" -> remainder > 0
                  [] mode = "half_up" -> doubled >= d
                  [] mode = "half_even" -> doubled > d \/ (doubled = d /\ quotient % 2 # 0)
    IN  IF remainder = 0 \/ ~away THEN quotient
        ELSE quotient + (IF remainder < 0 THEN -1 ELSE 1)

(* A typed amount: missing digits are zeros, digits in excess are rounded  *)
(* on the magnitude, and the sign comes last.                              *)
toStroops(x, mode) ==
    LET magnitude == IF x.k <= STROOP_DECIMALS THEN x.n * TenTo[STROOP_DECIMALS - x.k]
                     ELSE roundDiv(x.n, TenTo[x.k - STROOP_DECIMALS], mode)
    IN  IF x.neg THEN -magnitude ELSE magnitude

fromStroops(value) == [neg |-> value < 0, n |-> AbsOf(value), k |-> STROOP_DECIMALS]

(* The amount as shown: rounded to dp digits, without the sign of a zero.  *)
formatStroops(value, dp) ==
    LET scaled == IF dp >= STROOP_DECIMALS THEN AbsOf(value) * TenTo[dp - STROOP_DECIMALS]
                  ELSE roundDiv(AbsOf(value), TenTo[STROOP_DECIMALS - dp], DEFAULT_MODE)
    IN  [neg |-> value < 0 /\ scaled # 0, n |-> scaled, k |-> dp]

(* The forms refuse a typed amount with more digits than the asset has.    *)
hasInvalidPrecision(x, decimals) == x.k > decimals
typedToStroops(x, decimals) == x.n * TenTo[decimals - x.k]

(* Each share is rounded down; the units left over go one each to the      *)
(* largest remainders, the lowest index first among equals.  As many units *)
(* as weights or more raise the drift error: nothing is split.             *)
TotalOf(weights) == Total(weights, DOMAIN weights)
CanSplit(total, weights) == total = 0 \/ TotalOf(weights) > 0

splitProRata(total, weights) ==
    LET weightSum == TotalOf(weights)
        part == [i \in DOMAIN weights |-> roundDiv(total * weights[i], weightSum, "floor")]
        remainder == [i \in DOMAIN weights |-> total * weights[i] - part[i] * weightSum]
        leftover == total - TotalOf(part)
        ahead(i) == {j \in DOMAIN weights :
                        remainder[j] > remainder[i] \/ (remainder[j] = remainder[i] /\ j < i)}
    IN  IF weightSum = 0 THEN [i \in DOMAIN weights |-> 0]
        ELSE IF leftover < 0 \/ leftover >= Len(weights) THEN <<>>
        ELSE [i \in DOMAIN weights |->
                 part[i] + (IF Cardinality(ahead(i)) < leftover THEN 1 ELSE 0)]

------------------------------------------------------------------------------
(* Every call of the policy, over bounded arguments: pure functions, so    *)
(* one call a behaviour is enough.                                         *)

MoneyInit == reckoned = [op |-> "none"]

Decimals == [neg : BOOLEAN, n : 0 .. MaxMoney, k : 0 .. MaxDigits]
Weights == [1 .. 3 -> 0 .. MaxWeight]

callRoundDiv ==
    \E num \in -MaxMoney .. MaxMoney, den \in (-7 .. 7) \ {0}, mode \in Modes :
        reckoned' = [op |-> "roundDiv", num |-> num, den |-> den, mode |-> mode,
                out |-> roundDiv(num, den, mode)]

callToStroops ==
    \E x \in Decimals, mode \in Modes :
        reckoned' = [op |-> "toStroops", in |-> x, mode |-> mode, out |-> toStroops(x, mode)]

callFormat ==
    \E v \in -MaxMoney .. MaxMoney, dp \in 0 .. MaxDigits :
        reckoned' = [op |-> "format", in |-> v, out |-> formatStroops(v, dp)]

callTyped ==
    \E x \in Decimals, decimals \in {DISPLAY_DP, STROOP_DECIMALS} :
        /\ ~x.neg /\ ~hasInvalidPrecision(x, decimals)
        /\ reckoned' = [op |-> "typed", in |-> x, decimals |-> decimals,
                   out |-> typedToStroops(x, decimals)]

callSplit ==
    \E total \in 0 .. MaxMoney, weights \in Weights :
        /\ CanSplit(total, weights)
        /\ reckoned' = [op |-> "split", total |-> total, weights |-> weights,
                   out |-> splitProRata(total, weights)]

MoneyNext ==
    /\ reckoned.op = "none"
    /\ callRoundDiv \/ callToStroops \/ callFormat \/ callTyped \/ callSplit

------------------------------------------------------------------------------
(* What each call promises, said without the algorithm.                    *)

(* roundDiv: the quotient is the integer nearest to num / den, of two the  *)
(* even one (or the one away from zero); floor and ceil bound it.          *)
RoundsRight(num, den, mode, q) ==
    LET gap == q * AbsOf(den) - (IF den < 0 THEN -num ELSE num)   \* (q - num/den) * |den|
    IN  CASE mode = "floor" -> gap \in (1 - AbsOf(den)) .. 0
          [] mode = "ceil" -> gap \in 0 .. (AbsOf(den) - 1)
          [] OTHER -> /\ 2 * AbsOf(gap) <= AbsOf(den)
                      /\ 2 * AbsOf(gap) = AbsOf(den) =>
                            IF mode = "half_even" THEN q % 2 = 0
                            ELSE AbsOf(q) * AbsOf(den) >= AbsOf(num)

(* What is shown is within half of the last digit, parses back to within   *)
(* it, exactly when no digit was lost, and is never minus zero.            *)
ShowsRight(value, shown) ==
    LET unit == IF shown.k >= STROOP_DECIMALS THEN 1 ELSE TenTo[STROOP_DECIMALS - shown.k]
        back == toStroops(shown, DEFAULT_MODE)
    IN  /\ 2 * AbsOf(back - value) <= unit
        /\ value % unit = 0 => back = value
        /\ ~(shown.neg /\ shown.n = 0)

(* A split gives every weight its part, without a drift, and pays out the  *)
(* total; each part is within one unit of its exact proportion, and a      *)
(* larger weight never gets less.                                          *)
SplitsRight(total, weights, parts) ==
    /\ DOMAIN parts = DOMAIN weights
    /\ TotalOf(parts) = total
    /\ \A i \in DOMAIN weights :
          AbsOf(parts[i] * TotalOf(weights) - total * weights[i]) < TotalOf(weights) \/ total = 0
    /\ \A i, j \in DOMAIN weights : weights[i] > weights[j] => parts[i] >= parts[j]

MoneyAgrees ==
    CASE reckoned.op = "roundDiv" -> RoundsRight(reckoned.num, reckoned.den, reckoned.mode, reckoned.out)
      [] reckoned.op = "toStroops" ->
            /\ reckoned.in.k > STROOP_DECIMALS /\ ~reckoned.in.neg =>
                  RoundsRight(reckoned.in.n, TenTo[reckoned.in.k - STROOP_DECIMALS], reckoned.mode, reckoned.out)
            /\ toStroops(fromStroops(reckoned.out), reckoned.mode) = reckoned.out
      [] reckoned.op = "format" -> ShowsRight(reckoned.in, reckoned.out)
      [] reckoned.op = "typed" ->
            reckoned.decimals = STROOP_DECIMALS => reckoned.out = toStroops(reckoned.in, DEFAULT_MODE)
      [] reckoned.op = "split" -> SplitsRight(reckoned.total, reckoned.weights, reckoned.out)
      [] OTHER -> TRUE
==============================================================================
