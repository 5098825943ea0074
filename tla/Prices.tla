------------------------------- MODULE Prices -------------------------------
(***************************************************************************)
(* Prices between a market-issued asset (the debt) and its backing asset   *)
(* (the collateral), the prices a feed stands for, and the amount of debt  *)
(* a margin call with a target collateral ratio has to cover.              *)
(*                                                                         *)
(* In the code a price has a base and a quote asset, and ~p swaps them.    *)
(* Here a price is the pair [d, c]: d units of debt for c of collateral,   *)
(* whichever is the base.  Amounts in the code are below 10^15 and the     *)
(* products have 128 or 256 bits; the code that shrinks a price to fit     *)
(* into 64 bits has nothing to do on amounts of the size used here.        *)
(***************************************************************************)
EXTENDS Integers

CONSTANTS
    RatioDenom,     \* GRAPHENE_COLLATERAL_RATIO_DENOM
    NullPrice,      \* a price() that has not been set
    NoRatio         \* a target_collateral_ratio that has not been set

ASSUME PriceAssumption == RatioDenom \in Nat \ {0}

Price == [d : Nat \ {0}, c : Nat \ {0}]

Least(a, b)    == IF a < b THEN a ELSE b
Greatest(a, b) == IF a < b THEN b ELSE a

(* asset * price, and asset::multiply_and_round_up: to collateral and to   *)
(* debt.                                                                   *)
ToColl(debt, p)   == (debt * p.c) \div p.d
ToDebt(coll, p)   == (coll * p.d) \div p.c
ToCollUp(debt, p) == (debt * p.c + p.d - 1) \div p.d
ToDebtUp(coll, p) == (coll * p.d + p.c - 1) \div p.c

(* Comparison of debt/collateral prices.  A collateralization is the       *)
(* inverse, so that the lower price is the higher collateralization.       *)
PriceLess(p, q)  == p.d * q.c < q.d * p.c
PriceLeq(p, q)   == p.d * q.c <= q.d * p.c
MaxPrice(p, q)   == IF PriceLess(p, q) THEN q ELSE p
HigherCR(p, q)   == PriceLess(p, q)
AtLeastCR(p, q)  == PriceLeq(p, q)

(* price * ratio n/m, in lowest terms as boost::rational leaves it.        *)
PriceTimes(p, n, m) ==
    LET gcd[a \in Nat, b \in Nat] == IF b = 0 THEN a ELSE gcd[b, a % b]
        g == gcd[p.d * n, p.c * m]
    IN  [d |-> (p.d * n) \div g, c |-> (p.c * m) \div g]

-----------------------------------------------------------------------------
(* What follows from a feed [price, mcr, mssr, icr] and the margin call    *)
(* fee ratio of the asset (0 when it is not set).                          *)
max_short_squeeze_price(f) == PriceTimes(f.price, RatioDenom, f.mssr)

get_margin_call_price_numerator(f, mcfr) ==
    IF mcfr < f.mssr THEN Greatest(f.mssr - mcfr, RatioDenom) ELSE RatioDenom

margin_call_order_price(f, mcfr) ==
    PriceTimes(f.price, RatioDenom, get_margin_call_price_numerator(f, mcfr))

(* p times margin_call_pays_ratio: what the margin call pays when the      *)
(* other side is matched at p.                                             *)
TimesPaysRatio(p, f, mcfr) ==
    PriceTimes(p, get_margin_call_price_numerator(f, mcfr), f.mssr)
OverPaysRatio(p, f, mcfr) ==
    PriceTimes(p, f.mssr, get_margin_call_price_numerator(f, mcfr))

maintenance_collateralization(f) == PriceTimes(f.price, RatioDenom, f.mcr)

get_initial_collateralization(f) ==
    PriceTimes(f.price, RatioDenom, Greatest(f.mcr, f.icr))

-----------------------------------------------------------------------------
(* call_order_object::get_max_debt_to_cover.  A pair is an amount to pay   *)
(* and the debt it covers.                                                 *)
PairOf(cover, mp)        == [pay |-> ToCollUp(cover, mp), cover |-> cover]
Stabilized(to_cover, mp) == PairOf(ToDebt(ToColl(to_cover, mp), mp), mp)

(* The call's collateralization is above target once the pair is paid.     *)
Good(call, target, x) ==
    HigherCR([d |-> call.debt - x.cover, c |-> call.collateral - x.pay], target)

(* The mean of the binary search, never outside (low, high], by the amount *)
(* whose unit is the bigger one.                                           *)
MeanByPay(high, pay, mp) ==
    IF pay = high.pay \/ ToDebt(pay, mp) >= high.cover THEN high ELSE PairOf(ToDebt(pay, mp), mp)
MeanByCover(high, cover, pay, mp) ==
    IF cover = high.cover \/ pay >= high.pay \/ ToDebt(pay, mp) >= high.cover THEN high
    ELSE [pay |-> pay, cover |-> ToDebt(pay, mp)]
Within(mid, low, high) ==
    IF \/ mid.pay <= low.pay \/ mid.cover <= low.cover
       \/ mid.pay > high.pay \/ mid.cover > high.cover
    THEN high ELSE mid
Mean(low, high, mp) ==
    LET half == (low.cover + high.cover) \div 2
    IN  Within(IF mp.c < mp.d THEN MeanByPay(high, (low.pay + high.pay + 1) \div 2, mp)
               ELSE MeanByCover(high, half, ToCollUp(half, mp), mp), low, high)

(* The search forward from a pair that covers too little, in Fibonacci     *)
(* steps.                                                                  *)
SearchForward(call, mp, target, start) ==
    LET forward[at \in [pay : Nat, cover : Nat], d1 \in Nat, d2 \in Nat] ==
            LET pay   == IF mp.c > mp.d THEN at.pay + d2
                         ELSE ToCollUp(at.cover + d2, mp)
                cover == ToDebt(pay, mp)
            IN  IF pay >= call.collateral \/ cover >= call.debt THEN call.debt
                ELSE IF Good(call, target, PairOf(cover, mp)) THEN cover
                ELSE forward[PairOf(cover, mp), d2, d1 + d2]
    IN  forward[start, 0, 1]

(* The binary search between a pair that covers too little and one that    *)
(* may also (max_is_ok says it is known not to).                           *)
BinarySearch(call, mp, target, first, last) ==
    LET search[low \in [pay : Nat, cover : Nat],
               high \in [pay : Nat, cover : Nat], max_is_ok \in BOOLEAN] ==
            LET mid == Mean(low, high, mp)
            IN  IF mid = high /\ (max_is_ok \/ high.pay = call.collateral)
                THEN high.cover
                ELSE IF Good(call, target, mid)
                THEN IF mid = high THEN high.cover ELSE search[low, mid, TRUE]
                ELSE IF mid = high THEN SearchForward(call, mp, target, high)
                ELSE search[mid, high, max_is_ok]
    IN  search[first, last, FALSE]

(* The pair the search does not go beyond.                                 *)
AtMost(call, mp, pay) ==
    IF pay = call.collateral \/ ToDebt(pay, mp) >= call.debt
    THEN [pay |-> call.collateral, cover |-> call.debt]
    ELSE [pay |-> pay, cover |-> ToDebt(pay, mp)]
Highest(call, mp, most) ==
    AtMost(call, mp, IF most = call.debt THEN call.collateral
                     ELSE Least(ToCollUp(most, mp), call.collateral))

SearchFrom(call, mp, target, low, high) ==
    IF low.cover >= call.debt \/ low.pay >= call.collateral THEN call.debt
    ELSE IF Good(call, target, low) THEN low.cover
    ELSE IF high.pay <= low.pay \/ high.cover <= low.cover THEN call.debt
    ELSE BinarySearch(call, mp, target, low, high)

(* numerator / denominator is the debt to cover but for rounding; one more *)
(* unit of the target is unit / denominator.                               *)
CoverToTarget(call, mp, target, numerator, denominator, unit) ==
    IF numerator < 0 THEN 0
    ELSE IF denominator <= 0 \/ numerator \div denominator >= call.debt THEN call.debt
    ELSE SearchFrom(call, mp, target, Stabilized(numerator \div denominator, mp),
                    Highest(call, mp, Least((numerator + unit) \div denominator + 1, call.debt)))

CoverAtRatio(call, mp, fp, tcr) ==
    CoverToTarget(call, mp, PriceTimes(fp, RatioDenom, tcr),
                  fp.c * mp.d * call.debt * tcr - fp.d * mp.d * call.collateral * RatioDenom,
                  fp.c * mp.d * tcr - fp.d * mp.c * RatioDenom, fp.c * mp.d * tcr)

(* The debt to cover so that the call's collateralization gets above its   *)
(* target, when collateral is sold at mp and the feed is fp.               *)
get_max_debt_to_cover(call, mp, fp, mcr, mcoll) ==
    IF HigherCR([d |-> call.debt, c |-> call.collateral], mcoll) THEN 0
    ELSE IF call.tcr = NoRatio THEN call.debt
    ELSE CoverAtRatio(call, mp, fp, Greatest(call.tcr, mcr))
=============================================================================
