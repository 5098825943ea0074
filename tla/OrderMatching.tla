--------------------------- MODULE OrderMatching ---------------------------
(***************************************************************************)
(* The matching of orders in one market, between a market-issued asset     *)
(* "mia" and its backing asset "core": limit orders, debt positions and    *)
(* their margin calls, force settlements and the black swan responses.     *)
(*                                                                         *)
(* The functions of the code change the database and return a value; here  *)
(* they map a state record m to a state record, m.ret being the value      *)
(* returned and m.throw an exception on its way up.  Five history          *)
(* variables stay set once they are: m.broken when a check the code calls  *)
(* internal has failed, or an iterator is used after its element is gone;  *)
(* m.past when the loop of the margin calls has gone past the orders that  *)
(* sell mia; m.worse when a limit order was filled at a price worse than   *)
(* its own; m.self when one met its own take profit order; m.lower when a  *)
(* margin call left its position with less collateral per debt.  Ids of    *)
(* all objects come from one counter: only their order matters.  The hard  *)
(* forks are all in the past, and the two assets have no other market.     *)
(***************************************************************************)
EXTENDS MarketFees, Prices, FiniteSetsExt

CONSTANTS
    Owner,               \* issuer of the mia
    Feeder,              \* its price feed producers
    MinFeeds,            \* options.minimum_feeds
    MCR, ICR, MSSR,      \* ratios of the feeds, in 1/RatioDenom
    MCFR,                \* margin_call_fee_ratio
    SettleFeePercent,    \* force_settle_fee_percent
    SettleOffset,        \* force_settlement_offset_percent
    MaxSettleVolume,     \* maximum_force_settlement_volume
    CreateFee, UpdateFee, CancelFee,   \* of limit orders, in core
    MakerDiscount,       \* maker_fee_discount_percent
    CoreExchangeRate,    \* of the mia, for fees paid in it
    MaxNesting,          \* bound of nested undo sessions
    NoAction             \* an empty on_fill

ASSUME MatchingAssumption ==
    /\ Asset = {"mia", "core"} /\ Owner \in Account
    /\ MCR > RatioDenom /\ MSSR > RatioDenom /\ ICR >= RatioDenom
    /\ MCFR \in Nat /\ MinFeeds \in Nat \ {0}
    /\ {CreateFee, UpdateFee, CancelFee} \subseteq Nat
    /\ {SettleFeePercent, SettleOffset, MaxSettleVolume, MakerDiscount} \subseteq Percent
    /\ CoreExchangeRate \in Price

BSRM == {"global_settlement", "no_settlement",
         "individual_settlement_to_fund", "individual_settlement_to_order"}

(* Ids start at 1: a take_profit_order_id that is not set, and the end of  *)
(* an index.                                                               *)
NoOrder     == 0
End         == 0

Throw(m)    == [m EXCEPT !.throw = TRUE]
Broken(m)   == [m EXCEPT !.throw = TRUE, !.broken = TRUE]
Ret(m, r)   == [m EXCEPT !.ret = r]
(* n was undone, to m; only what it says of the code's checks is kept.     *)
Undone(m, n) == [m EXCEPT !.broken = n.broken, !.past = n.past]
(* What is done after m was computed, unless that threw.                   *)
Then(m, Go(_)) == IF m.throw THEN m ELSE Go(m)
Other(x)    == IF x = "mia" THEN "core" ELSE "mia"
Without(f, k) == [i \in DOMAIN f \ {k} |-> f[i]]
With(f, k, v) == [i \in DOMAIN f \cup {k} |-> IF i = k THEN v ELSE f[i]]

adjust_balance(m, a, x, delta) ==
    IF m.bal[a][x] + delta < 0 THEN Throw(m)
    ELSE [m EXCEPT !.bal[a][x] = @ + delta]

(* amount of x times price, into the other asset.                          *)
Convert(x, amount, p)   == IF x = "mia" THEN ToColl(amount, p) ELSE ToDebt(amount, p)
ConvertUp(x, amount, p) == IF x = "mia" THEN ToCollUp(amount, p) ELSE ToDebtUp(amount, p)

-----------------------------------------------------------------------------
(* limit_order_index by_price: the orders that sell mia come first (its id *)
(* is greater than that of core), each side from the best price on.        *)
Better(x, p, q) == IF x = "mia" THEN PriceLess(q, p) ELSE PriceLess(p, q)

Before(m, i, j) ==
    LET o == m.orders[i]  q == m.orders[j]
    IN  IF o.sell # q.sell THEN o.sell = "mia"
        ELSE \/ Better(o.sell, o.price, q.price)
             \/ ~Better(o.sell, q.price, o.price) /\ i < j

First(m, ids) ==
    IF ids = {} THEN End ELSE CHOOSE i \in ids : \A j \in ids \ {i} : Before(m, i, j)
Selling(m, x) == {i \in DOMAIN m.orders : m.orders[i].sell = x}
NextOrder(m, i) == First(m, {j \in DOMAIN m.orders : Before(m, i, j)})

(* The first position of a side, and the first after every order of a side *)
(* that is as good as price p, or better than it.                          *)
SideBegin(m, x) ==
    First(m, {i \in DOMAIN m.orders : x = "mia" \/ m.orders[i].sell = x})
upper_bound(m, x, p) ==
    First(m, {i \in DOMAIN m.orders : IF m.orders[i].sell = x THEN Better(x, p, m.orders[i].price)
                                      ELSE x = "mia"})
lower_bound(m, x, p) ==
    First(m, {i \in DOMAIN m.orders : IF m.orders[i].sell = x THEN ~Better(x, m.orders[i].price, p)
                                      ELSE x = "mia"})

-----------------------------------------------------------------------------
(* The mia's price feeds.                                                  *)
IsGS(m)          == m.gs_price # NullPrice
Feed(p)          == [price |-> p, mcr |-> MCR, mssr |-> MSSR, icr |-> ICR]
MCOP(m)          == margin_call_order_price(Feed(m.current), MCFR)
MSSP(p)          == max_short_squeeze_price(Feed(p))
PaysFor(p, m)    == TimesPaysRatio(p, Feed(m.current), MCFR)
Capped(m)        == m.median # m.current
FundPrice(m)     == [d |-> m.isd, c |-> m.isf]
SettledToFund(m) == m.isd # 0 /\ m.bsrm = "individual_settlement_to_fund"
CR(call)         == [d |-> call.debt, c |-> call.collateral]

find_least_collateralized_short(m) ==
    IF DOMAIN m.calls = {} THEN End
    ELSE CHOOSE i \in DOMAIN m.calls : \A j \in DOMAIN m.calls \ {i} :
             \/ PriceLess(CR(m.calls[j]), CR(m.calls[i]))
             \/ ~PriceLess(CR(m.calls[i]), CR(m.calls[j])) /\ i < j

find_settled_debt_order(m) ==
    LET ids == {i \in DOMAIN m.orders : m.orders[i].settled}
    IN  IF ids = {} THEN End ELSE CHOOSE i \in ids : TRUE

(* current_maintenance_collateralization and its initial counterpart are   *)
(* a cache that update_median_feeds refreshes from the median feed.        *)
MaintenanceCR(m)   == maintenance_collateralization(Feed(m.median))
InitialCR(m)       == get_initial_collateralization(Feed(m.median))
FeedProtected(m, c) == HigherCR(CR(m.calls[c]), MaintenanceCR(m))

MaxDebtToCover(m, c, pays_price) ==
    get_max_debt_to_cover(m.calls[c], pays_price, m.median, MCR, MaintenanceCR(m))

(* The median of the feeds that are alive: the element at size/2.          *)
update_median_feeds(m) ==
    LET alive == {f \in Feeder : m.feeds[f] # NullPrice}
        Below(f) == Cardinality({g \in alive : PriceLess(m.feeds[g], m.feeds[f])})
        UpTo(f)  == Cardinality({g \in alive : PriceLeq(m.feeds[g], m.feeds[f])})
        half  == Cardinality(alive) \div 2
    IN  [m EXCEPT !.median =
            IF Cardinality(alive) < MinFeeds THEN NullPrice
            ELSE m.feeds[CHOOSE f \in alive : Below(f) <= half /\ half < UpTo(f)]]

get_derived_current_feed_price(m) ==
    LET least == find_least_collateralized_short(m)
    IN  IF m.median = NullPrice THEN NullPrice
        ELSE IF m.bsrm = "no_settlement" /\ least # End
        THEN MaxPrice(m.median, PriceTimes(CR(m.calls[least]), MSSR, RatioDenom))
        ELSE IF SettledToFund(m)
        THEN MaxPrice(m.median,
                      PriceTimes(FundPrice(m), get_margin_call_price_numerator(Feed(m.median), MCFR),
                                 RatioDenom))
        ELSE m.median

(* What the settled debt order offers: all of the debt at the MCOP, or,    *)
(* where the fund does not suffice, all of the fund.                       *)
SettledDebtOffer(m, o) ==
    LET for_sale == ToCollUp(m.isd, MCOP(m))
    IN  IF for_sale <= m.isf THEN [o EXCEPT !.for_sale = for_sale, !.price = MCOP(m)]
        ELSE [o EXCEPT !.for_sale = m.isf, !.price = FundPrice(m)]

update_settled_debt_order(m) ==
    LET i == find_settled_debt_order(m)
    IN  IF m.current = NullPrice \/ i = End THEN m
        ELSE [m EXCEPT !.orders[i] = SettledDebtOffer(m, @)]

(* The median feed is derived from the feeds unless that is skipped, the   *)
(* current feed from the median.                                           *)
update_bitasset_current_feed(m, skip_median_update) ==
    LET m1 == IF skip_median_update THEN m ELSE update_median_feeds(m)
        m2 == [m1 EXCEPT !.current = get_derived_current_feed_price(m1)]
    IN  IF ~skip_median_update /\ m2.bsrm = "individual_settlement_to_order"
        THEN update_settled_debt_order(m2) ELSE m2

(* After a call was filled: the cap of the current feed may have to go.    *)
FeedAfterFill(m) ==
    IF m.bsrm = "no_settlement" THEN update_bitasset_current_feed(m, TRUE) ELSE m

-----------------------------------------------------------------------------
(* The end of an order.                                                    *)
pay_fee(m, core) == [m EXCEPT !.paid_fees = @ + core]

PriceOf(x, amount, other) ==
    IF x = "mia" THEN [d |-> amount, c |-> other] ELSE [d |-> other, c |-> amount]
BaseAmount(x, p) == IF x = "mia" THEN p.d ELSE p.c

(* Only stakes of core are counted in total_core_in_orders.                *)
AddStake(m, a, x, delta) ==
    IF x = "core" THEN [m EXCEPT !.core_in_orders[a] = @ + delta] ELSE m

cleanup_and_remove_limit_order(m, i) ==
    LET t  == m.orders[i].tp
        m1 == IF t = NoOrder THEN m ELSE [m EXCEPT !.orders[t].tp = NoOrder]
    IN  IF t # NoOrder /\ t \notin DOMAIN m.orders THEN Broken(m)
        ELSE [m1 EXCEPT !.orders = Without(@, i)]

(* What is left of an order's deferred fee after core_fee is taken from it *)
(* goes back to where it came from.                                        *)
RefundDeferredFee(m, o, core_fee) ==
    LET cut == IF core_fee > 0 /\ o.paid_fee > 0
               THEN (o.paid_fee * core_fee + o.fee - 1) \div o.fee ELSE 0
        m1  == pay_fee([m EXCEPT !.fees["mia"] = @ + cut], core_fee)
    IN  IF o.paid_fee = 0 THEN adjust_balance(m1, o.seller, "core", o.fee - core_fee)
        ELSE [adjust_balance(m1, o.seller, "mia", o.paid_fee - cut)
                 EXCEPT !.fee_pool = @ + o.fee - core_fee]

cancel_limit_order(m, i, create_virtual_op) ==
    LET o  == m.orders[i]
        m1 == AddStake(m, o.seller, o.sell, -o.for_sale)
        m2 == adjust_balance(m1, o.seller, o.sell, o.for_sale)
    IN  cleanup_and_remove_limit_order(
            RefundDeferredFee(m2, o, IF create_virtual_op THEN Least(CancelFee, o.fee) ELSE 0), i)

maybe_cull_small_order(m, i) ==
    LET o == m.orders[i]
    IN  IF Convert(o.sell, o.for_sale, o.price) = 0
        THEN Ret(cancel_limit_order(m, i, TRUE), TRUE)
        ELSE Ret(m, FALSE)

cancel_settle_order(m, s) ==
    [adjust_balance(m, m.settles[s].owner, "mia", m.settles[s].balance)
        EXCEPT !.settles = Without(@, s)]

pay_market_fees(m, seller, x, amount, is_maker) ==
    LET fee   == calculate_market_fee(x, amount, is_maker)
        parts == FeeParts(seller, x, fee)
    IN  Ret([m EXCEPT !.fees[x] = @ + parts.issuer,
                      !.vesting[x] = @ + parts.network + parts.registrar + parts.referrer], fee)

(* The order's owner gets what the order received.                         *)
pay_order(m, a, received, x, pays) ==
    adjust_balance(AddStake(m, a, x, -pays), a, Other(x), received)

(* The deferred fee becomes due with the first fill; a maker has a part of *)
(* it back.                                                                *)
DueDeferredFee(m, o, is_maker) ==
    LET Discount(amount) == IF is_maker THEN calculate_percent(amount, MakerDiscount) ELSE 0
        paid_refund == Discount(o.paid_fee)
        pool_refund == IF paid_refund > 0 THEN Discount(o.fee) ELSE 0
    IN  IF o.paid_fee > 0
        THEN pay_fee([adjust_balance(m, o.seller, "mia", paid_refund)
                         EXCEPT !.fees["mia"] = @ + o.paid_fee - paid_refund,
                                !.fee_pool = @ + pool_refund],
                     o.fee - pool_refund)
        ELSE pay_fee(adjust_balance(m, o.seller, "core", Discount(o.fee)),
                     o.fee - Discount(o.fee))

(* A mutant: the collateral that a closed position frees stays in the      *)
(* borrower's statistics.                                                  *)
fill_call_order_still_in_orders(m, c, pays, receives, fee, reduce_current_supply) ==
    LET o      == m.calls[c]
        closed == receives = o.debt
        m1     == [m EXCEPT !.calls[c] = [@ EXCEPT !.debt = @ - receives, !.collateral = @ - pays],
                            !.supply = IF reduce_current_supply THEN @ - receives ELSE @,
                            !.core_in_orders[o.borrower] = @ - pays,
                            !.coll_fees = @ + fee]
        m2     == IF closed
                  THEN [adjust_balance(m1, o.borrower, "core", o.collateral - pays)
                           EXCEPT !.calls = Without(@, c)]
                  ELSE m1
    IN  IF pays > o.collateral THEN Broken(m) ELSE Ret(m2, closed)

fill_call_order(m, c, pays, receives, fee, reduce_current_supply) ==
    LET o      == m.calls[c]
        closed == receives = o.debt
        freed  == IF closed THEN o.collateral - pays ELSE 0
        m1     == [m EXCEPT !.calls[c] = [@ EXCEPT !.debt = @ - receives, !.collateral = @ - pays],
                            !.supply = IF reduce_current_supply THEN @ - receives ELSE @,
                            !.core_in_orders[o.borrower] = @ - pays - freed,
                            !.coll_fees = @ + fee]
        m2     == IF closed
                  THEN [adjust_balance(m1, o.borrower, "core", freed) EXCEPT !.calls = Without(@, c)]
                  ELSE m1
    IN  IF pays > o.collateral THEN Broken(m) ELSE Ret(m2, closed)

fill_settle_order(m, s, pays, receives, is_maker, pay_force_settle_fee) ==
    LET o         == m.settles[s]
        Fee(rest) == IF pay_force_settle_fee THEN calculate_percent(rest, SettleFeePercent) ELSE 0
        Pay(n, rest) == adjust_balance([n EXCEPT !.coll_fees = @ + Fee(rest)], o.owner, "core",
                                       rest - Fee(rest))
        Reduce(n) == IF pays < o.balance THEN [n EXCEPT !.settles[s].balance = @ - pays]
                     ELSE [n EXCEPT !.settles = Without(@, s)]
    IN  Reduce(Then(pay_market_fees(m, o.owner, "core", receives, is_maker),
                    LAMBDA n : Pay(n, receives - n.ret)))

-----------------------------------------------------------------------------
(* Limit orders.  A fill may create or update a take profit order, which   *)
(* is itself matched before the fill goes on.  So the functions call each  *)
(* other in a circle: a call names one of them and its arguments, and      *)
(* Invoke, at the end, does what it names.                                 *)
RECURSIVE Invoke(_, _)
apply_order(m, t) == Invoke(m, [fn |-> "apply_order", order |-> t])
check_call_orders(m, enable_black_swan, skip_settles) ==
    Invoke(m, [fn |-> "check_call_orders", black |-> enable_black_swan, skip |-> skip_settles])
CallLoop(m, at) == Invoke(m, [fn |-> "call_loop", at |-> at])
fill_limit_order(m, i, pays, receives, cull_if_small, is_maker) ==
    Invoke(m, [fn |-> "fill_limit_order", order |-> i, pays |-> pays, receives |-> receives,
               cull |-> cull_if_small, maker |-> is_maker])

(* The fee of an operation paid in asset fee_asset: op.fee of that asset,  *)
(* core_fee_paid what the fee pool gives for it.                           *)
OpFee(fee_asset, core) ==
    IF fee_asset = "core" THEN [core |-> core, paid |-> 0]
    ELSE LET paid == ToDebtUp(core, CoreExchangeRate)
         IN  [core |-> ToColl(paid, CoreExchangeRate), paid |-> paid]

(* evaluator::apply, after do_apply: the fee leaves the payer's balance.   *)
DeductFee(m, a, fee_asset, fee) ==
    adjust_balance(m, a, fee_asset, -(IF fee_asset = "core" THEN fee.core ELSE fee.paid))

ActionOk(action) == action # NoAction => action.spread > 0 /\ action.size \in 1..HundredPercent

(* limit_order_create: evaluation, fee, application and matching.  The     *)
(* value returned is the id of the order, which may be gone by then.       *)
NewOrder(a, x, amount, p, fee, on_fill) ==
    [seller |-> a, sell |-> x, for_sale |-> amount, price |-> p, fee |-> fee.core,
     paid_fee |-> fee.paid, settled |-> FALSE, on_fill |-> on_fill, tp |-> NoOrder]

TakeFromPool(m, fee_asset, fee) == IF fee_asset = "core" THEN m ELSE [m EXCEPT !.fee_pool = @ - fee.core]

PlaceOrder(m, o) ==
    [adjust_balance(AddStake(m, o.seller, o.sell, o.for_sale), o.seller, o.sell, -o.for_sale)
        EXCEPT !.next_id = @ + 1, !.orders = With(@, m.next_id, o)]

CreateWithFee(m, a, x, amount, min_to_receive, fee_asset, fee, fill_or_kill, on_fill) ==
    IF amount <= 0 \/ min_to_receive <= 0 \/ ~ActionOk(on_fill)
       \/ (fee_asset # "core" /\ fee.core > m.fee_pool)
       \/ m.bal[a][x] < amount
    THEN Throw(m)
    ELSE Then(apply_order(PlaceOrder(TakeFromPool(m, fee_asset, fee),
                  NewOrder(a, x, amount, PriceOf(x, amount, min_to_receive), fee, on_fill)), m.next_id),
              LAMBDA n : IF fill_or_kill /\ ~n.ret THEN Throw(n)
                         ELSE Ret(DeductFee(n, a, fee_asset, fee), m.next_id))

limit_order_create(m, a, x, amount, min_to_receive, fee_asset, fill_or_kill, on_fill) ==
    CreateWithFee(m, a, x, amount, min_to_receive, fee_asset, OpFee(fee_asset, CreateFee),
                  fill_or_kill, on_fill)

process_deferred_fee(m, o) ==
    LET fee == IF CreateFee > 0 THEN (CancelFee * UpdateFee) \div CreateFee ELSE CancelFee
    IN  IF o.fee <= 0 THEN m ELSE RefundDeferredFee(m, o, Least(fee, o.fee))

(* Whether a changed take profit action leaves an order compatible with    *)
(* the order it is linked to.  Unset: on_fill is not changed.              *)
is_linked_tp_order_compatible(o, on_fill) ==
    \/ on_fill = Unset
    \/ on_fill = NoAction /\ o.on_fill = NoAction
    \/ on_fill \notin {Unset, NoAction} /\ o.on_fill # NoAction
         /\ on_fill.spread = o.on_fill.spread /\ on_fill.repeat = o.on_fill.repeat

(* op = [price, delta, on_fill], Unset where the operation leaves a field  *)
(* alone.                                                                  *)
LimitOrderUpdateOk(m, a, i, op) ==
    /\ op.delta # 0 /\ (op.price # Unset \/ op.delta # Unset \/ op.on_fill # Unset)
    /\ op.on_fill # Unset => ActionOk(op.on_fill)
    /\ i \in DOMAIN m.orders /\ m.orders[i].seller = a
    /\ LET o     == m.orders[i]
           delta == IF op.delta = Unset THEN 0 ELSE op.delta
           p     == IF op.price = Unset THEN o.price ELSE op.price
       IN  /\ op.price # Unset => BaseAmount(o.sell, op.price)
                                     <= Greatest(o.for_sale, BaseAmount(o.sell, o.price)) + delta
           /\ delta < 0 => o.for_sale > -delta
           /\ op.price # Unset \/ delta < 0 => Convert(o.sell, o.for_sale + delta, p) > 0

(* Whether the update cuts the order's link to its take profit order.      *)
Unlinks(o, op, skip_limit_order_price_check) ==
    /\ o.tp # NoOrder
    /\ \/ /\ ~skip_limit_order_price_check /\ op.price # Unset
          /\ PriceLess(op.price, o.price) \/ PriceLess(o.price, op.price)
       \/ ~is_linked_tp_order_compatible(o, op.on_fill)

UpdatedOrder(o, op, delta, fee, unlink) ==
    [o EXCEPT !.price    = IF op.price = Unset THEN @ ELSE op.price,
              !.for_sale = @ + delta,
              !.fee      = fee.core,
              !.paid_fee = fee.paid,
              !.on_fill  = IF op.on_fill = Unset THEN @ ELSE op.on_fill,
              !.tp       = IF unlink THEN NoOrder ELSE @]

UpdateWithFee(m, i, o, op, delta, fee, unlink) ==
    Then(process_deferred_fee(AddStake(adjust_balance(m, o.seller, o.sell, -delta),
                                       o.seller, o.sell, delta), o), LAMBDA n :
         apply_order([n EXCEPT !.orders = [k \in DOMAIN @ |->
                         IF k = i THEN UpdatedOrder(o, op, delta, fee, unlink)
                         ELSE IF unlink /\ k = o.tp THEN [@[k] EXCEPT !.tp = NoOrder]
                         ELSE @[k]]], i))

limit_order_update(m, a, i, op, fee_asset, skip_limit_order_price_check) ==
    LET fee == OpFee(fee_asset, UpdateFee)
    IN  IF ~LimitOrderUpdateOk(m, a, i, op) \/ (fee_asset # "core" /\ fee.core > m.fee_pool)
        THEN Throw(m)
        ELSE Then(UpdateWithFee(TakeFromPool(m, fee_asset, fee), i, m.orders[i], op,
                                IF op.delta = Unset THEN 0 ELSE op.delta, fee,
                                Unlinks(m.orders[i], op, skip_limit_order_price_check)),
                  LAMBDA n : DeductFee(n, a, fee_asset, fee))

(* An operation in a nested undo session: when it throws, everything it    *)
(* did is undone.                                                          *)
Nested(m) == [m EXCEPT !.depth = @ + 1]

try_push_virtual_operation(m, result) ==
    CASE m.depth >= MaxNesting -> Throw(m)
      [] m.depth < MaxNesting /\ result.throw -> Throw(Undone(m, result))
      [] OTHER -> [result EXCEPT !.depth = @ - 1]

(* A mutant: the profit is rounded down.                                   *)
TakeProfitPrice_rounded_down(o, for_sale) ==
    LET s    == HundredPercent + o.on_fill.spread
        bare == IF o.sell = "mia" THEN PriceTimes(o.price, s, HundredPercent)
                ELSE PriceTimes(o.price, HundredPercent, s)
    IN  PriceOf(Other(o.sell), for_sale, Convert(Other(o.sell), for_sale, bare))

(* The price of the take profit order of an order o.                       *)
TakeProfitPrice(o, for_sale) ==
    LET s    == HundredPercent + o.on_fill.spread
        bare == IF o.sell = "mia" THEN PriceTimes(o.price, s, HundredPercent)
                ELSE PriceTimes(o.price, HundredPercent, s)
    IN  PriceOf(Other(o.sell), for_sale, ConvertUp(Other(o.sell), for_sale, bare))

(* The take profit order of order i = o is updated, or created, for amount *)
(* and price.  When that fails the fill goes on without it.                *)
TakeProfit(m, i, o, amount, price) ==
    LET newer     == o.tp > i
        act       == o.on_fill
        Update    == limit_order_update(Nested(m), o.seller, o.tp,
                         [price |-> IF newer THEN price ELSE Unset, delta |-> amount, on_fill |-> Unset],
                         act.fee_asset, TRUE)
        Create    == limit_order_create(Nested(m), o.seller, Other(o.sell), amount,
                         BaseAmount(o.sell, price), act.fee_asset, FALSE,
                         IF act.repeat THEN act ELSE NoAction)
        Done(n)   == IF n.throw THEN Ret(Undone(m, n), NoOrder)
                     ELSE IF o.tp # NoOrder THEN Ret(n, NoOrder) ELSE n
    IN  IF (o.tp = NoOrder \/ newer) /\ ~Better(o.sell, price, o.price)
        THEN Ret([m EXCEPT !.broken = TRUE], NoOrder)
        ELSE Done(IF o.tp # NoOrder THEN try_push_virtual_operation(m, Update)
                  ELSE try_push_virtual_operation(m, Create))

(* The value returned is the id of a new take profit order, or NoOrder.    *)
process_limit_order_on_fill(m, i, received) ==
    LET o      == m.orders[i]
        amount == (received * o.on_fill.size + HundredPercent - 1) \div HundredPercent
    IN  IF o.on_fill = NoAction \/ received <= 0 THEN Ret(m, NoOrder)
        ELSE IF o.tp # NoOrder /\ o.tp \notin DOMAIN m.orders
        THEN Ret([m EXCEPT !.broken = TRUE], NoOrder)
        ELSE TakeProfit(m, i, o, amount,
                 TakeProfitPrice(o, amount + IF o.tp > i THEN m.orders[o.tp].for_sale ELSE 0))

(* The order pays and receives; the value returned says whether it is      *)
(* gone.                                                                   *)
LinkTakeProfit(m, i, tp) ==
    IF tp = NoOrder THEN m ELSE [m EXCEPT !.orders[tp].tp = i, !.orders[i].tp = tp]

ReduceOrder(m, i, pays) ==
    [m EXCEPT !.orders[i] = [@ EXCEPT !.for_sale = @ - pays, !.fee = 0, !.paid_fee = 0]]

FinishFill(m, i, pays, cull_if_small) ==
    IF i \notin DOMAIN m.orders THEN Broken(m)
    ELSE IF pays = m.orders[i].for_sale THEN Ret(cleanup_and_remove_limit_order(m, i), TRUE)
    ELSE IF m.ret \notin DOMAIN m.orders \cup {NoOrder} THEN Broken(m)
    ELSE IF cull_if_small THEN maybe_cull_small_order(ReduceOrder(LinkTakeProfit(m, i, m.ret), i, pays), i)
    ELSE Ret(ReduceOrder(LinkTakeProfit(m, i, m.ret), i, pays), FALSE)

PayForOrder(m, o, i, pays, received, is_maker) ==
    process_limit_order_on_fill(
        DueDeferredFee(pay_order(m, o.seller, received, o.sell, pays), o, is_maker), i, received)

do_fill_limit_order(m, i, pays, receives, cull_if_small, is_maker) ==
    LET o == m.orders[i]
    IN  IF i \notin DOMAIN m.orders THEN Broken(m)
        ELSE Then(pay_market_fees([m EXCEPT !.worse = @ \/ pays > ConvertUp(Other(o.sell), receives, o.price)],
                                  o.seller, Other(o.sell), receives, is_maker), LAMBDA n :
                  Then(PayForOrder(n, o, i, pays, receives - n.ret, is_maker), LAMBDA k :
                       FinishFill(k, i, pays, cull_if_small)))

(* What the two sides of a match get: a debt position pays and receives,   *)
(* the order it is matched with gets other_receives, and pays what the     *)
(* position receives.  cull: a small rest of the order is removed.         *)
Amounts(kind, call_pays, call_receives, other_receives, cull) ==
    [kind |-> kind, pays |-> call_pays, receives |-> call_receives,
     other_receives |-> other_receives, cull |-> cull]
NoMatch(kind) == Amounts(kind, 0, 0, 0, FALSE)

get_match_result(taker_filled, maker_filled) ==
    CASE taker_filled /\ maker_filled -> "both_filled"
      [] taker_filled                 -> "only_taker_filled"
      [] maker_filled                 -> "only_maker_filled"
      [] OTHER                        -> "none_filled"

(* Two fills in a row, the results of both together.                       *)
FillBoth(m, First1(_), Second(_)) ==
    Then(First1(m), LAMBDA n : Then(Second(n), LAMBDA k : Ret(k, <<n.ret, k.ret>>)))

FillOrders(m, t, k, taker_receives, maker_receives, small) ==
    LET FillTaker(n) == fill_limit_order(n, t, maker_receives, taker_receives, small, FALSE)
        FillMaker(n) == fill_limit_order(n, k, taker_receives, maker_receives, TRUE, TRUE)
    IN  Then(FillBoth(m, FillTaker, FillMaker), LAMBDA n :
             IF ~n.ret[1] /\ ~n.ret[2] THEN Broken(n)
             ELSE Ret(n, get_match_result(n.ret[1], n.ret[2])))

(* value: what the maker's order is worth at its price, as all prices.     *)
FillAtMakerPrice(m, t, k, taker, maker, value) ==
    LET taker_receives == Convert(taker.sell, taker.for_sale, maker.price)
    IN  IF taker.for_sale > value
        THEN FillOrders(m, t, k, ConvertUp(taker.sell, value, maker.price), value, FALSE)
        ELSE IF taker_receives = 0 THEN Ret(m, "only_taker_filled")
        ELSE FillOrders(m, t, k, taker_receives, ConvertUp(maker.sell, taker_receives, maker.price), TRUE)

match_limit_normal_limit(m, t, k) ==
    FillAtMakerPrice(m, t, k, m.orders[t], m.orders[k],
                     Convert(m.orders[k].sell, m.orders[k].for_sale, m.orders[k].price))

(* The settled debt order k gives call_pays for call_receives of the debt, *)
(* what the other side does not get is a fee, and offers what is left.     *)
FillSettledDebt(m, k, filled, call_receives, order_receives) ==
    LET o     == m.orders[k]
        exact == IF filled THEN m.isf
                 ELSE IF o.for_sale # m.isf THEN ToColl(call_receives, FundPrice(m))
                 ELSE order_receives
        pays  == Greatest(exact, order_receives)
        m1    == [m EXCEPT !.supply = @ - call_receives, !.coll_fees = @ + pays - order_receives,
                           !.isd = @ - call_receives, !.isf = @ - pays]
        left  == ToCollUp(m1.isd, o.price)
    IN  IF filled THEN [m1 EXCEPT !.orders = Without(@, k)]
        ELSE [m1 EXCEPT !.orders[k] =
                 IF left <= m1.isf THEN [@ EXCEPT !.for_sale = left]
                 ELSE [@ EXCEPT !.for_sale = m1.isf, !.price = FundPrice(m1)]]

match_limit_settled_debt(m, t, k) ==
    LET taker == m.orders[t]  maker == m.orders[k]
        p     == maker.price
        small == m.isd > taker.for_sale
        order_receives == IF small THEN ToColl(taker.for_sale, p) ELSE maker.for_sale
        call_receives  == IF small THEN ToDebtUp(order_receives, p) ELSE m.isd
    IN  IF small /\ order_receives = 0 THEN Ret(m, "only_taker_filled")
        ELSE Then(fill_limit_order(m, t, call_receives, order_receives, small, FALSE), LAMBDA n :
                 Ret(FillSettledDebt(n, k, ~small, call_receives, order_receives),
                     get_match_result(n.ret, ~small)))

match_settled_debt_limit(m, k, i) ==
    LET maker == m.orders[i]
        p     == maker.price
        small == m.isd > maker.for_sale
        order_receives == IF small THEN ToColl(maker.for_sale, p) ELSE ToCollUp(m.isd, p)
        call_receives  == IF small THEN ToDebtUp(order_receives, p) ELSE m.isd
    IN  Then(fill_limit_order(FillSettledDebt(m, k, ~small, call_receives, order_receives),
                              i, call_receives, order_receives, TRUE, TRUE),
             LAMBDA n : Ret(n, get_match_result(~small, n.ret)))

match_limit(m, t, k) ==
    IF m.orders[t].sell = m.orders[k].sell \/ m.orders[t].for_sale <= 0 THEN Broken(m)
    ELSE IF m.orders[k].settled THEN match_limit_settled_debt(m, t, k)
    ELSE match_limit_normal_limit([m EXCEPT !.self = @ \/ m.orders[t].tp = k], t, k)

(* The position's side of a match, which m.lower watches in margin calls.  *)
FillCall(m, c, x, is_margin_call) ==
    LET call == m.calls[c]
        left == [d |-> call.debt - x.receives, c |-> call.collateral - x.pays]
    IN  fill_call_order([m EXCEPT !.lower = @ \/ (is_margin_call /\ left.d > 0 /\ HigherCR(CR(call), left))],
                        c, x.pays, x.receives, x.pays - x.other_receives, TRUE)

FillLimitAndCall(m, t, c, x) ==
    LET FillLimit(n) == fill_limit_order(n, t, x.receives, x.other_receives, x.cull, FALSE)
        FillIt(n)    == FillCall(n, c, x, TRUE)
    IN  IF x.cull /\ x.other_receives = 0 THEN Ret(m, "only_taker_filled")
        ELSE IF x.pays < x.other_receives THEN Broken(m)
        ELSE Then(FillBoth(m, FillLimit, FillIt), LAMBDA n :
                  Ret(FeedAfterFill(n), get_match_result(n.ret[1], n.ret[2])))

(* The taker is the smaller order: it gets what its for_sale is worth.     *)
SmallerTaker(got, covered, call_pays_price) ==
    Amounts("fill", ToColl(covered, call_pays_price), covered, got, TRUE)

LimitCallAmounts(for_sale, cover, match_price, call_pays_price) ==
    IF cover > for_sale
    THEN SmallerTaker(ToColl(for_sale, match_price),
                      ToDebtUp(ToColl(for_sale, match_price), match_price), call_pays_price)
    ELSE Amounts("fill", ToCollUp(cover, call_pays_price), cover, ToCollUp(cover, match_price), FALSE)

match_limit_call(m, t, c, match_price, call_pays_price) ==
    FillLimitAndCall(m, t, c,
        LimitCallAmounts(m.orders[t].for_sale, MaxDebtToCover(m, c, call_pays_price),
                         match_price, call_pays_price))

-----------------------------------------------------------------------------
(* The new order t takes the orders of the other side from itr on, until   *)
(* it is filled or stop is reached.  Both positions may have lost their    *)
(* element since they were taken.                                          *)
RECURSIVE TakeOrders(_, _, _, _)
TakeOrders(m, t, itr, stop) ==
    LET Go(n, next) == IF n.ret # "only_maker_filled" THEN Ret(n, [finished |-> TRUE, itr |-> next])
                       ELSE TakeOrders(n, t, next, stop)
    IN  IF itr = stop THEN Ret(m, [finished |-> FALSE, itr |-> itr])
        ELSE IF itr \notin DOMAIN m.orders \/ stop \notin DOMAIN m.orders \cup {End}
                \/ t \notin DOMAIN m.orders THEN Broken(m)
        ELSE Then(match_limit(m, t, itr), LAMBDA n : Go(n, NextOrder(m, itr)))

RECURSIVE TakeCalls(_, _, _, _, _)
TakeCalls(m, t, match_price, call_pays_price, update_call_price) ==
    LET c     == find_least_collateralized_short(m)
        Go(n) == IF n.ret \in {"only_taker_filled", "both_filled"} THEN Ret(n, TRUE)
                 ELSE IF update_call_price THEN TakeCalls(n, t, MCOP(n), MSSP(n.current), Capped(n))
                 ELSE TakeCalls(n, t, match_price, call_pays_price, FALSE)
    IN  IF c = End THEN Ret(m, FALSE)
        ELSE IF FeedProtected(m, c) THEN Ret(m, FALSE)
        ELSE IF t \notin DOMAIN m.orders THEN Broken(m)
        ELSE Then(match_limit_call(m, t, c, match_price, call_pays_price), Go)

(* The order is gone when the value returned is TRUE.  Then, where the     *)
(* calls it took have changed the feed price, the calls are checked again. *)
CullTaker(m, t) == IF t \in DOMAIN m.orders THEN maybe_cull_small_order(m, t) ELSE Ret(m, TRUE)
FinishTaker(m, t, updated) ==
    Then(CullTaker(m, t), LAMBDA n :
         IF n.ret /\ updated THEN Then(check_call_orders(n, TRUE, FALSE), LAMBDA k : Ret(k, TRUE))
         ELSE n)

TakeRest(m, t, itr, stop, updated) ==
    Then(TakeOrders(m, t, itr, stop), LAMBDA n : FinishTaker(n, t, updated))

TakeCallsThenRest(m, t, itr, stop, match_price, call_pays_price) ==
    Then(TakeCalls(m, t, match_price, call_pays_price, m.bsrm = "no_settlement" /\ Capped(m)), LAMBDA n :
         IF n.ret THEN FinishTaker(n, t, m.bsrm = "no_settlement" /\ n.current # m.current)
         ELSE TakeRest(n, t, itr, stop, m.bsrm = "no_settlement" /\ n.current # m.current))

(* A mutant: an order also takes margin calls that pay less than it asks.  *)
do_apply_order_any_price(m, t) ==
    LET o     == m.orders[t]
        begin == SideBegin(m, Other(o.sell))
        end   == upper_bound(m, Other(o.sell), o.price)
    IN  IF \E i \in DOMAIN m.orders : m.orders[i].sell = o.sell /\ Before(m, i, t) THEN Ret(m, FALSE)
        ELSE IF o.sell = "mia" /\ ~IsGS(m) /\ m.current # NullPrice
        THEN Then(TakeOrders(m, t, begin, lower_bound(m, "core", MaxPrice(MCOP(m), o.price))), LAMBDA n :
                  IF n.ret.finished THEN CullTaker(n, t)
                  ELSE TakeCallsThenRest(n, t, n.ret.itr, end, MCOP(m), MSSP(m.current)))
        ELSE TakeRest(m, t, begin, end, FALSE)

(* First the limit orders better than the margin calls, then the margin    *)
(* calls, then the rest of the limit orders.                               *)
do_apply_order(m, t) ==
    LET o     == m.orders[t]
        begin == SideBegin(m, Other(o.sell))
        end   == upper_bound(m, Other(o.sell), o.price)
    IN  IF \E i \in DOMAIN m.orders : m.orders[i].sell = o.sell /\ Before(m, i, t) THEN Ret(m, FALSE)
        ELSE IF o.sell = "mia" /\ ~IsGS(m) /\ m.current # NullPrice /\ PriceLeq(MCOP(m), o.price)
        THEN Then(TakeOrders(m, t, begin, lower_bound(m, "core", MCOP(m))), LAMBDA n :
                  IF n.ret.finished THEN CullTaker(n, t)
                  ELSE TakeCallsThenRest(n, t, n.ret.itr, end, MCOP(m), MSSP(m.current)))
        ELSE TakeRest(m, t, begin, end, FALSE)

-----------------------------------------------------------------------------
(* A force settlement and a debt position.  MatchAmounts is what each side *)
(* pays and receives: match_price is what the call pays, fill_price what   *)
(* the settle order gets when the call is a margin call.                   *)

(* The margin call is the bigger order: the settle order's side first.     *)
SettleAt(got, cover, match_price) ==
    Amounts(IF got = 0 THEN "cancel" ELSE "fill", ToColl(cover, match_price), cover, got, FALSE)
SettleAtPrices(settle_pays, match_price, fill_price) ==
    SettleAt(ToColl(settle_pays, fill_price),
             ToDebtUp(ToColl(settle_pays, fill_price), fill_price), match_price)

(* The position would be left with less collateral per debt.               *)
Lowers(call, pays, receives) ==
    \/ pays >= call.collateral
    \/ HigherCR(CR(call), [d |-> call.debt - receives, c |-> call.collateral - pays])

SmallerSettle(call, settle_pays, plain, call_price) ==
    IF plain.kind = "fill" /\ Lowers(call, plain.pays, plain.receives)
    THEN SettleAtPrices(settle_pays, CR(call), call_price) ELSE plain

(* call_price: the position's own price, less the margin call fee.         *)
PartOfCall(call, receives, max_settlement, match_price, fill_price, call_price) ==
    IF receives = max_settlement
    THEN Amounts("fill", ToCollUp(receives, match_price), receives, ToCollUp(receives, fill_price), FALSE)
    ELSE SmallerSettle(call, receives, SettleAtPrices(receives, match_price, fill_price), call_price)

WholeMarginCall(call, up, fill_price, call_price) ==
    IF up > call.collateral
    THEN Amounts("fill", call.collateral, call.debt, ToCollUp(call.debt, call_price), FALSE)
    ELSE Amounts("fill", up, call.debt, ToCollUp(call.debt, fill_price), FALSE)

CullSettle(x, balance, receives) == [x EXCEPT !.cull = receives = balance /\ x.receives # balance]

SettleAmounts(call, balance, receives, pays, match_price, max, fill_price, call_price, margin) ==
    IF pays = 0
    THEN IF receives = call.debt THEN Amounts("fill", 1, receives, 1, FALSE)
         ELSE IF receives = balance THEN NoMatch("cancel")
         ELSE IF ~margin THEN NoMatch("skip")
         ELSE Amounts("fill", 1, receives, 1, FALSE)
    ELSE IF receives = call.debt
    THEN IF margin
         THEN WholeMarginCall(call, ToCollUp(receives, match_price), fill_price, call_price)
         ELSE Amounts("fill", ToCollUp(receives, match_price), receives,
                      ToCollUp(receives, match_price), FALSE)
    ELSE CullSettle(IF margin
                    THEN PartOfCall(call, receives, max, match_price, fill_price, call_price)
                    ELSE Amounts("fill", pays, ToDebtUp(pays, match_price), pays, FALSE),
                    balance, receives)

(* A force settlement and a debt position: match_price is what the call    *)
(* pays, fill_price what the settle order gets of a margin call.           *)
MatchAmounts(m, s, c, match_price, max_settlement, fill_price, is_margin_call) ==
    LET receives == Least(Least(m.settles[s].balance, max_settlement), m.calls[c].debt)
    IN  SettleAmounts(m.calls[c], m.settles[s].balance, receives, ToColl(receives, match_price),
                      match_price, max_settlement, fill_price,
                      OverPaysRatio(CR(m.calls[c]), Feed(m.current), MCFR), is_margin_call)

FillCallAndSettle(m, s, c, x, is_margin_call, settle_is_taker) ==
    LET Cull(n) == IF x.cull THEN cancel_settle_order(n, s) ELSE n
    IN  CASE x.kind = "cancel"           -> Ret(cancel_settle_order(m, s), 0)
          [] x.kind = "skip"             -> Ret(m, 0)
          [] x.pays < x.other_receives   -> Broken(m)
          [] OTHER -> Then(FillCall(m, c, x, is_margin_call),
                           LAMBDA n : Ret(Cull(FeedAfterFill(fill_settle_order(n, s, x.receives,
                                          x.other_receives, ~settle_is_taker, ~is_margin_call))),
                                          x.receives))

(* The value returned is the debt that was covered.                        *)
match_impl(m, s, c, match_price, max_settlement, fill_price, is_margin_call, settle_is_taker) ==
    FillCallAndSettle(m, s, c,
        MatchAmounts(m, s, c, match_price, max_settlement, fill_price, is_margin_call),
        is_margin_call, settle_is_taker)

(* Settlements are matched oldest first.                                   *)
FirstSettle(m) == IF DOMAIN m.settles = {} THEN End ELSE Min(DOMAIN m.settles)

RECURSIVE match_force_settlements(_)
match_force_settlements(m) ==
    LET c     == find_least_collateralized_short(m)
        s     == FirstSettle(m)
        pp    == MSSP(m.current)
        Go(n) == IF n.ret > 0 THEN Ret(n, TRUE) ELSE match_force_settlements(n)
    IN  IF s = End \/ c = End THEN Ret(m, FALSE)
        ELSE IF FeedProtected(m, c) THEN Ret(m, FALSE)
        ELSE Then(match_impl(m, s, c, pp, MaxDebtToCover(m, c, pp), MCOP(m), TRUE, FALSE), Go)

RECURSIVE SettleCalls(_, _, _, _, _)
SettleCalls(m, s, match_price, call_pays_price, update_call_price) ==
    LET c     == find_least_collateralized_short(m)
        Go(n, gone) == IF gone THEN n
                 ELSE IF update_call_price
                 THEN SettleCalls(n, s, MCOP(n), MSSP(n.current), Capped(n))
                 ELSE SettleCalls(n, s, match_price, call_pays_price, FALSE)
        Check(n) == IF update_call_price THEN check_call_orders(n, TRUE, TRUE) ELSE n
    IN  IF c = End THEN m
        ELSE IF FeedProtected(m, c) THEN m
        ELSE Then(match_impl(m, s, c, call_pays_price, MaxDebtToCover(m, c, call_pays_price),
                             match_price, TRUE, TRUE), LAMBDA n :
                 Then(Check(n), LAMBDA k : Go(k, s \notin DOMAIN n.settles)))

apply_force_settlement(m, s) ==
    IF IsGS(m) \/ m.current = NullPrice THEN Broken(m)
    ELSE SettleCalls(m, s, MCOP(m), MSSP(m.current), m.bsrm = "no_settlement" /\ Capped(m))

-----------------------------------------------------------------------------
(* Black swans.  globally_settle_asset closes every debt position: margin  *)
(* calls pay at price p, of which the fund gets a part, the others pay at  *)
(* the fund's price.                                                       *)
ClosePosition(m, c, pays, fund) ==
    [fill_call_order(m, c, pays, m.calls[c].debt, pays - fund, FALSE) EXCEPT !.gathered = @ + fund]

CloseAt(m, c, margin, pays, fund_pays) ==
    ClosePosition(m, c, pays, IF c \in margin THEN Least(fund_pays, pays) ELSE pays)

RECURSIVE CloseCalls(_, _, _, _)
CloseCalls(m, margin, p, fund_price) ==
    LET c == find_least_collateralized_short(m)
    IN  IF c = End THEN m
        ELSE CloseCalls(CloseAt(m, c, margin,
                 Least(ToCollUp(m.calls[c].debt, IF margin = {} \/ c \in margin THEN p ELSE fund_price),
                       m.calls[c].collateral),
                 ToCollUp(m.calls[c].debt, fund_price)), margin, p, fund_price)

(* The fund of the individual settlements goes into that of the global one.*)
SetFund(m, fund, k) ==
    [m EXCEPT !.orders = Without(@, k), !.bsrm = "global_settlement",
              !.current = m.median, !.isd = 0, !.isf = 0, !.gathered = 0,
              !.gs_price = [d |-> m.supply, c |-> fund], !.gs_fund = fund]

MarginCalls(m) == {c \in DOMAIN m.calls : ~FeedProtected(m, c)}

globally_settle_asset(m, p, check_margin_calls) ==
    IF IsGS(m) THEN Broken(m)
    ELSE Then(IF check_margin_calls
              THEN CloseCalls(m, MarginCalls(m), p, PriceTimes(p, MSSR, RatioDenom))
              ELSE CloseCalls(m, {}, p, p), LAMBDA n :
              SetFund(n, n.gathered + m.isf, find_settled_debt_order(m)))

(* The position is closed, its debt and its collateral go to a fund, which *)
(* in one variant is offered on the market as a limit order.               *)
SettledDebtOrder(debt, fund) ==
    [seller |-> "null", sell |-> "core", for_sale |-> fund, price |-> [d |-> debt, c |-> fund],
     fee |-> 0, paid_fee |-> 0, settled |-> TRUE, on_fill |-> NoAction, tp |-> NoOrder]

OfferFund(m, k, debt, fund) ==
    IF m.bsrm # "individual_settlement_to_order" THEN m
    ELSE IF k # End THEN [m EXCEPT !.orders[k] = SettledDebtOffer(m, @)]
    ELSE [m EXCEPT !.next_id = @ + 1, !.orders = With(@, m.next_id, SettledDebtOrder(debt, fund))]

(* A mutant: settled debt is taken out of the supply at once.              *)
SettleToFund_reduces(m, c, debt, collateral, fund) ==
    fill_call_order(OfferFund([m EXCEPT !.isd = @ + debt, !.isf = @ + fund],
                              find_settled_debt_order(m), debt, fund),
                    c, collateral, debt, collateral - fund, TRUE)

SettleToFund(m, c, debt, collateral, fund) ==
    fill_call_order(OfferFund([m EXCEPT !.isd = @ + debt, !.isf = @ + fund],
                              find_settled_debt_order(m), debt, fund),
                    c, collateral, debt, collateral - fund, FALSE)

FeedAfterSettle(m) ==
    IF m.bsrm = "individual_settlement_to_fund" THEN update_bitasset_current_feed(m, TRUE) ELSE m

individually_settle(m, c) ==
    LET call == m.calls[c]
    IN  FeedAfterSettle(SettleToFund(m, c, call.debt, call.collateral,
            Least(ToCollUp(call.debt, OverPaysRatio(CR(call), Feed(m.current), MCFR)),
                  call.collateral)))

(* The lowest debt/collateral price of a position that nobody can cover.   *)
BestBid(m) == First(m, Selling(m, "mia"))

SwanPrice(m) ==
    LET toFund == m.bsrm = "individual_settlement_to_fund"
        feed   == MSSP(IF toFund THEN m.median ELSE m.current)
        bid    == PaysFor(m.orders[BestBid(m)].price, m)
    IN  IF BestBid(m) = End THEN feed
        ELSE IF ~toFund THEN MaxPrice(bid, feed)
        ELSE IF PriceLeq(MSSP(m.current), bid) THEN bid ELSE feed

RECURSIVE SettleSwans(_, _, _)
SettleSwans(m, enable_black_swan, settled_some) ==
    LET c == find_least_collateralized_short(m)
    IN  IF c = End THEN Ret(m, settled_some)
        ELSE IF ~PriceLess(SwanPrice(m), CR(m.calls[c])) THEN Ret(m, settled_some)
        ELSE IF ~enable_black_swan THEN Throw(m)
        ELSE IF m.bsrm \in {"individual_settlement_to_fund", "individual_settlement_to_order"}
        THEN SettleSwans(individually_settle(m, c), TRUE, TRUE)
        ELSE Ret([globally_settle_asset(m, CR(m.calls[c]), TRUE) EXCEPT
                     !.broken = @ \/ m.bsrm = "no_settlement"], TRUE)

check_for_blackswan(m, enable_black_swan) ==
    IF IsGS(m) THEN Ret(m, TRUE)
    ELSE IF m.current = NullPrice \/ DOMAIN m.settles # {} THEN Ret(m, FALSE)
    ELSE SettleSwans(m, enable_black_swan, FALSE)

-----------------------------------------------------------------------------
(* The settled debt order k takes the limit orders that match it.          *)
RECURSIVE OfferSettledDebt(_, _, _, _)
OfferSettledDebt(m, k, itr, stop) ==
    IF itr = stop THEN m
    ELSE IF itr \notin DOMAIN m.orders \/ stop \notin DOMAIN m.orders \cup {End} THEN Broken(m)
    ELSE IF m.orders[itr].sell # "mia" THEN Broken(m)
    ELSE Then(match_settled_debt_limit(m, k, itr), LAMBDA n :
              IF n.ret # "only_maker_filled" THEN n
              ELSE OfferSettledDebt(n, k, NextOrder(m, itr),
                       IF n.orders[k].price # m.orders[k].price
                       THEN upper_bound(n, "mia", n.orders[k].price) ELSE stop))

check_settled_debt_order(m) ==
    LET k == find_settled_debt_order(m)
    IN  IF m.bsrm # "individual_settlement_to_order" \/ k = End THEN m
        ELSE OfferSettledDebt(m, k, SideBegin(m, "mia"), upper_bound(m, "mia", m.orders[k].price))

(* What a margin call and the limit order o give each other, the call at   *)
(* the price pp, or NoMatch when it has not enough collateral for it.      *)
SmallerLimit(call, got, receives, pays) ==
    IF Lowers(call, pays, receives) THEN NoMatch("under") ELSE Amounts("fill", pays, receives, got, TRUE)

SmallerLimitAt(call, got, receives, pp) == SmallerLimit(call, got, receives, ToColl(receives, pp))

CallAndLimit(call, o, pp, cover) ==
    IF cover > o.for_sale
    THEN SmallerLimitAt(call, ToColl(o.for_sale, o.price),
                        ToDebtUp(ToColl(o.for_sale, o.price), o.price), pp)
    ELSE IF ToCollUp(cover, pp) > call.collateral THEN NoMatch("under")
    ELSE Amounts("fill", ToCollUp(cover, pp), cover, ToCollUp(cover, o.price), FALSE)

CallAmountsAt(m, c, l, pp) == CallAndLimit(m.calls[c], m.orders[l], pp, MaxDebtToCover(m, c, pp))
CallAmounts(m, c, l)       == CallAmountsAt(m, c, l, PaysFor(m.orders[l].price, m))

(* The loop of check_call_orders.  at = the positions itr and stop in the  *)
(* limit orders, the call, whether the current feed is to be updated,      *)
(* whether some call was margin called, and the arguments black and skip.  *)
(* It goes on with the least collateralised call of k.                     *)
GoOn(m, k, at) ==
    CallLoop(m, [at EXCEPT !.call   = find_least_collateralized_short(k),
                           !.stop   = IF at.update THEN upper_bound(k, "mia", MCOP(k)) ELSE @,
                           !.update = @ /\ Capped(k),
                           !.called = TRUE])

(* The margin call c takes the limit order at itr.                         *)
TakeLimit(m, at, x) ==
    Then(fill_limit_order(m, at.itr, x.receives, x.other_receives, TRUE, TRUE), LAMBDA n :
         GoOn(n, m, [at EXCEPT !.itr = IF n.ret THEN NextOrder(m, @) ELSE @]))

(* No limit order is good enough: a force settlement may be.               *)
TakeSettle(m, at) ==
    IF at.skip \/ DOMAIN m.settles = {} THEN Ret(m, at.called)
    ELSE Then(match_force_settlements(m), LAMBDA n :
              IF n.ret THEN GoOn(n, n, at) ELSE CallLoop(n, at))

CallTakes(m, at, x) ==
    IF x.kind # "fill" THEN TakeSettle(m, [at EXCEPT !.called = @ \/ x.kind = "under"])
    ELSE IF x.pays < x.other_receives THEN Broken(m)
    ELSE Then(FillCall(m, at.call, x, TRUE), LAMBDA n :
              TakeLimit(IF at.update THEN update_bitasset_current_feed(n, TRUE) ELSE n, at, x))

(* The least collateralised position and the limit order it would take.    *)
MarginCall(m, at) ==
    IF at.call \notin DOMAIN m.calls \cup {End} THEN Broken(m)
    ELSE IF (IF at.call = End THEN TRUE ELSE FeedProtected(m, at.call))
    THEN Ret(check_settled_debt_order(m), at.called)
    ELSE IF at.itr = at.stop THEN CallTakes(m, at, NoMatch("none"))
    ELSE IF {at.itr, at.stop} \ {End} \subseteq DOMAIN m.orders
    THEN IF at.itr \in Selling(m, "mia") THEN CallTakes(m, at, CallAmounts(m, at.call, at.itr))
         ELSE Broken([m EXCEPT !.past = TRUE])
    ELSE Broken(m)

(* After the check for a black swan has settled positions.                 *)
AfterSwan(m, at) ==
    [at EXCEPT !.call = find_least_collateralized_short(m), !.called = TRUE,
               !.stop = IF m.bsrm = "individual_settlement_to_fund"
                        THEN upper_bound(m, "mia", MCOP(m)) ELSE @]

call_loop(m, at) ==
    Then(IF at.call = End THEN Ret(m, FALSE) ELSE check_for_blackswan(m, at.black), LAMBDA n :
         IF IsGS(n) THEN Ret(n, at.called)
         ELSE MarginCall(n, IF n.ret THEN AfterSwan(n, at) ELSE at))

do_check_call_orders(m, enable_black_swan, skip_settles) ==
    Then(IF m.bsrm \in {"individual_settlement_to_fund", "individual_settlement_to_order"}
         THEN Ret(m, FALSE) ELSE check_for_blackswan(m, enable_black_swan), LAMBDA n :
         IF n.ret \/ n.current = NullPrice THEN Ret(n, FALSE)
         ELSE CallLoop(n, [itr    |-> SideBegin(n, "mia"),
                           stop   |-> upper_bound(n, "mia", MCOP(n)),
                           call   |-> find_least_collateralized_short(n),
                           update |-> n.bsrm = "no_settlement" /\ Capped(n),
                           called |-> FALSE, black |-> enable_black_swan, skip |-> skip_settles]))

Invoke(m, f) ==
    CASE f.fn = "apply_order"       -> do_apply_order(m, f.order)
      [] f.fn = "check_call_orders" -> do_check_call_orders(m, f.black, f.skip)
      [] f.fn = "call_loop"         -> call_loop(m, f.at)
      [] f.fn = "fill_limit_order"  ->
             do_fill_limit_order(m, f.order, f.pays, f.receives, f.cull, f.maker)
=============================================================================
