------------------------------- MODULE Market -------------------------------
(***************************************************************************)
(* The operations of the market of one market-issued asset, and what every *)
(* block and every maintenance interval does there by itself.              *)
(*                                                                         *)
(* An operation that throws is not part of the chain, so it is no step.    *)
(* The work of a block is not in a transaction: an exception there stops   *)
(* the chain, which m.broken records.  Time is abstract: in any block any  *)
(* order, the oldest settlements and any feeds may turn out to be expired. *)
(* A block that has several of these due does them one after the other, as *)
(* consecutive blocks that have one due each.                              *)
(***************************************************************************)
EXTENDS OrderMatching

CONSTANTS
    MaxOps,            \* bound on the operations and block tasks
    NewOrders,         \* inputs of limit_order_create
    OrderUpdates,      \* inputs of limit_order_update
    CallUpdates,       \* inputs of call_order_update
    Bids,              \* inputs of bid_collateral
    SettleAmount,      \* inputs of asset_settle
    FeedPrices,        \* inputs of asset_publish_feed
    TotalCore          \* the core there is at genesis

VARIABLES
    m,                 \* the state of the market
    left               \* operations and tasks left, of MaxOps

vars == <<m, left>>

(* Ids are made dense again after every step: nothing but their order is   *)
(* ever looked at.                                                         *)
Rank(S, i) == Cardinality({j \in S : j <= i})
Dense(f)   == [k \in 1..Cardinality(DOMAIN f) |->
                  f[CHOOSE i \in DOMAIN f : Rank(DOMAIN f, i) = k]]
Renumber(n) ==
    LET ids    == DOMAIN n.orders
        orders == [k \in DOMAIN Dense(n.orders) |->
                      [Dense(n.orders)[k] EXCEPT !.tp = IF @ = NoOrder THEN @ ELSE Rank(ids, @)]]
    IN  [n EXCEPT !.orders = orders, !.calls = Dense(@), !.settles = Dense(@), !.bids = Dense(@),
                  !.ret = TRUE,
                  !.next_id = 1 + Max({0} \cup {Cardinality(DOMAIN n.orders), Cardinality(DOMAIN n.calls),
                                                Cardinality(DOMAIN n.settles), Cardinality(DOMAIN n.bids)})]

(* A transaction with one operation, and a task of a block.                *)
Ready          == left > 0 /\ left' = left - 1 /\ ~m.broken
Transaction(n) == ~n.throw /\ m' = Renumber(n)
BlockTask(n)   == m' = IF n.throw THEN [Undone(m, n) EXCEPT !.broken = TRUE] ELSE Renumber(n)

-----------------------------------------------------------------------------
LimitOrderCreate ==
    /\ Ready
    /\ \E a \in Account, op \in NewOrders :
         \E n \in {limit_order_create(m, a, op.sell, op.amount, op.min, op.fee_asset, op.fill_or_kill, op.on_fill)} :
           Transaction(n)

LimitOrderUpdate ==
    /\ Ready
    /\ \E i \in {k \in DOMAIN m.orders : ~m.orders[k].settled}, op \in OrderUpdates :
         \E n \in {limit_order_update(m, m.orders[i].seller, i, op, "core", FALSE)} : Transaction(n)

LimitOrderCancel ==
    /\ Ready
    /\ \E i \in DOMAIN m.orders : ~m.orders[i].settled /\ Transaction(cancel_limit_order(m, i, FALSE))

-----------------------------------------------------------------------------
(* Debt positions.                                                         *)
CallOf(n, a) == IF \E c \in DOMAIN n.calls : n.calls[c].borrower = a
                THEN CHOOSE c \in DOMAIN n.calls : n.calls[c].borrower = a ELSE End

call_order_update_evaluate(n, a, op) ==
    LET c == CallOf(n, a)
        new_collateral == n.calls[c].collateral + op.collateral
        new_debt       == n.calls[c].debt + op.debt
        closing        == c # End /\ new_debt = 0
    IN  /\ op.collateral # 0 \/ op.debt # 0
        /\ n.supply + op.debt >= 0 /\ ~IsGS(n)
        /\ IF c = End THEN op.collateral > 0 /\ op.debt > 0
           ELSE IF closing THEN new_collateral = 0
           ELSE new_collateral > 0 /\ new_debt > 0
        /\ n.current = NullPrice => closing

(* The position is gone; where the current feed was capped because of it,  *)
(* others may be margin called now.                                        *)
AfterClosing(n, old_feed) ==
    Then(FeedAfterFill(n), LAMBDA k :
         IF k.current # NullPrice /\ k.current # old_feed THEN check_call_orders(k, TRUE, FALSE) ELSE k)

(* A position that was changed to new must be above the MSSR, and, unless  *)
(* its collateral ratio rose, be left above the ICR by the margin calls.   *)
CheckPosition(n, id, new, increasing_cr) ==
    LET Above(k, call) == increasing_cr \/ HigherCR(CR(call), InitialCR(k))
    IN  IF ~increasing_cr /\ ~AtLeastCR(CR(new), MSSP(n.median)) THEN Throw(n)
        ELSE Then(check_call_orders(FeedAfterFill(n), FALSE, FALSE), LAMBDA k :
                  IF k.ret
                  THEN IF id \in DOMAIN k.calls /\ ~Above(k, k.calls[id]) THEN Throw(k) ELSE k
                  ELSE IF id \notin DOMAIN k.calls THEN Broken(k)
                  ELSE IF Above(k, new) THEN k ELSE Throw(k))

PayForUpdate(n, a, op) ==
    [adjust_balance(adjust_balance(n, a, "mia", op.debt), a, "core", -op.collateral)
        EXCEPT !.supply = @ + op.debt, !.core_in_orders[a] = @ + op.collateral]

PutCall(n, id, new) == [n EXCEPT !.calls = With(@, id, new), !.next_id = @ + 1]

(* Position id = old becomes new; a new position has no old one.           *)
ChangePosition(n, id, old, new) ==
    IF new.debt = 0 THEN AfterClosing([n EXCEPT !.calls = Without(@, id)], n.current)
    ELSE CheckPosition(PutCall(n, id, new), id, new,
                       old.debt > 0 /\ new.debt <= old.debt /\ HigherCR(CR(new), CR(old)))

ChangeBy(n, id, old, op) ==
    ChangePosition(n, id, old, [old EXCEPT !.debt = @ + op.debt, !.collateral = @ + op.collateral,
                                           !.tcr = op.tcr])

call_order_update_apply(n, a, op) ==
    Then(PayForUpdate(n, a, op), LAMBDA k :
         ChangeBy(k, IF CallOf(n, a) = End THEN n.next_id ELSE CallOf(n, a),
                  IF CallOf(n, a) = End THEN [borrower |-> a, debt |-> 0, collateral |-> 0, tcr |-> NoRatio]
                  ELSE n.calls[CallOf(n, a)], op))

CallOrderUpdate ==
    /\ Ready
    /\ \E a \in Account, op \in CallUpdates :
           /\ call_order_update_evaluate(m, a, op)
           /\ \E n \in {call_order_update_apply(m, a, op)} : Transaction(n)
-----------------------------------------------------------------------------
(* Global settlement, bids on the debt, and the revival.                   *)
cancel_bid(n, b) ==
    [adjust_balance(n, n.bids[b].bidder, "core", n.bids[b].coll) EXCEPT !.bids = Without(@, b)]

BidOf(n, a) == IF \E b \in DOMAIN n.bids : n.bids[b].bidder = a
               THEN CHOOSE b \in DOMAIN n.bids : n.bids[b].bidder = a ELSE End

bid_collateral(n, a, op) ==
    LET b  == BidOf(n, a)
        n1 == IF b = End THEN n ELSE cancel_bid(n, b)
        n2 == [adjust_balance(n1, a, "core", -op.coll) EXCEPT
                  !.next_id = @ + 1,
                  !.bids    = With(@, n.next_id, [bidder |-> a, coll |-> op.coll, debt |-> op.debt])]
    IN  IF ~IsGS(n) \/ (op.debt # 0 /\ op.coll <= 0) \/ (b = End /\ op.debt = 0)
        THEN Throw(n)
        ELSE IF op.debt = 0 THEN n1 ELSE n2

(* The bidder gets a debt position of debt, with the bid's collateral and  *)
(* some from the fund.                                                     *)
execute_bid(n, bid, debt, from_fund) ==
    [n EXCEPT !.next_id = @ + 1,
              !.calls   = With(@, n.next_id, [borrower |-> bid.bidder, debt |-> debt,
                                              collateral |-> bid.coll + from_fund, tcr |-> NoRatio]),
              !.core_in_orders[bid.bidder] = @ + bid.coll + from_fund]

RECURSIVE CancelBids(_)
CancelBids(n) == IF DOMAIN n.bids = {} THEN n ELSE CancelBids(cancel_bid(n, Min(DOMAIN n.bids)))

_cancel_bids_and_revive_mpa(n) == [CancelBids(n) EXCEPT !.gs_price = NullPrice, !.gs_fund = 0]

(* The issuer takes over the whole debt by a bid of no collateral; an      *)
(* account has at most one bid, so a bid of the issuer's own is in the way.*)
revive_bitasset(n) ==
    IF n.supply = 0
    THEN IF n.gs_fund # 0 THEN Throw(n) ELSE _cancel_bids_and_revive_mpa(n)
    ELSE IF BidOf(n, Owner) # End THEN Throw(n)
    ELSE _cancel_bids_and_revive_mpa(
             execute_bid(n, [bidder |-> Owner, coll |-> 0], n.supply, n.gs_fund))

asset_global_settle(n, p) ==
    LET c == find_least_collateralized_short(n)
    IN  IF n.supply = 0 \/ IsGS(n)
           \/ (c # End /\ ToColl(n.calls[c].debt, p) > n.calls[c].collateral)
        THEN Throw(n)
        ELSE globally_settle_asset(n, p, FALSE)

(* Bids are taken by the collateral they offer per debt.                   *)
BidPrice(bid) == [d |-> bid.debt, c |-> bid.coll]
FirstBid(n)   == CHOOSE b \in DOMAIN n.bids : \A k \in DOMAIN n.bids \ {b} :
                     \/ PriceLess(BidPrice(n.bids[b]), BidPrice(n.bids[k]))
                     \/ ~PriceLess(BidPrice(n.bids[k]), BidPrice(n.bids[b])) /\ b < k

(* Whether the bids from the best on cover the supply, each with enough    *)
(* collateral, its share of the fund included.                             *)
RECURSIVE BidsCover(_, _)
BidsCover(n, to_cover) ==
    LET b    == FirstBid(n)
        debt == Least(n.bids[b].debt, n.supply)
        coll == ToColl(debt, n.gs_price) + n.bids[b].coll
    IN  IF to_cover <= 0 THEN TRUE
        ELSE IF DOMAIN n.bids = {} THEN FALSE
        ELSE IF ~PriceLess(PriceTimes([d |-> debt, c |-> coll], ICR, RatioDenom), n.current) THEN FALSE
        ELSE BidsCover([n EXCEPT !.bids = Without(@, b)], to_cover - debt)

RECURSIVE ExecuteBids(_, _, _)
ExecuteBids(n, to_cover, remaining_fund) ==
    LET b    == FirstBid(n)
        debt == Least(n.bids[b].debt, n.supply)
        Execute(taken, part) ==
            [execute_bid(n, n.bids[b], taken, part) EXCEPT !.bids = Without(@, b)]
        Go(part) == IF part > remaining_fund THEN Broken(n)
                    ELSE ExecuteBids(Execute(debt, part), to_cover - debt, remaining_fund - part)
    IN  IF debt >= to_cover THEN Execute(to_cover, remaining_fund)
        ELSE Go(ToColl(debt, n.gs_price))

process_bids(n) ==
    IF n.current = NullPrice THEN n
    ELSE IF n.supply = 0 THEN _cancel_bids_and_revive_mpa(n)
    ELSE IF ~BidsCover(n, n.supply) THEN n
    ELSE _cancel_bids_and_revive_mpa(ExecuteBids(n, n.supply, n.gs_fund))

process_bitassets(n) ==
    LET n1 == [n EXCEPT !.settled_volume = 0]
    IN  IF IsGS(n1) THEN process_bids(n1) ELSE n1

BidCollateral ==
    /\ Ready
    /\ \E a \in Account, op \in Bids :
         \E n \in {bid_collateral(m, a, op)} : Transaction(n)
AssetGlobalSettle ==
    /\ Ready
    /\ \E p \in FeedPrices :
         \E n \in {asset_global_settle(m, p)} : Transaction(n)
ProcessBitassets ==
    /\ Ready
    /\ \E n \in {process_bitassets(m)} : BlockTask(n)

-----------------------------------------------------------------------------
(* Force settlement.  What the fund gives above the MCOP is a fee.         *)
pay_collateral_fees(n, pays, settled) ==
    IF n.current = NullPrice THEN 0
    ELSE Greatest(0, settled - ToCollUp(pays, MCOP(n)))

(* The account gives pays of the mia for settled of core, less the fees.   *)
PaySettledLess(n, a, pays, settled, fee) ==
    Then(adjust_balance([n EXCEPT !.coll_fees = @ + fee, !.supply = @ - pays], a, "mia", -pays), LAMBDA k :
         Then(pay_market_fees(k, a, "core", settled - fee, FALSE), LAMBDA j :
              Ret(adjust_balance(j, a, "core", settled - fee - j.ret), pays)))
PaySettled(n, a, pays, settled) ==
    PaySettledLess(n, a, pays, settled, pay_collateral_fees(n, pays, settled))

PayFromGSFund(n, a, pays, settled) ==
    IF settled > n.gs_fund THEN Broken(n)
    ELSE IF settled = 0 THEN Throw(n)
    ELSE PaySettled([n EXCEPT !.gs_fund = @ - settled], a, pays, settled)

pay_settle_from_gs_fund(n, a, amount) ==
    LET settled == ToColl(amount, n.gs_price)
    IN  PayFromGSFund(n, a, IF amount = n.supply THEN amount ELSE ToDebtUp(settled, n.gs_price),
                      IF amount = n.supply THEN n.gs_fund ELSE settled)

(* When the pool is empty, the cap it put on the current feed goes.        *)
AfterPool(n, old_feed) ==
    IF n.isd = 0 /\ n.current # old_feed THEN check_call_orders(n, TRUE, FALSE) ELSE n

PayFromPool(n, a, pays, settled) ==
    IF settled = 0 THEN Throw(n)
    ELSE Then(PaySettled([n EXCEPT !.isd = @ - pays, !.isf = @ - settled], a, pays, settled), LAMBDA k :
              Then(AfterPool(update_bitasset_current_feed(k, TRUE), n.current), LAMBDA j : Ret(j, pays)))

(* The value returned is what was settled.                                 *)
pay_settle_from_individual_pool(n, a, amount) ==
    LET settled == ToColl(amount, FundPrice(n))
        part    == amount < n.isd
    IN  PayFromPool(n, a, IF part THEN ToDebtUp(settled, FundPrice(n)) ELSE n.isd,
                    IF part THEN settled ELSE n.isf)

CreateSettlement(n, a, rest) ==
    Then(adjust_balance(n, a, "mia", -rest), LAMBDA k :
         apply_force_settlement(
             [k EXCEPT !.next_id = @ + 1,
                       !.settles = With(@, n.next_id, [owner |-> a, balance |-> rest])], n.next_id))

asset_settle(n, a, amount) ==
    IF \/ n.bal[a]["mia"] < amount
       \/ n.current = NullPrice /\ ~IsGS(n) /\ ~SettledToFund(n) THEN Throw(n)
    ELSE IF IsGS(n) THEN pay_settle_from_gs_fund(n, a, amount)
    ELSE Then(IF SettledToFund(n) THEN pay_settle_from_individual_pool(n, a, amount) ELSE Ret(n, 0),
              LAMBDA k : IF SettledToFund(k) \/ k.ret = amount \/ k.current = NullPrice THEN k
                         ELSE CreateSettlement(k, a, amount - k.ret))

max_force_settlement_volume(n) ==
    IF MaxSettleVolume = 0 THEN 0
    ELSE IF MaxSettleVolume = HundredPercent THEN n.supply + n.settled_volume
    ELSE ((n.supply + n.settled_volume) * MaxSettleVolume) \div HundredPercent

(* Settlement s against the least collateralised positions.  The value     *)
(* returned says whether a settlement that cannot be filled is left.       *)
RECURSIVE SettleDue(_, _, _, _)
SettleDue(n, s, fill_price, volume) ==
    LET c     == find_least_collateralized_short(n)
        Go(k) == IF k.ret = 0 THEN Ret(k, s \in DOMAIN k.settles)
                 ELSE SettleDue([k EXCEPT !.settled_volume = @ + k.ret], s, fill_price, volume)
    IN  IF n.settled_volume >= volume \/ s \notin DOMAIN n.settles THEN Ret(n, FALSE)
        ELSE IF c = End THEN Ret(cancel_settle_order(n, s), FALSE)
        ELSE Then(match_impl(n, s, c, fill_price, volume - n.settled_volume, fill_price, FALSE, TRUE), Go)

(* due: the settlements whose time has come.  The price and the volume are *)
(* those at the start.                                                     *)
RECURSIVE SettleAllDue(_, _, _, _)
SettleAllDue(n, due, fill_price, volume) ==
    LET s         == FirstSettle(n)
        Next1(k)  == SettleAllDue(k, due, fill_price, volume)
        cancelled == cancel_settle_order(n, s)
    IN  IF s = End THEN n
        ELSE IF IsGS(n) THEN Next1(cancelled)
        ELSE IF s \notin due THEN n
        ELSE IF n.current = NullPrice \/ SettleOffset = HundredPercent THEN Next1(cancelled)
        ELSE IF n.settled_volume >= volume THEN n
        ELSE Then(SettleDue(n, s, fill_price, volume), LAMBDA k : IF k.ret THEN k ELSE Next1(k))

clear_expired_force_settlements(n, due) ==
    SettleAllDue(n, due,
        IF n.current = NullPrice \/ SettleOffset = HundredPercent THEN NullPrice
        ELSE PriceTimes(n.current, HundredPercent, HundredPercent - SettleOffset),
        max_force_settlement_volume(n))

AssetSettle ==
    /\ Ready
    /\ \E a \in Account, amount \in SettleAmount :
         \E n \in {asset_settle(m, a, amount)} : Transaction(n)

ClearExpiredForceSettlements ==
    /\ Ready
    /\ \E k \in 0..Cardinality(DOMAIN m.settles) :
         /\ DOMAIN m.settles # {} /\ (k = 0 => IsGS(m))
         /\ \E n \in {clear_expired_force_settlements(m, 1..k)} : BlockTask(n)

ClearExpiredOrders ==
    /\ Ready
    /\ \E i \in DOMAIN m.orders :
         ~m.orders[i].settled /\ BlockTask(cancel_limit_order(m, i, TRUE))

-----------------------------------------------------------------------------
(* Price feeds.  The feed that makes the fund sufficient revives the mia.  *)
Revives(k) ==
    /\ IsGS(k) /\ k.current # NullPrice
    /\ k.supply # 0 => HigherCR([d |-> k.supply, c |-> k.gs_fund], InitialCR(k))

(* A mutant: a feed may not cause a black swan.                            *)
asset_publish_feed_no_swan(n, f, p) ==
    LET Go(k) == Then(IF Revives(k) THEN revive_bitasset(k) ELSE k, LAMBDA j :
                      check_call_orders(j, FALSE, FALSE))
    IN  Then(update_bitasset_current_feed([n EXCEPT !.feeds[f] = p], FALSE), LAMBDA k :
             IF k.median = n.median THEN k ELSE Go(k))

asset_publish_feed(n, f, p) ==
    LET Go(k) == Then(IF Revives(k) THEN revive_bitasset(k) ELSE k, LAMBDA j :
                      check_call_orders(j, TRUE, FALSE))
    IN  Then(update_bitasset_current_feed([n EXCEPT !.feeds[f] = p], FALSE), LAMBDA k :
             IF k.median = n.median THEN k ELSE Go(k))

(* A mutant: the expiration of a feed sets off no margin calls.            *)
update_expired_feeds_unchecked(n, expired) ==
    update_bitasset_current_feed(
        [n EXCEPT !.feeds = [f \in Feeder |-> IF f \in expired THEN NullPrice ELSE @[f]]], FALSE)

update_expired_feeds(n, expired) ==
    Then(update_bitasset_current_feed(
             [n EXCEPT !.feeds = [f \in Feeder |-> IF f \in expired THEN NullPrice ELSE @[f]]], FALSE),
         LAMBDA k :
             IF \/ k.current # NullPrice /\ k.current # n.current
                \/ k.median # NullPrice /\ k.median # n.median
             THEN check_call_orders(k, TRUE, FALSE) ELSE k)

(* A change of the black swan response method.                             *)
asset_update_bitasset(n, method) ==
    LET Feed1(k) == IF "no_settlement" \in {method, n.bsrm}
                    THEN update_bitasset_current_feed(k, TRUE) ELSE k
    IN  IF IsGS(n) \/ SettledToFund(n)
           \/ (n.bsrm = "individual_settlement_to_order" /\ find_settled_debt_order(n) # End)
        THEN Throw(n)
        ELSE Then(Feed1([n EXCEPT !.bsrm = method]), LAMBDA k :
                  IF k.current # n.current THEN check_call_orders(k, TRUE, FALSE) ELSE k)

AssetPublishFeed ==
    /\ Ready
    /\ \E f \in Feeder, p \in FeedPrices :
         \E n \in {asset_publish_feed(m, f, p)} : Transaction(n)
UpdateExpiredFeeds ==
    /\ Ready
    /\ \E expired \in SUBSET {f \in Feeder : m.feeds[f] # NullPrice} :
         /\ expired # {}
         /\ \E n \in {update_expired_feeds(m, expired)} : BlockTask(n)
AssetUpdateBitasset ==
    /\ Ready
    /\ \E method \in BSRM \ {m.bsrm} :
         \E n \in {asset_update_bitasset(m, method)} : Transaction(n)
-----------------------------------------------------------------------------
(* Before the first operation: everyone has core, nobody the mia.          *)
Genesis(method, core, pool) ==
    [bal |-> [a \in Account |-> [mia |-> 0, core |-> core]],
     orders |-> <<>>, calls |-> <<>>, settles |-> <<>>, bids |-> <<>>, next_id |-> 1,
     feeds |-> [f \in Feeder |-> NullPrice], median |-> NullPrice, current |-> NullPrice,
     supply |-> 0, gs_price |-> NullPrice, gs_fund |-> 0, gathered |-> 0, isd |-> 0, isf |-> 0,
     settled_volume |-> 0, fees |-> [x \in Asset |-> 0], vesting |-> [x \in Asset |-> 0],
     coll_fees |-> 0, fee_pool |-> pool, paid_fees |-> 0,
     core_in_orders |-> [a \in Account |-> 0], bsrm |-> method,
     depth |-> 0, throw |-> FALSE, ret |-> TRUE, broken |-> FALSE, past |-> FALSE, worse |-> FALSE, self |-> FALSE, lower |-> FALSE]

Next == \/ LimitOrderCreate \/ LimitOrderUpdate \/ LimitOrderCancel
        \/ CallOrderUpdate \/ BidCollateral \/ AssetGlobalSettle \/ AssetSettle
        \/ AssetPublishFeed \/ AssetUpdateBitasset
        \/ ClearExpiredOrders \/ ClearExpiredForceSettlements \/ UpdateExpiredFeeds
        \/ ProcessBitassets

-----------------------------------------------------------------------------
SumOf(S, F(_)) == MapThenSumSet(F, S)
InOrders(x)    == LET F(i) == m.orders[i].for_sale
                  IN  SumOf({i \in DOMAIN m.orders : m.orders[i].sell = x /\ ~m.orders[i].settled}, F)
Debt           == LET F(c) == m.calls[c].debt IN SumOf(DOMAIN m.calls, F)
Collateral     == LET F(c) == m.calls[c].collateral IN SumOf(DOMAIN m.calls, F)
InSettles      == LET F(s) == m.settles[s].balance IN SumOf(DOMAIN m.settles, F)
InBids         == LET F(b) == m.bids[b].coll IN SumOf(DOMAIN m.bids, F)
DeferredPaid   == LET F(i) == m.orders[i].paid_fee IN SumOf(DOMAIN m.orders, F)
DeferredCore   == LET F(i) == m.orders[i].fee IN SumOf(DOMAIN m.orders, F)
Balances(x)    == LET F(a) == m.bal[a][x] IN SumOf(Account, F)

MiaHeld  == Balances("mia") + InOrders("mia") + InSettles + DeferredPaid + m.fees["mia"] + m.vesting["mia"]
CoreHeld == Balances("core") + InOrders("core") + Collateral + InBids + m.gs_fund + m.isf + DeferredCore
            + m.coll_fees + m.fees["core"] + m.vesting["core"] + m.fee_pool + m.paid_fees

(* Nothing is created or lost: the supply is what accounts, orders,        *)
(* settlements and fee pots hold of the mia, and the core there was at     *)
(* genesis is in balances, orders, positions, bids, funds and fee pots.    *)
(* The supply is owed: by the debt positions and the settled debt, or,     *)
(* after a global settlement, by the fund alone.  A fund and the debt it   *)
(* is for vanish together.                                                 *)
SupplyIsOwed ==
    /\ m.supply = MiaHeld /\ CoreHeld = TotalCore
    /\ IF IsGS(m) THEN DOMAIN m.calls = {} /\ m.isd = 0 /\ m.isf = 0 /\ (m.supply = 0 => m.gs_fund = 0)
       ELSE m.supply = Debt + m.isd /\ (m.isd = 0) = (m.isf = 0) /\ m.gs_fund = 0

(* total_core_in_orders of an account is what it has in orders and as      *)
(* collateral: the voting weight counts on it.  An order and its take      *)
(* profit order know each other.                                           *)
OrdersConsistent ==
    /\ \A a \in Account :
          LET F(i) == m.orders[i].for_sale
              G(c) == m.calls[c].collateral
          IN  m.core_in_orders[a]
                = SumOf({i \in DOMAIN m.orders : m.orders[i].seller = a /\ m.orders[i].sell = "core"}, F)
                  + SumOf({c \in DOMAIN m.calls : m.calls[c].borrower = a}, G)
    /\ \A i \in DOMAIN m.orders : m.orders[i].tp # NoOrder =>
          /\ m.orders[i].tp \in DOMAIN m.orders
          /\ m.orders[m.orders[i].tp].tp = i
          /\ m.orders[m.orders[i].tp].sell # m.orders[i].sell

(* Whatever a price feed sets off in the market, nothing there refuses it. *)
(* The exceptions: the asset's issuer has a bid of their own when the feed *)
(* would revive the asset, and the one of NothingBreaks.                   *)
FeedsAreAccepted ==
    left > 0 => \A f \in Feeder, p \in FeedPrices :
        \E n \in {asset_publish_feed(m, f, p)} : n.throw => n.past \/ BidOf(m, Owner) # End

(* No internal check fails, no iterator is used after its element is gone, *)
(* no block's own work throws, and price feeds are accepted.  The          *)
(* exception: the end of the orders that sell mia is taken before the loop *)
(* of check_call_orders, whose fills and settlements can put an order that *)
(* sells core right there.                                                 *)
NothingBreaks == (m.broken => m.past) /\ FeedsAreAccepted

(* No limit order is ever filled at a price worse than its own, but for    *)
(* the unit it may pay too much because of rounding.  The exception is an  *)
(* order that outlasts the orders it takes and then meets the take profit  *)
(* order its own first fill has put into the book.  And a margin call, of  *)
(* whichever kind and by whatever it was set off, never leaves the         *)
(* position with less collateral per debt than it had.                     *)
TradesAreFair == (m.worse => m.self) /\ ~m.lower

(* Whatever ran last, nothing is left to match: no two limit orders cross; *)
(* while a position is below the MCR, no order sells mia at a price that   *)
(* margin calls pay; and unless a settlement waits, no position is left    *)
(* that neither the book nor the MSSR would let anybody cover.             *)
NothingLeftToMatch ==
    LET c == find_least_collateralized_short(m)
    IN  /\ \A i \in Selling(m, "mia"), j \in Selling(m, "core") : PriceLess(m.orders[i].price, m.orders[j].price)
        /\ ~IsGS(m) /\ m.current # NullPrice /\ c # End =>
              /\ ~FeedProtected(m, c) => \A i \in Selling(m, "mia") : PriceLess(m.orders[i].price, MCOP(m))
              /\ DOMAIN m.settles = {} => ~PriceLess(SwanPrice(m), CR(m.calls[c]))
=============================================================================
