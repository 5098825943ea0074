------------------------------ MODULE MCMarket ------------------------------
(***************************************************************************)
(* Instances of the market with two accounts: "ann" issues the mia, "bob"  *)
(* is someone else.  Every scenario is a state that a few operations reach *)
(* from Genesis: two loans, one of them with a book of limit orders, and a *)
(* global settlement that one bid answers.                                 *)
(***************************************************************************)
EXTENDS Market, SequencesExt

P(d, c) == [d |-> d, c |-> c]

MCMarketFeePercent == [x \in Asset |-> IF x = "mia" THEN 1000 ELSE 0]
MCTakerFeePercent  == [x \in Asset |-> Unset]
MCMaxMarketFee     == [x \in Asset |-> 1000]
MCRewardPercent    == [x \in Asset |-> 0]
MCReferral         == [a \in Account |-> [allowed |-> FALSE, registrar_ok |-> FALSE,
                                          referrer_ok |-> FALSE, referrer_percent |-> 0]]
MCCoreExchangeRate == P(1, 1)

Order(x, amount, min, fee_asset, fill_or_kill, action) ==
    [sell |-> x, amount |-> amount, min |-> min, fee_asset |-> fee_asset,
     fill_or_kill |-> fill_or_kill, on_fill |-> action]
Profit(spread, repeat) == [fee_asset |-> "core", spread |-> spread, size |-> 10000, repeat |-> repeat]
Loan(coll, debt, tcr)  == [collateral |-> coll, debt |-> debt, tcr |-> tcr]

MCNewOrders    == {Order("mia", 4, 4, "mia", FALSE, NoAction), Order("mia", 4, 12, "core", FALSE, NoAction),
                   Order("core", 5, 4, "core", TRUE, NoAction),
                   Order("core", 14, 7, "core", FALSE, Profit(1000, FALSE))}
MCOrderUpdates == {[price |-> Unset, delta |-> -1, on_fill |-> NoAction],
                   [price |-> P(2, 4), delta |-> Unset, on_fill |-> Unset]}
MCCallUpdates  == {Loan(6, 3, NoRatio), Loan(3, 0, 20), Loan(-15, -6, NoRatio)}
MCBids         == {[coll |-> 5, debt |-> 9], [coll |-> 0, debt |-> 0]}
MCSettleAmount == {2, 6}
MCFeedPrices   == {P(1, 1), P(2, 3), P(1, 3)}

-----------------------------------------------------------------------------
(* Two feeds are published, then ann and bob borrow.                       *)
Borrowed(method) ==
    LET Borrow(n, a) == call_order_update_apply(n, a, IF a = "ann" THEN Loan(20, 8, NoRatio)
                                                      ELSE Loan(15, 6, NoRatio))
    IN  FoldLeft(Borrow, update_bitasset_current_feed(
            [Genesis(method, 60, 10) EXCEPT !.feeds = [f |-> P(1, 1), g |-> P(1, 3)]], FALSE), <<"ann", "bob">>)

(* Both sell some of what they borrowed, bob with a take profit order, and *)
(* ann buys for less.                                                      *)
Book(method) ==
    LET Sell(n, a, x, amount, min, action) == limit_order_create(n, a, x, amount, min, "core", FALSE, action)
    IN  Sell(Sell(Sell(Borrowed(method), "bob", "mia", 2, 2, Profit(2000, TRUE)),
                  "ann", "mia", 3, 9, NoAction), "ann", "core", 6, 8, NoAction)

(* The feeds drop so much that everything is settled; bob bids.            *)
Settled ==
    bid_collateral(asset_publish_feed(asset_publish_feed(Borrowed("global_settlement"), "f", P(1, 3)),
                       "g", P(1, 3)), "bob", [coll |-> 9, debt |-> 6])

MCInit == \E k \in {0, 1} :
            /\ left = MaxOps - k
            /\ m \in {Renumber(n) : n \in IF k = 0 THEN {Borrowed(method) : method \in BSRM}
                                       ELSE {Book(method) : method \in BSRM} \cup {Settled}}
MCSpec == MCInit /\ [][Next]_vars
=============================================================================
