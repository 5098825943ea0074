---------------------------- MODULE CreditOffers ----------------------------
(***************************************************************************)
(* Credit offers and credit deals: the evaluators of credit_offer_create,  *)
(* _delete, _update and _accept, of credit_deal_repay and _update, and     *)
(* update_credit_offers_and_deals at the end of every block.               *)
(*                                                                         *)
(* Two assets; an offer lends one of them against the other, at a fixed    *)
(* price.  Transactions are evaluated at the time of the block before.     *)
(* Automatic repayments are virtual operations in an undo session of their *)
(* own: one that fails leaves nothing, and the deal is past due.           *)
(***************************************************************************)
EXTENDS Accounts, Integers, FiniteSetsExt

CONSTANTS
    FEE_RATE_DENOM,     \* GRAPHENE_FEE_RATE_DENOM
    MAX_OFFER_DURATION, \* GRAPHENE_MAX_CREDIT_OFFER_DAYS
    Terms,              \* what an offer asks for, see Term
    Collateral,         \* acceptable_collateral: per debt asset, base and quote
    CreditEndowment,    \* per account, its initial balance of each asset
    CreditAmounts,      \* bound: amounts lent, borrowed and repaid
    MaxOffers,          \* bound: number of offers
    MaxDeals,           \* bound: number of deals
    MaxCreditTime       \* bound: time of the last block

Good == {"a", "b"}

(* acceptable_borrowers is empty if everybody may borrow.                  *)
Term == [fee_rate : Nat, max_duration_seconds : Nat, min_deal_amount : Nat,
         acceptable_borrowers : UNION {[accts -> Nat] : accts \in SUBSET Account}]

ASSUME CreditAssumption ==
    /\ FEE_RATE_DENOM \in Nat \ {0} /\ MAX_OFFER_DURATION \in Nat
    /\ \A t \in Terms : /\ DOMAIN t.acceptable_borrowers \subseteq Account
                        /\ t.fee_rate \in Nat /\ t.max_duration_seconds \in Nat
    /\ Collateral \in [Good -> [base : Nat \ {0}, quote : Nat \ {0}]]
    /\ CreditEndowment \in [Account -> [Good -> Nat]]
    /\ CreditAmounts \subseteq Nat \ {0}
    /\ MaxOffers \in Nat /\ MaxDeals \in Nat /\ MaxCreditTime \in Nat

VARIABLES
    credit_time,    \* head_block_time()
    authorized,     \* is_authorized_asset, for everybody and both assets
    credit          \* balances, offers, deals and summaries, see CreditTypeOK

credit_vars == <<credit_time, authorized, credit>>

OfferId    == 0..MaxOffers - 1
DealId     == 0..MaxDeals - 1
AutoRepay  == {"no_auto_repayment", "only_full_repayment", "allow_partial_repayment"}

CollateralOf(good) == CHOOSE other \in Good : other # good

RoundUp(n, d) == (n + d - 1) \div d

Put(f, key, value) ==
    [k \in DOMAIN f \cup {key} |-> IF k = key THEN value ELSE f[k]]

Drop(f, key) == [k \in DOMAIN f \ {key} |-> f[k]]

adjust_balance(c, acct, good, delta) == [c EXCEPT !.balances[acct][good] = @ + delta]

-----------------------------------------------------------------------------
(* Offers.                                                                 *)

Becomes(c) == credit' = c /\ UNCHANGED <<credit_time, authorized>>

InTime(enabled, time) ==
    enabled => time > credit_time /\ time - credit_time <= MAX_OFFER_DURATION

credit_offer_create(owner, good, balance, term, enabled, time) ==
    /\ credit.next_offer \in OfferId
    /\ InTime(enabled, time)
    /\ authorized
    /\ credit.balances[owner][good] >= balance
    /\ Becomes(
          [adjust_balance(credit, owner, good, -balance) EXCEPT
              !.offers = Put(@, credit.next_offer,
                  [owner_account |-> owner, asset_type |-> good,
                   total_balance |-> balance, current_balance |-> balance,
                   term |-> term, enabled |-> enabled, auto_disable_time |-> time]),
              !.next_offer = @ + 1])

(* A mutant: an offer may be deleted while deals are unpaid.               *)
credit_offer_delete_unpaid(id) ==
    LET o == credit.offers[id] IN
    /\ id \in DOMAIN credit.offers
    /\ Becomes([adjust_balance(credit, o.owner_account, o.asset_type, o.current_balance)
                        EXCEPT !.offers = Drop(@, id)])

credit_offer_delete(id) ==
    LET o == credit.offers[id] IN
    /\ id \in DOMAIN credit.offers
    /\ o.total_balance = o.current_balance
    /\ Becomes([adjust_balance(credit, o.owner_account, o.asset_type, o.current_balance)
                        EXCEPT !.offers = Drop(@, id)])

(* delta 0 stands for an update without a change of the balance, and a     *)
(* field that is not given keeps its value.                                *)
credit_offer_update(id, delta, term, enabled, time) ==
    LET o == credit.offers[id] IN
    /\ id \in DOMAIN credit.offers
    /\ delta > 0 => authorized /\ credit.balances[o.owner_account][o.asset_type] >= delta
    /\ delta < 0 => o.total_balance > -delta /\ o.current_balance >= -delta
    /\ InTime(enabled, time)
    /\ o.total_balance + delta > 0
    /\ Becomes(
          [adjust_balance(credit, o.owner_account, o.asset_type, -delta) EXCEPT
              !.offers[id] = [@ EXCEPT !.total_balance = @ + delta,
                                       !.current_balance = @ + delta,
                                       !.term = term,
                                       !.enabled = enabled,
                                       !.auto_disable_time = time]])

AlreadyBorrowed(id, borrower) ==
    IF <<id, borrower>> \in DOMAIN credit.summaries THEN credit.summaries[<<id, borrower>>] ELSE 0

MayBorrow(id, borrower, amount) ==
    LET allowed == credit.offers[id].term.acceptable_borrowers
    IN  DOMAIN allowed # {} =>
            /\ borrower \in DOMAIN allowed
            /\ AlreadyBorrowed(id, borrower) + amount <= allowed[borrower]

credit_offer_accept(id, borrower, amount, collateral, auto_repay) ==
    LET o     == credit.offers[id]
        price == Collateral[o.asset_type]
        other == CollateralOf(o.asset_type)
    IN
    /\ credit.next_deal \in DealId
    /\ id \in DOMAIN credit.offers
    /\ o.enabled
    /\ o.current_balance >= amount
    /\ o.term.min_deal_amount <= amount
    /\ authorized
    /\ RoundUp(amount * price.quote, price.base) <= collateral
    /\ MayBorrow(id, borrower, amount)
    /\ credit.balances[borrower][other] >= collateral
    /\ o.term.max_duration_seconds > 0
    /\ Becomes(
          [adjust_balance(adjust_balance(credit, borrower, other, -collateral),
                          borrower, o.asset_type, amount) EXCEPT
              !.offers[id].current_balance = @ - amount,
              !.deals = Put(@, credit.next_deal,
                  [borrower |-> borrower, offer_id |-> id, debt_amount |-> amount,
                   collateral_amount |-> collateral, fee_rate |-> o.term.fee_rate,
                   latest_repay_time |-> credit_time + o.term.max_duration_seconds,
                   auto_repay |-> auto_repay]),
              !.summaries = Put(@, <<id, borrower>>, AlreadyBorrowed(id, borrower) + amount),
              !.next_deal = @ + 1])

-----------------------------------------------------------------------------
(* Deals.                                                                  *)

RequiredFee(deal, amount) == RoundUp(amount * deal.fee_rate, FEE_RATE_DENOM)

(* The collateral a repayment releases: all, or a part rounded down.       *)
Released(deal, amount) == (amount * deal.collateral_amount) \div deal.debt_amount

(* An amount of the borrower's debt goes, from a summary that is removed   *)
(* with the last of it.                                                    *)
ReduceSummary(c, deal, amount) ==
    LET key == <<deal.offer_id, deal.borrower>>
    IN  IF c.summaries[key] = amount
        THEN [c EXCEPT !.summaries = Drop(@, key)]
        ELSE [c EXCEPT !.summaries[key] = @ - amount]

(* The evaluation of credit_deal_repay in state c: may it be applied, ...  *)
Repayable(c, id, amount, fee) ==
    LET deal == c.deals[id]
        good == c.offers[deal.offer_id].asset_type
    IN  /\ amount \in 1..deal.debt_amount
        /\ fee >= RequiredFee(deal, amount)
        /\ authorized
        /\ c.balances[deal.borrower][good] >= amount + fee
        /\ <<deal.offer_id, deal.borrower>> \in DOMAIN c.summaries
        /\ amount < deal.debt_amount => Released(deal, amount) < deal.collateral_amount

(* ... and what it does.                                                   *)
Repaid(c, id, amount, fee) ==
    LET deal     == c.deals[id]
        good     == c.offers[deal.offer_id].asset_type
        released == Released(deal, amount)
        paid     == [ReduceSummary(adjust_balance(c, deal.borrower, good, -(amount + fee)),
                                   deal, amount) EXCEPT
                        !.offers[deal.offer_id].total_balance = @ + fee,
                        !.offers[deal.offer_id].current_balance = @ + amount + fee]
    IN  adjust_balance(
            IF amount = deal.debt_amount
            THEN [paid EXCEPT !.deals = Drop(@, id)]
            ELSE [paid EXCEPT !.deals[id].debt_amount = @ - amount,
                              !.deals[id].collateral_amount = @ - released],
            deal.borrower, CollateralOf(good), released)

credit_deal_repay(id, amount, fee) ==
    /\ id \in DOMAIN credit.deals
    /\ Repayable(credit, id, amount, fee)
    /\ Becomes(Repaid(credit, id, amount, fee))

credit_deal_update(id, auto_repay) ==
    /\ id \in DOMAIN credit.deals
    /\ credit.deals[id].auto_repay # auto_repay
    /\ Becomes([credit EXCEPT !.deals[id].auto_repay = auto_repay])

(* A mutant: what the borrower can repay leaves out the fee.               *)
PartialRepayment_without_fee(deal, balance) ==
    RoundUp(((balance * deal.collateral_amount) \div deal.debt_amount) * deal.debt_amount,
            deal.collateral_amount)

(* The debt that the balance repays with its fee, cut down to what is      *)
(* needed for the collateral it releases.                                  *)
PartialRepayment(deal, balance) ==
    LET debt     == (balance * FEE_RATE_DENOM) \div (FEE_RATE_DENOM + deal.fee_rate)
        released == (debt * deal.collateral_amount) \div deal.debt_amount
    IN  RoundUp(released * deal.debt_amount, deal.collateral_amount)

(* try_push_virtual_operation of the repayment the deal asks for.          *)
AutoRepaid(c, id) ==
    LET deal    == c.deals[id]
        balance == c.balances[deal.borrower][c.offers[deal.offer_id].asset_type]
        full    == \/ deal.auto_repay = "only_full_repayment"
                   \/ balance >= deal.debt_amount + RequiredFee(deal, deal.debt_amount)
        amount  == IF full THEN deal.debt_amount ELSE PartialRepayment(deal, balance)
        fee     == RequiredFee(deal, amount)
    IN  IF deal.auto_repay # "no_auto_repayment" /\ Repayable(c, id, amount, fee)
        THEN Repaid(c, id, amount, fee)
        ELSE c

(* A deal that is past due: the lender keeps the collateral.  History:     *)
(* unfair if the borrower, who wanted it repaid, could have paid for one   *)
(* more unit of the collateral, or for all of it.                          *)
Forfeited(c, id) ==
    LET deal    == c.deals[id]
        offer   == c.offers[deal.offer_id]
        balance == c.balances[deal.borrower][offer.asset_type]
        unit    == IF deal.auto_repay = "allow_partial_repayment"
                   THEN RoundUp(deal.debt_amount, deal.collateral_amount) ELSE deal.debt_amount
        price   == unit + RoundUp(unit * deal.fee_rate, FEE_RATE_DENOM)
    IN  [adjust_balance(ReduceSummary(c, deal, deal.debt_amount),
                        offer.owner_account, CollateralOf(offer.asset_type),
                        deal.collateral_amount) EXCEPT
            !.offers[deal.offer_id].total_balance = @ - deal.debt_amount,
            !.deals = Drop(@, id),
            !.unfair = @ \/ (authorized /\ deal.auto_repay # "no_auto_repayment" /\ balance >= price)]

Due(c, time) == {id \in DOMAIN c.deals : c.deals[id].latest_repay_time <= time}

FirstDue(c, ids) ==
    CHOOSE i \in ids : \A j \in ids :
        \/ c.deals[i].latest_repay_time < c.deals[j].latest_repay_time
        \/ c.deals[i].latest_repay_time = c.deals[j].latest_repay_time /\ i <= j

RECURSIVE ProcessDeals(_, _)
ProcessDeals(c, time) ==
    IF Due(c, time) = {}
    THEN c
    ELSE LET id == FirstDue(c, Due(c, time))
             r  == AutoRepaid(c, id)
         IN  ProcessDeals(IF id \in DOMAIN r.deals THEN Forfeited(r, id) ELSE r, time)

AutoDisabled(c, time) ==
    [c EXCEPT !.offers = [id \in DOMAIN @ |->
        [@[id] EXCEPT !.enabled = @ /\ c.offers[id].auto_disable_time > time]]]

(* The end of a block with this timestamp.                                 *)
update_credit_offers_and_deals(time) ==
    /\ time > credit_time
    /\ credit_time' = time
    /\ credit' = ProcessDeals(AutoDisabled(credit, time), time)
    /\ UNCHANGED authorized

(* The issuers of the assets change their white and black lists.           *)
ChangeAuthorization ==
    /\ authorized' = ~authorized
    /\ UNCHANGED <<credit_time, credit>>

-----------------------------------------------------------------------------
CreditInit ==
    /\ credit_time = 0
    /\ authorized = TRUE
    /\ credit = [balances |-> CreditEndowment,
                 offers |-> [id \in {} |-> 0], next_offer |-> 0,
                 deals |-> [id \in {} |-> 0], next_deal |-> 0,
                 summaries |-> [key \in {} |-> 0], unfair |-> FALSE]

(* enabled and auto_disable_time, which says nothing in a disabled offer.  *)
Enabling == ({TRUE} \X (1..MaxCreditTime)) \cup {<<FALSE, 0>>}

CreditNext ==
    \/ \E owner \in Account, good \in Good, n \in CreditAmounts, t \in Terms, when \in Enabling :
          credit_offer_create(owner, good, n, t, when[1], when[2])
    \/ \E id \in OfferId : credit_offer_delete(id)
    \/ \E id \in DOMAIN credit.offers, n \in CreditAmounts, s \in {-1, 1} :
          LET o == credit.offers[id]
          IN  credit_offer_update(id, s * n, o.term, o.enabled, o.auto_disable_time)
    \/ \E id \in DOMAIN credit.offers, t \in Terms, when \in Enabling :
          credit_offer_update(id, 0, t, when[1], when[2])
    \/ \E id \in OfferId, acct \in Account, n, c \in CreditAmounts, r \in AutoRepay :
          credit_offer_accept(id, acct, n, c, r)
    \/ \E id \in DealId, n \in CreditAmounts, fee \in CreditAmounts \cup {0} :
          credit_deal_repay(id, n, fee)
    \/ \E id \in DealId, r \in AutoRepay : credit_deal_update(id, r)
    \/ \E time \in 1..MaxCreditTime : update_credit_offers_and_deals(time)
    \/ ChangeAuthorization

CreditSpec == CreditInit /\ [][CreditNext]_credit_vars

-----------------------------------------------------------------------------
Debts(c, ids) == MapThenSumSet(LAMBDA id : c.deals[id].debt_amount, ids)

(* Checked as part of OffersConsistent.                                    *)
CreditTypeOK ==
    /\ credit_time \in 0..MaxCreditTime /\ authorized \in BOOLEAN
    /\ credit.balances \in [Account -> [Good -> Nat]]
    /\ DOMAIN credit.offers \subseteq OfferId /\ DOMAIN credit.deals \subseteq DealId
    /\ \A id \in DOMAIN credit.offers :
          credit.offers[id].total_balance \in Nat /\ credit.offers[id].current_balance \in Nat
    /\ \A id \in DOMAIN credit.deals :
          credit.deals[id].debt_amount \in Nat \ {0} /\ credit.deals[id].collateral_amount \in Nat \ {0}

(* What an offer has lent (total_balance - current_balance, which decides  *)
(* whether it may be deleted) and what the summaries say each borrower     *)
(* owes it (which the limits of acceptable_borrowers are compared with)    *)
(* stay equal to the debts of its deals, through partial, full, automatic  *)
(* and failed repayments; an offer is not deleted before its deals.        *)
OffersConsistent ==
    /\ CreditTypeOK
    /\ \A id \in DOMAIN credit.deals : credit.deals[id].offer_id \in DOMAIN credit.offers
    /\ \A o \in DOMAIN credit.offers :
          credit.offers[o].total_balance - credit.offers[o].current_balance
             = Debts(credit, {id \in DOMAIN credit.deals : credit.deals[id].offer_id = o})
    /\ DOMAIN credit.summaries =
          {<<credit.deals[id].offer_id, credit.deals[id].borrower>> : id \in DOMAIN credit.deals}
    /\ \A key \in DOMAIN credit.summaries :
          credit.summaries[key] =
             Debts(credit, {id \in DOMAIN credit.deals :
                              <<credit.deals[id].offer_id, credit.deals[id].borrower>> = key})

(* After every block no deal is past due and no enabled offer is past its  *)
(* auto_disable_time, whatever the repayments of one deal did to another.  *)
CreditInTime ==
    /\ \A id \in DOMAIN credit.deals : credit.deals[id].latest_repay_time > credit_time
    /\ \A id \in DOMAIN credit.offers :
          credit.offers[id].enabled => credit.offers[id].auto_disable_time > credit_time

(* Rounding never works against a party that cannot choose the amount.  No *)
(* repayment leaves the rest of a debt with less collateral per unit than  *)
(* before; and a deal to be repaid automatically is forfeited only when    *)
(* its borrower cannot pay, with the fee, for all of it (full repayment)   *)
(* or for one more unit of its collateral (partial repayment).             *)
RepaymentsFair ==
    /\ ~credit'.unfair
    /\ \A id \in DOMAIN credit.deals \cap DOMAIN credit'.deals :
          credit'.deals[id].collateral_amount * credit.deals[id].debt_amount
             >= credit.deals[id].collateral_amount * credit'.deals[id].debt_amount

(* verify_asset_supplies: the balances, the unlent balances of the offers  *)
(* and the collateral of the deals hold what the accounts started with.    *)
CreditSupplies ==
    \A good \in Good :
        MapThenSumSet(LAMBDA acct : credit.balances[acct][good], Account)
          + MapThenSumSet(LAMBDA o : IF credit.offers[o].asset_type = good
                                     THEN credit.offers[o].current_balance ELSE 0,
                          DOMAIN credit.offers)
          + MapThenSumSet(LAMBDA id : IF credit.offers[credit.deals[id].offer_id].asset_type = good
                                      THEN 0 ELSE credit.deals[id].collateral_amount,
                          DOMAIN credit.deals)
        = MapThenSumSet(LAMBDA acct : CreditEndowment[acct][good], Account)
=============================================================================
