---------------------------- MODULE MCContracts ----------------------------
(***************************************************************************)
(* The objects that hold what belongs to accounts, or act for them, each   *)
(* on a small instance: a liquidity pool, hashed time-lock contracts,      *)
(* credit offers, a SameT fund, tickets, vesting balances, withdrawal      *)
(* permissions, proposals.  Each of them has its own                       *)
(* accounts' balances and clock and shares no other state with the others, *)
(* so a behaviour is one of a single component: `component' says which,    *)
(* and the rest stay as they were at the start.                            *)
(***************************************************************************)
EXTENDS LiquidityPool, Htlc, CreditOffers, SameTFunds, Tickets, Vesting, WithdrawPermissions,
        Proposals

CONSTANTS alice, bob, secret

VARIABLE component

-----------------------------------------------------------------------------
(* Liquidity pool: alice owns it.  Both assets charge market fees high     *)
(* enough to be positive on small trades; those of b are shared with the   *)
(* registrar and with bob's referrer.                                      *)

MCAsset == {"a", "b"}
MCPoolEndowment == [acct \in Account |->
                       IF acct = alice THEN [x \in MCAsset |-> IF x = "a" THEN 3 ELSE 4]
                                       ELSE [x \in MCAsset |-> IF x = "a" THEN 1 ELSE 2]]
MCMarketFeePercent == [x \in MCAsset |-> IF x = "a" THEN 4000 ELSE 7000]
MCTakerFeePercent == [x \in MCAsset |-> IF x = "a" THEN Unset ELSE 4000]
MCMaxMarketFee == [x \in MCAsset |-> 3]
MCRewardPercent == [x \in MCAsset |-> IF x = "a" THEN 0 ELSE 10000]
MCReferral == [acct \in Account |->
                  [allowed |-> TRUE, registrar_ok |-> TRUE, referrer_ok |-> acct = bob,
                   referrer_percent |-> 10000]]

(* Contracts: two parties swap under one secret, which alice made; bob     *)
(* redeems as soon as the secret is public.                                *)

MCMaker == [x \in Secret |-> alice]

(* Credit offers: alice lends a, bob has the collateral.  One offer is     *)
(* free and short, the other costs a fee and lends bob at most 2.          *)

MCTerms ==
    {[fee_rate |-> 0, max_duration_seconds |-> 1, min_deal_amount |-> 0,
      acceptable_borrowers |-> [x \in {} |-> 0]],
     [fee_rate |-> 1, max_duration_seconds |-> 2, min_deal_amount |-> 1,
      acceptable_borrowers |-> [x \in {bob} |-> 2]]}
MCCollateral == [good \in Good |-> [base |-> IF good = "a" THEN 2 ELSE 1, quote |-> 1]]
MCCreditEndowment == [acct \in Account |->
                         IF acct = alice THEN [good \in Good |-> IF good = "a" THEN 3 ELSE 0]
                                         ELSE [good \in Good |-> IF good = "a" THEN 1 ELSE 2]]

(* Tickets: alice locks two tokens, which she may split.  All charging     *)
(* steps are short; the longer a lock, the longer its downgrades.          *)

MCDowngrade == [type \in 0..2 |-> IF type = 2 THEN 2 ELSE 1]
MCTicketEndowment == [acct \in Account |-> IF acct = alice THEN 2 ELSE 0]

(* Vesting balances: alice pays the fees, and gets part of them back; bob  *)
(* stands for the chain's own accounts.                                    *)

MCPolicies ==
    {[kind |-> "linear", begin_timestamp |-> 1, vesting_cliff_seconds |-> 1, vesting_duration_seconds |-> 3],
     [kind |-> "cdd", start_claim |-> 2, vesting_seconds |-> 2]}
MCMembers == [acct \in Account |->
                 [lifetime_referrer |-> alice, referrer |-> alice, registrar |-> bob,
                  referrer_basic |-> acct = bob, network_fee_percentage |-> 2000,
                  lifetime_referrer_fee_percentage |-> 4000, referrer_rewards_percentage |-> 5000]]
MCVestingEndowment == [acct \in Account |-> IF acct = alice THEN 4 ELSE 0]

(* Withdrawal permissions: long and short periods, that begin sooner or    *)
(* later.                                                                  *)

MCOffered ==
    {[withdrawal_limit |-> limit, withdrawal_period_sec |-> seconds, periods_until_expiration |-> 2,
      period_start_time |-> start] : limit \in {1, 2}, seconds \in {1, 2}, start \in {1, 3}}

(* Proposals act for one or both accounts, approve or veto earlier         *)
(* proposals, and do so before or after something that can fail.           *)

Act(a)         == [type |-> "act", acct |-> a]
On(what, a, i) == [type |-> what, acct |-> a, id |-> i]

MCProposable ==
    {<<Act(alice), Act(bob)>>, <<On("approve", bob, 0), Act(alice)>>,
     <<On("veto", alice, 0), Act(alice)>>, <<On("revoke", alice, 0), Act(alice)>>,
     <<On("approve", alice, 1)>>}

-----------------------------------------------------------------------------
Init ==
    /\ PoolInit /\ HtlcInit /\ CreditInit /\ FundInit /\ TicketInit
    /\ VestingInit /\ PermitInit /\ ProposalInit
    /\ component \in {"pool", "htlc", "credit", "fund", "ticket", "vesting", "permit", "proposal"}

Pool_step ==
    /\ component = "pool" /\ PoolNext
    /\ UNCHANGED <<htlc_vars, credit_vars, fund_vars, ticket_vars,
                   vesting_vars, permit_vars, proposal_vars, component>>

Htlc_step ==
    /\ component = "htlc" /\ HtlcNext
    /\ UNCHANGED <<pool_vars, credit_vars, fund_vars, ticket_vars,
                   vesting_vars, permit_vars, proposal_vars, component>>

Credit_step ==
    /\ component = "credit" /\ CreditNext
    /\ UNCHANGED <<pool_vars, htlc_vars, fund_vars, ticket_vars,
                   vesting_vars, permit_vars, proposal_vars, component>>

Fund_step ==
    /\ component = "fund" /\ FundNext
    /\ UNCHANGED <<pool_vars, htlc_vars, credit_vars, ticket_vars,
                   vesting_vars, permit_vars, proposal_vars, component>>

Ticket_step ==
    /\ component = "ticket" /\ TicketNext
    /\ UNCHANGED <<pool_vars, htlc_vars, credit_vars, fund_vars,
                   vesting_vars, permit_vars, proposal_vars, component>>

Vesting_step ==
    /\ component = "vesting" /\ VestingNext
    /\ UNCHANGED <<pool_vars, htlc_vars, credit_vars, fund_vars,
                   ticket_vars, permit_vars, proposal_vars, component>>

Permit_step ==
    /\ component = "permit" /\ PermitNext
    /\ UNCHANGED <<pool_vars, htlc_vars, credit_vars, fund_vars,
                   ticket_vars, vesting_vars, proposal_vars, component>>

Proposal_step ==
    /\ component = "proposal" /\ ProposalNext
    /\ UNCHANGED <<pool_vars, htlc_vars, credit_vars, fund_vars,
                   ticket_vars, vesting_vars, permit_vars, component>>

Next == Pool_step \/ Htlc_step \/ Credit_step \/ Fund_step
        \/ Ticket_step \/ Vesting_step \/ Permit_step \/ Proposal_step

Spec == Init /\ [][Next]_<<pool_vars, htlc_vars, credit_vars, fund_vars,
                           ticket_vars, vesting_vars, permit_vars, proposal_vars, component>>

-----------------------------------------------------------------------------
(* The invariants of the component at work; the others are as they were    *)
(* at the start.                                                           *)

(* verify_asset_supplies, for the objects that hold part of a supply:      *)
(* nothing is created or lost, and every contract pays out exactly once.   *)
Supplies ==
    CASE component = "pool" -> PoolSupplies
      [] component = "htlc" -> HtlcSupplies
      [] component = "credit" -> CreditSupplies
      [] component = "fund" -> FundSupplies
      [] component = "ticket" -> TicketSupplies
      [] component = "vesting" -> VestingSupplies
      [] component = "permit" -> PermitSupplies
      [] component = "proposal" -> TRUE

(* The totals that objects keep of others agree with them after every      *)
(* operation: the virtual value of a pool and its shares, what an offer    *)
(* has lent and what each borrower owes it, the votes and locked amounts   *)
(* of the accounts.                                                        *)
TotalsAgree ==
    /\ component = "pool" => PoolConsistent
    /\ component = "credit" => OffersConsistent
    /\ component = "ticket" => TicketTotals

(* Because every block clears what has expired, no operation looks at the  *)
(* clock before it uses a contract, a deal, an offer, a ticket or a        *)
(* proposal: what is still there has not expired.                          *)
NothingPastDue ==
    /\ component = "htlc" => RedeemableMeansInTime
    /\ component = "credit" => CreditInTime
    /\ component = "ticket" => TicketsInTime
    /\ component = "permit" => PermitsInTime
    /\ component = "proposal" => ExpiredAreGone

(* What was locked or limited in time stays so, whatever its owner does    *)
(* meanwhile: tickets, vesting balances and withdrawal permissions give    *)
(* out no more, and no sooner, than their terms say.                       *)
LocksHonoured ==
    /\ component = "ticket" => TicketLocks
    /\ component = "vesting" => VestedOnly
    /\ component = "permit" => LimitsKept

(* Rounding takes nothing from those who have no say in the amount: the    *)
(* other shareholders of a pool, the lender and the borrower of a deal.    *)
RoundingIsFair == [][ValuePerShareKept /\ RepaymentsFair]_<<pool_vars, credit_vars>>
=============================================================================
