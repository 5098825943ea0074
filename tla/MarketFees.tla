----------------------------- MODULE MarketFees -----------------------------
(***************************************************************************)
(* The fee the issuer of an asset takes from a trade: how much it is, and  *)
(* who gets which part of it.                                              *)
(***************************************************************************)
EXTENDS Accounts, Integers

CONSTANTS
    Asset,              \* the traded assets
    Unset,              \* an optional field without a value
    MarketFeePercent,   \* asset options: the maker fee, in 1/10000
    TakerFeePercent,    \* asset options: the taker fee, or Unset
    MaxMarketFee,       \* asset options: the cap of one fee
    RewardPercent,      \* asset options: the part shared with the registrar
    NetworkPercent,     \* committee parameter: the part of the network
    Referral            \* per account, what pay_market_fees reads about it

HundredPercent == 10000
Percent        == 0..HundredPercent

(* Who a fee is paid to: the committee account's, the registrar's and the  *)
(* referrer's vesting balances, and accumulated_fees of the asset.         *)
Party == {"network", "registrar", "referrer", "issuer"}

ReferralData ==
    [allowed : BOOLEAN,          \* the asset shares fees for this registrar
     registrar_ok : BOOLEAN,     \* the registrar may hold the asset
     referrer_ok : BOOLEAN,      \* the referrer may, and is not the registrar
     referrer_percent : Percent] \* the referrer's part of the reward

ASSUME FeeAssumption ==
    /\ Unset \notin Percent
    /\ MarketFeePercent \in [Asset -> Percent]
    /\ TakerFeePercent \in [Asset -> Percent \cup {Unset}]
    /\ MaxMarketFee \in [Asset -> Nat]
    /\ RewardPercent \in [Asset -> Percent]
    /\ NetworkPercent \in Percent
    /\ Referral \in [Account -> ReferralData]

calculate_percent(amount, percent) == (amount * percent) \div HundredPercent

(* An asset that does not charge market fees has 0 percent here.           *)
calculate_market_fee(x, amount, is_maker) ==
    LET percent == IF is_maker \/ TakerFeePercent[x] = Unset
                   THEN MarketFeePercent[x]
                   ELSE TakerFeePercent[x]
        fee     == calculate_percent(amount, percent)
    IN  IF fee > MaxMarketFee[x] THEN MaxMarketFee[x] ELSE fee

(* pay_market_fees: the parts of a fee that was taken from the seller's    *)
(* trade in asset x.                                                       *)
(* A mutant: the network's part is paid out again as part of the rest.     *)
FeeParts_network_twice(seller, x, fee) ==
    [network |-> calculate_percent(fee, NetworkPercent), registrar |-> 0,
     referrer |-> 0, issuer |-> fee]

FeeParts(seller, x, fee) ==
    LET network  == calculate_percent(fee, NetworkPercent)
        rest     == fee - network
        reward   == IF Referral[seller].allowed /\ Referral[seller].registrar_ok
                    THEN calculate_percent(rest, RewardPercent[x])
                    ELSE 0
        referrer == IF Referral[seller].referrer_ok
                    THEN calculate_percent(reward, Referral[seller].referrer_percent)
                    ELSE 0
    IN  [network |-> network, registrar |-> reward - referrer,
         referrer |-> referrer, issuer |-> rest - reward]
=============================================================================
