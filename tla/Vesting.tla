------------------------------ MODULE Vesting ------------------------------
(***************************************************************************)
(* Vesting balances: what their owners create and withdraw from, and what  *)
(* the chain pays into them: the parts of fees that referrers, registrars  *)
(* and lifetime referrers get, the pay of witnesses, and shared market     *)
(* fees.                                                                   *)
(*                                                                         *)
(* One asset.  Transactions are evaluated at the time of the block before. *)
(* The committee may change the vesting period of cashback at any time.    *)
(***************************************************************************)
EXTENDS Accounts, Integers, FiniteSetsExt

CONSTANTS
    Policies,           \* initializers of vesting policies that owners use, see Policy
    Periods,            \* values of cashback_vesting_period_seconds
    witness_pay_vesting_seconds,
    cashback_vesting_threshold,
    Members,            \* per account: who gets its fees, see Membership
    Reserved,           \* the chain's own accounts
    VestingEndowment,   \* per account, its initial balance
    WitnessBudget,      \* what the witnesses can be paid
    VestingAmounts,     \* bound: amounts paid in and out
    MaxVestings,        \* bound: number of vesting balances
    MaxDeposits,        \* bound: number of fees, payments and balances created
    MaxVestingTime      \* bound: time of the last block

Policy == [kind : {"linear"}, begin_timestamp : Nat, vesting_cliff_seconds : Nat,
           vesting_duration_seconds : Nat]
          \cup [kind : {"cdd"}, start_claim : Nat, vesting_seconds : Nat]
          \cup [kind : {"instant"}]

Membership == [lifetime_referrer : Account, referrer : Account, registrar : Account, referrer_basic : BOOLEAN,
               network_fee_percentage : Nat, lifetime_referrer_fee_percentage : Nat,
               referrer_rewards_percentage : Nat]

ASSUME VestingAssumption ==
    /\ Policies \subseteq Policy
    /\ Periods \subseteq Nat /\ \E most \in Periods : \A p \in Periods : p <= most   \* a uint32_t
    /\ {witness_pay_vesting_seconds, cashback_vesting_threshold, WitnessBudget, MaxVestings,
        MaxDeposits, MaxVestingTime} \subseteq Nat
    /\ Members \in [Account -> Membership]
    /\ \A acct \in Account : /\ Members[acct].network_fee_percentage
                                + Members[acct].lifetime_referrer_fee_percentage <= 10000
                             /\ Members[acct].referrer_rewards_percentage <= 10000
    /\ Reserved \subseteq Account
    /\ VestingEndowment \in [Account -> Nat]
    /\ VestingAmounts \subseteq Nat \ {0}

VARIABLES
    vesting_time,   \* head_block_time()
    period,         \* cashback_vesting_period_seconds
    vt              \* balances, vesting balances and fees, see VestingTypeOK

vesting_vars == <<vesting_time, period, vt>>

VestingId == 0..MaxVestings - 1
NoVesting == -1

AtLeast1(n) == Max({n, 1})

-----------------------------------------------------------------------------
(* vesting_balance_object.cpp.  A vesting balance v has its policy, and    *)
(* with coin days what it has earned; `taken' and `accrued' are history:   *)
(* what was withdrawn, and the coin seconds it has really stood for.       *)

TotalVested(v, now) ==
    LET elapsed == now - v.policy.begin_timestamp
    IN  IF elapsed < v.policy.vesting_duration_seconds
        THEN (v.begin_balance * elapsed) \div v.policy.vesting_duration_seconds
        ELSE v.begin_balance

LinearAllowed(v, now) ==
    IF /\ now > v.policy.begin_timestamp
       /\ now - v.policy.begin_timestamp >= v.policy.vesting_cliff_seconds
    THEN TotalVested(v, now) - (v.begin_balance - v.balance)
    ELSE 0

compute_coin_seconds_earned(v, now) ==
    Min({v.earned + v.balance * (now - v.last_update), v.balance * AtLeast1(v.policy.vesting_seconds)})

update_coin_seconds_earned(v, now) ==
    [v EXCEPT !.earned = compute_coin_seconds_earned(v, now), !.last_update = now]

CddAllowed(v, now) ==
    IF now <= v.policy.start_claim THEN 0
    ELSE compute_coin_seconds_earned(v, now) \div AtLeast1(v.policy.vesting_seconds)

get_allowed_withdraw(v, now) ==
    CASE v.policy.kind = "linear"  -> LinearAllowed(v, now)
      [] v.policy.kind = "cdd"     -> CddAllowed(v, now)
      [] v.policy.kind = "instant" -> v.balance

withdraw(v, now, amount) ==
    [(IF v.policy.kind = "cdd"
      THEN [update_coin_seconds_earned(v, now) EXCEPT
               !.earned = @ - amount * AtLeast1(v.policy.vesting_seconds)]
      ELSE v) EXCEPT !.balance = @ - amount, !.taken = @ + amount]

deposit(v, now, amount) ==
    [(IF v.policy.kind = "cdd" THEN update_coin_seconds_earned(v, now) ELSE v)
     EXCEPT !.balance = @ + amount]

deposit_vested(v, now, amount) ==
    IF v.policy.kind = "cdd"
    THEN LET earned == amount * AtLeast1(v.policy.vesting_seconds)
         IN  [deposit(v, now, amount) EXCEPT !.earned = @ + earned, !.accrued = @ + earned]
    ELSE deposit(v, now, amount)

NewVesting(owner, amount, type, policy, earned, now) ==
    [owner |-> owner, balance |-> amount, balance_type |-> type, policy |-> policy,
     begin_balance |-> amount, earned |-> earned, last_update |-> now, taken |-> 0, accrued |-> earned]

-----------------------------------------------------------------------------
(* db_balance.cpp, on the record s of balances                             *)

Set(s, id, v) ==
    [s EXCEPT !.vbos = [i \in DOMAIN s.vbos \cup {id} |-> IF i = id THEN v ELSE s.vbos[i]]]
Add(s, v) == [Set(s, s.next_id, v) EXCEPT !.next_id = @ + 1]

Fits(s, id, owner, seconds) ==
    /\ id # NoVesting
    /\ s.vbos[id].owner = owner
    /\ s.vbos[id].policy.kind = "cdd" /\ s.vbos[id].policy.vesting_seconds = seconds

(* Into the vesting balance in use if it fits, else into a new one, which  *)
(* is then the one in use: what is its id.                                 *)
deposit_lazy_vesting(s, use, type, owner, seconds, amount, require_vesting, now) ==
    LET id == s[use][owner]
    IN  IF amount = 0 THEN s
        ELSE IF Fits(s, id, owner, seconds)
        THEN Set(s, id, IF require_vesting THEN deposit(s.vbos[id], now, amount)
                        ELSE deposit_vested(s.vbos[id], now, amount))
        ELSE [Add(s, NewVesting(owner, amount, type,
                                [kind |-> "cdd", start_claim |-> 0, vesting_seconds |-> seconds],
                                IF require_vesting THEN 0 ELSE amount * seconds, now))
              EXCEPT ![use][owner] = s.next_id]

deposit_cashback(s, acct, amount, require_vesting, now) ==
    IF amount = 0 THEN s
    ELSE IF acct \in Reserved THEN [s EXCEPT !.supply = @ - amount]
    ELSE deposit_lazy_vesting(s, "cashback_vb", "cashback", acct, period, amount, require_vesting, now)

MarketFeeVestings(s, acct) ==
    {id \in DOMAIN s.vbos : s.vbos[id].owner = acct /\ s.vbos[id].balance_type = "market_fee_sharing"}

deposit_market_fee_vesting_balance(s, acct, amount, now) ==
    IF amount = 0 THEN s
    ELSE IF MarketFeeVestings(s, acct) = {}
    THEN Add(s, NewVesting(acct, amount, "market_fee_sharing", [kind |-> "instant"], 0, now))
    ELSE LET id == CHOOSE id \in MarketFeeVestings(s, acct) : TRUE
         IN  Set(s, id, deposit_vested(s.vbos[id], now, amount))

-----------------------------------------------------------------------------
(* account_object.cpp                                                      *)

cut_fee(a, p) == (a * p) \div 10000

pay_out_fees(s, acct, core_fee_total, require_vesting, now) ==
    LET m == Members[acct]
        referrer == IF m.referrer_basic THEN m.lifetime_referrer ELSE m.referrer
        network_cut == cut_fee(core_fee_total, m.network_fee_percentage)
        lifetime_cut == cut_fee(core_fee_total, m.lifetime_referrer_fee_percentage)
        referral == core_fee_total - network_cut - lifetime_cut
        referrer_cut == cut_fee(referral, m.referrer_rewards_percentage)
        To(t, who, cut) == deposit_cashback(t, who, cut, require_vesting, now)
    IN  To(To(To([s EXCEPT !.accumulated_fees = @ + network_cut],
                 m.lifetime_referrer, lifetime_cut),
              referrer, referrer_cut),
           m.registrar, referral - referrer_cut)

(* Room for the vesting balances that one step may create.                 *)
Room(n) == vt.next_id + n <= MaxVestings

process_fees(acct) ==
    /\ vt.pending_fees[acct] > 0 \/ vt.pending_vested_fees[acct] > 0
    /\ Room(3)
    /\ vt' = [pay_out_fees(pay_out_fees(vt, acct, vt.pending_fees[acct], TRUE, vesting_time),
                           acct, vt.pending_vested_fees[acct], FALSE, vesting_time)
              EXCEPT !.pending_fees[acct] = 0, !.pending_vested_fees[acct] = 0]
    /\ UNCHANGED <<vesting_time, period>>

pay_fee(acct, core_fee) ==
    /\ vt.deposits < MaxDeposits
    /\ vt.balances[acct] >= core_fee
    /\ vt' = [vt EXCEPT !.balances[acct] = @ - core_fee, !.deposits = @ + 1,
                        ![IF core_fee > cashback_vesting_threshold THEN "pending_fees"
                          ELSE "pending_vested_fees"][acct] = @ + core_fee]
    /\ UNCHANGED <<vesting_time, period>>

deposit_witness_pay(acct, amount) ==
    /\ vt.deposits < MaxDeposits
    /\ amount <= vt.witness_budget
    /\ Room(1)
    /\ vt' = deposit_lazy_vesting([vt EXCEPT !.witness_budget = @ - amount, !.deposits = @ + 1],
                                  "pay_vb", "witness", acct, witness_pay_vesting_seconds, amount,
                                  TRUE, vesting_time)
    /\ UNCHANGED <<vesting_time, period>>

(* A market fee that is shared with an account.                            *)
pay_market_fee(payer, acct, amount) ==
    /\ vt.deposits < MaxDeposits
    /\ vt.balances[payer] >= amount
    /\ Room(1)
    /\ vt' = deposit_market_fee_vesting_balance(
                [vt EXCEPT !.balances[payer] = @ - amount, !.deposits = @ + 1], acct, amount, vesting_time)
    /\ UNCHANGED <<vesting_time, period>>

-----------------------------------------------------------------------------
(* vesting_balance_evaluator.cpp                                           *)

vesting_balance_create(creator, owner, amount, policy) ==
    /\ vt.deposits < MaxDeposits
    /\ Room(1)
    /\ vt.balances[creator] >= amount
    /\ vt' = Add([vt EXCEPT !.balances[creator] = @ - amount, !.deposits = @ + 1],
                 NewVesting(owner, amount, "unspecified", policy, 0, vesting_time))
    /\ UNCHANGED <<vesting_time, period>>

vesting_balance_withdraw(owner, id, amount) ==
    /\ id \in DOMAIN vt.vbos
    /\ vt.vbos[id].owner = owner
    /\ amount <= get_allowed_withdraw(vt.vbos[id], vesting_time)
    /\ vt' = [Set(vt, id, withdraw(vt.vbos[id], vesting_time, amount)) EXCEPT !.balances[owner] = @ + amount]
    /\ UNCHANGED <<vesting_time, period>>

ChangePeriod(seconds) ==
    /\ period # seconds /\ period' = seconds
    /\ UNCHANGED <<vesting_time, vt>>

(* A block: the time moves on.                                             *)
vesting_block ==
    /\ vesting_time < MaxVestingTime
    /\ vesting_time' = vesting_time + 1
    /\ vt' = [vt EXCEPT !.vbos = [id \in DOMAIN vt.vbos |->
                                     [vt.vbos[id] EXCEPT !.accrued =
                                         @ + (IF vt.vbos[id].policy.kind = "cdd"
                                              THEN vt.vbos[id].balance ELSE 0)]]]
    /\ UNCHANGED period

-----------------------------------------------------------------------------
Supply == MapThenSumSet(LAMBDA acct : VestingEndowment[acct], Account) + WitnessBudget

VestingInit ==
    /\ vesting_time = 1     \* 0 is the start of the epoch, when every claim is too early
    /\ period = Max(Periods)
    /\ vt = [balances |-> VestingEndowment, vbos |-> [id \in {} |-> 0], next_id |-> 0,
             cashback_vb |-> [acct \in Account |-> NoVesting], pay_vb |-> [acct \in Account |-> NoVesting],
             pending_fees |-> [acct \in Account |-> 0], pending_vested_fees |-> [acct \in Account |-> 0],
             accumulated_fees |-> 0, witness_budget |-> WitnessBudget, supply |-> Supply, deposits |-> 0]

VestingNext ==
    \/ \E acct \in Account : process_fees(acct)
    \/ \E acct \in Account, n \in VestingAmounts : pay_fee(acct, n) \/ deposit_witness_pay(acct, n)
    \/ \E payer, acct \in Account, n \in VestingAmounts : pay_market_fee(payer, acct, n)
    \/ \E creator, owner \in Account, n \in VestingAmounts, policy \in Policies :
          vesting_balance_create(creator, owner, n, policy)
    \/ \E owner \in Account, id \in VestingId, n \in VestingAmounts : vesting_balance_withdraw(owner, id, n)
    \/ \E seconds \in Periods : ChangePeriod(seconds)
    \/ vesting_block

VestingSpec == VestingInit /\ [][VestingNext]_vesting_vars

-----------------------------------------------------------------------------
(* Checked as part of VestingSupplies.                                     *)
VestingTypeOK ==
    /\ vesting_time \in 1..MaxVestingTime /\ period \in Periods
    /\ vt.next_id \in 0..MaxVestings /\ DOMAIN vt.vbos = 0..vt.next_id - 1
    /\ {vt.balances, vt.pending_fees, vt.pending_vested_fees} \subseteq [Account -> Nat]
    /\ \A id \in DOMAIN vt.vbos : vt.vbos[id].balance \in Nat /\ vt.vbos[id].earned \in Nat
    /\ \A acct \in Account : {vt.cashback_vb[acct], vt.pay_vb[acct]} \subseteq DOMAIN vt.vbos \cup {NoVesting}

VestingSupplies ==
    /\ VestingTypeOK
    /\ MapThenSumSet(LAMBDA acct : vt.balances[acct] + vt.pending_fees[acct]
                                     + vt.pending_vested_fees[acct], Account)
         + MapThenSumSet(LAMBDA id : vt.vbos[id].balance, DOMAIN vt.vbos)
         + vt.accumulated_fees + vt.witness_budget
       = vt.supply

(* Nothing can be withdrawn that has not vested, whatever was paid in and  *)
(* out before: with coin days, no more than the coins have earned by being *)
(* there or were given as earned; linearly, no more than the part of the   *)
(* duration that has passed, and nothing before the cliff.  What may be    *)
(* withdrawn is never negative and never above the balance.                *)
VestedOnly ==
    \A id \in DOMAIN vt.vbos :
       LET v == vt.vbos[id]
       IN  /\ get_allowed_withdraw(v, vesting_time) \in 0..v.balance
           /\ v.policy.kind = "cdd" =>
                 /\ v.taken * AtLeast1(v.policy.vesting_seconds) <= v.accrued
                 /\ v.taken > 0 => vesting_time > v.policy.start_claim
           /\ v.policy.kind = "linear" /\ v.taken > 0 =>
                 /\ vesting_time >= v.policy.begin_timestamp + v.policy.vesting_cliff_seconds
                 /\ v.taken * v.policy.vesting_duration_seconds
                       <= v.begin_balance * (vesting_time - v.policy.begin_timestamp)
                    \/ vesting_time >= v.policy.begin_timestamp + v.policy.vesting_duration_seconds
=============================================================================
