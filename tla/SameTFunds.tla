----------------------------- MODULE SameTFunds -----------------------------
(***************************************************************************)
(* SameT funds: funds that lend within one transaction.  The evaluators of *)
(* the samet_fund operations, and the check for unpaid debt that ends      *)
(* _apply_transaction and push_proposal.                                   *)
(*                                                                         *)
(* A transaction is a sequence of operations in an undo session; one of    *)
(* them may execute a proposal, whose operations run in a session nested   *)
(* in it.  A proposal that fails is undone alone, a transaction with all   *)
(* it did.  Funds of one asset; is_authorized_asset only ever refuses an   *)
(* operation, which then fails the session it is in.                       *)
(***************************************************************************)
EXTENDS Accounts, Integers, Sequences, FiniteSetsExt

CONSTANTS
    FeeRateDenom,       \* GRAPHENE_FEE_RATE_DENOM
    FeeRates,           \* fee rates of funds
    FundEndowment,      \* initial balance of every account
    FundAmounts,        \* bound: amounts in operations
    MaxFunds,           \* bound: number of funds
    MaxTransactions,    \* bound: number of transactions
    MaxOperations       \* bound: operations of a transaction

ASSUME FundAssumption ==
    /\ FeeRateDenom \in Nat \ {0} /\ FeeRates \subseteq Nat
    /\ FundEndowment \in Nat /\ FundAmounts \subseteq Nat \ {0}
    /\ MaxFunds \in Nat /\ MaxTransactions \in Nat /\ MaxOperations \in Nat

VARIABLES
    samet,      \* balances and funds, see FundTypeOK
    sessions,   \* the states to go back to: of the transaction, of a proposal
    done        \* the number of transactions, and of operations in this one

fund_vars == <<samet, sessions, done>>

FundId == 0..MaxFunds - 1

Fund == [owner_account : Account, balance : Nat, fee_rate : Nat, unpaid_amount : Nat]

(* One more operation of the transaction or proposal.                      *)
Operation(s) ==
    /\ sessions # << >>
    /\ done[2] < MaxOperations
    /\ samet' = s
    /\ done' = [done EXCEPT ![2] = @ + 1]
    /\ UNCHANGED sessions

Paid(s, acct, delta) == [s EXCEPT !.balances[acct] = @ + delta]

-----------------------------------------------------------------------------
samet_fund_create(owner, amount, rate) ==
    /\ samet.next_id \in FundId
    /\ samet.balances[owner] >= amount
    /\ Operation([Paid(samet, owner, -amount) EXCEPT
          !.funds = [id \in DOMAIN @ \cup {samet.next_id} |->
                        IF id \in DOMAIN @ THEN @[id]
                        ELSE [owner_account |-> owner, balance |-> amount,
                              fee_rate |-> rate, unpaid_amount |-> 0]],
          !.touched = @ \cup {samet.next_id},
          !.next_id = @ + 1])

samet_fund_delete(id) ==
    LET fund == samet.funds[id] IN
    /\ id \in DOMAIN samet.funds
    /\ fund.unpaid_amount = 0
    /\ Operation([Paid(samet, fund.owner_account, fund.balance) EXCEPT
          !.funds = [i \in DOMAIN @ \ {id} |-> @[i]]])

(* delta 0 stands for an update that changes the fee rate only, and the    *)
(* rate the fund has for one that does not change it.                      *)
samet_fund_update(id, delta, rate) ==
    LET fund == samet.funds[id] IN
    /\ id \in DOMAIN samet.funds
    /\ delta # 0 => fund.unpaid_amount = 0
    /\ delta > 0 => samet.balances[fund.owner_account] >= delta
    /\ delta < 0 => fund.balance > -delta
    /\ delta # 0 \/ rate # fund.fee_rate
    /\ Operation([Paid(samet, fund.owner_account, -delta) EXCEPT
          !.funds[id].balance = @ + delta,
          !.funds[id].fee_rate = rate,
          !.touched = @ \cup {id}])

samet_fund_borrow(id, borrower, amount) ==
    LET fund == samet.funds[id] IN
    /\ id \in DOMAIN samet.funds
    /\ fund.balance >= fund.unpaid_amount + amount
    /\ Operation([Paid(samet, borrower, amount) EXCEPT
          !.funds[id].unpaid_amount = @ + amount,
          !.lent[id] = @ + amount])

(* A mutant: the fee of a repayment is rounded down.                       *)
RequiredFundFee_down(fund, amount) == (amount * fund.fee_rate) \div FeeRateDenom

RequiredFundFee(fund, amount) == (amount * fund.fee_rate + FeeRateDenom - 1) \div FeeRateDenom

samet_fund_repay(id, acct, amount, fee) ==
    LET fund == samet.funds[id] IN
    /\ id \in DOMAIN samet.funds
    /\ amount <= fund.unpaid_amount
    /\ fee >= RequiredFundFee(fund, amount)
    /\ samet.balances[acct] >= amount + fee
    /\ Operation([Paid(samet, acct, -(amount + fee)) EXCEPT
          !.funds[id].balance = @ + fee,
          !.funds[id].unpaid_amount = @ - amount])

-----------------------------------------------------------------------------
(* Transactions, and proposals executed by one of their operations.        *)

Begin ==
    /\ sessions = << >>
    /\ done[1] < MaxTransactions
    /\ sessions' = <<samet>>
    /\ samet' = [samet EXCEPT !.lent = [id \in FundId |-> 0], !.touched = {}]
    /\ done' = <<done[1] + 1, 0>>

push_proposal_begin ==
    /\ Len(sessions) = 1
    /\ done[2] < MaxOperations
    /\ sessions' = Append(sessions, samet)
    /\ UNCHANGED <<samet, done>>

NothingUnpaid == \A id \in DOMAIN samet.funds : samet.funds[id].unpaid_amount = 0

OuterSessions == SubSeq(sessions, 1, Len(sessions) - 1)

(* The end of the operations of the innermost session.                     *)
Merge ==
    /\ sessions # << >>
    /\ NothingUnpaid
    /\ sessions' = OuterSessions
    /\ UNCHANGED <<samet, done>>

(* Debt is left, or an operation threw.                                    *)
UndoSession ==
    /\ sessions # << >>
    /\ samet' = sessions[Len(sessions)]
    /\ sessions' = OuterSessions
    /\ UNCHANGED done

FundInit ==
    /\ samet = [balances |-> [acct \in Account |-> FundEndowment],
                funds |-> [id \in {} |-> 0], next_id |-> 0,
                lent |-> [id \in FundId |-> 0], touched |-> {}]
    /\ sessions = << >>
    /\ done = <<0, 0>>

FundNext ==
    \/ \E acct \in Account, n \in FundAmounts, r \in FeeRates : samet_fund_create(acct, n, r)
    \/ \E id \in FundId : samet_fund_delete(id)
    \/ \E id \in FundId, n \in FundAmounts \cup {0}, s \in {-1, 1}, r \in FeeRates :
          samet_fund_update(id, s * n, r)
    \/ \E id \in FundId, acct \in Account, n \in FundAmounts : samet_fund_borrow(id, acct, n)
    \/ \E id \in FundId, acct \in Account, n \in FundAmounts, fee \in FundAmounts \cup {0} :
          samet_fund_repay(id, acct, n, fee)
    \/ Begin
    \/ push_proposal_begin
    \/ Merge
    \/ UndoSession

FundSpec == FundInit /\ [][FundNext]_fund_vars

-----------------------------------------------------------------------------
(* Checked as part of FundSupplies.                                        *)
FundTypeOK ==
    /\ samet.balances \in [Account -> Nat]
    /\ DOMAIN samet.funds \subseteq FundId
    /\ \A id \in DOMAIN samet.funds : samet.funds[id] \in Fund
    /\ samet.lent \in [FundId -> Nat] /\ samet.touched \subseteq FundId
    /\ Len(sessions) <= 2

(* "Unpaid SameT Fund debt detected": when a transaction ends, nothing is  *)
(* owed to any fund, and a fund its owner did not change in it has gained  *)
(* at least its fee rate of all that was lent, however the loan was split  *)
(* into repayments, by whomever, in the transaction or in the proposals it *)
(* executed.                                                               *)
LoansRepaid ==
    [][Len(sessions) = 1 /\ sessions' = << >> =>
          \A id \in DOMAIN samet'.funds :
             /\ samet'.funds[id].unpaid_amount = 0
             /\ id \in DOMAIN sessions[1].funds /\ id \notin samet.touched /\ samet' = samet =>
                   (samet'.funds[id].balance - sessions[1].funds[id].balance) * FeeRateDenom
                      >= samet.lent[id] * samet.funds[id].fee_rate]_fund_vars

(* verify_asset_supplies: what the accounts hold and what is in the funds  *)
(* and not lent add up, in the middle of a transaction too.                *)
FundSupplies ==
    /\ FundTypeOK
    /\ MapThenSumSet(LAMBDA acct : samet.balances[acct], Account)
          + MapThenSumSet(LAMBDA id : samet.funds[id].balance - samet.funds[id].unpaid_amount,
                          DOMAIN samet.funds)
       = MapThenSumSet(LAMBDA acct : FundEndowment, Account)
=============================================================================
