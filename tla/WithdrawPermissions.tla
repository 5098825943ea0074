------------------------- MODULE WithdrawPermissions ------------------------
(***************************************************************************)
(* Withdrawal permissions: an account lets another one take up to a limit  *)
(* from its balance in every period.  The evaluators of create, claim,     *)
(* update and delete, and update_withdraw_permissions at the end of every  *)
(* block.                                                                  *)
(*                                                                         *)
(* One asset, also for the limit of an update.  Transactions are evaluated at the time of the block before. *)
(* The start of the period and what was claimed in it are caches that only *)
(* a claim brings up to date.                                              *)
(***************************************************************************)
EXTENDS Accounts, Integers, FiniteSetsExt

CONSTANTS
    block_interval,
    Offered,            \* bound: terms of permissions, see Terms_of_permit
    PermitEndowment,    \* initial balance of every account
    PermitAmounts,      \* bound: amounts claimed
    MaxPermits,         \* bound: number of permissions
    MaxPermitUpdates,   \* bound: number of updates
    MaxPermitTime       \* bound: time of the last block

Terms_of_permit == [withdrawal_limit : Nat \ {0}, withdrawal_period_sec : Nat \ {0},
                    periods_until_expiration : Nat \ {0}, period_start_time : Nat]

ASSUME PermitAssumption ==
    /\ Offered \subseteq Terms_of_permit
    /\ PermitAmounts \subseteq Nat \ {0}
    /\ {block_interval, PermitEndowment, MaxPermits, MaxPermitUpdates, MaxPermitTime} \subseteq Nat

VARIABLES
    permit_time,        \* head_block_time()
    permit_balances,
    permits,            \* a function from the ids of the permissions
    next_permit,
    permit_updates      \* bound: updates so far

permit_vars == <<permit_time, permit_balances, permits, next_permit, permit_updates>>

PermitId == 0..MaxPermits - 1

(* `base' and `claims' are history: the start of the first period by the   *)
(* terms in force, and what was claimed under them in each period.         *)
Expiration(t) == t.period_start_time + t.periods_until_expiration * t.withdrawal_period_sec

WithTerms(p, t) ==
    [p EXCEPT !.withdrawal_limit = t.withdrawal_limit, !.withdrawal_period_sec = t.withdrawal_period_sec,
              !.period_start_time = t.period_start_time, !.expiration = Expiration(t),
              !.base = t.period_start_time, !.claims = [n \in 0..MaxPermitTime |-> 0]]

available_this_period(p) ==
    IF permit_time >= p.period_start_time + p.withdrawal_period_sec THEN p.withdrawal_limit
    ELSE Max({p.withdrawal_limit - p.claimed_this_period, 0})

-----------------------------------------------------------------------------
withdraw_permission_create(from, to, t) ==
    /\ next_permit \in PermitId
    /\ from # to
    /\ t.period_start_time > permit_time
    /\ t.withdrawal_period_sec >= block_interval
    /\ permits' = [id \in DOMAIN permits \cup {next_permit} |->
                      IF id = next_permit
                      THEN WithTerms([withdraw_from_account |-> from, authorized_account |-> to,
                                      withdrawal_limit |-> 0, withdrawal_period_sec |-> 0,
                                      period_start_time |-> 0, expiration |-> 0, claimed_this_period |-> 0,
                                      base |-> 0, claims |-> 0], t)
                      ELSE permits[id]]
    /\ next_permit' = next_permit + 1
    /\ UNCHANGED <<permit_time, permit_balances, permit_updates>>

Claimed(p, amount) ==
    LET n == (permit_time - p.period_start_time) \div p.withdrawal_period_sec
    IN  [p EXCEPT !.period_start_time = @ + n * p.withdrawal_period_sec,
                  !.claimed_this_period = IF n = 0 THEN @ + amount ELSE amount]

withdraw_permission_claim(id, amount) ==
    /\ id \in DOMAIN permits
    /\ LET p == permits[id]
       IN  /\ p.expiration > permit_time
           /\ p.period_start_time <= permit_time
           /\ amount <= available_this_period(p)
           /\ permit_balances[p.withdraw_from_account] >= amount
           /\ permits' = [permits EXCEPT ![id] =
                 [Claimed(p, amount) EXCEPT
                    !.claims[(permit_time - p.base) \div p.withdrawal_period_sec] = @ + amount]]
           /\ permit_balances' = [permit_balances EXCEPT ![p.withdraw_from_account] = @ - amount,
                                                         ![p.authorized_account] = @ + amount]
    /\ UNCHANGED <<permit_time, next_permit, permit_updates>>

withdraw_permission_update(id, t) ==
    /\ id \in DOMAIN permits
    /\ permit_updates < MaxPermitUpdates
    /\ t.period_start_time >= permit_time
    /\ Expiration(t) > permit_time
    /\ t.withdrawal_period_sec >= block_interval
    /\ permits' = [permits EXCEPT ![id] = WithTerms(@, t)]
    /\ permit_updates' = permit_updates + 1
    /\ UNCHANGED <<permit_time, permit_balances, next_permit>>

withdraw_permission_delete(id) ==
    /\ id \in DOMAIN permits
    /\ permits' = [other \in DOMAIN permits \ {id} |-> permits[other]]
    /\ UNCHANGED <<permit_time, permit_balances, next_permit, permit_updates>>

(* The end of a block with this timestamp.                                 *)
update_withdraw_permissions(time) ==
    /\ time > permit_time
    /\ permit_time' = time
    /\ permits' = [id \in {i \in DOMAIN permits : permits[i].expiration > time} |-> permits[id]]
    /\ UNCHANGED <<permit_balances, next_permit, permit_updates>>

-----------------------------------------------------------------------------
PermitInit ==
    /\ permit_time = 0
    /\ permit_balances = [acct \in Account |-> PermitEndowment]
    /\ permits = [id \in {} |-> 0]
    /\ next_permit = 0 /\ permit_updates = 0

PermitNext ==
    \/ \E from, to \in Account, t \in Offered : withdraw_permission_create(from, to, t)
    \/ \E id \in PermitId, amount \in PermitAmounts : withdraw_permission_claim(id, amount)
    \/ \E id \in PermitId, t \in Offered : withdraw_permission_update(id, t)
    \/ \E id \in PermitId : withdraw_permission_delete(id)
    \/ \E time \in 1..MaxPermitTime : update_withdraw_permissions(time)

PermitSpec == PermitInit /\ [][PermitNext]_permit_vars

-----------------------------------------------------------------------------
(* Checked as part of PermitSupplies.                                      *)
PermitTypeOK ==
    /\ permit_time \in 0..MaxPermitTime
    /\ permit_balances \in [Account -> Nat]
    /\ DOMAIN permits \subseteq 0..next_permit - 1 /\ next_permit \in 0..MaxPermits
    /\ permit_updates \in 0..MaxPermitUpdates

PermitSupplies ==
    /\ PermitTypeOK
    /\ MapThenSumSet(LAMBDA acct : permit_balances[acct], Account) = PermitEndowment * Cardinality(Account)

(* An expired permission is gone.                                          *)
PermitsInTime == \A id \in DOMAIN permits : permits[id].expiration > permit_time

(* "Any number of withdrawals may be made so long as the total amount      *)
(* withdrawn per period does not exceed the limit for any given period",   *)
(* whenever the caches were last brought up to date.                       *)
LimitsKept ==
    \A id \in DOMAIN permits, n \in 0..MaxPermitTime :
        permits[id].claims[n] <= permits[id].withdrawal_limit
=============================================================================
