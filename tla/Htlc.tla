-------------------------------- MODULE Htlc --------------------------------
(***************************************************************************)
(* Hashed time-lock contracts: the evaluators of htlc_create, htlc_redeem  *)
(* and htlc_extend, and clear_expired_htlcs at the end of every block.     *)
(*                                                                         *)
(* Transactions are evaluated at head_block_time(), the time of the block  *)
(* before; the time moves when a block ends, and then the expired          *)
(* contracts are refunded.  htlc_redeem itself does not look at the clock. *)
(*                                                                         *)
(* A preimage is a secret.  Whoever made it knows it; the block that       *)
(* redeems with it publishes it to everybody.  The accounts in Diligent    *)
(* redeem what they can in the next block; this is an assumption about the *)
(* users, as is the bound MaxGap on the time between two blocks.  They are *)
(* what SwapsAreAtomic is about.                                           *)
(***************************************************************************)
EXTENDS Accounts, Integers, FiniteSetsExt

CONSTANTS
    Secret,
    Maker,          \* per secret, the account that made it
    Diligent,       \* accounts that redeem as soon as they can
    HtlcEndowment,      \* initial balance of every account
    max_timeout,    \* htlc_options::max_timeout_secs
    MaxGap,         \* assumption: longest time between two blocks
    MaxHtlcTime,        \* bound: time of the last block
    MaxHtlc,        \* bound: number of contracts
    HtlcAmounts         \* bound: amounts of contracts

ASSUME HtlcAssumption ==
    /\ Maker \in [Secret -> Account]
    /\ Diligent \subseteq Account
    /\ HtlcEndowment \in Nat /\ max_timeout \in Nat /\ MaxHtlcTime \in Nat /\ MaxHtlc \in Nat
    /\ MaxGap \in Nat \ {0}
    /\ HtlcAmounts \subseteq Nat \ {0}

VARIABLES
    now,        \* head_block_time()
    htlc_balances,
    htlcs,      \* the live contracts: a function from their ids
    next_id,
    published,  \* secrets revealed by the blocks so far
    revealed,   \* secrets revealed by the block being applied
    owed,       \* history: contracts whose counterpart was redeemed in time
    refunded    \* history: contracts that were refunded

htlc_vars == <<now, htlc_balances, htlcs, next_id, published, revealed, owed, refunded>>

HtlcId == 0..MaxHtlc - 1
Contract ==
    [from : Account, to : Account, amount : Nat, preimage_hash : Secret, expiration : Nat]

LiveHtlcs == DOMAIN htlcs

Without(ids) == [id \in LiveHtlcs \ ids |-> htlcs[id]]

Knows(acct, secret) == Maker[secret] = acct \/ secret \in published

-----------------------------------------------------------------------------
htlc_create(from, to, amount, hash, claim_period) ==
    /\ next_id \in HtlcId
    /\ claim_period <= max_timeout
    /\ htlc_balances[from] >= amount
    /\ htlc_balances' = [htlc_balances EXCEPT ![from] = @ - amount]
    /\ htlcs' = [id \in LiveHtlcs \cup {next_id} |->
                    IF id = next_id
                    THEN [from |-> from, to |-> to, amount |-> amount, preimage_hash |-> hash,
                          expiration |-> now + claim_period]
                    ELSE htlcs[id]]
    /\ next_id' = next_id + 1
    /\ UNCHANGED <<now, published, revealed, owed, refunded>>

(* The other contracts under the same hash that pay the party this         *)
(* redemption takes from, and that run more than MaxGap longer.            *)
Counterparts(id) ==
    {other \in LiveHtlcs \ {id} :
        /\ htlcs[other].preimage_hash = htlcs[id].preimage_hash
        /\ htlcs[other].to = htlcs[id].from
        /\ htlcs[other].to \in Diligent
        /\ htlcs[other].expiration > htlcs[id].expiration + MaxGap}

(* Anybody who shows the preimage redeems, for the receiver.               *)
htlc_redeem(acct, id) ==
    /\ id \in LiveHtlcs
    /\ Knows(acct, htlcs[id].preimage_hash)
    /\ htlc_balances' = [htlc_balances EXCEPT ![htlcs[id].to] = @ + htlcs[id].amount]
    /\ htlcs' = Without({id})
    /\ revealed' = revealed \cup {htlcs[id].preimage_hash}
    /\ owed' = owed \cup Counterparts(id)
    /\ UNCHANGED <<now, next_id, published, refunded>>

(* A mutant: the limit holds for the extension, not for the contract.      *)
htlc_extend_again(acct, id, seconds) ==
    /\ id \in LiveHtlcs
    /\ acct = htlcs[id].from
    /\ seconds <= max_timeout
    /\ htlcs' = [htlcs EXCEPT ![id].expiration = @ + seconds]
    /\ UNCHANGED <<now, htlc_balances, next_id, published, revealed, owed, refunded>>

htlc_extend(acct, id, seconds) ==
    /\ id \in LiveHtlcs
    /\ acct = htlcs[id].from
    /\ htlcs[id].expiration + seconds <= now + max_timeout
    /\ htlcs' = [htlcs EXCEPT ![id].expiration = @ + seconds]
    /\ UNCHANGED <<now, htlc_balances, next_id, published, revealed, owed, refunded>>

-----------------------------------------------------------------------------
(* A mutant: a contract is refunded a moment early.                        *)
ExpiredHtlcs_early(time) == {id \in LiveHtlcs : htlcs[id].expiration <= time + 1}

ExpiredHtlcs(time) == {id \in LiveHtlcs : htlcs[id].expiration <= time}

Refund(ids, acct) ==
    MapThenSumSet(LAMBDA id : IF htlcs[id].from = acct THEN htlcs[id].amount ELSE 0, ids)

(* What a diligent account can redeem is redeemed before the block ends.   *)
NothingMissed ==
    \A id \in LiveHtlcs : ~(htlcs[id].to \in Diligent /\ htlcs[id].preimage_hash \in published)

(* The end of a block with this timestamp: clear_expired_htlcs.            *)
clear_expired_htlcs(time) ==
    /\ time \in now + 1 .. now + MaxGap
    /\ NothingMissed
    /\ now' = time
    /\ htlc_balances' = [acct \in Account |->
                            htlc_balances[acct] + Refund(ExpiredHtlcs(time), acct)]
    /\ htlcs' = Without(ExpiredHtlcs(time))
    /\ refunded' = refunded \cup ExpiredHtlcs(time)
    /\ published' = published \cup revealed
    /\ revealed' = {}
    /\ UNCHANGED <<next_id, owed>>

-----------------------------------------------------------------------------
HtlcInit ==
    /\ now = 0
    /\ htlc_balances = [acct \in Account |-> HtlcEndowment]
    /\ htlcs = [id \in {} |-> 0]
    /\ next_id = 0
    /\ published = {} /\ revealed = {}
    /\ owed = {} /\ refunded = {}

HtlcNext ==
    \/ \E from, to \in Account, n \in HtlcAmounts, s \in Secret, p \in 0..max_timeout :
          htlc_create(from, to, n, s, p)
    \/ \E acct \in Account, id \in HtlcId : htlc_redeem(acct, id)
    \/ \E acct \in Account, id \in HtlcId, seconds \in 0..max_timeout :
          htlc_extend(acct, id, seconds)
    \/ \E time \in 1..MaxHtlcTime : clear_expired_htlcs(time)

HtlcSpec == HtlcInit /\ [][HtlcNext]_htlc_vars

-----------------------------------------------------------------------------
(* Checked as part of HtlcSupplies.                                        *)
HtlcTypeOK ==
    /\ now \in 0..MaxHtlcTime
    /\ htlc_balances \in [Account -> Nat]
    /\ LiveHtlcs \subseteq 0..next_id - 1
    /\ \A id \in LiveHtlcs : htlcs[id] \in Contract
    /\ next_id \in 0..MaxHtlc
    /\ published \subseteq Secret /\ revealed \subseteq Secret
    /\ owed \subseteq HtlcId /\ refunded \subseteq HtlcId

(* Every contract pays out exactly once: the balances and what the live    *)
(* contracts hold add up to what the accounts started with.                *)
HtlcSupplies ==
    /\ HtlcTypeOK
    /\ MapThenSumSet(LAMBDA acct : htlc_balances[acct], Account)
          + MapThenSumSet(LAMBDA id : htlcs[id].amount, LiveHtlcs)
       = MapThenSumSet(LAMBDA acct : HtlcEndowment, Account)

(* Because every block clears what has expired, the clock needs no check   *)
(* in htlc_redeem: a contract that can still be redeemed has not expired   *)
(* before the current head block, and never runs longer than max_timeout   *)
(* from now, however often it was extended.                                *)
RedeemableMeansInTime ==
    \A id \in LiveHtlcs : /\ htlcs[id].expiration >= now
                          /\ htlcs[id].expiration <= now + max_timeout

(* A swap of two contracts under one hash is atomic for a diligent party:  *)
(* when the contract it funded is redeemed, and the one that pays it runs  *)
(* more than MaxGap longer, that one is never refunded.                    *)
SwapsAreAtomic == owed \cap refunded = {}
=============================================================================
