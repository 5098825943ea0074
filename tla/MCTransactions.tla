--------------------------- MODULE MCTransactions ---------------------------
(* Four instances, for what a node does with transactions: the undo        *)
(* sessions they run in, the ones that are pending, the authorities they   *)
(* are checked against, and the histories they leave behind.               *)
EXTENDS UndoDatabase, PendingTransactions, Authorities, AccountHistory, TLC

CONSTANTS pay, spend, rival, bulk

VARIABLE instance

UndoSymmetry == Permutations(Key) \cup Permutations(Val)

-----------------------------------------------------------------------------
\* spend uses what pay brings, rival takes what pay pays from, bulk fills most
\* of a block.  bulk expires while the others may still be applied.
MCNeeds == [t \in Tx |-> IF t = spend THEN {pay} ELSE {}]
MCConflicts == [t \in Tx |-> CASE t = pay -> {rival} [] t = rival -> {pay} [] OTHER -> {}]
MCExpires == [t \in Tx |-> IF t = bulk THEN 2 ELSE 4]
MCSize == [t \in Tx |-> IF t \in {bulk, pay} THEN 2 ELSE 1]

-----------------------------------------------------------------------------
\* an authority of keys and accounts, all of the same weight
Auth(n, keys, accounts) ==
    [weight_threshold |-> n, key_auths |-> [k \in keys |-> 1], account_auths |-> [a \in accounts |-> 1]]

MCInitialActive == [a \in Account |-> Auth(1, {a}, {})]
MCInitialOwner == [a \in Account |-> Auth(1, {5}, {})]

\* several of several, cycles, chains as deep as the limit and deeper, the account
\* that everybody may sign for
MCActiveChoices ==
    [a \in {1, 2, 3, 4} |->
        CASE a = 1 -> {Auth(2, {}, {2, 3}), Auth(2, {1, 2}, {4}), Auth(1, {}, {2})}
          [] a = 2 -> {Auth(1, {}, {3}), Auth(2, {1, 3}, {2})}
          [] a = 3 -> {Auth(1, {}, {4}), Auth(2, {5}, {1, 2})}
          [] a = 4 -> {Auth(1, {}, {2}), Auth(1, {4}, {0})}]
MCOwnerChoices == [a \in {3} |-> {Auth(2, {}, {2, 4}), Auth(1, {5}, {})}]

Op(type, act, own, other) == [type |-> type, active |-> act, owner |-> own, other |-> other]

transfer == Op("transfer", {1}, {}, <<>>)
transfer_with == Op("transfer", {1}, {}, <<Auth(1, {2}, {})>>)
update == Op("update", {}, {1}, <<>>)
joint == Op("joint", {2, 4}, {}, <<>>)
MCOperation == {transfer, transfer_with, update, joint}
MCTransactions_ == {<<transfer>>, <<transfer_with>>, <<update>>, <<transfer, joint>>}

MCCustomAuthorities ==
    {[enabled |-> e, valid_from |-> 1, valid_to |-> 2, operation_type |-> "transfer",
      auth |-> Auth(1, {2}, {}), restrictions |-> r]
     : e \in BOOLEAN, r \in {{}, {{transfer}}}}

\* custom authorities are tried with two of these
CustomUsed == head_time > 0 \/ custom # [i \in CustomId |-> NoCustom]
                            \/ old_custom # [i \in CustomId |-> Untouched]
FewChanges ==
    /\ owner = InitialOwner /\ \A a \in Account \ {CustomOwner} : active[a] = InitialActive[a]
    /\ active[CustomOwner] \in {InitialActive[CustomOwner], Auth(1, {}, {2})}

-----------------------------------------------------------------------------
Option(partial, tracked, max, ext, blocks, by_blocks) ==
    [partial |-> partial, tracked |-> tracked, max_ops |-> max, extended |-> {2}, extended_max |-> ext,
     min_blocks |-> blocks, max_by_blocks |-> by_blocks]
MCOptions ==
    {Option(TRUE, {}, 1, 2, 2, 3), Option(FALSE, {}, 1, 1, 1, 2), Option(TRUE, {1}, 2, 2, 2, 2),
     Option(TRUE, {}, 0, 1, 2, 3), Option(FALSE, {}, 0, 1, 2, 3)}
MCBlockContents ==
    {<<>>, <<{1}>>, <<{1, 2}>>, <<{1}, {1, 2}>>, <<Skipped>>, <<{2}, Skipped, {1}>>, <<Skipped, {2}>>}

-----------------------------------------------------------------------------
MCInit ==
    /\ Init /\ PendingInit /\ AuthInit /\ HistoryInit
    /\ instance \in {"undo", "pending", "authority", "history"}
    /\ instance # "undo" => max_size = 1
    /\ instance = "history" \/ options = CHOOSE o \in Options : TRUE

Undo_step ==
    /\ instance = "undo" /\ Next
    /\ UNCHANGED <<pending_vars, auth_vars, history_vars, instance>>

Pending_step ==
    /\ instance = "pending" /\ PendingNext
    /\ UNCHANGED <<vars, auth_vars, history_vars, instance>>

Authority_step ==
    /\ instance = "authority" /\ AuthNext
    /\ (CustomUsed => FewChanges)'
    /\ UNCHANGED <<vars, pending_vars, history_vars, instance>>

History_step ==
    /\ instance = "history" /\ HistoryNext
    /\ UNCHANGED <<vars, pending_vars, auth_vars, instance>>

MCSpec ==
    MCInit /\ [][Undo_step \/ Pending_step \/ Authority_step \/ History_step]_
                  <<vars, pending_vars, auth_vars, history_vars, instance>>

-----------------------------------------------------------------------------
\* What verify_authority accepts is authorised, and the other way round, after any
\* changes of accounts and custom authorities (VerifiedMeansAuthorised).
SignaturesAgree == instance = "authority" => VerifiedMeansAuthorised

\* A wallet that asks the node for the keys to sign with can sign whatever its keys
\* allow, where no custom authority is looked at (WalletSignsEnough).
WalletCanSign == instance = "authority" => WalletSignsEnough

\* "The result is not always a minimal set of signatures, but any non-minimal result
\* will still pass validation", says transaction.hpp of get_required_signatures
\* (RequiredSignaturesPass).  Custom authorities refute it.
RequiredSignaturesSuffice == instance = "authority" => RequiredSignaturesPass
=============================================================================
