---------------------------- MODULE Authorities -----------------------------
(***************************************************************************)
(* Who may sign for whom: the active and owner authorities of accounts,    *)
(* custom active authorities with their cached predicates, the signature   *)
(* check of a transaction (sign_state, verify_authority), and what a       *)
(* wallet asks a node before it signs (get_potential_signatures,           *)
(* get_required_signatures, minimize_required_signatures).                 *)
(*                                                                         *)
(* Keys and accounts are numbers, because the loops over an authority go   *)
(* by key and by account id.  Weights are positive.  Addresses are left    *)
(* out: accounts are refused with them.  A restriction of a custom         *)
(* authority is the set of operations it lets through.                     *)
(***************************************************************************)
EXTENDS Integers, FiniteSets, FiniteSetsExt, SequencesExt, Functions

CONSTANTS Account,               \* accounts, numbers
          PublicKey,             \* public keys, numbers
          TempAccount,           \* GRAPHENE_TEMP_ACCOUNT
          CommitteeAccount,      \* GRAPHENE_COMMITTEE_ACCOUNT
          max_authority_depth,   \* chain parameter
          ActiveChoices,         \* what accounts may set as their active authority
          OwnerChoices,          \* what accounts may set as their owner authority
          InitialActive, InitialOwner,
          Operation,             \* operations: [type, active, owner, other]
          Transactions,          \* sequences of operations
          CustomOwner,           \* the account that uses custom authorities
          CustomAuthorities,     \* authorities and restrictions of these
          CustomId,              \* ids of custom authorities, numbers
          MaxCustomTime          \* bound on head_block_time

VARIABLES
    active,         \* the active authority of each account
    owner,          \* the owner authority of each account
    custom,         \* custom_authority_objects that exist
    old_custom,     \* what the undo state of the pending session has of them
    head_time       \* head_block_time

auth_vars == <<active, owner, custom, old_custom, head_time>>

NoCustom == [exists |-> FALSE]
Untouched == [untouched |-> TRUE]

Ascending(S) == SetToSortSeq(S, LAMBDA x, y : x < y)

-----------------------------------------------------------------------------
(* sign_state: the keys that have signed (provided), the ones that could   *)
(* (available), the ones found in an authority so far (used), and the      *)
(* accounts known to approve; seen has the keys of the accounts looked at, *)
(* which get_potential_signatures collects.  A check returns whether it    *)
(* succeeds and the state it leaves.                                       *)
sign_state(sigs, keys, approvals) ==
    [provided |-> sigs, available |-> keys, used |-> {}, seen |-> {},
     approved_by |-> approvals \cup {TempAccount}]

Signs(s, k) == k \in s.provided \cup s.available

MarkUsed(s, k) == [s EXCEPT !.provided = @ \cup {k}, !.used = @ \cup {k}]

Enough(auth, w) == w.total >= auth.weight_threshold

signed_by(auth, w, k) ==
    IF Enough(auth, w) \/ ~Signs(w.s, k)
    THEN w
    ELSE [total |-> w.total + auth.key_auths[k], s |-> MarkUsed(w.s, k)]

Approves(auth, w, a, s) ==
    [total |-> w.total + auth.account_auths[a], s |-> [s EXCEPT !.approved_by = @ \cup {a}]]

RECURSIVE check_authority(_, _, _)

\* the check of an authority of an account, got with get_active or get_owner
Fetched(auth, depth, s) ==
    check_authority(auth, depth, [s EXCEPT !.seen = @ \cup DOMAIN auth.key_auths])

\* the check of a's owner authority, if the one before has failed
OrOwner(before, a, depth) == IF before.ok THEN before ELSE Fetched(owner[a], depth, before.s)

check_account(a, depth, s) == OrOwner(Fetched(active[a], depth, s), a, depth)

Counted(auth, w, a, nested) ==
    IF nested.ok THEN Approves(auth, w, a, nested.s) ELSE [w EXCEPT !.s = nested.s]

\* one round of the loop over account_auths
check_nested(auth, w, a, depth) ==
    IF Enough(auth, w)
    THEN w
    ELSE IF a \in w.s.approved_by
    THEN Approves(auth, w, a, w.s)
    ELSE IF depth = max_authority_depth
    THEN w
    ELSE Counted(auth, w, a, check_account(a, depth + 1, w.s))

Outcome(auth, w) == [ok |-> Enough(auth, w), s |-> w.s]

check_authority(auth, depth, s) ==
    LET by_keys == FoldLeft(LAMBDA w, k : signed_by(auth, w, k), [total |-> 0, s |-> s],
                            Ascending(DOMAIN auth.key_auths))
    IN  Outcome(auth, FoldLeft(LAMBDA w, a : check_nested(auth, w, a, depth), by_keys,
                               Ascending(DOMAIN auth.account_auths)))

\* the check of a required active authority: its last part comes to the owner
\* authority a second time, with the accounts that have approved meanwhile
check_active(a, s) ==
    IF a \in s.approved_by THEN [ok |-> TRUE, s |-> s] ELSE OrOwner(check_account(a, 0, s), a, 0)

-----------------------------------------------------------------------------
(* Custom authorities.                                                     *)
is_valid(c) == c.enabled /\ head_time >= c.valid_from /\ head_time < c.valid_to

\* the predicate of a set of restrictions: all of them let the operation through
Predicate(restrictions) == {op \in Operation : \A r \in restrictions : op \in r}

\* get_predicate: from the cache if there is one
get_predicate(c) == IF c.predicate_cache.valid THEN c.predicate_cache.value
                    ELSE Predicate(c.restrictions)

\* custom authorities of a that are looked at for op, in the order of their ids
Candidates(a, op) ==
    {i \in CustomId : custom[i].exists /\ custom[i].account = a
                      /\ custom[i].operation_type = op.type /\ is_valid(custom[i])}

get_viable_custom_authorities(a, op) ==
    LET viable == {i \in Candidates(a, op) : op \in get_predicate(custom[i])}
    IN  [n \in DOMAIN Ascending(viable) |-> custom[Ascending(viable)[n]].auth]

approved_by_custom_authority(a, op, s) ==
    FoldLeft(LAMBDA r, auth : IF r.ok THEN r ELSE check_authority(auth, 0, r.s),
             [ok |-> FALSE, s |-> s], get_viable_custom_authorities(a, op))

-----------------------------------------------------------------------------
(* verify_authority: the required authorities of all operations, less what *)
(* custom authorities approve, then one check after the other.             *)
UnlessCustom(q, a, by_custom) ==
    [q EXCEPT !.s = by_custom.s, !.active = IF by_custom.ok THEN @ ELSE @ \cup {a}]

RequiredBy(r, op) ==
    FoldLeft(LAMBDA q, a : UnlessCustom(q, a, approved_by_custom_authority(a, op, q.s)),
             [r EXCEPT !.owner = @ \cup op.owner, !.other = @ \o op.other],
             Ascending(op.active))

\* a check that has not failed so far goes on with the next authority
Checked(c, error) == [error |-> IF c.ok THEN "none" ELSE error, s |-> c.s]

Require(r, error, check(_)) == IF r.error # "none" THEN r ELSE Checked(check(r.s), error)

\* what the checks of all required authorities end with
CheckAll(req, owner_approvals) ==
    LET others == FoldLeft(LAMBDA r, auth :
                               Require(r, "missing_other", LAMBDA s : check_authority(auth, 0, s)),
                           [error |-> "none", s |-> req.s], req.other)
        owners == FoldLeft(LAMBDA r, a :
                               Require(r, "missing_owner",
                                       LAMBDA s : IF a \in owner_approvals THEN [ok |-> TRUE, s |-> s]
                                                  ELSE Fetched(owner[a], 0, s)),
                           others, Ascending(req.owner))
    IN  FoldLeft(LAMBDA r, a : Require(r, "missing_active", LAMBDA s : check_active(a, s)),
                 owners, Ascending(req.active))

Relevant(result) ==
    CASE result.error # "none" -> result.error
      [] result.s.provided # result.s.used -> "irrelevant"
      [] OTHER -> "none"

CheckRequired(req, allow_committee, owner_approvals) ==
    IF ~allow_committee /\ CommitteeAccount \in req.active
    THEN "committee" ELSE Relevant(CheckAll(req, owner_approvals))

verify_authority(ops, sigs, allow_committee, active_approvals, owner_approvals) ==
    CheckRequired(FoldLeft(RequiredBy,
                           [s |-> sign_state(sigs, {}, active_approvals \cup owner_approvals),
                            active |-> {}, owner |-> {}, other |-> <<>>], ops),
                  allow_committee, owner_approvals)

\* as _apply_transaction calls it
Verified(ops, sigs) == verify_authority(ops, sigs, FALSE, {}, {})

-----------------------------------------------------------------------------
(* What a node tells a wallet.                                             *)
get_required_authorities(ops) ==
    LET owners == UNION {ops[i].owner : i \in DOMAIN ops}
    IN  [active |-> UNION {ops[i].active : i \in DOMAIN ops} \ owners,
         owner  |-> owners,
         other  |-> FoldLeft(LAMBDA o, op : o \o op.other, <<>>, ops)]

\* the checks are all made, whatever they say, and mark the keys they find
MarkedBy(ops, sigs, keys) ==
    LET req    == get_required_authorities(ops)
        others == FoldLeft(LAMBDA s, auth : check_authority(auth, 0, s).s,
                           sign_state(sigs, keys, {}), req.other)
        owners == FoldLeft(LAMBDA s, a : Fetched(owner[a], 0, s).s, others, Ascending(req.owner))
    IN  FoldLeft(LAMBDA s, a : check_active(a, s).s, owners, Ascending(req.active))

get_required_signatures(ops, sigs, keys) == (MarkedBy(ops, sigs, keys).used \cap keys) \ sigs

\* A mutant: the keys of an operation's own authorities are forgotten.
get_potential_signatures_accounts_only(ops) == MarkedBy(ops, {}, {}).seen

\* the keys a check without any key comes across
get_potential_signatures(ops) ==
    MarkedBy(ops, {}, {}).seen
        \cup UNION {DOMAIN auth.key_auths : auth \in ToSet(get_required_authorities(ops).other)}

\* minimize_required_signatures, with the exceptions it lets through as an error
Minimized(m, k, error) ==
    CASE m.error # "none" -> m
      [] error = "none" -> [m EXCEPT !.keys = @ \ {k}]
      [] error \in {"missing_other", "missing_owner", "missing_active"} -> m
      [] OTHER -> [m EXCEPT !.error = error]

MinimizeFrom(ops, s) ==
    FoldLeft(LAMBDA m, k : Minimized(m, k, Verified(ops, m.keys \ {k})),
             [error |-> "none", keys |-> s], Ascending(s))

minimize_required_signatures(ops, sigs, keys) ==
    MinimizeFrom(ops, get_required_signatures(ops, sigs, keys))

\* get_owned_required_keys of the wallet that owns keys, for an unsigned transaction
get_owned_required_keys(ops, keys) ==
    get_required_signatures(ops, {}, get_potential_signatures(ops) \cap keys)

-----------------------------------------------------------------------------
(* Operations on accounts and custom authorities, in the pending session,  *)
(* and the block that ends it.                                             *)
AuthInit ==
    /\ active = InitialActive /\ owner = InitialOwner
    /\ custom = [i \in CustomId |-> NoCustom]
    /\ old_custom = [i \in CustomId |-> Untouched]
    /\ head_time = 0

account_update ==
    /\ \/ \E a \in DOMAIN ActiveChoices : \E auth \in ActiveChoices[a] :
             active' = [active EXCEPT ![a] = auth] /\ UNCHANGED owner
       \/ \E a \in DOMAIN OwnerChoices : \E auth \in OwnerChoices[a] :
             owner' = [owner EXCEPT ![a] = auth] /\ UNCHANGED active
    /\ UNCHANGED <<custom, old_custom, head_time>>

\* the undo state keeps a copy of the object, its cache included
Change(i, c) ==
    /\ custom' = [custom EXCEPT ![i] = c]
    /\ old_custom' = [old_custom EXCEPT ![i] = IF @ = Untouched THEN custom[i] ELSE @]
    /\ UNCHANGED <<active, owner, head_time>>

NoPredicate == [valid |-> FALSE]

\* CustomId is as large as an account may have custom authorities
custom_authority_create ==
    \E new \in CustomAuthorities :
        LET free == {i \in CustomId : \A j \in CustomId : custom[j].exists => j < i}
        IN  /\ free # {}
            /\ new.valid_to > head_time
            /\ Change(Min(free), new @@ [exists |-> TRUE, account |-> CustomOwner,
                                         predicate_cache |-> NoPredicate])

\* A mutant: the cached predicate stays.
custom_authority_update_cached(i, new) ==
    /\ custom[i].exists
    /\ new.valid_to = custom[i].valid_to \/ new.valid_to > head_time
    /\ new.operation_type = custom[i].operation_type
    /\ \E f \in DOMAIN new : new[f] # custom[i][f]
    /\ Change(i, new @@ custom[i])

\* one field or several get new values, the type of operation never
custom_authority_update(i, new) ==
    /\ custom[i].exists
    /\ new.valid_to = custom[i].valid_to \/ new.valid_to > head_time
    /\ new.operation_type = custom[i].operation_type
    /\ \E f \in DOMAIN new : new[f] # custom[i][f]
    /\ Change(i, new @@ [custom[i] EXCEPT !.predicate_cache = NoPredicate])

custom_authority_delete(i) ==
    /\ custom[i].exists
    /\ Change(i, NoCustom)

\* the check of a transaction fills the caches of the custom authorities it looks at
_apply_transaction ==
    \E op \in Operation :
        LET seen == UNION {Candidates(a, op) : a \in op.active}
        IN  /\ custom' = [i \in CustomId |->
                            IF i \in seen
                            THEN [custom[i] EXCEPT !.predicate_cache =
                                     [valid |-> TRUE, value |-> get_predicate(custom[i])]]
                            ELSE custom[i]]
            /\ UNCHANGED <<active, owner, old_custom, head_time>>

\* the undo of a failed transaction or of the pending session
Undone == [i \in CustomId |-> IF old_custom[i] = Untouched THEN custom[i] ELSE old_custom[i]]

undo_session ==
    /\ custom' = Undone
    /\ old_custom' = [i \in CustomId |-> Untouched]
    /\ UNCHANGED <<active, owner, head_time>>

\* the changes of the session are undone and made again in a block, which may be one
\* with maintenance
delete_expired_custom_auths(c) ==
    [i \in CustomId |-> IF c[i].exists /\ c[i].valid_to < head_time' THEN NoCustom ELSE c[i]]

apply_block ==
    /\ head_time < MaxCustomTime
    /\ head_time' = head_time + 1
    /\ LET applied == [i \in CustomId |->
                          IF old_custom[i] # Untouched /\ custom[i].exists
                          THEN [custom[i] EXCEPT !.predicate_cache = NoPredicate] ELSE custom[i]]
       IN  custom' \in {applied, delete_expired_custom_auths(applied)}
    /\ old_custom' = [i \in CustomId |-> Untouched]
    /\ UNCHANGED <<active, owner>>

AuthNext ==
    \/ account_update
    \/ custom_authority_create
    \/ \E i \in CustomId, new \in CustomAuthorities : custom_authority_update(i, new)
    \/ \E i \in CustomId : custom_authority_delete(i)
    \/ _apply_transaction
    \/ undo_session
    \/ apply_block

AuthSpec == AuthInit /\ [][AuthNext]_auth_vars

-----------------------------------------------------------------------------
(* What the checks are for.                                                *)
Satisfied(auth, sigs, accounts) ==
    SumFunctionOnSet(auth.key_auths, DOMAIN auth.key_auths \cap sigs)
        + SumFunctionOnSet(auth.account_auths, DOMAIN auth.account_auths \cap accounts)
    >= auth.weight_threshold

\* the accounts that approve through authorities up to n levels deep
Approving(n, sigs, approvals) ==
    FoldLeft(LAMBDA accounts, i :
                 accounts \cup {a \in Account : Satisfied(active[a], sigs, accounts)
                                              \/ Satisfied(owner[a], sigs, accounts)},
             approvals \cup {TempAccount}, [i \in 1..n |-> i])

\* a custom authority that stands for a and lets op through as it is now
CustomSatisfied(a, op, sigs, accounts) ==
    \E i \in CustomId :
        /\ custom[i].exists /\ custom[i].account = a /\ custom[i].operation_type = op.type
        /\ custom[i].enabled /\ custom[i].valid_from <= head_time /\ head_time < custom[i].valid_to
        /\ \A r \in custom[i].restrictions : op \in r
        /\ Satisfied(custom[i].auth, sigs, accounts)

\* accounts and signatures are all that the operations require
Authorised(ops, sigs, accounts, approvals, owner_approvals) ==
    \A i \in DOMAIN ops :
        /\ \A a \in ops[i].active :
               \/ a \in approvals \/ CustomSatisfied(a, ops[i], sigs, accounts)
               \/ Satisfied(active[a], sigs, accounts) \/ Satisfied(owner[a], sigs, accounts)
        /\ \A a \in ops[i].owner : a \in owner_approvals \/ Satisfied(owner[a], sigs, accounts)
        /\ \A auth \in ToSet(ops[i].other) : Satisfied(auth, sigs, accounts)

NotMissing(error) == error \in {"none", "irrelevant"}

\* what the result of the check means
ErrorIsRight(ops, sigs, approvals, error) ==
    LET within(n) == Authorised(ops, sigs, Approving(n, sigs, approvals), approvals, {})
    IN  /\ NotMissing(error) => within(Cardinality(Account))
        /\ within(max_authority_depth) => NotMissing(error)
        /\ error = "irrelevant"
              => \E k \in sigs : NotMissing(verify_authority(ops, sigs \ {k}, TRUE, approvals, {}))

\* The check of a transaction or proposal passes only if the authorities it requires are
\* satisfied by its signatures and approvals, through any number of accounts and through
\* custom authorities that are enabled, in force and not outdated by an update; it finds
\* none missing if they are satisfied within max_authority_depth; and what it calls an
\* unnecessary signature can be left out.
VerifiedMeansAuthorised ==
    \A ops \in Transactions, sigs \in SUBSET PublicKey, approvals \in {{}, {CustomOwner}} :
        ErrorIsRight(ops, sigs, approvals, verify_authority(ops, sigs, TRUE, approvals, {}))

\* no custom authority is looked at for these operations
NoCustomFor(ops) == \A i \in DOMAIN ops, a \in Account : Candidates(a, ops[i]) = {}

Minimal(ops, keys) == Verified(ops, keys) = "none" /\ \A k \in keys : Verified(ops, keys \ {k}) # "none"

\* A wallet whose keys satisfy what an unsigned transaction requires signs with the keys
\* that get_potential_signatures and get_required_signatures name, and the check accepts
\* them; minimize_required_signatures leaves of them what is also accepted, and of which
\* no key can be left out.
WalletSignsEnough ==
    \A ops \in Transactions, keys \in SUBSET PublicKey :
        /\ NoCustomFor(ops)
        /\ CommitteeAccount \notin get_required_authorities(ops).active
        /\ Authorised(ops, keys, Approving(max_authority_depth, keys, {}), {}, {})
        => /\ Verified(ops, get_owned_required_keys(ops, keys)) = "none"
           /\ \E minimal \in {minimize_required_signatures(ops, {}, keys)} :
                  minimal.error = "none" /\ Minimal(ops, minimal.keys)

\* The keys that get_required_signatures names may be more than the check needs, but if
\* some of them are enough, then the check accepts them all, custom authorities or not.
RequiredSignaturesPass ==
    \A ops \in Transactions, keys \in SUBSET PublicKey :
        \A named \in {get_required_signatures(ops, {}, keys)} :
            (\E enough \in SUBSET named : Verified(ops, enough) = "none") => Verified(ops, named) = "none"
=============================================================================
