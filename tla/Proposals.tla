------------------------------ MODULE Proposals ------------------------------
(***************************************************************************)
(* Proposed transactions: the evaluators of proposal_create, _update and   *)
(* _delete, push_proposal, clear_expired_proposals at the end of a block,  *)
(* and the secondary index required_approval_index.                        *)
(*                                                                         *)
(* A proposed operation either acts for an account and succeeds while      *)
(* `works' holds (an operation on the rest of the state, which may turn    *)
(* from possible to impossible and back), or approves, revokes an approval *)
(* of, or vetoes another proposal.  Executing a proposal can thereby       *)
(* execute others, in undo sessions nested in its own.                     *)
(*                                                                         *)
(* An account authorizes what needs it by approving, with its active or    *)
(* its owner authority; key approvals and authorities that consist of      *)
(* other accounts are left out.  Undoing restores the proposals exactly    *)
(* but calls the hooks of the secondary index for every change it takes    *)
(* back, so the index is computed, not restored.                           *)
(***************************************************************************)
EXTENDS Accounts, Integers, Sequences, FiniteSets

CONSTANTS
    Proposable,       \* the operation lists that may be proposed
    ReviewPeriods,    \* values of review_period_seconds
    NoReview,         \* no review period given
    Levels,           \* the authorities accounts approve with, of Level
    maximum_proposal_lifetime,
    MaxNesting,       \* undo_session_nesting_guard: active_witnesses.size() * 2
    MaxProposals,     \* bound: number of proposals
    MaxPending,       \* bound: pending transactions
    MaxProposalTime   \* bound: time of the last block

ProposalId == 0..MaxProposals - 1
Level      == {"active", "owner"}

Op == [type : {"act"}, acct : Account]
         \cup [type : {"approve", "revoke", "veto"}, acct : Account, id : ProposalId]

ASSUME ProposalAssumption ==
    /\ \A ops \in Proposable : ops \in Seq(Op) /\ ops # << >>
    /\ ReviewPeriods \subseteq Nat /\ NoReview \notin Nat
    /\ Levels \subseteq Level
    /\ maximum_proposal_lifetime \in Nat
    /\ MaxNesting \in Nat /\ MaxProposals \in Nat /\ MaxPending \in Nat /\ MaxProposalTime \in Nat

VARIABLES
    head_time,   \* head_block_time()
    works,       \* operations on the rest of the state would succeed
    st,          \* the proposals and what hangs on them, see StateOK
    committed,   \* st at the last block; later transactions are pending
    pending      \* the number of pending transactions

proposal_vars == <<head_time, works, st, committed, pending>>

Proposal ==
    [ops : Proposable, expiration_time : Nat, review_period_time : Nat \cup {NoReview},
     required : SUBSET Account, available : [Level -> SUBSET Account]]

(* proposals: the live ones, by id.  index: _account_to_proposals, as      *)
(* pairs.  The rest is history: how often each was executed, which before  *)
(* they expired, which were vetoed, and whether push_proposal removed a    *)
(* proposal its own operations had removed.                                *)
StateOK(s) ==
    /\ DOMAIN s.proposals \subseteq 0..s.next_id - 1
    /\ \A id \in DOMAIN s.proposals : s.proposals[id] \in Proposal
    /\ s.next_id \in 0..MaxProposals
    /\ s.index \subseteq Account \X ProposalId
    /\ s.executed \in [ProposalId -> Nat]
    /\ s.early \subseteq ProposalId /\ s.vetoed \subseteq ProposalId
    /\ s.dangling \in BOOLEAN

Live(s) == DOMAIN s.proposals

Required(ops) == {ops[i].acct : i \in DOMAIN ops}

is_authorized_to_execute(p) == p.required \subseteq p.available["active"] \cup p.available["owner"]

-----------------------------------------------------------------------------
(* required_approval_index.                                                *)

Concerned(p) == p.required \cup p.available["active"] \cup p.available["owner"]

insert_or_remove_delta(idx, id, before, after) ==
    (idx \ ((before \ after) \X {id})) \cup ((after \ before) \X {id})

object_modified(idx, id, p, q) ==
    insert_or_remove_delta(
        insert_or_remove_delta(idx, id, p.available["active"], q.available["active"]),
        id, p.available["owner"], q.available["owner"])

object_inserted(idx, id, p) == idx \cup (Concerned(p) \X {id})

object_removed(idx, id, p)  == idx \ (Concerned(p) \X {id})

modify(s, id, p) ==
    [s EXCEPT !.proposals[id] = p, !.index = object_modified(@, id, s.proposals[id], p)]

remove(s, id) ==
    [s EXCEPT !.proposals = [i \in Live(s) \ {id} |-> s.proposals[i]],
              !.index = object_removed(@, id, s.proposals[id])]

(* The undo database takes s back to old.                                  *)
Undo(s, old) ==
    LET kept(id) == {e \in object_modified(s.index, id, s.proposals[id], old.proposals[id]) : e[2] = id}
    IN  [old EXCEPT !.index =
            UNION {kept(id) : id \in Live(s) \cap Live(old)}
            \cup UNION {Concerned(old.proposals[id]) \X {id} : id \in Live(old) \ Live(s)},
                    !.dangling = s.dangling]

-----------------------------------------------------------------------------
(* Evaluating an operation gives whether it succeeded and the new state.   *)

Outcome(ok, s) == [ok |-> ok, s |-> s]

RECURSIVE push_proposal(_, _, _, _)

(* A mutant: a proposal is executed once approved, review period or not.   *)
proposal_update_at_once(s, time, id, acct, l, add, depth) ==
    IF id \notin Live(s) \/ ~add
    THEN Outcome(FALSE, s)
    ELSE LET q == [s.proposals[id] EXCEPT !.available[l] = @ \cup {acct}]
             m == modify(s, id, q)
         IN  IF \/ q.review_period_time # NoReview /\ time >= q.review_period_time
             THEN Outcome(FALSE, s)
             ELSE Outcome(TRUE, IF is_authorized_to_execute(q)
                                THEN push_proposal(m, time, id, depth).s ELSE m)

(* Level l approvals of acct are added or removed.                         *)
proposal_update(s, time, id, acct, l, add, depth) ==
    LET p == s.proposals[id]
        q == [p EXCEPT !.available[l] = IF add THEN @ \cup {acct} ELSE @ \ {acct}]
        m == modify(s, id, q)
        r == push_proposal(m, time, id, depth)
    IN  IF \/ id \notin Live(s)
           \/ add /\ p.review_period_time # NoReview /\ time >= p.review_period_time
           \/ ~add /\ acct \notin p.available[l]
        THEN Outcome(FALSE, s)
        ELSE IF p.review_period_time # NoReview \/ ~is_authorized_to_execute(q)
        THEN Outcome(TRUE, m)
        ELSE Outcome(TRUE, r.s)

proposal_delete(s, id, acct) ==
    IF id \in Live(s) /\ acct \in s.proposals[id].required
    THEN Outcome(TRUE, [remove(s, id) EXCEPT !.vetoed = @ \cup {id}])
    ELSE Outcome(FALSE, s)

apply_operation(s, time, op, depth) ==
    CASE op.type = "act"     -> Outcome(works, s)
      [] op.type = "approve" -> proposal_update(s, time, op.id, op.acct, "active", TRUE, depth)
      [] op.type = "revoke"  -> proposal_update(s, time, op.id, op.acct, "active", FALSE, depth)
      [] op.type = "veto"    -> proposal_delete(s, op.id, op.acct)

RECURSIVE ApplyAll(_, _, _, _)
ApplyAll(s, time, ops, depth) ==
    IF ops = << >>
    THEN Outcome(TRUE, s)
    ELSE LET r == apply_operation(s, time, Head(ops), depth)
         IN  IF r.ok THEN ApplyAll(r.s, time, Tail(ops), depth) ELSE r

(* A mutant: the executed proposal stays until it expires.                 *)
Executed_stays(s, time, id) == [s EXCEPT !.executed[id] = @ + 1]

(* What the executed proposal leaves: it is removed and cannot run again.  *)
Executed(s, time, id) ==
    IF id \in Live(s)
    THEN [remove(s, id) EXCEPT
             !.executed[id] = @ + 1,
             !.early = @ \cup {i \in {id} : time < s.proposals[id].expiration_time}]
    ELSE [s EXCEPT !.dangling = TRUE]

push_proposal(s, time, id, depth) ==
    IF depth >= MaxNesting
    THEN Outcome(FALSE, s)
    ELSE LET r == ApplyAll(s, time, s.proposals[id].ops, depth + 1)
         IN  IF r.ok THEN Outcome(TRUE, Executed(r.s, time, id)) ELSE Outcome(FALSE, Undo(r.s, s))

ExpiredProposals(s, time) == {id \in Live(s) : s.proposals[id].expiration_time <= time}

FirstToExpire(s, ids) ==
    CHOOSE i \in ids : \A j \in ids :
        \/ s.proposals[i].expiration_time < s.proposals[j].expiration_time
        \/ s.proposals[i].expiration_time = s.proposals[j].expiration_time /\ i <= j

RECURSIVE clear_expired_proposals(_, _)
clear_expired_proposals(s, time) ==
    IF ExpiredProposals(s, time) = {}
    THEN s
    ELSE LET id == FirstToExpire(s, ExpiredProposals(s, time))
             r  == IF is_authorized_to_execute(s.proposals[id])
                   THEN push_proposal(s, time, id, 0)
                   ELSE Outcome(FALSE, s)
         IN  clear_expired_proposals(IF r.ok THEN r.s ELSE remove(r.s, id), time)

-----------------------------------------------------------------------------
(* Transactions of one operation.                                          *)

Push == pending < MaxPending /\ pending' = pending + 1

Transaction(r) == Push /\ r.ok /\ st' = r.s /\ UNCHANGED <<head_time, works, committed>>

(* No proposal updates or deletes itself or a later one, nor has more than *)
(* one update.                                                             *)
RefersBack(ops, id) == \A i \in DOMAIN ops : ops[i].type # "act" => ops[i].id < id

OneUpdate(ops) ==
    Cardinality({i \in DOMAIN ops : ops[i].type \in {"approve", "revoke"}}) <= 1

proposal_create(ops, expiration, review) ==
    /\ Push
    /\ st.next_id \in ProposalId
    /\ OneUpdate(ops)
    /\ RefersBack(ops, st.next_id)
    /\ expiration > head_time
    /\ expiration <= head_time + maximum_proposal_lifetime
    /\ review # NoReview => review < expiration - head_time
    /\ LET p == [ops |-> ops, expiration_time |-> expiration,
                 review_period_time |-> IF review = NoReview THEN NoReview ELSE expiration - review,
                 required |-> Required(ops), available |-> [l \in Level |-> {}]]
       IN  st' = [st EXCEPT !.proposals = [i \in Live(st) \cup {st.next_id} |->
                                              IF i = st.next_id THEN p ELSE st.proposals[i]],
                            !.next_id = @ + 1,
                            !.index = object_inserted(@, st.next_id, p)]
    /\ UNCHANGED <<head_time, works, committed>>

(* A block without the pending transactions: clear_pending undoes them.    *)
clear_pending ==
    /\ pending > 0
    /\ st' = Undo(st, committed)
    /\ committed' = st'
    /\ pending' = 0
    /\ UNCHANGED <<head_time, works>>

(* A block with this timestamp that contains the pending transactions.     *)
_apply_block(time) ==
    /\ time > head_time
    /\ head_time' = time
    /\ st' = clear_expired_proposals(st, time)
    /\ committed' = st'
    /\ pending' = 0
    /\ UNCHANGED works

(* Something else changes whether the proposed actions can succeed.        *)
OtherChange ==
    /\ works' = ~works
    /\ UNCHANGED <<head_time, st, committed, pending>>

ProposalInit ==
    /\ head_time = 0
    /\ works = FALSE
    /\ st = [proposals |-> [i \in {} |-> 0], next_id |-> 0, index |-> {},
             executed |-> [i \in ProposalId |-> 0], early |-> {}, vetoed |-> {}, dangling |-> FALSE]
    /\ committed = st
    /\ pending = 0

ProposalNext ==
    \/ \E ops \in Proposable, time \in 1..MaxProposalTime, review \in ReviewPeriods \cup {NoReview} :
          proposal_create(ops, time, review)
    \/ \E id \in ProposalId, acct \in Account, l \in Levels, add \in BOOLEAN :
          Transaction(proposal_update(st, head_time, id, acct, l, add, 0))
    \/ \E id \in ProposalId, acct \in Account : Transaction(proposal_delete(st, id, acct))
    \/ clear_pending
    \/ \E time \in 1..MaxProposalTime : _apply_block(time)
    \/ OtherChange

ProposalSpec == ProposalInit /\ [][ProposalNext]_proposal_vars

-----------------------------------------------------------------------------
(* Checked as part of ExecutedAtMostOnce.                                  *)
ProposalTypeOK ==
    /\ head_time \in 0..MaxProposalTime
    /\ works \in BOOLEAN
    /\ pending \in 0..MaxPending
    /\ StateOK(st) /\ StateOK(committed)

(* "The first time the proposed transaction succeeds, the proposal will be *)
(* regarded as resolved": whatever executes it (an approval, another       *)
(* proposal or its expiration), a proposed transaction is applied at most  *)
(* once, and one that has been applied or vetoed is gone.  push_proposal   *)
(* ends with removing the proposal it executed; none of its operations,    *)
(* nor of the proposals they executed in turn, removed it before.          *)
ExecutedAtMostOnce ==
    /\ ProposalTypeOK
    /\ ~st.dangling
    /\ \A id \in ProposalId : /\ st.executed[id] <= 1
                              /\ st.executed[id] = 1 \/ id \in st.vetoed => id \notin Live(st)

(* "Proposals with a review period may never be executed except at their   *)
(* expiration", not even by a chain of proposals that approve each other;  *)
(* and once the review period has begun, no way of approving adds an       *)
(* approval: what is there was there before, or is back from the last      *)
(* block.  "Even if the transaction fails, the proposal will be kept until *)
(* the expiration time": it goes only by being executed, vetoed by a       *)
(* required account, expired, or by the undoing of its creation.           *)
RunsItsCourse ==
    [][/\ \A id \in Live(st) : st.proposals[id].review_period_time # NoReview =>
          /\ id \notin st'.early
          /\ id \in Live(st') /\ head_time >= st.proposals[id].review_period_time =>
                \A l \in Level : \A a \in st'.proposals[id].available[l] :
                   \/ a \in st.proposals[id].available[l]
                   \/ id \in Live(committed) /\ a \in committed.proposals[id].available[l]
       /\ \A id \in Live(st) \ Live(st') :
             \/ st'.executed[id] > st.executed[id]
             \/ id \in st'.vetoed
             \/ st.proposals[id].expiration_time <= head_time'
             \/ id >= st'.next_id]_proposal_vars

(* After every block all expired proposals are gone, however many there    *)
(* are and whatever their executions did to each other.                    *)
ExpiredAreGone == \A id \in Live(st) : st.proposals[id].expiration_time > head_time

(* "tracks all of the proposal objects that requrie approval of an         *)
(* individual account": every required account finds the proposal in the   *)
(* index.                                                                  *)
IndexComplete ==
    \A id \in Live(st) : st.proposals[id].required \X {id} \subseteq st.index
=============================================================================
