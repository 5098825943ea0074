------------------------ MODULE PendingTransactions -------------------------
(***************************************************************************)
(* The transactions a node knows: on the chain, pending, and put aside by  *)
(* pop_block, with the deduplication index and the pending undo session;   *)
(* push_transaction, generate_block, and what push_block does to pending   *)
(* transactions when it extends the chain, rejects a block, switches to    *)
(* another fork or comes back from an invalid one.                         *)
(*                                                                         *)
(* Of the ledger a transaction sees which transactions were applied before *)
(* it: it may need some of them and it may conflict with some of them.     *)
(* The loops over blocks and transactions are taken one round at a time;   *)
(* the thread that runs them does nothing else until it is idle again.     *)
(***************************************************************************)
EXTENDS Integers, Sequences, Functions

CONSTANTS Tx,                  \* transactions, by id
          Needs,               \* transactions each one must be applied after
          Conflicts,           \* transactions each one cannot follow
          Expires,             \* trx.expiration
          Size,                \* packed size
          MaxBlockSize,        \* room for transactions under maximum_block_size
          MaxUntilExpiration,  \* maximum_time_until_expiration
          MaxTime,             \* bound on the time of blocks
          MaxPop,              \* bound on the blocks popped by a switch
          MaxPending,          \* bound on the pending transactions
          MaxBlockTxs          \* bound on the transactions of a received block

ASSUME PendingAssumption == /\ Needs \in [Tx -> SUBSET Tx]
                            /\ Conflicts \in [Tx -> SUBSET Tx]
                            /\ Expires \in [Tx -> Nat] /\ Size \in [Tx -> Nat]
                            /\ {MaxBlockSize, MaxUntilExpiration, MaxTime,
                                MaxPop, MaxPending, MaxBlockTxs} \subseteq Nat

VARIABLES
    chain,     \* blocks: the transactions of each and the ledger after it
    pending,   \* _pending_tx
    session,   \* transactions applied in _pending_tx_session, or NoSession
    popped,    \* _popped_tx
    todo,      \* what a loop over the pending transactions has left
    old,       \* blocks a fork switch has popped, oldest first
    block,     \* the block under construction
    phase,     \* what the thread is doing
    mismatch,  \* history: generate_block failed on its key, no block came since
    had        \* history: what the node had when the running call began

pending_vars == <<chain, pending, session, popped, todo, old, block, phase, mismatch, had>>

NoSession == [closed |-> TRUE, txs |-> <<>>]
Open(txs) == [closed |-> FALSE, txs |-> txs]

NoBlock == [txs |-> <<>>, time |-> 0]

Phase == {"idle", "push", "pop", "switch", "unwind", "restore", "pack"}

TxsOf(c) == UNION {Range(c[i].txs) : i \in DOMAIN c}

-----------------------------------------------------------------------------
(* The ledger: done has every transaction applied, recent the ones in the  *)
(* deduplication index, now is head_block_time().                          *)

HeadBlock(c) == c[Len(c)]
BelowHead(c) == SubSeq(c, 1, Len(c) - 1)

Ledger(c) == IF c = <<>> THEN [done |-> {}, recent |-> {}, now |-> 0] ELSE HeadBlock(c).ledger

is_known_transaction(l, t) == t \in l.recent

\* _apply_transaction does not throw; before the first block it does not look
\* at the expiration
Applicable(l, t) ==
    /\ ~is_known_transaction(l, t)
    /\ l.now > 0 => Expires[t] \in l.now..(l.now + MaxUntilExpiration)
    /\ Needs[t] \subseteq l.done
    /\ Conflicts[t] \cap l.done = {}

ApplyAll(l, txs) == [l EXCEPT !.done = @ \cup Range(txs), !.recent = @ \cup Range(txs)]

AllApplicable(l, txs) ==
    \A i \in DOMAIN txs : Applicable(ApplyAll(l, SubSeq(txs, 1, i - 1)), txs[i])

\* MUTANT: transactions leave the index when they may still be applied
clear_expired_transactions_early(l) ==
    [l EXCEPT !.recent = {t \in l.recent : l.now < Expires[t]}]

clear_expired_transactions(l) ==
    [l EXCEPT !.recent = {t \in l.recent : ~(l.now > Expires[t])}]

TotalSize(txs) ==
    LET upto[n \in 0..Len(txs)] == IF n = 0 THEN 0 ELSE upto[n - 1] + Size[txs[n]]
    IN  upto[Len(txs)]

\* _apply_block, as far as transactions are concerned: they are applied at the
\* time of the head, then the time moves to that of the block.
BlockApplies(l, b) ==
    /\ b.time > l.now
    /\ TotalSize(b.txs) <= MaxBlockSize
    /\ AllApplicable(l, b.txs)

_apply_block(l, b) == clear_expired_transactions([ApplyAll(l, b.txs) EXCEPT !.now = b.time])

Extended(c, b) == Append(c, [txs |-> b.txs, ledger |-> _apply_block(Ledger(c), b)])

PendingLedger == ApplyAll(Ledger(chain), session.txs)

-----------------------------------------------------------------------------
(* push_transaction                                                        *)

\* _push_transaction: a transaction that throws leaves the session open.
_push_transaction(t) ==
    IF Applicable(PendingLedger, t)
    THEN /\ pending' = Append(pending, t)
         /\ session' = Open(Append(session.txs, t))
    ELSE /\ session' = Open(session.txs)
         /\ UNCHANGED pending

push_transaction(t) ==
    /\ phase = "idle"
    /\ Len(pending) < MaxPending
    /\ _push_transaction(t)
    /\ UNCHANGED <<chain, popped, todo, old, block, phase, mismatch, had>>

-----------------------------------------------------------------------------
(* push_block                                                              *)

\* without_pending_transactions: _pending_tx moves into the restorer, whose
\* constructor calls clear_pending.
WithoutPending ==
    /\ todo' = pending
    /\ pending' = <<>>
    /\ session' = NoSession
    /\ mismatch' = FALSE

push_block ==
    /\ phase = "idle"
    /\ WithoutPending
    /\ had' = TxsOf(chain) \cup Range(pending)
    /\ phase' = "push"
    /\ UNCHANGED <<chain, popped, old, block>>

TxSequences == UNION {[1..n -> Tx] : n \in 0..MaxBlockTxs}

Received == {b \in [txs : TxSequences, time : 1..MaxTime] : IsInjective(b.txs)}

\* A block on top of the head
PushExtends(b) ==
    /\ phase = "push"
    /\ BlockApplies(Ledger(chain), b)
    /\ chain' = Extended(chain, b)
    /\ phase' = "restore"
    /\ UNCHANGED <<pending, session, popped, todo, old, block, mismatch, had>>

\* A block that does not apply, or that only enters the fork database
PushLeavesChain ==
    /\ phase = "push"
    /\ phase' = "restore"
    /\ UNCHANGED <<chain, pending, session, popped, todo, old, block, mismatch, had>>

PutAside(txs) == txs \o popped

\* pop_block of the old branch; the first block of all stays
SwitchPop ==
    /\ phase \in {"push", "pop"}
    /\ Len(chain) > 1 /\ Len(old) < MaxPop
    /\ chain' = BelowHead(chain)
    /\ popped' = PutAside(HeadBlock(chain).txs)
    /\ old' = <<HeadBlock(chain)>> \o old
    /\ phase' = "pop"
    /\ UNCHANGED <<pending, session, todo, block, mismatch, had>>

\* block is not in use during a switch: its time counts the new blocks
SwitchPush(b) ==
    /\ phase \in {"pop", "switch"}
    /\ BlockApplies(Ledger(chain), b)
    /\ chain' = Extended(chain, b)
    /\ IF block.time < Len(old)
       THEN /\ block' = [block EXCEPT !.time = @ + 1]
            /\ phase' = "switch"
            /\ UNCHANGED old
       ELSE /\ block' = NoBlock
            /\ phase' = "restore"
            /\ old' = <<>>
    /\ UNCHANGED <<pending, session, popped, todo, mismatch, had>>

\* The next block of the new branch throws.
SwitchFails ==
    /\ phase \in {"pop", "switch"}
    /\ phase' = "unwind"
    /\ UNCHANGED <<chain, pending, session, popped, todo, old, block, mismatch, had>>

\* pop_block of the new branch
Unwind ==
    /\ phase = "unwind"
    /\ block.time > 0
    /\ chain' = BelowHead(chain)
    /\ popped' = PutAside(HeadBlock(chain).txs)
    /\ block' = [block EXCEPT !.time = @ - 1]
    /\ UNCHANGED <<pending, session, todo, old, phase, mismatch, had>>

\* The old branch is applied again.
Reapply ==
    /\ phase = "unwind"
    /\ block.time = 0
    /\ chain' = chain \o old
    /\ old' = <<>>
    /\ phase' = "restore"
    /\ UNCHANGED <<pending, session, popped, todo, block, mismatch, had>>

-----------------------------------------------------------------------------
(* ~pending_transactions_restorer: popped transactions, then pending ones  *)

\* MUTANT: a transaction that was valid once stays unless it has expired
Repush_unchecked(t) ==
    IF is_known_transaction(PendingLedger, t) \/ PendingLedger.now > Expires[t]
    THEN UNCHANGED <<pending, session>>
    ELSE pending' = Append(pending, t) /\ session' = Open(Append(session.txs, t))

\* One round: a known transaction is passed over, a throwing one dropped.
Repush(t) ==
    IF is_known_transaction(PendingLedger, t)
    THEN UNCHANGED <<pending, session>>
    ELSE _push_transaction(t)

RestorePopped ==
    /\ phase = "restore"
    /\ popped # <<>>
    /\ Repush(Head(popped))
    /\ popped' = Tail(popped)
    /\ UNCHANGED <<chain, todo, old, block, phase, mismatch, had>>

RestorePending ==
    /\ phase = "restore"
    /\ popped = <<>> /\ todo # <<>>
    /\ Repush(Head(todo))
    /\ todo' = Tail(todo)
    /\ UNCHANGED <<chain, popped, old, block, phase, mismatch, had>>

RestorerDone == phase = "restore" /\ popped = <<>> /\ todo = <<>>

Restored ==
    /\ RestorerDone
    /\ phase' = "idle"
    /\ had' = {}
    /\ UNCHANGED <<chain, pending, session, popped, todo, old, block, mismatch>>

-----------------------------------------------------------------------------
(* generate_block                                                          *)

_generate_block(when) ==
    /\ phase = "idle"
    /\ when > Ledger(chain).now
    /\ session' = Open(<<>>)
    /\ todo' = pending
    /\ block' = [txs |-> <<>>, time |-> when]
    /\ had' = TxsOf(chain) \cup Range(pending)
    /\ phase' = "pack"
    /\ UNCHANGED <<chain, pending, popped, old, mismatch>>

\* The signing key is not that of the witness: the assertion leaves the
\* session closed.
GenerateWrongKey ==
    /\ phase = "idle"
    /\ session' = NoSession
    /\ mismatch' = (mismatch \/ pending # <<>>)
    /\ UNCHANGED <<chain, pending, popped, todo, old, block, phase, had>>

Fits(t) == TotalSize(block.txs) + Size[t] <= MaxBlockSize

\* One round of the loop over _pending_tx: postpone, apply, or fail
Pack ==
    /\ phase = "pack"
    /\ todo # <<>>
    /\ todo' = Tail(todo)
    /\ \E t \in {Head(todo)} :
          IF Fits(t) /\ Applicable(PendingLedger, t)
          THEN /\ session' = Open(Append(session.txs, t))
               /\ block' = [block EXCEPT !.txs = Append(@, t)]
          ELSE UNCHANGED <<session, block>>
    /\ UNCHANGED <<chain, pending, popped, old, phase, mismatch, had>>

\* MUTANT: only the transactions of the block go on, postponed ones do not
Generated_packed_only ==
    /\ phase = "pack"
    /\ todo = <<>>
    /\ chain' = IF BlockApplies(Ledger(chain), block) THEN Extended(chain, block) ELSE chain
    /\ todo' = block.txs
    /\ pending' = <<>>
    /\ session' = NoSession
    /\ mismatch' = FALSE
    /\ block' = NoBlock
    /\ phase' = "restore"
    /\ UNCHANGED <<popped, old, had>>

\* The block goes through push_block with every transaction still in
\* _pending_tx.
Generated ==
    /\ phase = "pack"
    /\ todo = <<>>
    /\ chain' = IF BlockApplies(Ledger(chain), block) THEN Extended(chain, block) ELSE chain
    /\ todo' = pending
    /\ pending' = <<>>
    /\ session' = NoSession
    /\ mismatch' = FALSE
    /\ block' = NoBlock
    /\ phase' = "restore"
    /\ UNCHANGED <<popped, old, had>>

-----------------------------------------------------------------------------
PendingInit ==
    /\ chain = <<>>
    /\ pending = <<>> /\ popped = <<>> /\ todo = <<>> /\ old = <<>>
    /\ session = NoSession
    /\ block = NoBlock
    /\ phase = "idle"
    /\ mismatch = FALSE
    /\ had = {}

PendingNext ==
    \/ \E t \in Tx : push_transaction(t)
    \/ push_block
    \/ \E b \in Received : PushExtends(b)
    \/ PushLeavesChain
    \/ SwitchPop
    \/ \E b \in Received : SwitchPush(b)
    \/ SwitchFails
    \/ Unwind
    \/ Reapply
    \/ RestorePopped
    \/ RestorePending
    \/ Restored
    \/ \E when \in 1..MaxTime : _generate_block(when)
    \/ GenerateWrongKey
    \/ Pack
    \/ Generated

PendingSpec == PendingInit /\ [][PendingNext]_pending_vars

-----------------------------------------------------------------------------
(* Properties                                                              *)

\* Checked as part of AppliedOnce
PendingTypeOK ==
    /\ \A i \in DOMAIN chain :
          /\ chain[i].txs \in Seq(Tx)
          /\ chain[i].ledger \in [done : SUBSET Tx, recent : SUBSET Tx, now : 1..MaxTime]
    /\ {pending, popped, todo, session.txs, block.txs} \subseteq Seq(Tx)
    /\ phase \in Phase
    /\ phase = "idle" => popped = <<>> /\ todo = <<>> /\ old = <<>> /\ block = NoBlock
    /\ mismatch \in BOOLEAN

\* No transaction takes effect twice: not in two blocks, not in a block and in
\* the pending state, whatever was popped, restored or expired in between.
AppliedOnce ==
    /\ PendingTypeOK
    /\ \A i, j \in DOMAIN chain : i # j => Range(chain[i].txs) \cap Range(chain[j].txs) = {}
    /\ \A i \in DOMAIN chain : IsInjective(chain[i].txs)
    /\ IsInjective(session.txs) /\ Range(session.txs) \cap TxsOf(chain) = {}

\* The pending session is the result of applying _pending_tx, in order, to the
\* head, and each of them still applies: none is kept that a producer could not
\* put into a block after the ones before it.  (Unless generate_block failed on
\* its key and no block came since.)  The block that generate_block builds from
\* them is one that push_block accepts.
SessionIsPending ==
    /\ phase = "idle" /\ ~mismatch =>
         session.txs = pending /\ AllApplicable(Ledger(chain), pending)
    /\ phase = "pack" /\ todo = <<>> => BlockApplies(Ledger(chain), block)

\* A transaction leaves the node only when it has expired or when it cannot be
\* applied on top of what is left: not by a fork switch, by a block that is
\* refused, or because it did not fit into a block.
NothingLost ==
    RestorerDone => \A t \in had \ (TxsOf(chain) \cup Range(pending)) : ~Applicable(PendingLedger, t)
=============================================================================
