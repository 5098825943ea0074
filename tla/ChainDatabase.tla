---------------------------- MODULE ChainDatabase ---------------------------
(***************************************************************************)
(* chain::database as a consumer of blocks: push_block with its switch     *)
(* between forks and its way back when the new fork turns out invalid,     *)
(* the undo history and the fork database it prunes with the last          *)
(* irreversible block, the block log it writes, and close, crash, open and *)
(* reindex.                                                                *)
(*                                                                         *)
(* The object database is represented by the chain of blocks that were     *)
(* applied to it (block application is deterministic), and the undo        *)
(* database by the number of committed states it can still undo; module    *)
(* UndoDatabase shows that undoing them restores the earlier content.  The *)
(* loops of a fork switch are taken one block at a time, because the       *)
(* process may die between two blocks; the program runs nothing else in    *)
(* between.                                                                *)
(***************************************************************************)
EXTENDS ForkDatabase

CONSTANTS Witness,          \* active witnesses (constant here)
          Producer,         \* the witness that signed each block
          Start,            \* head of the chain the exploration starts from
          Invalid,          \* blocks that fail to apply on their parent
          MaxUndoHistory,   \* GRAPHENE_MAX_UNDO_HISTORY
          MaxCrashes,       \* bound on the crashes of the process
          MaxCloses         \* bound on its orderly shutdowns

ASSUME ChainAssumption == /\ Witness # {} /\ IsFiniteSet(Witness)
                          /\ Producer \in [Block -> Witness]
                          /\ Start \in Block
                          /\ \A n \in DOMAIN path[Start] : path[Start][n] \notin Invalid
                          /\ Invalid \subseteq Block
                          /\ MaxUndoHistory \in Nat \ {0}
                          /\ MaxCrashes \in Nat /\ MaxCloses \in Nat

VARIABLES
    chain,       \* blocks applied to the object database, oldest first
    undo_size,   \* committed undo states
    undo_max,    \* undo_database::_max_size
    fork_db,     \* record of module ForkDatabase
    log,         \* _block_id_to_block: the block stored under each number
    flushed,     \* the chain of the object database that is on disk
    phase,       \* what the process is doing
    first,       \* rest of branches.first, oldest first
    second,      \* branches.second, oldest first
    cutoff,      \* where close() stops rewinding
    crashes, closes,
    before,      \* history: chain when the running push_block was called
    final,       \* history: the longest part of the chain that was ever
                 \* irreversible; last_irreversible_block_num itself goes back
                 \* when a switch leaves the blocks behind that confirmed it
    thrown       \* history: the last push_block threw

switching == <<first, second>>
stops == <<cutoff, crashes, closes>>
history == <<before, final, thrown>>
vars == <<chain, undo_size, undo_max, fork_db, log, flushed, phase, first,
          second, cutoff, crashes, closes, before, final, thrown>>

Phase == {"running", "pop", "push", "unwind", "restore", "closing", "down", "reindex"}

\* The initial _max_size, 256 undo states and 1024 forked blocks, is more than
\* any chain of the instance needs.
InitialSize == MaxHeight + 1

Tip(c) == IF c = <<>> THEN NoBlock ELSE c[Len(c)]

BelowTip(c) == SubSeq(c, 1, Len(c) - 1)

StartsWith(c, d) == Len(d) <= Len(c) /\ \A n \in DOMAIN d : c[n] = d[n]

-----------------------------------------------------------------------------
(* Block application                                                       *)

\* the witnesses whose last_confirmed_block_num is n or higher
ConfirmedBy(c, n) == {Producer[c[i]] : i \in n..Len(c)}

\* update_last_irreversible_block: at most offset of the sorted
\* last_confirmed_block_num values lie below the element at the offset, so it
\* is the highest number that all but offset witnesses have confirmed.  While
\* the set of active witnesses stays it never decreases along a chain.
\* MUTANT: half of the witnesses need not confirm
offset_half == Cardinality(Witness) \div 2

offset == ((10000 - 7000) * Cardinality(Witness)) \div 10000

last_irreversible(c) ==
    Max({0} \cup {n \in DOMAIN c :
                    Cardinality(ConfirmedBy(c, n)) >= Cardinality(Witness) - offset})

Finalized(c) ==
    IF last_irreversible(c) > Len(final) THEN SubSeq(c, 1, last_irreversible(c)) ELSE final

\* apply_block succeeds: the header links to the head, the block is valid,
\* and the undo history is allowed to be this long
Applies(c, b) ==
    /\ Previous[b] = Tip(c)
    /\ b \notin Invalid
    /\ Len(c) + 1 - last_irreversible(c) < MaxUndoHistory

\* The size that update_global_dynamic_data gives both databases; it is
\* computed before update_last_irreversible_block.
HistorySize(c) == Len(c) + 1 - last_irreversible(c) + 1

\* start_undo_session drops the oldest states above the limit first
Evicted == Min({undo_size, undo_max})

\* MUTANT: a block that replaces another one is not written
store_new_only(l, b) ==
    IF l[block_num[b]] = NoBlock THEN [l EXCEPT ![block_num[b]] = b] ELSE l

\* block_database::store: one entry for each number, the last one wins
store(l, b) == [l EXCEPT ![block_num[b]] = b]

\* A session around apply_block, the store into the block log and the commit,
\* with the fork database f of the caller.
ApplyAndCommit(f, b) ==
    /\ Applies(chain, b)
    /\ chain' = Append(chain, b)
    /\ final' = Finalized(chain')
    /\ undo_size' = Evicted + 1
    /\ undo_max' = HistorySize(chain)
    /\ fork_db' = fork_set_max_size(f, HistorySize(chain))
    /\ log' = store(log, b)

-----------------------------------------------------------------------------
(* push_block                                                              *)

\* A block that is refused before it reaches the fork database, or by it,
\* changes nothing: such calls are stuttering steps.  When the fork database
\* is empty the network layer hands over the child of the head first, because
\* it syncs in the order of the peer's chain.
Accepted(b) ==
    /\ phase = "running"
    /\ ~TooOld(fork_db, b)
    /\ ~Unlinkable(fork_db, b)
    /\ fork_db.head = NoBlock => Previous[b] = Tip(chain)

\* _push_block's test for the normal case, on the fork database after the push
BuildsOnTip(f) == Previous[f.head] = Tip(chain)

PushExtends(b) ==
    /\ Accepted(b)
    /\ \E f \in {fork_push_block(fork_db, b)} :
       /\ BuildsOnTip(f)
       /\ ApplyAndCommit(f, b)
       /\ before' = chain
       /\ thrown' = FALSE
       /\ UNCHANGED <<flushed, phase, switching, stops>>

\* The block does not apply: it leaves the fork database and push throws.
PushInvalid(b) ==
    /\ Accepted(b)
    /\ \E f \in {fork_push_block(fork_db, b)} :
       /\ BuildsOnTip(f)
       /\ ~Applies(chain, b)
       /\ fork_db' = remove(f, b)
       /\ undo_size' = Evicted
       /\ before' = chain
       /\ thrown' = TRUE
       /\ UNCHANGED <<chain, final, undo_max, log, flushed, phase, switching, stops>>

\* A block that is not higher than the head only enters the fork database.
PushStored(b) ==
    /\ Accepted(b)
    /\ \E f \in {fork_push_block(fork_db, b)} :
       /\ ~BuildsOnTip(f)
       /\ block_num[f.head] <= Len(chain)
       /\ fork_db' = f
       /\ before' = chain
       /\ thrown' = FALSE
       /\ UNCHANGED <<chain, final, undo_size, undo_max, log, flushed, phase, switching,
                      stops>>

\* The highest block is on another fork.
PushSwitches(b) ==
    /\ Accepted(b)
    /\ \E f \in {fork_push_block(fork_db, b)} :
       /\ ~BuildsOnTip(f)
       /\ block_num[f.head] > Len(chain)
       /\ chain # <<>> /\ BranchFound(f, f.head, Tip(chain))
       /\ fork_db' = f
       /\ first' = Branch(f.head, Tip(chain))
       /\ second' = Branch(Tip(chain), f.head)
       /\ phase' = "pop"
       /\ before' = chain
       /\ thrown' = FALSE
       /\ UNCHANGED <<chain, final, undo_size, undo_max, log, flushed, stops>>

\* fetch_branch_from throws, outside of every handler of _push_block.
PushUnconnected(b) ==
    /\ Accepted(b)
    /\ \E f \in {fork_push_block(fork_db, b)} :
       /\ ~BuildsOnTip(f)
       /\ block_num[f.head] > Len(chain)
       /\ ~(chain # <<>> /\ BranchFound(f, f.head, Tip(chain)))
       /\ fork_db' = f
       /\ before' = chain
       /\ thrown' = TRUE
       /\ UNCHANGED <<chain, final, undo_size, undo_max, log, flushed, phase, switching,
                      stops>>

-----------------------------------------------------------------------------
(* The fork switch                                                         *)

ForkPoint == Previous[Head(second)]

\* database::pop_block() does not throw
PopsBlock ==
    /\ fork_db.head # NoBlock
    /\ IF fork_db.head = Tip(chain) THEN fork_db.head_linked
       ELSE Tip(chain) \in fork_db.index
    /\ undo_size > 0

\* its effect; the transactions it puts aside are in PendingTransactions
pop_block ==
    /\ PopsBlock
    /\ chain' = BelowTip(chain)
    /\ undo_size' = undo_size - 1
    /\ UNCHANGED <<undo_max, log>>

PoppedForkDb ==
    IF fork_db.head = Tip(chain) THEN fork_pop_block(fork_db) ELSE fork_db

\* Pop blocks until the head is the block from which the branches diverge:
\* of the old fork at first, of the new one after a failure.
SwitchPop ==
    /\ phase \in {"pop", "unwind"}
    /\ pop_block
    /\ fork_db' = PoppedForkDb
    /\ phase' = IF Tip(chain') # ForkPoint THEN phase
                ELSE IF phase = "pop" THEN "push" ELSE "restore"
    /\ UNCHANGED <<flushed, switching, stops, history>>

\* pop_block() throws: the exception leaves _push_block where it is.
SwitchPopThrows ==
    /\ phase \in {"pop", "unwind"}
    /\ ~PopsBlock
    /\ phase' = "running"
    /\ first' = <<>> /\ second' = <<>>
    /\ thrown' = TRUE
    /\ UNCHANGED <<chain, undo_size, undo_max, fork_db, log, flushed, stops, before, final>>

SwitchPush ==
    /\ phase = "push"
    /\ ApplyAndCommit(fork_db, Head(first))
    /\ first' = Tail(first)
    /\ IF Tail(first) = <<>>
       THEN phase' = "running" /\ second' = <<>>
       ELSE UNCHANGED <<phase, second>>
    /\ UNCHANGED <<flushed, stops, before, thrown>>

\* The rest of the new branch is invalid: it leaves the fork database, whose
\* head becomes the old head again.
RemoveRejected ==
    RemoveBranch(fork_db, {first[i] : i \in DOMAIN first}, Tip(second))

\* MUTANT: the exception leaves without the way back
AfterFailure_rethrows == "running"

\* Blocks of the new branch that were applied are popped before the old
\* branch is applied again.
AfterFailure == IF Tip(chain) = ForkPoint THEN "restore" ELSE "unwind"

SwitchFails ==
    /\ phase = "push"
    /\ ~Applies(chain, Head(first))
    /\ fork_db' = RemoveRejected
    /\ undo_size' = Evicted
    /\ phase' = AfterFailure
    /\ first' = <<>>
    /\ thrown' = TRUE
    /\ UNCHANGED <<chain, undo_max, log, flushed, second, stops, before, final>>

\* Re-apply the old branch, then rethrow what the new branch threw.
Restore ==
    /\ phase = "restore"
    /\ ApplyAndCommit(fork_db, Head(second))
    /\ second' = Tail(second)
    /\ phase' = IF Tail(second) = <<>> THEN "running" ELSE phase
    /\ UNCHANGED <<flushed, first, stops, before, thrown>>

\* What a pending transaction does to the undo history: the pending session
\* and the temporary session inside it need room under the limit.  (A proposal
\* that it executes raises the limit by one for its own session, until the
\* next block sets it: more room for the states below.)
push_transaction ==
    /\ phase = "running"
    /\ undo_size > undo_max - 1
    /\ undo_size' = undo_max - 1
    /\ UNCHANGED <<chain, undo_max, fork_db, log, flushed, phase, switching,
                   stops, history>>

-----------------------------------------------------------------------------
(* close(), crash, open() and reindex()                                    *)

\* close() rewinds to the last irreversible block
Cutoff == last_irreversible(chain)

close ==
    /\ phase = "running"
    /\ closes < MaxCloses
    /\ phase' = "closing"
    /\ cutoff' = Cutoff
    /\ closes' = closes + 1
    /\ UNCHANGED <<chain, undo_size, undo_max, fork_db, log, flushed, switching,
                   crashes, history>>

Rewind ==
    /\ phase = "closing"
    /\ Len(chain) > cutoff
    /\ pop_block
    /\ fork_db' = remove(PoppedForkDb, Tip(chain))
    /\ UNCHANGED <<flushed, phase, switching, stops, history>>

\* What is left in memory when the process ends: the next one finds the
\* object database as it was written last.
Forgotten(disk) ==
    /\ chain' = disk
    /\ undo_size' = 0
    /\ undo_max' = InitialSize
    /\ fork_db' = EmptyForkDatabase(InitialSize)
    /\ phase' = "down"
    /\ first' = <<>> /\ second' = <<>>
    /\ before' = <<>> /\ thrown' = FALSE
    /\ UNCHANGED <<log, final>>

\* The rewind is over, or stopped by an exception that close() swallows: the
\* object database is written (object_database::flush renames it in place).
Flush ==
    /\ phase = "closing"
    /\ ~(Len(chain) > cutoff /\ PopsBlock)
    /\ flushed' = chain
    /\ Forgotten(chain)
    /\ cutoff' = 0
    /\ UNCHANGED <<crashes, closes>>

Crash ==
    /\ phase # "down"
    /\ crashes < MaxCrashes
    /\ Forgotten(flushed)
    /\ cutoff' = 0
    /\ crashes' = crashes + 1
    /\ UNCHANGED <<flushed, closes>>

last_num == Max({0} \cup {n \in DOMAIN log : log[n] # NoBlock})

\* The first block number that reindex() applies with undo history.
undo_point == IF last_num < MaxUndoHistory THEN 0 ELSE last_num - MaxUndoHistory

open ==
    /\ phase = "down"
    /\ last_num > 0 => last_num >= Len(chain)
    /\ phase' = IF last_num > Len(chain) THEN "reindex" ELSE "running"
    /\ fork_db' = IF last_num > Len(chain) /\ Len(chain) >= undo_point /\ chain # <<>>
                  THEN start_block(fork_db, log[Len(chain)])
                  ELSE fork_db
    /\ UNCHANGED <<chain, undo_size, undo_max, log, flushed, switching, stops, history>>

Replayed == log[Len(chain) + 1]

\* Below the undo point: apply_block, without undo history
ReindexApply ==
    /\ phase = "reindex"
    /\ Len(chain) + 1 < undo_point
    /\ Applies(chain, Replayed)
    /\ chain' = Append(chain, Replayed)
    /\ final' = Finalized(chain')
    /\ undo_max' = HistorySize(chain)
    /\ fork_db' = fork_set_max_size(fork_db, HistorySize(chain))
    /\ UNCHANGED <<undo_size, log, flushed, phase, switching, stops, before, thrown>>

FlushesNow == Len(chain) + 1 = undo_point

\* MUTANT: the replay stops one block early
ReplayEnds_early == Len(chain) + 2 >= last_num

ReplayEnds == Len(chain) + 1 = last_num

\* From the undo point on: push_block; at the undo point the object database
\* is written first.  The replay ends with the last block of the log.
ReindexPush ==
    /\ phase = "reindex"
    /\ Len(chain) + 1 >= undo_point
    /\ ~TooOld(fork_db, Replayed) /\ ~Unlinkable(fork_db, Replayed)
    /\ \E f \in {fork_push_block(fork_db, Replayed)} :
       /\ BuildsOnTip(f)
       /\ ApplyAndCommit(f, Replayed)
       /\ flushed' = IF FlushesNow THEN chain ELSE flushed
       /\ phase' = IF ReplayEnds THEN "running" ELSE "reindex"
       /\ UNCHANGED <<switching, stops, before, thrown>>

\* The next block of the log cannot be applied to the block before it:
\* reindex() and open() throw and the process ends.
ReindexThrows ==
    /\ phase = "reindex"
    /\ ~Applies(chain, Replayed)
    /\ Forgotten(flushed)
    /\ UNCHANGED <<flushed, stops>>

-----------------------------------------------------------------------------
\* A node that applied the blocks up to Start one after the other and was not
\* shut down since.
Init ==
    /\ chain = path[Start]
    /\ undo_size = Len(chain)
    /\ undo_max = HistorySize(BelowTip(chain))
    /\ fork_db = [index |-> Range(chain), linked |-> Range(Tail(chain)),
                  head |-> Start, head_linked |-> Len(chain) > 1,
                  max_size |-> HistorySize(BelowTip(chain))]
    /\ log = [n \in 1..MaxHeight |-> IF n \in DOMAIN chain THEN chain[n] ELSE NoBlock]
    /\ flushed = <<>>
    /\ phase = "running"
    /\ first = <<>> /\ second = <<>>
    /\ cutoff = 0
    /\ crashes = 0 /\ closes = 0
    /\ before = <<>>
    /\ final = SubSeq(chain, 1, last_irreversible(chain))
    /\ thrown = FALSE

push_block(b) == \/ PushExtends(b)
                 \/ PushInvalid(b)
                 \/ PushStored(b)
                 \/ PushSwitches(b)
                 \/ PushUnconnected(b)

\* The steps the process takes by itself once it was called.
Continue == \/ SwitchPop
            \/ SwitchPopThrows
            \/ SwitchPush
            \/ SwitchFails
            \/ Restore
            \/ Rewind
            \/ Flush
            \/ ReindexApply
            \/ ReindexPush
            \/ ReindexThrows

Next == \/ \E b \in Block : push_block(b)
        \/ Continue
        \/ push_transaction
        \/ close
        \/ Crash
        \/ open

Spec == Init /\ [][Next]_vars

\* The process runs on when it is not waiting for a call, a stopped process is
\* started again, and the network offers every block again and again (a peer
\* that is ahead is asked for the blocks after the last common one).
Fairness == /\ WF_vars(Continue)
            /\ WF_vars(open)
            /\ \A b \in Block : SF_vars(push_block(b))

FairSpec == Spec /\ Fairness

-----------------------------------------------------------------------------
(* Properties                                                              *)

\* The types; the prev pointers that lock belong to items of the index and lead
\* to items of the index.  It is checked as part of LogMatchesChain.
TypeOK ==
    /\ chain \in Seq(Block) /\ flushed \in Seq(Block) /\ before \in Seq(Block)
    /\ undo_size \in Nat /\ final \in Seq(Block)
    /\ undo_max \in Nat \ {0}
    /\ fork_db \in [index : SUBSET Block, linked : SUBSET Block,
                    head : Block \cup {NoBlock}, head_linked : BOOLEAN,
                    max_size : Nat \ {0}]
    /\ \A b \in fork_db.linked : {b, Previous[b]} \subseteq fork_db.index
    /\ log \in [1..MaxHeight -> Block \cup {NoBlock}]
    /\ phase \in Phase
    /\ first \in Seq(Block) /\ second \in Seq(Block)
    /\ cutoff \in Nat /\ crashes \in 0..MaxCrashes /\ closes \in 0..MaxCloses
    /\ thrown \in BOOLEAN

\* A push_block that throws leaves the chain as it found it: a switch to a fork
\* that turns out invalid half way comes back to the old head.
FailedPushRestoresChain == phase = "running" /\ thrown => chain = before

\* Between calls the fork database, the object database and the block log agree
\* on the head: _push_block relies on it to tell an extension from a switch, and
\* a restart replays the log to the same chain.
TipsAgree ==
    phase = "running" => /\ fork_db.head \in {Tip(chain), NoBlock}
                         /\ last_num = Len(chain)

\* Between calls the node is ready for a switch: the stores agree on the head
\* (TipsAgree), and every block that is not yet irreversible can be undone, with
\* transactions pending or not, and can be found and walked back through in the
\* fork database: the two limits that follow the last irreversible block leave
\* just enough.
SwitchPossible ==
    /\ TipsAgree
    /\ phase = "running" /\ fork_db.head # NoBlock =>
          /\ Len(chain) - Len(final) <= undo_size
          /\ \A n \in (Len(final) + 1)..Len(chain) : chain[n] \in fork_db.index \cap fork_db.linked

\* The object database holds one chain of valid blocks that starts at the
\* first block, and the block log has the blocks of it, in every intermediate
\* state of a replay, of a switch that overwrites entries and of a way back
\* from one that failed.  What is on disk, which a restart starts from, is part of
\* that chain.
LogMatchesChain ==
    /\ TypeOK
    /\ chain # <<>> => chain = path[Tip(chain)]
    /\ \A n \in DOMAIN chain : chain[n] \notin Invalid /\ log[n] = chain[n]
    /\ StartsWith(chain, flushed)

\* A block that was irreversible once is never replaced: no switch goes below
\* it, and no restart comes up on a chain without it.
IrreversibleKept ==
    /\ StartsWith(chain, final) \/ StartsWith(final, chain)
    /\ phase \in {"running", "pop", "push", "unwind", "restore"} => StartsWith(chain, final)

BestHeight ==
    Max({block_num[b] : b \in {c \in Block : \A n \in 1..block_num[c] : path[c][n] \notin Invalid}})

\* Every entry of the block log is the child of the one before it.
LogIsPath == \A n \in 2..last_num : log[n - 1] # NoBlock => Previous[log[n]] = log[n - 1]

\* A node that keeps being offered the blocks ends on a longest valid chain,
\* whatever forks and invalid blocks it meets on the way, and over restarts and
\* crashes.  Only a crash in the middle of a switch, which leaves blocks of the
\* old branch behind those of the new one in the log, keeps it from coming up.
Converges == [](phase = "down" => LogIsPath) => <>[](phase = "running" /\ Len(chain) = BestHeight)
=============================================================================
