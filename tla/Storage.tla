------------------------------ MODULE Storage -------------------------------
(***************************************************************************)
(* What a node has on disk and how it comes back from it: the two files of *)
(* block_database with the stream buffers in front of them, the directory  *)
(* renames of object_database::flush, the version file, close(), a crash   *)
(* of the process at any point, open() and reindex() with its queue of     *)
(* blocks and its treatment of a gap.                                      *)
(*                                                                         *)
(* There is one chain here, so a block is its number and the object        *)
(* database is the number of its head block; forks are in ChainDatabase.   *)
(* A crash is the end of the process: what was handed to the operating     *)
(* system survives.  The files may also be damaged (Damage), which         *)
(* reindex() expects.                                                      *)
(***************************************************************************)
EXTENDS Integers, Sequences

CONSTANTS MaxNum,          \* highest block number
          MaxUndoHistory,  \* GRAPHENE_MAX_UNDO_HISTORY
          QueueSize,       \* blocks that reindex() reads ahead (20)
          Lag,             \* distance from the head to the last irreversible block
          DamageDepth,     \* how far from the end of the log data may be damaged
          MaxCrashes, MaxCloses, MaxUpgrades, MaxDamage   \* bounds

\* With one witness the last irreversible block would be the head itself.  In
\* the code the queue has 20 blocks and the undo history 10000; damage further
\* back than the last conjunct allows makes reindex() drop blocks that it then
\* applies without storing them again.
ASSUME StorageAssumption == /\ MaxNum \in Nat \ {0} /\ MaxUndoHistory \in Nat \ {0}
                            /\ QueueSize \in Nat \ {0} /\ Lag \in Nat \ {0}
                            /\ Lag < MaxUndoHistory /\ DamageDepth \in Nat
                            /\ {MaxCrashes, MaxCloses, MaxUpgrades, MaxDamage} \subseteq Nat
                            /\ DamageDepth + QueueSize <= MaxUndoHistory + 3

VARIABLES
    blocks,      \* file "blocks": what lies at each position
    index,       \* file "index": an entry for each block number
    buffered,    \* the block whose data is in the buffer of the stream _blocks
                 \* and whose entry is in that of _block_num_to_pos, 0 if none
    failed,      \* the stream _blocks has its failbit set, which nothing clears
    target, old, tmp,   \* the directories object_database, .old and .tmp
    db_version,  \* whether the file db_version holds this program's version
    pc,          \* what the process does
    head,        \* head_block_num() of the object database in memory
    undo,        \* states that the undo database can pop
    next, last, i, loading,   \* local variables of reindex()
    stored,      \* history: the highest block that the node has to come back with
    used         \* how often each bounded event has happened

files == <<blocks, index, buffered, failed>>
dirs == <<target, old, tmp>>
replay == <<next, last, i, loading>>
vars == <<blocks, index, buffered, failed, target, old, tmp, db_version, pc, head, undo,
          next, last, i, loading, stored, used>>

Torn == 0                \* the first part of a block that was not written out
Garbled == -1            \* bytes that do not unpack to the block of the entry
Num == 1..MaxNum

Event == {"crash", "close", "upgrade", "damage"}
Limit == [crash |-> MaxCrashes, close |-> MaxCloses, upgrade |-> MaxUpgrades,
          damage |-> MaxDamage]

-----------------------------------------------------------------------------
(* block_database                                                          *)

\* index_entry: position and size of the data, and the block id.  An entry
\* that was skipped over reads as zeros.
index_entry(pos, id) == [block_pos |-> pos, block_size |-> 1, block_id |-> id]
Hole == [block_pos |-> 0, block_size |-> 0, block_id |-> 0]

\* the files with what is in the buffers
Written == IF buffered = 0 THEN blocks ELSE Append(blocks, buffered)

\* seekp behind the end of the file fills it up with zeros
Put(file, n, e) ==
    [k \in 1..(IF n > Len(file) THEN n ELSE Len(file)) |->
        IF k = n THEN e ELSE IF k \in DOMAIN file THEN file[k] ELSE Hole]

Indexed == IF buffered = 0 THEN index
           ELSE Put(index, buffered, index_entry(Len(blocks) + 1, buffered))

\* block_database::store: each seekp first writes out what its stream still
\* has in its buffer; data and entry of this block stay in the buffers.  A
\* stream that has failed throws.
store(n) ==
    /\ ~failed
    /\ UNCHANGED failed
    /\ blocks' = Written
    /\ index' = Indexed
    /\ buffered' = n

\* flush(), close(), and every seekg of a lookup
WriteOut == blocks' = Written /\ index' = Indexed /\ buffered' = 0

\* block_pos + block_size <= size of the file
InFile(b, e) == e.block_pos < Len(b) \/ (e.block_pos = Len(b) /\ b[Len(b)] # Torn)

\* the entry is not empty, its data is there and unpacks to its block
Readable(b, e) == /\ e.block_size > 0
                  /\ InFile(b, e)
                  /\ b[e.block_pos] = e.block_id

\* fetch_by_number finds block n
fetch_by_number(b, ix, n) == n \in DOMAIN ix /\ Readable(b, ix[n])

\* MUTANT: the search begins one entry before the end
last_index_entry_skips(b, ix) ==
    LET good == {n \in DOMAIN ix : n < Len(ix) /\ Readable(b, ix[n])}
    IN  IF good = {} THEN 0 ELSE CHOOSE n \in good : \A m \in good : m <= n

\* last_index_entry: the last entry whose data can be read, 0 if none.  The
\* index file is cut behind it.
last_index_entry(b, ix) ==
    LET good == {n \in DOMAIN ix : Readable(b, ix[n])}
    IN  IF good = {} THEN 0 ELSE CHOOSE n \in good : \A m \in good : m <= n

\* MUTANT: the blocks behind a gap stay
DroppedAfter_none(b, ix, n) == ix

\* The index after the calls of remove() and last_id() that drop the blocks
\* from the end until the last one is n or lower: remove() clears the size of
\* the entry and the next last_id() cuts it off.
DroppedAfter(b, ix, n) ==
    SubSeq(ix, 1, last_index_entry(b, SubSeq(ix, 1, IF n < Len(ix) THEN n ELSE Len(ix))))

-----------------------------------------------------------------------------
(* Blocks arrive                                                           *)

Happens(e) == used[e] < Limit[e] /\ used' = [used EXCEPT ![e] = @ + 1]

\* push_block of the next block
push_block ==
    /\ pc = "running"
    /\ head < MaxNum
    /\ head' = head + 1
    /\ undo' = undo + 1
    /\ store(head + 1)
    /\ UNCHANGED <<dirs, db_version, pc, replay, stored, used>>

\* A peer or a client asks for a block: contains, fetch_optional,
\* fetch_block_id, fetch_by_number.
Lookup ==
    /\ pc = "running"
    /\ buffered # 0
    /\ WriteOut
    /\ UNCHANGED <<failed, dirs, db_version, pc, head, undo, replay, stored, used>>

-----------------------------------------------------------------------------
(* Shutdown, and object_database::flush, which reindex() calls too         *)

Cutoff == IF head > Lag THEN head - Lag ELSE 0

\* close() pops down to the last irreversible block; what cannot be popped
\* throws, and the exception is swallowed.
close ==
    /\ pc = "running"
    /\ Happens("close")
    /\ head' = IF head - Cutoff > undo THEN head - undo ELSE Cutoff
    /\ undo' = undo - (head - head')
    /\ pc' = "flush"
    /\ stored' = head
    /\ UNCHANGED <<files, dirs, db_version, replay>>

\* a directory: whether it is there, the state saved in it, whether that is complete
Directory == [exists : BOOLEAN, head : 0..MaxNum, whole : BOOLEAN]
NoDir == [exists |-> FALSE, head |-> 0, whole |-> TRUE]
Saved(complete) == [exists |-> TRUE, head |-> head, whole |-> complete]

\* .tmp is made anew, with a lock inside, and the indexes are saved into it
flush_save ==
    /\ pc = "flush"
    /\ tmp' = Saved(FALSE)
    /\ pc' = "saved"
    /\ UNCHANGED <<files, target, old, db_version, head, undo, replay, stored, used>>

\* all indexes are saved and the lock is removed
flush_unlock ==
    /\ pc = "saved"
    /\ tmp' = Saved(TRUE)
    /\ pc' = "unlocked"
    /\ UNCHANGED <<files, target, old, db_version, head, undo, replay, stored, used>>

\* remove_all(old), rename(target, old)
flush_rename_old ==
    /\ pc = "unlocked"
    /\ old' = IF target.exists THEN target ELSE old
    /\ target' = NoDir
    /\ pc' = "renamed"
    /\ UNCHANGED <<files, tmp, db_version, head, undo, replay, stored, used>>

\* rename(tmp, target), remove_all(old).  close() closes the block database
\* next; reindex() goes on.
flush_rename ==
    /\ pc = "renamed"
    /\ target' = tmp /\ old' = NoDir /\ tmp' = NoDir
    /\ pc' = IF last = 0 THEN "closing" ELSE "flushed"
    /\ UNCHANGED <<files, db_version, head, undo, replay, stored, used>>

block_database_close ==
    /\ pc = "closing"
    /\ WriteOut
    /\ pc' = "down" /\ head' = 0 /\ undo' = 0 /\ failed' = FALSE
    /\ UNCHANGED <<dirs, db_version, replay, stored, used>>

Ended == /\ pc' = "down" /\ head' = 0 /\ undo' = 0 /\ failed' = FALSE
         /\ next' = 0 /\ last' = 0 /\ i' = 0 /\ loading' = FALSE

\* What is sure to come back when the process dies now.  What is in the buffers
\* may be lost, and when it was stored before, what lies behind it in the log is
\* lost too, because the entry then points nowhere.  Behind a gap a replay drops
\* what it has not applied yet.
Surely ==
    LET applied == pc = "running" \/ (last # 0 /\ ~loading /\ ~failed)
        known   == IF applied THEN head ELSE stored
    IN  IF buffered # 0 /\ buffered <= known THEN buffered - 1 ELSE known

\* The process dies.  The data in a buffer is lost, or was just written out; a
\* block larger than the buffer may be cut in the middle.
Crash ==
    /\ pc # "down"
    /\ Happens("crash")
    /\ blocks' \in {blocks, Written} \cup (IF buffered = 0 THEN {} ELSE {Append(blocks, Torn)})
    /\ index' \in {index, Indexed}
    /\ buffered' = 0
    /\ stored' = Surely
    /\ Ended
    /\ UNCHANGED <<dirs, db_version>>

\* The administrator installs a program with another database version.
Upgrade ==
    /\ pc = "down"
    /\ db_version
    /\ Happens("upgrade")
    /\ db_version' = FALSE
    /\ UNCHANGED <<files, dirs, pc, head, undo, replay, stored>>

\* The data of a block above the saved state is damaged while the node is down.
Damage(n) ==
    /\ pc = "down"
    /\ fetch_by_number(blocks, index, n)
    /\ n > Len(index) - DamageDepth
    /\ n > target.head
    /\ Happens("damage")
    /\ blocks' = [blocks EXCEPT ![index[n].block_pos] = Garbled]
    /\ stored' = IF n <= stored THEN n - 1 ELSE stored
    /\ UNCHANGED <<index, buffered, failed, dirs, db_version, pc, head, undo, replay>>

-----------------------------------------------------------------------------
(* open                                                                    *)

\* MUTANT: the version is written before the old database is wiped
open_version_first ==
    /\ pc = "down"
    /\ db_version' = TRUE
    /\ IF db_version THEN pc' = "version" /\ UNCHANGED target
       ELSE /\ pc' = "wipe"
            /\ target' = [target EXCEPT !.whole = ~target.exists]
    /\ UNCHANGED <<files, old, tmp, head, undo, replay, stored, used>>

\* A missing or a wrong version: object_database::wipe removes the files of
\* the directory, which takes a while.
open ==
    /\ pc = "down"
    /\ IF db_version THEN pc' = "version" /\ UNCHANGED target
       ELSE /\ pc' = "wipe"
            /\ target' = [target EXCEPT !.whole = ~target.exists]
    /\ UNCHANGED <<files, old, tmp, db_version, head, undo, replay, stored, used>>

\* The directory is gone; then the version file is written.
wipe ==
    /\ pc = "wipe"
    /\ target' = NoDir
    /\ pc' = "wiped"
    /\ UNCHANGED <<files, old, tmp, db_version, head, undo, replay, stored, used>>

write_version ==
    /\ pc = "wiped"
    /\ db_version' = TRUE
    /\ pc' = "version"
    /\ UNCHANGED <<files, dirs, head, undo, replay, stored, used>>

\* object_database::open loads what is in the directory; without one the
\* state is built from genesis.
open_objects ==
    /\ pc = "version"
    /\ head' = target.head
    /\ pc' = "opened"
    /\ UNCHANGED <<files, dirs, db_version, undo, replay, stored, used>>

\* The first block that reindex() applies with undo history.
undo_point == IF last < MaxUndoHistory THEN 0 ELSE last - MaxUndoHistory


\* the log does not end before the saved state
LastMatches(n) == n > 0 => n >= head

\* last_id() cuts the index, then the assertion on the last block and the
\* beginning of reindex().  A failed assertion ends the process.
open_blocks ==
    /\ pc = "opened"
    /\ \E n \in {last_index_entry(blocks, index)} :
       /\ LastMatches(n)
       /\ index' = SubSeq(index, 1, n)
       /\ IF n > head
          THEN /\ pc' = "replay"
               /\ last' = n /\ next' = head + 1 /\ i' = head + 1 /\ loading' = TRUE
          ELSE /\ pc' = "running"
               /\ UNCHANGED replay
    /\ UNCHANGED <<blocks, buffered, failed, dirs, db_version, head, undo, stored, used>>

-----------------------------------------------------------------------------
(* reindex: blocks i .. next - 1 are in the queue                          *)

Loads == loading /\ next <= last /\ next - i < QueueSize

load_block ==
    /\ pc = "replay"
    /\ Loads
    /\ fetch_by_number(Written, Indexed, next)
    /\ next' = next + 1
    /\ WriteOut
    /\ UNCHANGED <<failed, dirs, db_version, pc, head, undo, last, i, loading, stored,
                   used>>

ReadsPastEnd(b, ix, n) == n \in DOMAIN ix /\ ix[n].block_size > 0 /\ ~InFile(b, ix[n])

\* A block is missing: the blocks behind are dropped from the log, down to
\* the block that is applied next, and no more are loaded.  When the entry
\* points behind the end of the file the read sets the failbit: last_id()
\* then finds nothing, and nothing is dropped.
load_gap ==
    /\ pc = "replay"
    /\ Loads
    /\ ~fetch_by_number(Written, Indexed, next)
    /\ loading' = FALSE
    /\ blocks' = Written
    /\ failed' = ReadsPastEnd(Written, Indexed, next)
    /\ index' = IF failed' THEN Indexed ELSE DroppedAfter(Written, Indexed, i)
    /\ buffered' = 0
    /\ UNCHANGED <<dirs, db_version, pc, head, undo, next, last, i, stored, used>>

\* At the undo point the object database is flushed first.
replay_flush ==
    /\ pc = "replay"
    /\ ~Loads /\ i < next
    /\ i = undo_point
    /\ pc' = "flush"
    /\ UNCHANGED <<files, dirs, db_version, head, undo, replay, stored, used>>

\* below the undo point: apply_block, which does not store the block
replay_apply ==
    /\ pc = "replay"
    /\ ~Loads /\ i < next
    /\ i < undo_point
    /\ head' = i
    /\ i' = i + 1
    /\ UNCHANGED <<files, dirs, db_version, pc, undo, next, last, loading, stored, used>>

Pushes == \/ pc = "flushed"
          \/ pc = "replay" /\ ~Loads /\ i < next /\ i > undo_point

\* from the undo point on: push_block, which stores it again
replay_push ==
    /\ Pushes
    /\ head' = i
    /\ undo' = undo + 1
    /\ i' = i + 1
    /\ store(i)
    /\ pc' = "replay"
    /\ UNCHANGED <<dirs, db_version, next, last, loading, stored, used>>

\* store() throws: reindex() and open() fail and the process ends
replay_throws ==
    /\ Pushes
    /\ failed
    /\ Ended
    /\ UNCHANGED <<blocks, index, buffered, dirs, db_version, stored, used>>

replay_done ==
    /\ pc = "replay"
    /\ ~Loads /\ i = next
    /\ pc' = "running"
    /\ next' = 0 /\ last' = 0 /\ i' = 0 /\ loading' = FALSE
    /\ UNCHANGED <<files, dirs, db_version, head, undo, stored, used>>

-----------------------------------------------------------------------------
\* A node that was just installed.
Init ==
    /\ blocks = <<>> /\ index = <<>> /\ buffered = 0 /\ failed = FALSE
    /\ target = NoDir /\ old = NoDir /\ tmp = NoDir
    /\ db_version = FALSE
    /\ pc = "down"
    /\ head = 0 /\ undo = 0
    /\ next = 0 /\ last = 0 /\ i = 0 /\ loading = FALSE
    /\ stored = 0
    /\ used = [e \in Event |-> 0]

Starting == open \/ wipe \/ write_version \/ open_objects \/ open_blocks

Replaying == \/ load_block \/ load_gap
             \/ replay_flush \/ replay_apply \/ replay_push \/ replay_throws \/ replay_done

Flushing == flush_save \/ flush_unlock \/ flush_rename_old \/ flush_rename \/ block_database_close

Next == \/ push_block \/ Lookup
        \/ close \/ Flushing
        \/ Crash \/ Upgrade
        \/ \E n \in Num : Damage(n)
        \/ Starting
        \/ Replaying

\* The process runs on by itself, and a stopped node is started again.
Spec == Init /\ [][Next]_vars /\ WF_vars(Starting \/ Replaying \/ Flushing)

-----------------------------------------------------------------------------
(* Properties                                                              *)

LogHas(n) == fetch_by_number(Written, Indexed, n)

TypeOK ==
    /\ blocks \in Seq(Num \cup {Torn, Garbled})
    /\ \A n \in DOMAIN index : index[n].block_size = 1 /\ index[n].block_id = n
    /\ {target, old, tmp} \subseteq Directory
    /\ head \in 0..MaxNum /\ undo \in 0..head /\ buffered \in 0..MaxNum
    /\ i <= next /\ next <= last + 1

\* The object database in memory was loaded from a complete directory: neither
\* a save nor a wipe that was interrupted is ever taken for one.
OpenedWhole == pc \in {"version", "opened"} => target.whole

\* A running node has every block of its chain in the log and nothing behind
\* it, whatever crashes and damage it came through: the lookups of peers and
\* the next replay depend on it.  A process whose stream failed in the replay
\* is excepted, it has to be restarted.  The state it starts from was saved as
\* a whole (OpenedWhole).
LogHasChain ==
    /\ TypeOK
    /\ OpenedWhole
    /\ pc = "running" /\ ~failed =>
          /\ \A n \in 1..head : LogHas(n)
          /\ \A n \in Num : LogHas(n) => n <= head

\* A crash loses the block in the buffers and, while a replay stores blocks
\* again, those behind it, and damage loses the blocks from the damaged one on;
\* with every other block the node comes back, replayed from the log, however
\* often it dies before it is up again.
OnlyUnsavedLost == pc = "running" => head >= stored

=============================================================================
