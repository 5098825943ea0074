--------------------------- MODULE AccountHistory ---------------------------
(***************************************************************************)
(* The account history plugin: for each operation of an applied block an   *)
(* operation_history_object, and for each account it concerns an entry in  *)
(* a list linked from the newest to the oldest, of which the oldest are    *)
(* removed above the limits of the configuration.  The objects are under   *)
(* the undo database and follow the chain when blocks are popped; of the   *)
(* next id of the operations that holds only once the session has created  *)
(* one of them.                                                            *)
(*                                                                         *)
(* An operation is the set of accounts it concerns, or Skipped when the    *)
(* list of applied operations has no content for it.                       *)
(***************************************************************************)
EXTENDS Integers, FiniteSets, FiniteSetsExt, SequencesExt, Functions

CONSTANTS HistoryAccount,     \* accounts, numbers
          BlockContents,      \* sequences of operations a block may have
          Skipped,            \* an operation without content
          Options,            \* configurations of the plugin
          MaxHistoryBlocks    \* bound on the length of the chain

VARIABLES
    options,     \* the configuration of this node
    hist_chain,  \* the blocks: the operations of each
    history,     \* the objects of the plugin
    hist_undo    \* the undo state of each block

history_vars == <<options, hist_chain, history, hist_undo>>

NoEntry == 0
NoOldId == -1

EmptyHistory ==
    [stats     |-> [a \in HistoryAccount |-> [most_recent_op |-> NoEntry, total_ops |-> 0, removed_ops |-> 0]],
     entries   |-> <<>>,     \* account_history_objects by account and sequence
     ops       |-> <<>>,     \* block_num of the operation_history_objects by id
     next_id   |-> 0,        \* next id of the latter
     old_next  |-> NoOldId,     \* next id when the session created its first, for the undo
     exceeded  |-> <<>>,     \* exceeded_account_object.block_num by account
     endless   |-> FALSE]    \* remove_old_histories would never end

get_biggest_number_to_remove(biggest, keep) == IF biggest > keep THEN biggest - keep ELSE 0

get_max_ops_to_keep(a) ==
    LET keep == IF a \in options.extended /\ options.extended_max > options.max_ops
                THEN options.extended_max ELSE options.max_ops
    IN  IF keep = 0 THEN 1 ELSE keep

_latest_block_number_to_remove(block_num) == get_biggest_number_to_remove(block_num, options.min_blocks)

Referenced(entries, id) == \E e \in DOMAIN entries : entries[e].operation_id = id

-----------------------------------------------------------------------------
(* Removal of the earliest entries of an account, one round per sequence   *)
(* number.                                                                 *)
\* the operation of the entry with this sequence is too recent to be removed
KeptByBlocks(h, a, seq, block_num) ==
    /\ h.ops[h.entries[<<a, seq>>].operation_id] > _latest_block_number_to_remove(block_num)
    /\ seq > get_biggest_number_to_remove(h.stats[a].total_ops, options.max_by_blocks)

\* the sequence numbers the loop removes, given how many are above the limit
ToRemove(h, a, above, block_num) ==
    {seq \in h.stats[a].removed_ops + 1 .. above :
        \A earlier \in h.stats[a].removed_ops + 1 .. seq :
            /\ <<a, earlier>> \in DOMAIN h.entries
            /\ earlier # h.stats[a].most_recent_op
            /\ ~KeptByBlocks(h, a, earlier, block_num)}

\* the operations without a reference left go as well, when only those are kept
check_and_remove_op_history_obj(ops, ids, entries) ==
    IF options.partial
    THEN Restrict(ops, {id \in DOMAIN ops : id \in ids => Referenced(entries, id)})
    ELSE ops

remove_old_histories_by_account(h, a, block_num) ==
    LET stats   == h.stats[a]
        above   == get_biggest_number_to_remove(stats.total_ops, get_max_ops_to_keep(a))
        gone    == ToRemove(h, a, above, block_num)
        removed == stats.removed_ops + Cardinality(gone)
        oldest  == <<a, removed + 1>>
        ids     == {h.entries[<<a, seq>>].operation_id : seq \in gone}
        left    == Restrict(h.entries, {e \in DOMAIN h.entries : ~(e[1] = a /\ e[2] \in gone)})
        entries == IF gone # {} /\ oldest \in DOMAIN left
                   THEN [left EXCEPT ![oldest].next = NoEntry] ELSE left
    IN  [h EXCEPT
            !.entries = entries,
            !.ops = check_and_remove_op_history_obj(@, ids, entries),
            !.stats[a].removed_ops = removed,
            !.exceeded =
                IF removed < above
                THEN [b \in DOMAIN @ \cup {a} |->
                         IF b # a THEN @[b]
                         ELSE IF oldest \in DOMAIN entries THEN h.ops[entries[oldest].operation_id]
                         ELSE _latest_block_number_to_remove(block_num)]
                ELSE Restrict(@, DOMAIN @ \ {a})]

\* accounts above the limit whose oldest operation is not recent any more; a round that
\* changes nothing would be repeated for ever
RECURSIVE remove_old_histories(_, _)
remove_old_histories(h, block_num) ==
    LET due   == {a \in DOMAIN h.exceeded : h.exceeded[a] <= _latest_block_number_to_remove(block_num)}
        oldest == Min({h.exceeded[a] : a \in due})
        first == Min({a \in due : h.exceeded[a] = oldest})
        next  == remove_old_histories_by_account(h, first, block_num)
    IN  IF _latest_block_number_to_remove(block_num) = 0 \/ due = {} THEN h
        ELSE IF next = h THEN [h EXCEPT !.endless = TRUE]
        ELSE remove_old_histories(next, block_num)

-----------------------------------------------------------------------------
(* A block.                                                                *)
add_account_history(h, a, id, block_num) ==
    LET seq == h.stats[a].total_ops + 1
    IN  remove_old_histories_by_account(
            [h EXCEPT !.entries = (<<a, seq>> :> [operation_id |-> id, next |-> h.stats[a].most_recent_op]) @@ @,
                      !.stats[a] = [@ EXCEPT !.most_recent_op = seq, !.total_ops = seq]],
            a, block_num)

\* creating an object is seen by the undo state
create_oho(h, block_num) ==
    [h EXCEPT !.ops = (h.next_id :> block_num) @@ @, !.next_id = @ + 1,
              !.old_next = IF @ = NoOldId THEN h.next_id ELSE @]

\* A mutant: the id is used up without an object that the undo state would see.
skip_oho_id_unseen(h) == [h EXCEPT !.next_id = @ + 1]

\* the first id is used up by creating and removing an object
skip_oho_id(h) == [h EXCEPT !.next_id = @ + 1, !.old_next = IF @ = NoOldId THEN h.next_id ELSE @]

add_operation(h, impacted, block_num) ==
    LET concerned == IF options.max_ops = 0 THEN {}
                     ELSE IF options.tracked = {} THEN impacted ELSE options.tracked \cap impacted
        stored    == ~options.partial \/ concerned # {}
    IN  IF ~stored THEN skip_oho_id(h)
        ELSE FoldLeft(LAMBDA g, a : add_account_history(g, a, h.next_id, block_num),
                      create_oho(h, block_num), SetToSortSeq(concerned, <))

update_account_histories(h, ops, block_num) ==
    remove_old_histories(
        FoldLeft(LAMBDA g, op : IF op = Skipped THEN skip_oho_id(g) ELSE add_operation(g, op, block_num),
                 [h EXCEPT !.old_next = NoOldId], ops),
        block_num)

HistoryInit ==
    /\ options \in Options
    /\ hist_chain = <<>> /\ history = EmptyHistory /\ hist_undo = <<>>

push_history_block(ops) ==
    /\ Len(hist_chain) < MaxHistoryBlocks
    /\ hist_chain' = Append(hist_chain, ops)
    /\ hist_undo' = Append(hist_undo, history)
    /\ history' = update_account_histories(history, ops, Len(hist_chain) + 1)
    /\ UNCHANGED options

\* the undo state brings back the objects, and the next id if it has seen one
pop_history_block ==
    /\ hist_chain # <<>>
    /\ hist_chain' = Front(hist_chain) /\ hist_undo' = Front(hist_undo)
    /\ history' = [Last(hist_undo) EXCEPT
                      !.next_id = IF history.old_next = NoOldId THEN history.next_id ELSE history.old_next]
    /\ UNCHANGED options

HistoryNext ==
    \/ \E ops \in BlockContents : push_history_block(ops)
    \/ pop_history_block

HistorySpec == HistoryInit /\ [][HistoryNext]_history_vars

-----------------------------------------------------------------------------
(* What the plugin is for.                                                 *)
\* the operations of the chain with their blocks; the n-th has the id n - 1
Applied == FoldLeft(LAMBDA all, b : all \o [i \in DOMAIN hist_chain[b] |-> [op |-> hist_chain[b][i], block |-> b]],
                    <<>>, [b \in DOMAIN hist_chain |-> b])

\* the operations that concern a, if it is an account with a history
Concerning(a) ==
    IF options.max_ops = 0 \/ (options.tracked # {} /\ a \notin options.tracked)
    THEN <<>>
    ELSE SelectSeq([n \in DOMAIN Applied |-> n],
                   LAMBDA n : Applied[n].op # Skipped /\ a \in Applied[n].op)

\* the newest get_max_ops_to_keep entries, and up to max-ops-per-acc-by-min-blocks of the
\* latest min-blocks-to-keep blocks
KeptEntries(a) ==
    LET all == Concerning(a)
    IN  {seq \in DOMAIN all :
            \/ Len(all) - seq < get_max_ops_to_keep(a)
            \/ /\ Len(all) - seq < options.max_by_blocks
               /\ Applied[all[seq]].block + options.min_blocks > Len(hist_chain)}

\* However blocks are applied and popped, the list of an account has exactly the newest
\* operations that concern it, as many as the configuration promises, linked from the newest
\* to the oldest without a break; an operation is stored as long as, and with partial
\* operations only as long as, an entry refers to it; operations have the same ids whatever
\* the configuration; and the removal of old entries ends.
HistoryKept ==
    /\ ~history.endless
    /\ \A a \in HistoryAccount :
           LET all == Concerning(a)
           IN  /\ history.stats[a] = [most_recent_op |-> Len(all), total_ops |-> Len(all),
                                      removed_ops |-> Len(all) - Cardinality(KeptEntries(a))]
               /\ {e \in DOMAIN history.entries : e[1] = a} = {<<a, seq>> : seq \in KeptEntries(a)}
               /\ \A seq \in KeptEntries(a) :
                      history.entries[<<a, seq>>] =
                          [operation_id |-> all[seq] - 1,
                           next |-> IF seq - 1 \in KeptEntries(a) THEN seq - 1 ELSE NoEntry]
    /\ history.next_id = Len(Applied)
    /\ \A n \in DOMAIN Applied :
           /\ n - 1 \in DOMAIN history.ops <=>
                  IF options.partial THEN Referenced(history.entries, n - 1) ELSE Applied[n].op # Skipped
           /\ n - 1 \in DOMAIN history.ops => history.ops[n - 1] = Applied[n].block
=============================================================================
