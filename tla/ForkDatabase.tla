---------------------------- MODULE ForkDatabase ----------------------------
(***************************************************************************)
(* fork_database: the tree of recent blocks, keyed by block id, from which *)
(* database::_push_block learns which block is the highest and along which *)
(* path a switch to it has to go.                                          *)
(*                                                                         *)
(* The blocks that can ever be pushed are a constant tree (Previous).  The *)
(* state of the fork database is a record                                  *)
(*   index        the ids in _index                                        *)
(*   linked       the items of index whose weak pointer prev still locks;  *)
(*                a pointer is set when the item is inserted and dies when *)
(*                the item it points to leaves the index, for good: a      *)
(*                later push of the same block makes another item          *)
(*   head         the id of _head, or NoBlock when _head is null           *)
(*   head_linked  whether the prev of the _head object locks; _head may be *)
(*                a second object for a block that is already in the index *)
(*   max_size     _max_size                                                *)
(* and the member functions are operators from one such record to another. *)
(***************************************************************************)
EXTENDS Integers, Sequences, FiniteSets, FiniteSetsExt

CONSTANTS Block,        \* ids of the blocks that exist
          NoBlock,      \* block_id_type(), the previous of the first block
          Previous,     \* the previous field of every block
          num_from_id,  \* the number that is part of an id
          MaxHeight     \* bound on the numbers, of 32 bits

\* block_header::block_num(): one more than the number in the id of previous
block_num ==
    [b \in Block |-> IF Previous[b] = NoBlock THEN 1 ELSE num_from_id[Previous[b]] + 1]

\* signed_block_header::id() writes the number of the block into its id
ASSUME TreeAssumption == /\ NoBlock \notin Block
                         /\ Previous \in [Block -> Block \cup {NoBlock}]
                         /\ MaxHeight \in Nat
                         /\ num_from_id \in [Block -> 1..MaxHeight]
                         /\ num_from_id = block_num

\* the blocks from the first one to b, so that path[b][n] has number n
path[b \in Block] ==
    IF Previous[b] = NoBlock THEN <<b>> ELSE Append(path[Previous[b]], b)

EmptyForkDatabase(size) ==
    [index |-> {}, linked |-> {}, head |-> NoBlock, head_linked |-> FALSE,
     max_size |-> size]

\* Taking blocks out of the index kills the prev pointers to them.
Keep(f, kept) ==
    [f EXCEPT !.index = kept,
              !.linked = {b \in f.linked \cap kept : Previous[b] \in kept},
              !.head_linked = @ /\ Previous[f.head] \in kept]

\* MUTANT: the lowest block that should stay goes as well
fork_set_max_size_strict(f, size) ==
    LET resized == [f EXCEPT !.max_size = size]
    IN IF f.head = NoBlock THEN resized
       ELSE Keep(resized, {b \in f.index : block_num[b] > block_num[f.head] - size + 1})

\* set_max_size: blocks too far below the fork database's own head go
fork_set_max_size(f, size) ==
    LET resized == [f EXCEPT !.max_size = size]
    IN IF f.head = NoBlock THEN resized
       ELSE Keep(resized, {b \in f.index :
                             block_num[b] >= Max({0, block_num[f.head] - size})})

start_block(f, b) ==
    [f EXCEPT !.index = @ \cup {b}, !.head = b, !.head_linked = FALSE]

\* MUTANT: as if only blocks above the head were of use
TooOld_below_head(f, b) == f.head # NoBlock /\ block_num[b] <= block_num[f.head]

\* The two conditions under which _push_block(item) throws.
TooOld(f, b) ==
    /\ f.head # NoBlock
    /\ block_num[b] <= Max({0, block_num[f.head] - f.max_size})

Unlinkable(f, b) ==
    /\ f.head # NoBlock
    /\ Previous[b] # NoBlock
    /\ Previous[b] \notin f.index

\* _push_block(item) when it does not throw.  Inserting an id that the index
\* holds leaves the old item there; the new item can still become _head.
fork_push_block(f, b) ==
    LET links    == f.head # NoBlock /\ Previous[b] # NoBlock
        inserted == [f EXCEPT
                       !.index  = @ \cup {b},
                       !.linked = IF links /\ b \notin f.index THEN @ \cup {b} ELSE @]
        higher   == f.head = NoBlock \/ block_num[b] > block_num[f.head]
        headed   == [inserted EXCEPT !.head = b, !.head_linked = links]
        min_num  == block_num[b] - Min({f.max_size, block_num[b]})
    IN IF ~higher THEN inserted
       ELSE IF f.head = NoBlock THEN headed
       ELSE Keep(headed, {c \in headed.index : block_num[c] >= min_num})

\* pop_block(); it throws unless PopsHead
PopsHead(f) == f.head # NoBlock /\ f.head_linked

fork_pop_block(f) ==
    [f EXCEPT !.head = Previous[f.head], !.head_linked = Previous[f.head] \in f.linked]

\* remove(id), which steps _head back, or resets it, when it was the block
remove(f, b) ==
    LET stepped == IF f.head # b THEN f
                   ELSE IF PopsHead(f) THEN fork_pop_block(f)
                   ELSE [f EXCEPT !.head = NoBlock, !.head_linked = FALSE]
    IN Keep(stepped, f.index \ {b})

\* remove() of each block of a branch from its oldest to its newest, followed
\* by set_head(h)
RemoveBranch(f, branch, h) ==
    Keep([f EXCEPT !.head = h, !.head_linked = h \in f.linked], f.index \ branch)

\* fetch_branch_from(first, second): the lowest pair of blocks of one number
\* on the two branches that share their previous block.  Branches are listed
\* oldest block first.
ForkLevel(x, y) ==
    Max({n \in 1..Min({block_num[x], block_num[y]}) :
            Previous[path[x][n]] = Previous[path[y][n]]})

Branch(x, y) == SubSeq(path[x], ForkLevel(x, y), block_num[x])

\* The call throws when a block is unknown or a prev on the way is gone.
BranchFound(f, x, y) ==
    /\ {x, y} \subseteq f.index
    /\ \A b \in {x, y} : \A n \in (ForkLevel(x, y) + 1)..block_num[b] :
          path[b][n] \in f.linked
=============================================================================
