---------------------------- MODULE UndoDatabase ----------------------------
(***************************************************************************)
(* graphene::db::undo_database together with the part of object_database   *)
(* it protects: objects are created, modified and removed through          *)
(* primary_index, every change is recorded in the undo_state on top of     *)
(* _stack, and a session is undone, merged into its parent or committed.   *)
(*                                                                         *)
(* An object has a unique key, which no caller of modify() changes, and a  *)
(* mutable value.  A map of the code is a total function here, with Absent *)
(* (or NoId) where the map has no entry.                                   *)
(*                                                                         *)
(* `snapshots' is a history variable: snapshots[i] is the content of the   *)
(* object database when _stack[i] was pushed.  No action reads it.         *)
(***************************************************************************)
EXTENDS Integers, Sequences

CONSTANTS
    Index,          \* the object types, one primary_index each
    Key,            \* values of the unique key of an object
    Val,            \* values of the mutable part of an object
    Absent,         \* "no object here"
    MaxInstance,    \* bound: instance numbers of ids are 0..MaxInstance
    MaxUndo,        \* bound: set_max_size is called with 1..MaxUndo
    MaxNesting,     \* undo_session_nesting_guard: active_witnesses.size() * 2
    MaxStates       \* bound: length of the undo stack

Instance == 0..MaxInstance
Ids      == Index \X Instance
Object   == [key : Key, val : Val]
Slot     == Object \cup {Absent}
NoId     == -1

ASSUME BoundsAssumption ==
    /\ MaxInstance \in Nat
    /\ MaxUndo \in Nat \ {0}
    /\ MaxNesting \in Nat
    /\ MaxStates \in Nat
ASSUME AbsentAssumption == Absent \notin Object

VARIABLES
    objects,         \* content of the indexes: Ids -> Slot
    next_id,         \* primary_index::_next_id, the next instance number
    stack,           \* undo_database::_stack, oldest state first
    active_sessions, \* undo_database::_active_sessions
    nesting,         \* database::_undo_session_nesting_depth
    disable_on_exit, \* session::_disable_on_exit of the outermost live session
    disabled,        \* undo_database::_disabled
    max_size,        \* undo_database::_max_size
    failed,          \* an undo threw: ~session() terminates, pop_commit rethrows
    snapshots        \* history: database content when each state was pushed

vars == <<objects, next_id, stack, active_sessions, nesting, disable_on_exit,
          disabled, max_size, failed, snapshots>>

UndoState ==
    [old_values : [Ids -> Slot], old_index_next_ids : [Index -> Int],
     new_ids : SUBSET Ids, removed : [Ids -> Slot]]

Content == [objects : [Ids -> Slot], next_id : [Index -> Nat]]
Current == [objects |-> objects, next_id |-> next_id]

EmptyState ==
    [old_values |-> [id \in Ids |-> Absent], old_index_next_ids |-> [x \in Index |-> NoId],
     new_ids |-> {}, removed |-> [id \in Ids |-> Absent]]

UniqueKeys(o) ==
    \A i, j \in Ids : /\ i[1] = j[1]
                      /\ o[i] # Absent
                      /\ o[j] # Absent
                      /\ o[i].key = o[j].key
                      => i = j

-----------------------------------------------------------------------------
(* The hooks primary_index calls around a change.  Each maps the top undo  *)
(* state to its new value.                                                 *)

on_create(st, id) ==
    LET first == st.old_index_next_ids[id[1]] = NoId
    IN  [st EXCEPT !.old_index_next_ids[id[1]] = IF first THEN id[2] ELSE @,
                   !.new_ids = @ \cup {id}]

(* A mutant: a second change of an object overwrites its recorded value.   *)
on_modify_overwrites(st, id, obj) ==
    IF id \in st.new_ids THEN st ELSE [st EXCEPT !.old_values[id] = obj]

on_modify(st, id, obj) ==
    IF id \in st.new_ids \/ st.old_values[id] # Absent
    THEN st
    ELSE [st EXCEPT !.old_values[id] = obj]

(* A mutant: a removed object stays in the set of new objects.             *)
on_remove_keeps_new(st, id, obj) ==
    IF id \in st.new_ids
    THEN st
    ELSE [st EXCEPT !.old_values[id] = Absent,
                    !.removed[id] = IF st.old_values[id] # Absent THEN st.old_values[id] ELSE obj]

on_remove(st, id, obj) ==
    IF id \in st.new_ids
    THEN [st EXCEPT !.new_ids = @ \ {id}]
    ELSE IF st.old_values[id] # Absent
         THEN [st EXCEPT !.removed[id] = st.old_values[id], !.old_values[id] = Absent]
         ELSE IF st.removed[id] # Absent
              THEN st
              ELSE [st EXCEPT !.removed[id] = obj]

(* A hook works on the top of the stack and pushes a state first when the  *)
(* stack is empty; a disabled undo database records nothing.               *)
Top == IF stack = << >> THEN EmptyState ELSE stack[Len(stack)]

Record(st) ==
    IF disabled
    THEN UNCHANGED <<stack, snapshots>>
    ELSE IF stack = << >>
         THEN stack' = <<st>> /\ snapshots' = <<Current>>
         ELSE stack' = [stack EXCEPT ![Len(stack)] = st] /\ UNCHANGED snapshots

SessionsUnchanged ==
    UNCHANGED <<active_sessions, nesting, disable_on_exit, disabled, max_size, failed>>

-----------------------------------------------------------------------------
(* Objects change only inside primary_index.  A create() that would break  *)
(* a uniqueness constraint throws before anything has changed.  A modify() *)
(* whose functor throws leaves the object with some value and its old      *)
(* value recorded, as one that succeeds does.                              *)

create(x, k, v) ==
    LET id  == <<x, next_id[x]>>
        new == [objects EXCEPT ![id] = [key |-> k, val |-> v]]
    IN  /\ next_id[x] <= MaxInstance
        /\ UniqueKeys(new)
        /\ objects' = new
        /\ next_id' = [next_id EXCEPT ![x] = @ + 1]
        /\ Record(on_create(Top, id))
        /\ SessionsUnchanged

modify(id, v) ==
    /\ objects[id] # Absent
    /\ objects' = [objects EXCEPT ![id] = [key |-> objects[id].key, val |-> v]]
    /\ Record(on_modify(Top, id, objects[id]))
    /\ UNCHANGED next_id
    /\ SessionsUnchanged

remove(id) ==
    /\ objects[id] # Absent
    /\ objects' = [objects EXCEPT ![id] = Absent]
    /\ Record(on_remove(Top, id, objects[id]))
    /\ UNCHANGED next_id
    /\ SessionsUnchanged

-----------------------------------------------------------------------------
(* start_undo_session drops the oldest states beyond max_size and pushes   *)
(* an empty one.                                                           *)

(* A mutant: off by one, `size() >= max_size()'.                           *)
PushStateOffByOne(bound) ==
    LET from == IF Len(stack) >= bound THEN Len(stack) - bound + 2 ELSE 1
    IN  /\ stack' = Append(SubSeq(stack, from, Len(stack)), EmptyState)
        /\ snapshots' = Append(SubSeq(snapshots, from, Len(stack)), Current)
        /\ active_sessions' = active_sessions + 1

PushState(bound) ==
    LET from == IF Len(stack) > bound THEN Len(stack) - bound + 1 ELSE 1
    IN  /\ Len(stack) - from + 2 <= MaxStates
        /\ stack' = Append(SubSeq(stack, from, Len(stack)), EmptyState)
        /\ snapshots' = Append(SubSeq(snapshots, from, Len(stack)), Current)
        /\ active_sessions' = active_sessions + 1

(* Sessions opened without force_enable: the block session, or the session *)
(* of the pending transactions and in it that of one transaction.  The     *)
(* chain opens them only while the undo database is enabled.               *)
start_undo_session ==
    /\ ~disabled
    /\ nesting = 0
    /\ active_sessions < 2
    /\ PushState(max_size)
    /\ UNCHANGED <<objects, next_id, nesting, disable_on_exit, disabled, max_size, failed>>

(* The session of push_proposal and of try_push_virtual_operation: nested  *)
(* in a transaction or block session, or, while blocks are replayed with   *)
(* undo disabled, outermost and enabling undo for its own duration.  It    *)
(* raises max_size first, so that no state is dropped.                     *)
start_nested_session ==
    LET bound == IF Len(stack) >= max_size THEN Len(stack) + 1 ELSE max_size
    IN  /\ active_sessions > 0 \/ disabled
        /\ nesting < MaxNesting
        /\ nesting' = nesting + 1
        /\ max_size' = bound
        /\ PushState(bound)
        /\ disable_on_exit' = (disable_on_exit \/ disabled)
        /\ disabled' = FALSE
        /\ UNCHANGED <<objects, next_id, failed>>

(* What the end of the innermost session does besides its undo or merge:   *)
(* ~session() disables the undo database again if start enabled it, and    *)
(* ~undo_session_nesting_guard counts the nesting back.                    *)
EndSession ==
    /\ active_sessions' = active_sessions - 1
    /\ nesting' = IF nesting > 0 THEN nesting - 1 ELSE 0
    /\ disabled' = (disable_on_exit /\ active_sessions = 1)
    /\ disable_on_exit' = (disable_on_exit /\ active_sessions # 1)
    /\ UNCHANGED max_size

-----------------------------------------------------------------------------
(* undo() and pop_commit() restore in three passes: old values are written *)
(* back, new objects are removed, removed objects are inserted.            *)

RestoreModified(st, o) ==
    [id \in Ids |-> IF st.old_values[id] # Absent THEN st.old_values[id] ELSE o[id]]

RemoveCreated(st, o) ==
    [id \in Ids |-> IF id \in st.new_ids THEN Absent ELSE o[id]]

InsertRemoved(st, o) ==
    [id \in Ids |-> IF st.removed[id] # Absent THEN st.removed[id] ELSE o[id]]

RestoreObjects(st, o) == InsertRemoved(st, RemoveCreated(st, RestoreModified(st, o)))

RestoreNextIds(st, n) ==
    [x \in Index |-> IF st.old_index_next_ids[x] # NoId THEN st.old_index_next_ids[x] ELSE n[x]]

(* No pass throws: get_object finds what is written back or removed, and   *)
(* neither modify nor insert meets an object with the same id or key.      *)
RestoreSucceeds(st, o) ==
    LET modified == RestoreModified(st, o)
        left     == RemoveCreated(st, modified)
    IN  /\ \A id \in Ids : st.old_values[id] # Absent => o[id] # Absent
        /\ UniqueKeys(modified)
        /\ \A id \in st.new_ids : modified[id] # Absent
        /\ \A id \in Ids : st.removed[id] # Absent => left[id] = Absent
        /\ UniqueKeys(InsertRemoved(st, left))

PopState ==
    /\ stack' = SubSeq(stack, 1, Len(stack) - 1)
    /\ snapshots' = SubSeq(snapshots, 1, Len(stack) - 1)

RestoreTop ==
    IF stack # << >> /\ RestoreSucceeds(Top, objects)
    THEN /\ objects' = RestoreObjects(Top, objects)
         /\ next_id' = RestoreNextIds(Top, next_id)
         /\ PopState
         /\ UNCHANGED failed
    ELSE failed' = TRUE /\ UNCHANGED <<objects, next_id, stack, snapshots>>

(* session::undo(), or ~session() of a session that is still live.         *)
undo ==
    /\ active_sessions > 0
    /\ RestoreTop
    /\ EndSession

(* A block session, the only session then, is committed.                   *)
commit ==
    /\ active_sessions = 1 /\ nesting = 0
    /\ EndSession
    /\ UNCHANGED <<objects, next_id, stack, failed, snapshots>>

(* A mutant: the older states are dropped with the one that is undone.     *)
pop_commit_clears ==
    /\ active_sessions = 0
    /\ stack # << >>
    /\ objects' = RestoreObjects(Top, objects)
    /\ next_id' = RestoreNextIds(Top, next_id)
    /\ stack' = << >> /\ snapshots' = << >>
    /\ disabled' = FALSE
    /\ UNCHANGED <<active_sessions, nesting, disable_on_exit, max_size, failed>>

pop_commit ==
    /\ active_sessions = 0
    /\ stack # << >>
    /\ RestoreTop
    /\ disabled' = FALSE
    /\ UNCHANGED <<active_sessions, nesting, disable_on_exit, max_size>>

-----------------------------------------------------------------------------
(* merge(): a is the state below, b the state on top of it.                *)

MergeModified(a, b) ==
    [id \in Ids |-> IF b.old_values[id] # Absent /\ id \notin a.new_ids /\ a.old_values[id] = Absent
                    THEN b.old_values[id]
                    ELSE a.old_values[id]]

MergeStates(a, b) ==
    LET upd     == MergeModified(a, b)
        new     == a.new_ids \cup b.new_ids
        del(id) == b.removed[id] # Absent
    IN  [old_values |-> [id \in Ids |-> IF del(id) /\ id \notin new THEN Absent ELSE upd[id]],
         old_index_next_ids |->
             [x \in Index |-> IF a.old_index_next_ids[x] = NoId
                              THEN b.old_index_next_ids[x]
                              ELSE a.old_index_next_ids[x]],
         new_ids |-> {id \in new : ~del(id)},
         removed |-> [id \in Ids |-> IF del(id) /\ id \notin new
                                     THEN IF upd[id] # Absent THEN upd[id] ELSE b.removed[id]
                                     ELSE a.removed[id]]]

merge ==
    /\ active_sessions > 0
    /\ EndSession
    /\ UNCHANGED <<objects, next_id>>
    /\ \/ /\ active_sessions = 1 /\ Len(stack) = 1
          /\ PopState
          /\ UNCHANGED failed
       \/ /\ Len(stack) >= 2
          /\ stack' = [SubSeq(stack, 1, Len(stack) - 1) EXCEPT
                          ![Len(stack) - 1] = MergeStates(stack[Len(stack) - 1], Top)]
          /\ snapshots' = SubSeq(snapshots, 1, Len(stack) - 1)
          /\ UNCHANGED failed
       \/ /\ ~(active_sessions = 1 /\ Len(stack) = 1) /\ Len(stack) < 2
          /\ failed' = TRUE
          /\ UNCHANGED <<stack, snapshots>>

-----------------------------------------------------------------------------
(* update_global_dynamic_data sets the bound, once per block, to the       *)
(* number of reversible blocks plus one.                                   *)
set_max_size(n) ==
    /\ active_sessions <= 1 /\ nesting = 0
    /\ max_size' = n
    /\ UNCHANGED <<objects, next_id, stack, active_sessions, nesting, disable_on_exit,
                   disabled, failed, snapshots>>

(* init_genesis and reindex switch undo off before anything is recorded,   *)
(* and on again before the first session.                                  *)
disable ==
    /\ active_sessions = 0 /\ stack = << >>
    /\ disabled' = TRUE
    /\ UNCHANGED <<objects, next_id, stack, active_sessions, nesting, disable_on_exit,
                   max_size, failed, snapshots>>

enable ==
    /\ active_sessions = 0
    /\ disabled' = FALSE
    /\ UNCHANGED <<objects, next_id, stack, active_sessions, nesting, disable_on_exit,
                   max_size, failed, snapshots>>

-----------------------------------------------------------------------------
Init ==
    /\ objects = [id \in Ids |-> Absent]
    /\ next_id = [x \in Index |-> 0]
    /\ stack = << >>
    /\ active_sessions = 0
    /\ nesting = 0
    /\ disable_on_exit = FALSE
    /\ disabled = FALSE
    /\ max_size \in 1..MaxUndo
    /\ failed = FALSE
    /\ snapshots = << >>

Next ==
    /\ ~failed
    /\ \/ \E x \in Index, k \in Key, v \in Val : create(x, k, v)
       \/ \E id \in Ids, v \in Val : modify(id, v)
       \/ \E id \in Ids : remove(id)
       \/ start_undo_session
       \/ start_nested_session
       \/ undo
       \/ merge
       \/ commit
       \/ pop_commit
       \/ \E n \in 1..MaxUndo : set_max_size(n)
       \/ disable
       \/ enable

Spec == Init /\ [][Next]_vars

-----------------------------------------------------------------------------
TypeOK ==
    /\ objects \in [Ids -> Slot]
    /\ next_id \in [Index -> Nat]
    /\ stack \in Seq(UndoState)
    /\ active_sessions \in Nat
    /\ nesting \in 0..MaxNesting
    /\ disable_on_exit \in BOOLEAN
    /\ disabled \in BOOLEAN
    /\ max_size \in Nat \ {0}
    /\ failed \in BOOLEAN
    /\ snapshots \in Seq(Content)
    /\ Len(snapshots) = Len(stack)

(* The content above level i: what undoing the states above i leaves.      *)
After(i) == IF i = Len(stack) THEN Current ELSE snapshots[i + 1]

(* Undoing the states of the stack one by one, from the top, gives exactly *)
(* the contents the database had when they were pushed, whatever was       *)
(* created, modified, removed and merged in between.                       *)
UndoRestores ==
    \A i \in 1..Len(stack) :
        /\ RestoreObjects(stack[i], After(i).objects) = snapshots[i].objects
        /\ RestoreNextIds(stack[i], After(i).next_id) = snapshots[i].next_id

(* undo(), merge() and pop_commit() meet no exception: the first runs in a *)
(* destructor, where an exception ends the process.                        *)
UndoNeverFails == failed = FALSE

(* start_undo_session drops old states to respect max_size, never the      *)
(* state of a session that is still live.                                  *)
ActiveStatesKept == active_sessions <= Len(stack)

(* The undo states implement saved contents: undo() and pop_commit() go    *)
(* back to the content at the start of the session or block, merge()       *)
(* forgets one saved content and commit() none.                            *)
Store == INSTANCE SnapshotStore
            WITH Contents <- Content, content <- Current, saved <- snapshots
ImplementsStore == Store!Init /\ [][Store!Next]_(Store!storeVars)

=============================================================================
