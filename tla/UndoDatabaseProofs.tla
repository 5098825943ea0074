------------------------- MODULE UndoDatabaseProofs -------------------------
(***************************************************************************)
(* Proofs about UndoDatabase, for every set of indexes, keys and values    *)
(* and all bounds.                                                         *)
(*                                                                         *)
(* UndoRestores is not inductive: that a state undoes to a content says    *)
(* nothing about what the next change may do to it.  Tracks, the relation  *)
(* between an undo state, the content below it and the content above it,   *)
(* is the strengthening.  It is the table in the comment of merge(): an    *)
(* object is new, updated, deleted or untouched in a state.                *)
(***************************************************************************)
EXTENDS UndoDatabase, TLAPS

-----------------------------------------------------------------------------
(* Sequences                                                               *)

LEMMA SeqElement ==
    ASSUME NEW T, NEW q \in Seq(T), NEW n \in 1..Len(q)
    PROVE  q[n] \in T
OBVIOUS

LEMMA SeqExcept ==
    ASSUME NEW T, NEW q \in Seq(T), NEW n \in 1..Len(q), NEW v \in T
    PROVE  /\ [q EXCEPT ![n] = v] \in Seq(T) /\ Len([q EXCEPT ![n] = v]) = Len(q)
           /\ \A j \in 1..Len(q) : [q EXCEPT ![n] = v][j] = IF j = n THEN v ELSE q[j]
OBVIOUS

LEMMA SeqSlice ==
    ASSUME NEW T, NEW q, NEW a \in Int, NEW z \in Int, \A i \in a..z : q[i] \in T
    PROVE  /\ SubSeq(q, a, z) \in Seq(T)
           /\ Len(SubSeq(q, a, z)) = IF a <= z THEN z - a + 1 ELSE 0
           /\ \A i \in 1..z - a + 1 : SubSeq(q, a, z)[i] = q[a + i - 1]
OBVIOUS

LEMMA SeqNoSlice ==
    ASSUME NEW q, NEW a \in Int, NEW z \in Int, z < a
    PROVE  SubSeq(q, a, z) = << >>
OBVIOUS

LEMMA SeqAppend ==
    ASSUME NEW T, NEW q \in Seq(T), NEW v \in T
    PROVE  /\ Append(q, v) \in Seq(T) /\ Append(q, v) # << >> /\ Len(Append(q, v)) = Len(q) + 1
           /\ \A i \in 1..Len(q) : Append(q, v)[i] = q[i]
           /\ Append(q, v)[Len(q) + 1] = v
OBVIOUS

-----------------------------------------------------------------------------
(* The strengthening                                                       *)

WellFormed(c) ==
    /\ c \in Content
    /\ \A id \in Ids : c.objects[id] # Absent => id[2] < c.next_id[id[1]]
    /\ UniqueKeys(c.objects)

TracksObject(st, below, above, id) ==
    \/ /\ id \in st.new_ids
       /\ st.old_values[id] = Absent /\ st.removed[id] = Absent
       /\ below.objects[id] = Absent /\ above.objects[id] # Absent
       /\ below.next_id[id[1]] <= id[2]
    \/ /\ id \notin st.new_ids
       /\ st.old_values[id] # Absent /\ st.removed[id] = Absent
       /\ below.objects[id] = st.old_values[id] /\ above.objects[id] # Absent
       /\ below.objects[id].key = above.objects[id].key
    \/ /\ id \notin st.new_ids
       /\ st.old_values[id] = Absent /\ st.removed[id] # Absent
       /\ below.objects[id] = st.removed[id] /\ above.objects[id] = Absent
    \/ /\ id \notin st.new_ids
       /\ st.old_values[id] = Absent /\ st.removed[id] = Absent
       /\ below.objects[id] = above.objects[id]

TracksNextId(st, below, above, x) ==
    /\ below.next_id[x] <= above.next_id[x]
    /\ IF st.old_index_next_ids[x] = NoId
       THEN below.next_id[x] = above.next_id[x]
       ELSE below.next_id[x] = st.old_index_next_ids[x]

Tracks(st, below, above) ==
    /\ \A id \in Ids : TracksObject(st, below, above, id)
    /\ \A x \in Index : TracksNextId(st, below, above, x)

ContentsWellFormed ==
    /\ WellFormed(Current)
    /\ \A i \in 1..Len(stack) : WellFormed(snapshots[i])

StatesTrack == \A i \in 1..Len(stack) : Tracks(stack[i], snapshots[i], After(i))

(* Nested sessions are live.  An undo database that is disabled has an     *)
(* empty stack; one enabled only for the duration of a session holds the   *)
(* states of live sessions alone.                                          *)
SessionsConsistent ==
    /\ nesting <= active_sessions
    /\ disabled => stack = << >> /\ active_sessions = 0 /\ ~disable_on_exit
    /\ disable_on_exit => /\ nesting = active_sessions
                          /\ Len(stack) = active_sessions
                          /\ active_sessions > 0

IInv ==
    /\ TypeOK
    /\ UndoNeverFails
    /\ ActiveStatesKept
    /\ SessionsConsistent
    /\ ContentsWellFormed
    /\ StatesTrack

-----------------------------------------------------------------------------
(* Undo states, one at a time.                                             *)

LEMMA EmptyStateType == EmptyState \in UndoState
BY DEF EmptyState, UndoState, Slot, NoId

(* A state that has just been pushed.                                      *)
LEMMA EmptyStateTracks ==
    ASSUME NEW c \in Content
    PROVE  Tracks(EmptyState, c, c)
BY DEF Tracks, TracksObject, TracksNextId, EmptyState, Content

(* create(): the object is new, and the next id of its index is recorded   *)
(* by the first creation.                                                  *)
LEMMA OnCreateTracks ==
    ASSUME NEW st \in UndoState, NEW below \in Content, NEW above \in Content,
           WellFormed(below), WellFormed(above), Tracks(st, below, above),
           NEW x \in Index, NEW k \in Key, NEW v \in Val, above.next_id[x] <= MaxInstance,
           NEW new \in Content,
           new.objects = [above.objects EXCEPT ![<<x, above.next_id[x]>>] = [key |-> k, val |-> v]],
           new.next_id = [above.next_id EXCEPT ![x] = @ + 1]
    PROVE  /\ on_create(st, <<x, above.next_id[x]>>) \in UndoState
           /\ Tracks(on_create(st, <<x, above.next_id[x]>>), below, new)
<1> DEFINE id == <<x, above.next_id[x]>>
           t  == on_create(st, id)
<1>1. id \in Ids /\ id[1] = x /\ id[2] = above.next_id[x] /\ id[2] \in Nat
  BY BoundsAssumption DEF Ids, Instance, Content
<1>2. above.objects[id] = Absent
  BY <1>1 DEF WellFormed, Content
<1>3. [key |-> k, val |-> v] # Absent
  BY AbsentAssumption DEF Object
<1>4. t \in UndoState
  <2>1. st.old_index_next_ids \in [Index -> Int] /\ st.new_ids \in SUBSET Ids
    BY DEF UndoState
  <2>2. [st.old_index_next_ids EXCEPT
            ![id[1]] = IF st.old_index_next_ids[id[1]] = NoId THEN id[2] ELSE @] \in [Index -> Int]
    BY <2>1, <1>1
  <2> QED BY <2>1, <2>2, <1>1, Zenon DEF on_create, UndoState
<1>5. ASSUME NEW i \in Ids
      PROVE  TracksObject(t, below, new, i)
  <2>1. TracksObject(st, below, above, i)
    BY DEF Tracks
  <2>2. t.old_values = st.old_values /\ t.removed = st.removed /\ t.new_ids = st.new_ids \cup {id}
    BY DEF on_create, UndoState
  <2>3. CASE i = id
    <3>1. below.next_id[x] <= above.next_id[x]
      BY DEF Tracks, TracksNextId
    <3>2. new.objects[i] # Absent
      BY <2>3, <1>1, <1>3 DEF Content
    <3>3. st.old_values[i] = Absent /\ st.removed[i] = Absent /\ below.objects[i] = Absent
      <4>1. below.objects[i] # Absent => i[2] < below.next_id[x]
        BY <2>3, <1>1 DEF WellFormed
      <4>2. below.next_id[x] \in Nat /\ above.next_id[x] \in Nat
        BY DEF Content
      <4>3. below.objects[i] = Absent
        BY <4>1, <4>2, <3>1, <2>3, <1>1
      <4> QED BY <4>3, <2>1, <2>3, <1>2 DEF TracksObject
    <3> QED BY <3>1, <3>2, <3>3, <2>2, <2>3, <1>1 DEF TracksObject
  <2>4. CASE i # id
    BY <2>1, <2>2, <2>4, <1>1 DEF TracksObject, Content
  <2> QED BY <2>3, <2>4
<1>6. ASSUME NEW y \in Index
      PROVE  TracksNextId(t, below, new, y)
  BY <1>1 DEF Tracks, TracksNextId, on_create, UndoState, Content, NoId
<1> QED BY <1>4, <1>5, <1>6 DEF Tracks

(* modify(): the value before the first change of an old object is kept.   *)
LEMMA OnModifyTracks ==
    ASSUME NEW st \in UndoState, NEW below \in Content, NEW above \in Content,
           Tracks(st, below, above),
           NEW id \in Ids, above.objects[id] # Absent, NEW v \in Val,
           NEW new \in Content,
           new.objects = [above.objects EXCEPT ![id] = [key |-> above.objects[id].key, val |-> v]],
           new.next_id = above.next_id
    PROVE  /\ on_modify(st, id, above.objects[id]) \in UndoState
           /\ Tracks(on_modify(st, id, above.objects[id]), below, new)
<1> DEFINE t == on_modify(st, id, above.objects[id])
<1>1. above.objects[id] \in Object
  BY DEF Content, Slot
<1>2. t \in UndoState
  BY <1>1 DEF on_modify, UndoState, Slot
<1>3. new.objects[id] # Absent /\ new.objects[id].key = above.objects[id].key
  BY <1>1, AbsentAssumption DEF Content, Object
<1>4. t.removed = st.removed /\ t.new_ids = st.new_ids
      /\ t.old_index_next_ids = st.old_index_next_ids
  BY DEF on_modify, UndoState
<1>5. ASSUME NEW i \in Ids
      PROVE  TracksObject(t, below, new, i)
  <2>1. TracksObject(st, below, above, i)
    BY DEF Tracks
  <2>2. CASE i = id
    BY <2>1, <2>2, <1>3, <1>4 DEF TracksObject, on_modify, UndoState, Content
  <2>3. CASE i # id
    BY <2>1, <2>3, <1>4 DEF TracksObject, on_modify, UndoState, Content
  <2> QED BY <2>2, <2>3
<1>6. \A x \in Index : TracksNextId(t, below, new, x)
  BY <1>4, Zenon DEF Tracks, TracksNextId
<1> QED BY <1>2, <1>5, <1>6 DEF Tracks

(* remove(): a new object is forgotten, an old one is kept with the value  *)
(* it had below.                                                           *)
LEMMA OnRemoveTracks ==
    ASSUME NEW st \in UndoState, NEW below \in Content, NEW above \in Content,
           Tracks(st, below, above),
           NEW id \in Ids, above.objects[id] # Absent,
           NEW new \in Content,
           new.objects = [above.objects EXCEPT ![id] = Absent],
           new.next_id = above.next_id
    PROVE  /\ on_remove(st, id, above.objects[id]) \in UndoState
           /\ Tracks(on_remove(st, id, above.objects[id]), below, new)
<1> DEFINE t == on_remove(st, id, above.objects[id])
<1>1. above.objects[id] \in Slot
  BY DEF Content
<1>2. t \in UndoState
  BY <1>1, Zenon DEF on_remove, UndoState, Slot
<1>3. t.old_index_next_ids = st.old_index_next_ids
  BY DEF on_remove, UndoState
<1>4. ASSUME NEW i \in Ids
      PROVE  TracksObject(t, below, new, i)
  <2>1. TracksObject(st, below, above, i)
    BY DEF Tracks
  <2>2. CASE i = id
    BY <2>1, <2>2 DEF TracksObject, on_remove, UndoState, Content
  <2>3. CASE i # id
    BY <2>1, <2>3 DEF TracksObject, on_remove, UndoState, Content
  <2> QED BY <2>2, <2>3
<1>5. \A x \in Index : TracksNextId(t, below, new, x)
  BY <1>3, Zenon DEF Tracks, TracksNextId
<1> QED BY <1>2, <1>4, <1>5 DEF Tracks

(* merge(): the merged state relates the content below the lower state to  *)
(* the content above the upper one.                                        *)
LEMMA MergeTracks ==
    ASSUME NEW a \in UndoState, NEW b \in UndoState,
           NEW below, NEW mid, NEW above,
           WellFormed(below), WellFormed(mid), WellFormed(above),
           Tracks(a, below, mid), Tracks(b, mid, above)
    PROVE  /\ MergeStates(a, b) \in UndoState
           /\ Tracks(MergeStates(a, b), below, above)
<1> DEFINE m == MergeStates(a, b)
<1>1. m \in UndoState
  BY DEF MergeStates, MergeModified, UndoState, Slot
<1>2. ASSUME NEW id \in Ids
      PROVE  TracksObject(m, below, above, id)
  <2>1. TracksObject(a, below, mid, id) /\ TracksObject(b, mid, above, id)
    BY DEF Tracks
  <2>2. /\ below.next_id[id[1]] \in Nat /\ mid.next_id[id[1]] \in Nat /\ id[2] \in Nat
        /\ below.next_id[id[1]] <= mid.next_id[id[1]]
        /\ below.objects[id] # Absent => id[2] < below.next_id[id[1]]
    BY BoundsAssumption DEF WellFormed, Content, Ids, Instance, Tracks, TracksNextId
  <2>3. /\ (id \in m.new_ids) <=> (id \in a.new_ids \cup b.new_ids /\ b.removed[id] = Absent)
        /\ m.old_values[id] =
              IF b.removed[id] # Absent /\ id \notin a.new_ids \cup b.new_ids THEN Absent
              ELSE IF b.old_values[id] # Absent /\ id \notin a.new_ids /\ a.old_values[id] = Absent
                   THEN b.old_values[id] ELSE a.old_values[id]
        /\ m.removed[id] =
              IF b.removed[id] # Absent /\ id \notin a.new_ids \cup b.new_ids
              THEN IF b.old_values[id] # Absent /\ id \notin a.new_ids /\ a.old_values[id] = Absent
                   THEN b.old_values[id]
                   ELSE IF a.old_values[id] # Absent THEN a.old_values[id] ELSE b.removed[id]
              ELSE a.removed[id]
    BY DEF MergeStates, MergeModified, UndoState
  <2>4. CASE id \in b.new_ids
    BY <2>1, <2>2, <2>3, <2>4 DEF TracksObject
  <2>5. CASE id \notin b.new_ids
    BY <2>1, <2>3, <2>5 DEF TracksObject
  <2> QED BY <2>4, <2>5
<1>3. ASSUME NEW x \in Index
      PROVE  TracksNextId(m, below, above, x)
  <2>1. TracksNextId(a, below, mid, x) /\ TracksNextId(b, mid, above, x)
    BY DEF Tracks
  <2>2. below.next_id[x] \in Nat /\ mid.next_id[x] \in Nat /\ above.next_id[x] \in Nat
    BY DEF WellFormed, Content
  <2>3. m.old_index_next_ids[x] = IF a.old_index_next_ids[x] = NoId
                                  THEN b.old_index_next_ids[x] ELSE a.old_index_next_ids[x]
    BY DEF MergeStates
  <2> QED BY <2>1, <2>2, <2>3 DEF TracksNextId, NoId
<1> QED BY <1>1, <1>2, <1>3 DEF Tracks

(* undo() and pop_commit(): a state restores the content below it, and no  *)
(* pass meets a missing object or a uniqueness conflict.                   *)
LEMMA TracksRestores ==
    ASSUME NEW st \in UndoState, NEW below, NEW above,
           WellFormed(below), WellFormed(above), Tracks(st, below, above)
    PROVE  /\ RestoreObjects(st, above.objects) = below.objects
           /\ RestoreNextIds(st, above.next_id) = below.next_id
           /\ RestoreSucceeds(st, above.objects)
<1>1. \A id \in Ids : TracksObject(st, below, above, id)
  BY DEF Tracks
<1>2. below.objects \in [Ids -> Slot] /\ above.objects \in [Ids -> Slot]
  BY DEF WellFormed, Content
<1>3. RestoreObjects(st, above.objects) = below.objects
  <2>1. \A id \in Ids : RestoreObjects(st, above.objects)[id] = below.objects[id]
    BY <1>1 DEF TracksObject, RestoreObjects, InsertRemoved, RemoveCreated, RestoreModified
  <2>2. RestoreObjects(st, above.objects) =
          [id \in Ids |-> RestoreObjects(st, above.objects)[id]]
    BY DEF RestoreObjects, InsertRemoved
  <2>3. below.objects = [id \in Ids |-> below.objects[id]]
    BY <1>2
  <2> QED BY <2>1, <2>2, <2>3
<1>4. RestoreNextIds(st, above.next_id) = below.next_id
  <2>1. \A x \in Index : TracksNextId(st, below, above, x)
    BY Zenon DEF Tracks
  <2>2. below.next_id \in [Index -> Nat]
    BY DEF WellFormed, Content
  <2> QED BY <2>1, <2>2 DEF TracksNextId, RestoreNextIds
<1>5. RestoreSucceeds(st, above.objects)
  <2> DEFINE modified == RestoreModified(st, above.objects)
             left     == RemoveCreated(st, modified)
  <2>1. \A id \in Ids : st.old_values[id] # Absent => above.objects[id] # Absent
    BY <1>1 DEF TracksObject
  <2>2. ASSUME NEW id \in Ids
        PROVE  /\ (modified[id] = Absent) <=> (above.objects[id] = Absent)
               /\ modified[id] # Absent => modified[id].key = above.objects[id].key
    BY <1>1 DEF TracksObject, RestoreModified
  <2>3. UniqueKeys(modified)
    <3>1. UniqueKeys(above.objects)
      BY DEF WellFormed
    <3> HIDE DEF modified
    <3> QED BY <2>2, <3>1 DEF UniqueKeys
  <2>4. \A id \in st.new_ids : modified[id] # Absent
    <3>1. st.new_ids \subseteq Ids
      BY DEF UndoState
    <3>2. \A id \in st.new_ids : above.objects[id] # Absent
      BY <3>1, <1>1 DEF TracksObject
    <3> QED BY <2>2, <3>1, <3>2
  <2>5. \A id \in Ids : st.removed[id] # Absent => left[id] = Absent
    <3>1. \A id \in Ids : st.removed[id] # Absent => above.objects[id] = Absent
      BY <1>1 DEF TracksObject
    <3>2. \A id \in Ids : modified[id] = Absent => left[id] = Absent
      BY DEF RemoveCreated
    <3> HIDE DEF modified, left
    <3> QED BY <2>2, <3>1, <3>2
  <2>6. UniqueKeys(InsertRemoved(st, left))
    BY <1>3 DEF RestoreObjects, WellFormed
  <2> QED BY <2>1, <2>3, <2>4, <2>5, <2>6 DEF RestoreSucceeds
<1> QED BY <1>3, <1>4, <1>5

-----------------------------------------------------------------------------
(* The stack.                                                              *)

LEMMA TopTracks ==
    ASSUME IInv, stack # << >>
    PROVE  /\ Top \in UndoState /\ Top = stack[Len(stack)]
           /\ Len(stack) \in Nat /\ Len(stack) > 0
           /\ snapshots[Len(stack)] \in Content
           /\ WellFormed(snapshots[Len(stack)])
           /\ Tracks(Top, snapshots[Len(stack)], Current)
<1>1. stack \in Seq(UndoState) /\ snapshots \in Seq(Content) /\ Len(snapshots) = Len(stack)
  BY DEF IInv, TypeOK
<1>2. Len(stack) \in 1..Len(stack) /\ Len(stack) > 0 /\ Len(stack) \in Nat
  BY <1>1
<1>3. Top = stack[Len(stack)] /\ Top \in UndoState /\ snapshots[Len(stack)] \in Content
  BY <1>1, <1>2 DEF Top
<1>4. After(Len(stack)) = Current
  BY DEF After
<1> QED BY <1>2, <1>3, <1>4 DEF IInv, ContentsWellFormed, StatesTrack

(* A change of objects that the top state tracks preserves the invariant.  *)
LEMMA RecordPreserves ==
    ASSUME IInv, NEW st \in UndoState, Record(st), SessionsUnchanged,
           objects' \in [Ids -> Slot], next_id' \in [Index -> Nat],
           WellFormed(Current'),
           ASSUME NEW below \in Content, WellFormed(below), Tracks(Top, below, Current)
           PROVE  Tracks(st, below, Current')
    PROVE  IInv'
<1>0. /\ stack \in Seq(UndoState) /\ snapshots \in Seq(Content) /\ Len(snapshots) = Len(stack)
      /\ WellFormed(Current) /\ Current \in Content /\ active_sessions \in Nat
      /\ active_sessions <= Len(stack)
  BY DEF IInv, TypeOK, ContentsWellFormed, WellFormed, ActiveStatesKept
<1>1. CASE disabled
  <2>1. stack' = stack /\ snapshots' = snapshots /\ stack = << >>
    BY <1>1 DEF Record, IInv, SessionsConsistent
  <2> QED
    BY <2>1, <1>0, <1>1 DEF IInv, TypeOK, UndoNeverFails, ActiveStatesKept, SessionsConsistent,
        ContentsWellFormed, StatesTrack, SessionsUnchanged
<1>2. CASE ~disabled /\ stack = << >>
  <2>1. stack' = <<st>> /\ snapshots' = <<Current>> /\ Len(stack') = 1
    BY <1>2 DEF Record
  <2>2. Tracks(st, Current, Current')
    <3>1. Tracks(Top, Current, Current)
      BY <1>2, <1>0, EmptyStateTracks DEF Top
    <3> QED BY <3>1, <1>0
  <2>3. ContentsWellFormed'
    BY <2>1, <1>0 DEF ContentsWellFormed
  <2>4. StatesTrack'
    <3>1. After(1)' = Current'
      BY <2>1 DEF After
    <3> QED BY <2>1, <2>2, <3>1 DEF StatesTrack
  <2>5. TypeOK'
    BY <2>1, <1>0 DEF IInv, TypeOK, SessionsUnchanged
  <2> QED
    BY <2>1, <2>3, <2>4, <2>5, <1>0, <1>2 DEF IInv, UndoNeverFails, ActiveStatesKept,
       SessionsConsistent, SessionsUnchanged
<1>3. CASE ~disabled /\ stack # << >>
  <2>1. stack' = [stack EXCEPT ![Len(stack)] = st] /\ snapshots' = snapshots
    BY <1>3 DEF Record
  <2>2. /\ stack' \in Seq(UndoState) /\ Len(stack') = Len(stack)
        /\ \A i \in 1..Len(stack) : stack'[i] = IF i = Len(stack) THEN st ELSE stack[i]
    <3>1. Len(stack) \in 1..Len(stack)
      BY <1>3, <1>0
    <3> QED BY <2>1, <1>0, <3>1, SeqExcept
  <2>3. ContentsWellFormed'
    BY <2>1, <2>2 DEF ContentsWellFormed, IInv
  <2>4. StatesTrack'
    <3> SUFFICES ASSUME NEW i \in 1..Len(stack)
                 PROVE  Tracks(stack'[i], snapshots[i], After(i)')
      BY <2>1, <2>2, Zenon DEF StatesTrack
    <3>1. CASE i = Len(stack)
      <4>1. stack'[i] = st /\ After(i)' = Current'
        BY <2>2, <3>1 DEF After
      <4> QED BY <4>1, <3>1, <1>3, TopTracks
    <3>2. CASE i # Len(stack)
      <4>1. stack'[i] = stack[i] /\ After(i)' = After(i)
        BY <2>1, <2>2, <3>2, Zenon DEF After
      <4> QED BY <4>1, Zenon DEF IInv, StatesTrack
    <3> QED BY <3>1, <3>2, Zenon
  <2>5. TypeOK'
    BY <2>1, <2>2, <1>0 DEF IInv, TypeOK, SessionsUnchanged
  <2> QED
    BY <2>1, <2>2, <2>3, <2>4, <2>5, <1>0, <1>3, Zenon DEF IInv, UndoNeverFails, ActiveStatesKept,
       SessionsConsistent, SessionsUnchanged
<1> QED BY <1>1, <1>2, <1>3

LEMMA CreatePreserves ==
    ASSUME IInv, NEW x \in Index, NEW k \in Key, NEW v \in Val, create(x, k, v)
    PROVE  IInv'
<1> DEFINE id == <<x, next_id[x]>>
           obj == [key |-> k, val |-> v]
<1>1. /\ next_id[x] <= MaxInstance
      /\ objects' = [objects EXCEPT ![id] = obj]
      /\ UniqueKeys(objects')
      /\ next_id' = [next_id EXCEPT ![x] = @ + 1]
      /\ Record(on_create(Top, id))
      /\ SessionsUnchanged
  BY DEF create
<1>2. objects \in [Ids -> Slot] /\ next_id \in [Index -> Nat]
  BY DEF IInv, TypeOK
<1>3. id \in Ids /\ obj \in Object /\ next_id[x] \in Nat
  BY <1>1, <1>2, BoundsAssumption DEF Ids, Instance, Object
<1>4. objects' \in [Ids -> Slot] /\ next_id' \in [Index -> Nat]
  BY <1>1, <1>2, <1>3, BoundsAssumption DEF Slot
<1>5. /\ Current'.objects = [Current.objects EXCEPT ![<<x, Current.next_id[x]>>] = obj]
      /\ Current'.next_id = [Current.next_id EXCEPT ![x] = @ + 1]
      /\ Current.next_id[x] <= MaxInstance
      /\ id = <<x, Current.next_id[x]>>
      /\ Current'.objects = objects' /\ Current'.next_id = next_id'
      /\ Current \in Content /\ Current' \in Content
  BY <1>1, <1>2, <1>4, BoundsAssumption DEF Current, Content
<1>6. WellFormed(Current)
  BY DEF IInv, ContentsWellFormed
<1>7. WellFormed(Current')
  <2>1. ASSUME NEW i \in Ids, objects'[i] # Absent
        PROVE  i[2] < next_id'[i[1]]
    <3>1. i[1] \in Index /\ i[2] \in Nat /\ next_id[i[1]] \in Nat
      BY <1>2, BoundsAssumption DEF Ids, Instance
    <3>2. CASE i = id
      BY <3>2, <1>1, <1>2, <1>3
    <3>3. CASE i # id
      <4>1. i[2] < next_id[i[1]]
        BY <2>1, <3>3, <1>1, <1>2, <1>3, <1>6 DEF WellFormed, Current
      <4> QED BY <4>1, <3>1, <1>1, <1>2
    <3> QED BY <3>2, <3>3
  <2> QED BY <2>1, <1>1, <1>5, Zenon DEF WellFormed
<1>8. Top \in UndoState
  BY EmptyStateType, TopTracks DEF Top
<1>9. on_create(Top, id) \in UndoState
  <2>1. CASE stack = << >>
    BY <2>1, <1>3, <1>5, <1>6, EmptyStateTracks, EmptyStateType, OnCreateTracks DEF Top
  <2>2. CASE stack # << >>
    BY <2>2, <1>3, <1>5, <1>6, TopTracks, OnCreateTracks
  <2> QED BY <2>1, <2>2
<1>10. ASSUME NEW below \in Content, WellFormed(below), Tracks(Top, below, Current)
       PROVE  Tracks(on_create(Top, id), below, Current')
  BY <1>10, <1>5, <1>6, <1>8, OnCreateTracks
<1> QED BY <1>1, <1>4, <1>7, <1>9, <1>10, RecordPreserves, Zenon

LEMMA ModifyPreserves ==
    ASSUME IInv, NEW id \in Ids, NEW v \in Val, modify(id, v)
    PROVE  IInv'
<1>1. /\ objects[id] # Absent
      /\ objects' = [objects EXCEPT ![id] = [key |-> objects[id].key, val |-> v]]
      /\ Record(on_modify(Top, id, objects[id]))
      /\ next_id' = next_id
      /\ SessionsUnchanged
  BY DEF modify
<1>2. objects \in [Ids -> Slot] /\ next_id \in [Index -> Nat]
  BY DEF IInv, TypeOK
<1>3. [key |-> objects[id].key, val |-> v] \in Object /\ objects[id] \in Object
  BY <1>1, <1>2 DEF Slot, Object
<1>4. objects' \in [Ids -> Slot] /\ next_id' \in [Index -> Nat]
  BY <1>1, <1>2, <1>3, Zenon DEF Slot
<1>5. /\ Current.objects[id] # Absent /\ Current.objects[id] = objects[id]
      /\ Current'.objects =
            [Current.objects EXCEPT ![id] = [key |-> Current.objects[id].key, val |-> v]]
      /\ Current'.next_id = Current.next_id
      /\ Current'.objects = objects' /\ Current.objects = objects /\ Current.next_id = next_id
      /\ Current \in Content /\ Current' \in Content
  BY <1>1, <1>2, <1>4, BoundsAssumption DEF Current, Content
<1>6. WellFormed(Current)
  BY DEF IInv, ContentsWellFormed
<1>7. WellFormed(Current')
  <2>1. ASSUME NEW i \in Ids
        PROVE  /\ (objects'[i] = Absent) <=> (objects[i] = Absent)
               /\ objects[i] # Absent => objects'[i].key = objects[i].key
    BY <1>1, <1>2, <1>3, AbsentAssumption, Zenon
  <2>2. UniqueKeys(objects')
    BY <2>1, <1>5, <1>6 DEF UniqueKeys, WellFormed
  <2> QED BY <2>1, <2>2, <1>5, <1>6 DEF WellFormed
<1>8. Top \in UndoState
  BY EmptyStateType, TopTracks DEF Top
<1>9. on_modify(Top, id, objects[id]) \in UndoState
  <2>1. CASE stack = << >>
    BY <2>1, <1>5, EmptyStateTracks, EmptyStateType, OnModifyTracks, Zenon DEF Top
  <2>2. CASE stack # << >>
    BY <2>2, <1>5, TopTracks, OnModifyTracks, Zenon
  <2> QED BY <2>1, <2>2, Zenon
<1>10. ASSUME NEW below \in Content, WellFormed(below), Tracks(Top, below, Current)
       PROVE  Tracks(on_modify(Top, id, objects[id]), below, Current')
  BY <1>10, <1>5, <1>8, OnModifyTracks
<1> QED BY <1>1, <1>4, <1>7, <1>9, <1>10, RecordPreserves, Zenon

LEMMA RemovePreserves ==
    ASSUME IInv, NEW id \in Ids, remove(id)
    PROVE  IInv'
<1>1. /\ objects[id] # Absent
      /\ objects' = [objects EXCEPT ![id] = Absent]
      /\ Record(on_remove(Top, id, objects[id]))
      /\ next_id' = next_id
      /\ SessionsUnchanged
  BY DEF remove
<1>2. objects \in [Ids -> Slot] /\ next_id \in [Index -> Nat]
  BY DEF IInv, TypeOK
<1>4. objects' \in [Ids -> Slot] /\ next_id' \in [Index -> Nat]
  BY <1>1, <1>2 DEF Slot
<1>5. /\ Current.objects[id] # Absent /\ Current.objects[id] = objects[id]
      /\ Current'.objects = [Current.objects EXCEPT ![id] = Absent]
      /\ Current'.next_id = Current.next_id
      /\ Current'.objects = objects' /\ Current.objects = objects /\ Current.next_id = next_id
      /\ Current \in Content /\ Current' \in Content
  BY <1>1, <1>2, <1>4, BoundsAssumption DEF Current, Content
<1>6. WellFormed(Current)
  BY DEF IInv, ContentsWellFormed
<1>7. WellFormed(Current')
  <2>1. \A i \in Ids : objects'[i] = Absent \/ objects'[i] = objects[i]
    BY <1>1, <1>2
  <2>2. UniqueKeys(objects')
    BY <2>1, <1>5, <1>6 DEF UniqueKeys, WellFormed
  <2> QED BY <2>1, <2>2, <1>5, <1>6 DEF WellFormed
<1>8. Top \in UndoState
  BY EmptyStateType, TopTracks DEF Top
<1>9. on_remove(Top, id, objects[id]) \in UndoState
  <2>1. CASE stack = << >>
    BY <2>1, <1>5, EmptyStateTracks, EmptyStateType, OnRemoveTracks, Zenon DEF Top
  <2>2. CASE stack # << >>
    BY <2>2, <1>5, TopTracks, OnRemoveTracks, Zenon
  <2> QED BY <2>1, <2>2
<1>10. ASSUME NEW below \in Content, WellFormed(below), Tracks(Top, below, Current)
       PROVE  Tracks(on_remove(Top, id, objects[id]), below, Current')
  BY <1>10, <1>5, <1>8, OnRemoveTracks
<1> QED BY <1>1, <1>4, <1>7, <1>9, <1>10, RecordPreserves, Zenon

(* A new session drops some of the oldest states and pushes an empty one.  *)
LEMMA PushTracks ==
    ASSUME IInv, NEW bound \in Nat \ {0}, PushState(bound), UNCHANGED <<objects, next_id>>
    PROVE  /\ stack' \in Seq(UndoState) /\ snapshots' \in Seq(Content)
           /\ Len(snapshots') = Len(stack')
           /\ Len(stack') = (IF Len(stack) > bound THEN bound ELSE Len(stack)) + 1
           /\ active_sessions' = active_sessions + 1
           /\ ContentsWellFormed' /\ StatesTrack'
<1> DEFINE n    == Len(stack)
           from == IF n > bound THEN n - bound + 1 ELSE 1
           kept == n - from + 1
<1>1. /\ stack \in Seq(UndoState) /\ snapshots \in Seq(Content) /\ Len(snapshots) = n
      /\ n \in Nat /\ WellFormed(Current) /\ Current \in Content
  BY DEF IInv, TypeOK, ContentsWellFormed, WellFormed
<1>2. /\ stack' = Append(SubSeq(stack, from, n), EmptyState)
      /\ snapshots' = Append(SubSeq(snapshots, from, n), Current)
      /\ active_sessions' = active_sessions + 1
      /\ Current' = Current
  BY DEF PushState, Current
<1>3. /\ from \in 1..(n + 1) /\ kept \in 0..n
      /\ kept = IF n > bound THEN bound ELSE n
  BY <1>1
<1> HIDE DEF n, from
<1>4. /\ SubSeq(stack, from, n) \in Seq(UndoState) /\ Len(SubSeq(stack, from, n)) = kept
      /\ \A i \in 1..kept : SubSeq(stack, from, n)[i] = stack[from + i - 1]
  <2>1. \A i \in from..n : stack[i] \in UndoState
    BY <1>1, <1>3 DEF n
  <2> QED BY <2>1, <1>1, <1>3, SeqSlice, Z3
<1>5. /\ SubSeq(snapshots, from, n) \in Seq(Content) /\ Len(SubSeq(snapshots, from, n)) = kept
      /\ \A i \in 1..kept : SubSeq(snapshots, from, n)[i] = snapshots[from + i - 1]
  <2>1. \A i \in from..n : snapshots[i] \in Content
    BY <1>1, <1>3
  <2> QED BY <2>1, <1>1, <1>3, SeqSlice, Z3
<1>6. /\ stack' \in Seq(UndoState) /\ Len(stack') = kept + 1
      /\ \A i \in 1..kept : stack'[i] = stack[from + i - 1]
      /\ stack'[kept + 1] = EmptyState
  BY <1>2, <1>4, EmptyStateType, SeqAppend
<1>7. /\ snapshots' \in Seq(Content) /\ Len(snapshots') = kept + 1
      /\ \A i \in 1..kept : snapshots'[i] = snapshots[from + i - 1]
      /\ snapshots'[kept + 1] = Current
  BY <1>1, <1>2, <1>5, SeqAppend
<1>8. ContentsWellFormed'
  <2> SUFFICES ASSUME NEW i \in 1..(kept + 1)
               PROVE  WellFormed(snapshots'[i])
    BY <1>1, <1>2, <1>6 DEF ContentsWellFormed
  <2>1. CASE i = kept + 1
    BY <2>1, <1>7, <1>1
  <2>2. CASE i # kept + 1
    <3>1. i \in 1..kept /\ from + i - 1 \in 1..n
      BY <2>2, <1>1, <1>3
    <3> QED BY <3>1, <1>7 DEF IInv, ContentsWellFormed, n
  <2> QED BY <2>1, <2>2
<1>9. StatesTrack'
  <2> SUFFICES ASSUME NEW i \in 1..(kept + 1)
               PROVE  Tracks(stack'[i], snapshots'[i], After(i)')
    BY <1>6 DEF StatesTrack
  <2>1. CASE i = kept + 1
    <3>1. After(i)' = Current
      BY <2>1, <1>2, <1>6 DEF After
    <3> QED BY <2>1, <3>1, <1>1, <1>6, <1>7, EmptyStateTracks
  <2>2. CASE i # kept + 1
    <3>1. i \in 1..kept /\ from + i - 1 \in 1..n /\ i + 1 \in 1..(kept + 1)
      BY <2>2, <1>1, <1>3
    <3>2. After(i)' = After(from + i - 1)
      <4>1. After(i)' = snapshots'[i + 1]
        BY <3>1, <1>6, <1>3 DEF After
      <4>2. CASE i = kept
        <5>1. from + i - 1 = n
          BY <4>2, <1>1, <1>3
        <5> QED BY <4>1, <4>2, <5>1, <1>7 DEF After, n
      <4>3. CASE i # kept
        <5>1. i + 1 \in 1..kept /\ from + i - 1 # n /\ from + (i + 1) - 1 = (from + i - 1) + 1
          BY <4>3, <3>1, <1>1, <1>3
        <5> QED BY <4>1, <5>1, <1>7 DEF After, n
      <4> QED BY <4>2, <4>3
    <3> QED BY <3>1, <3>2, <1>6, <1>7 DEF IInv, StatesTrack, n
  <2> QED BY <2>1, <2>2
<1> QED BY <1>2, <1>3, <1>6, <1>7, <1>8, <1>9, Zenon DEF n

LEMMA StartPreserves ==
    ASSUME IInv, start_undo_session
    PROVE  IInv'
<1>1. /\ max_size \in Nat \ {0} /\ active_sessions \in Nat /\ active_sessions <= Len(stack)
      /\ Len(stack) \in Nat
  BY DEF IInv, TypeOK, ActiveStatesKept
<1>2. /\ ~disabled /\ nesting = 0 /\ active_sessions < 2 /\ PushState(max_size)
      /\ UNCHANGED <<objects, next_id, nesting, disable_on_exit, disabled, max_size, failed>>
  BY DEF start_undo_session
<1>3. ~disable_on_exit
  BY <1>1, <1>2 DEF IInv, SessionsConsistent
<1>4. /\ stack' \in Seq(UndoState) /\ snapshots' \in Seq(Content)
      /\ Len(snapshots') = Len(stack')
      /\ Len(stack') = (IF Len(stack) > max_size THEN max_size ELSE Len(stack)) + 1
      /\ active_sessions' = active_sessions + 1
      /\ ContentsWellFormed' /\ StatesTrack'
  BY <1>1, <1>2, PushTracks
<1>5. ActiveStatesKept'
  BY <1>1, <1>2, <1>4 DEF ActiveStatesKept
<1>6. TypeOK'
  BY <1>1, <1>2, <1>4 DEF IInv, TypeOK
<1> QED BY <1>1, <1>2, <1>3, <1>4, <1>5, <1>6 DEF IInv, UndoNeverFails, SessionsConsistent

LEMMA StartNestedPreserves ==
    ASSUME IInv, start_nested_session
    PROVE  IInv'
<1> DEFINE bound == IF Len(stack) >= max_size THEN Len(stack) + 1 ELSE max_size
<1>1. /\ max_size \in Nat \ {0} /\ active_sessions \in Nat /\ active_sessions <= Len(stack)
      /\ Len(stack) \in Nat /\ nesting \in 0..MaxNesting
      /\ disabled \in BOOLEAN /\ disable_on_exit \in BOOLEAN
  BY DEF IInv, TypeOK, ActiveStatesKept
<1>2. bound \in Nat \ {0} /\ ~(Len(stack) > bound)
  BY <1>1
<1>3. /\ nesting < MaxNesting /\ nesting' = nesting + 1 /\ max_size' = bound /\ PushState(bound)
      /\ disable_on_exit' = (disable_on_exit \/ disabled)
      /\ disabled' = FALSE
      /\ UNCHANGED <<objects, next_id, failed>>
  BY DEF start_nested_session
<1>4. /\ stack' \in Seq(UndoState) /\ snapshots' \in Seq(Content)
      /\ Len(snapshots') = Len(stack')
      /\ Len(stack') = Len(stack) + 1
      /\ active_sessions' = active_sessions + 1
      /\ ContentsWellFormed' /\ StatesTrack'
  BY <1>2, <1>3, PushTracks
<1>5. ActiveStatesKept'
  BY <1>1, <1>4 DEF ActiveStatesKept
<1>6. TypeOK'
  <2>1. disable_on_exit' \in BOOLEAN /\ disabled' \in BOOLEAN
    BY <1>1, <1>3, Zenon
  <2>2. nesting' \in 0..MaxNesting /\ max_size' \in Nat \ {0} /\ active_sessions' \in Nat
    BY <1>1, <1>2, <1>3, <1>4, BoundsAssumption
  <2> HIDE DEF bound
  <2> QED BY <2>1, <2>2, <1>3, <1>4 DEF IInv, TypeOK
<1>7. SessionsConsistent'
  <2>1. disabled => nesting = 0 /\ Len(stack) = 0
    BY <1>1 DEF IInv, SessionsConsistent
  <2> QED BY <2>1, <1>1, <1>3, <1>4 DEF IInv, SessionsConsistent
<1> QED BY <1>3, <1>4, <1>5, <1>6, <1>7 DEF IInv, UndoNeverFails

(* Popping the top state keeps the states below it, whatever becomes the   *)
(* current content, provided the new top tracks it.                        *)
LEMMA PopTracks ==
    ASSUME IInv, stack # << >>,
           snapshots' = SubSeq(snapshots, 1, Len(stack) - 1),
           stack' \in Seq(UndoState), Len(stack') = Len(stack) - 1,
           \A i \in 1..(Len(stack) - 2) : stack'[i] = stack[i],
           WellFormed(Current'),
           Len(stack) > 1 =>
              Tracks(stack'[Len(stack) - 1], snapshots[Len(stack) - 1], Current')
    PROVE  /\ snapshots' \in Seq(Content) /\ Len(snapshots') = Len(stack')
           /\ ContentsWellFormed' /\ StatesTrack'
<1> DEFINE n == Len(stack)
<1>1. /\ stack \in Seq(UndoState) /\ snapshots \in Seq(Content) /\ Len(snapshots) = n
      /\ n \in Nat /\ n > 0
  BY DEF IInv, TypeOK
<1> HIDE DEF n
<1>2. /\ snapshots' \in Seq(Content) /\ Len(snapshots') = n - 1
      /\ \A i \in 1..(n - 1) : snapshots'[i] = snapshots[i]
  <2>1. \A i \in 1..(n - 1) : snapshots[i] \in Content
    BY <1>1
  <2>2. snapshots' = SubSeq(snapshots, 1, n - 1)
    BY DEF n
  <2> QED BY <2>1, <2>2, <1>1, SeqSlice, Z3
<1>3. ContentsWellFormed'
  <2>1. \A i \in 1..(n - 1) : WellFormed(snapshots[i])
    BY <1>1 DEF IInv, ContentsWellFormed, n
  <2> QED BY <2>1, <1>2 DEF ContentsWellFormed, n
<1>4. StatesTrack'
  <2> SUFFICES ASSUME NEW i \in 1..(n - 1)
               PROVE  Tracks(stack'[i], snapshots'[i], After(i)')
    BY DEF StatesTrack, n
  <2>1. CASE i = n - 1
    <3>1. After(i)' = Current'
      BY <2>1 DEF After, n
    <3> QED BY <2>1, <3>1, <1>1, <1>2 DEF n
  <2>2. CASE i # n - 1
    <3>1. i \in 1..(n - 2) /\ i + 1 \in 1..(n - 1) /\ i \in 1..n /\ i # n
      BY <2>2, <1>1
    <3>2. After(i)' = snapshots[i + 1] /\ After(i) = snapshots[i + 1]
      BY <2>2, <3>1, <1>2 DEF After, n
    <3>3. Tracks(stack[i], snapshots[i], After(i))
      BY <3>1 DEF IInv, StatesTrack, n
    <3> QED BY <3>1, <3>2, <3>3, <1>2 DEF n
  <2> QED BY <2>1, <2>2, Zenon
<1> QED BY <1>2, <1>3, <1>4 DEF n

(* undo() and pop_commit() succeed and go back to the newest snapshot.     *)
LEMMA RestoreTopStep ==
    ASSUME IInv, stack # << >>, RestoreTop
    PROVE  /\ Current' = snapshots[Len(stack)]
           /\ objects' \in [Ids -> Slot] /\ next_id' \in [Index -> Nat]
           /\ UndoNeverFails'
           /\ stack' \in Seq(UndoState) /\ snapshots' \in Seq(Content)
           /\ snapshots' = SubSeq(snapshots, 1, Len(stack) - 1)
           /\ Len(stack') = Len(stack) - 1 /\ Len(snapshots') = Len(stack')
           /\ ContentsWellFormed' /\ StatesTrack'
<1> DEFINE n == Len(stack)
<1>1. /\ stack \in Seq(UndoState) /\ snapshots \in Seq(Content) /\ Len(snapshots) = n
      /\ n \in Nat /\ n > 0
  BY DEF IInv, TypeOK
<1>2. /\ WellFormed(snapshots[n]) /\ WellFormed(Current) /\ Top \in UndoState
      /\ Tracks(Top, snapshots[n], Current)
  BY TopTracks DEF IInv, ContentsWellFormed
<1>3. /\ RestoreObjects(Top, objects) = snapshots[n].objects
      /\ RestoreNextIds(Top, next_id) = snapshots[n].next_id
      /\ RestoreSucceeds(Top, objects)
  <2>1. Current.objects = objects /\ Current.next_id = next_id
    BY DEF Current
  <2> QED BY <2>1, <1>2, TracksRestores
<1>4. /\ objects' = snapshots[n].objects /\ next_id' = snapshots[n].next_id
      /\ failed' = failed
      /\ stack' = SubSeq(stack, 1, n - 1) /\ snapshots' = SubSeq(snapshots, 1, n - 1)
  BY <1>3, Zenon DEF RestoreTop, PopState
<1>5. Current' = snapshots[n] /\ WellFormed(Current')
  BY <1>1, <1>2, <1>4 DEF Current, Content, WellFormed
<1>6. objects' \in [Ids -> Slot] /\ next_id' \in [Index -> Nat]
  BY <1>4, <1>2 DEF WellFormed, Content
<1> HIDE DEF n
<1>7. /\ stack' \in Seq(UndoState) /\ Len(stack') = n - 1
      /\ \A i \in 1..(n - 1) : stack'[i] = stack[i]
  <2>1. \A i \in 1..(n - 1) : stack[i] \in UndoState
    BY <1>1 DEF n
  <2> QED BY <2>1, <1>1, <1>4, SeqSlice, Z3
<1>8. n > 1 => Tracks(stack'[n - 1], snapshots[n - 1], Current')
  <2> SUFFICES ASSUME n > 1 PROVE Tracks(stack'[n - 1], snapshots[n - 1], Current')
    OBVIOUS
  <2>1. n - 1 \in 1..n /\ n - 1 # n /\ n - 1 \in 1..(n - 1)
    BY <1>1
  <2>2. After(n - 1) = snapshots[n]
    BY <2>1, <1>1 DEF After, n
  <2>3. Tracks(stack[n - 1], snapshots[n - 1], After(n - 1))
    BY <2>1 DEF IInv, StatesTrack, n
  <2> QED BY <2>1, <2>2, <2>3, <1>5, <1>7
<1>9. \A i \in 1..(n - 2) : stack'[i] = stack[i]
  BY <1>1, <1>7
<1>10. /\ snapshots' \in Seq(Content) /\ Len(snapshots') = Len(stack')
       /\ ContentsWellFormed' /\ StatesTrack'
  BY <1>4, <1>5, <1>7, <1>8, <1>9, PopTracks DEF n
<1> QED BY <1>4, <1>5, <1>6, <1>7, <1>10 DEF n, IInv, UndoNeverFails

(* The end of the innermost session.                                       *)
LEMMA EndSessionPreserves ==
    ASSUME IInv, active_sessions > 0, EndSession,
           objects' \in [Ids -> Slot], next_id' \in [Index -> Nat],
           stack' \in Seq(UndoState), snapshots' \in Seq(Content),
           Len(stack') = Len(stack) - 1, Len(snapshots') = Len(stack'),
           UndoNeverFails', ContentsWellFormed', StatesTrack'
    PROVE  IInv'
<1>1. /\ active_sessions \in Nat /\ nesting \in 0..MaxNesting
      /\ disable_on_exit \in BOOLEAN /\ disabled \in BOOLEAN
      /\ active_sessions <= Len(stack) /\ nesting <= active_sessions
      /\ max_size \in Nat \ {0} /\ Len(stack) \in Nat
  BY DEF IInv, TypeOK, ActiveStatesKept, SessionsConsistent
<1>0. ASSUME disable_on_exit
      PROVE  nesting = active_sessions /\ Len(stack) = active_sessions
  BY <1>0 DEF IInv, SessionsConsistent
<1>2. /\ active_sessions' = active_sessions - 1
      /\ nesting' = IF nesting > 0 THEN nesting - 1 ELSE 0
      /\ disabled' = (disable_on_exit /\ active_sessions = 1)
      /\ disable_on_exit' = (disable_on_exit /\ active_sessions # 1)
      /\ max_size' = max_size
  BY DEF EndSession
<1>3. active_sessions' \in Nat /\ nesting' \in 0..MaxNesting /\ nesting' <= active_sessions'
  BY <1>1, <1>2, BoundsAssumption
<1>4. disabled' \in BOOLEAN /\ disable_on_exit' \in BOOLEAN
  BY <1>1, <1>2
<1>5. failed' \in BOOLEAN
  BY Zenon DEF UndoNeverFails, IInv, TypeOK
<1>6. TypeOK'
  BY <1>1, <1>2, <1>3, <1>4, <1>5 DEF TypeOK
<1>7. ActiveStatesKept'
  BY <1>1, <1>2 DEF ActiveStatesKept
<1>8. SessionsConsistent'
  <2>1. CASE disable_on_exit /\ active_sessions = 1
    <3>1. Len(stack) = active_sessions
      BY <2>1, <1>0, Zenon
    <3>2. Len(stack') = 0 /\ active_sessions' = 0
      BY <2>1, <3>1, <1>2
    <3>3. stack' = << >>
      BY <3>2
    <3>4. ~disable_on_exit'
      BY <2>1, <1>2, Zenon
    <3> QED BY <3>2, <3>3, <3>4, <1>3 DEF SessionsConsistent
  <2>2. CASE disable_on_exit /\ active_sessions # 1
    <3>1. nesting = active_sessions /\ Len(stack) = active_sessions
      BY <2>2, <1>0
    <3>2. active_sessions # 1
      BY <2>2
    <3>3. nesting' = active_sessions' /\ Len(stack') = active_sessions' /\ active_sessions' > 0
      BY <3>1, <3>2, <1>1, <1>2
    <3>4. ~disabled'
      BY <2>2, <1>2, Zenon
    <3> QED BY <3>3, <3>4, <1>3 DEF SessionsConsistent
  <2>3. CASE ~disable_on_exit
    <3>1. ~disable_on_exit' /\ ~disabled'
      BY <2>3, <1>2, Zenon
    <3> QED BY <3>1, <1>3 DEF SessionsConsistent
  <2> QED BY <2>1, <2>2, <2>3
<1> QED BY <1>6, <1>7, <1>8 DEF IInv

LEMMA UndoPreserves ==
    ASSUME IInv, undo
    PROVE  IInv'
<1>1. active_sessions > 0 /\ RestoreTop /\ EndSession
  BY DEF undo
<1>2. stack # << >>
  BY <1>1 DEF IInv, TypeOK, ActiveStatesKept
<1> QED BY <1>1, <1>2, RestoreTopStep, EndSessionPreserves

LEMMA PopCommitPreserves ==
    ASSUME IInv, pop_commit
    PROVE  IInv'
<1>1. /\ active_sessions = 0 /\ stack # << >> /\ RestoreTop /\ disabled' = FALSE
      /\ UNCHANGED <<active_sessions, nesting, disable_on_exit, max_size>>
  BY DEF pop_commit
<1>2. /\ active_sessions \in Nat /\ nesting \in 0..MaxNesting /\ nesting <= active_sessions
      /\ disable_on_exit \in BOOLEAN /\ max_size \in Nat \ {0} /\ Len(stack) \in Nat
      /\ Len(stack) > 0 /\ ~disable_on_exit
  BY <1>1 DEF IInv, TypeOK, SessionsConsistent
<1>3. /\ objects' \in [Ids -> Slot] /\ next_id' \in [Index -> Nat]
      /\ UndoNeverFails'
      /\ stack' \in Seq(UndoState) /\ snapshots' \in Seq(Content)
      /\ Len(stack') = Len(stack) - 1 /\ Len(snapshots') = Len(stack')
      /\ ContentsWellFormed' /\ StatesTrack'
  BY <1>1, RestoreTopStep
<1>4. failed' \in BOOLEAN
  BY <1>3, Zenon DEF UndoNeverFails
<1>5. TypeOK'
  BY <1>1, <1>2, <1>3, <1>4, Zenon DEF TypeOK
<1> QED BY <1>1, <1>2, <1>3, <1>5 DEF IInv, ActiveStatesKept, SessionsConsistent

LEMMA CommitPreserves ==
    ASSUME IInv, commit
    PROVE  IInv'
<1>1. /\ active_sessions = 1 /\ nesting = 0 /\ EndSession
      /\ UNCHANGED <<objects, next_id, stack, failed, snapshots>>
  BY DEF commit
<1>2. ~disable_on_exit /\ Len(stack) >= 1 /\ max_size \in Nat \ {0}
  BY <1>1 DEF IInv, TypeOK, SessionsConsistent, ActiveStatesKept
<1>3. /\ active_sessions' = 0 /\ nesting' = 0 /\ max_size' = max_size
      /\ disabled' \in BOOLEAN /\ disable_on_exit' \in BOOLEAN
      /\ ~disabled' /\ ~disable_on_exit'
  <2>1. active_sessions' = 0 /\ nesting' = 0 /\ max_size' = max_size
    BY <1>1 DEF EndSession
  <2>2. /\ disabled' = (disable_on_exit /\ active_sessions = 1)
        /\ disable_on_exit' = (disable_on_exit /\ active_sessions # 1)
    BY <1>1 DEF EndSession
  <2>3. disabled' \in BOOLEAN /\ disable_on_exit' \in BOOLEAN
    BY <2>2
  <2>4. ~disabled' /\ ~disable_on_exit'
    BY <2>2, <1>2, Zenon
  <2> QED BY <2>1, <2>3, <2>4
<1>4. TypeOK'
  BY <1>1, <1>2, <1>3, BoundsAssumption DEF IInv, TypeOK
<1>5. Current' = Current
  BY <1>1 DEF Current
<1>6. ContentsWellFormed' /\ StatesTrack'
  BY <1>1, <1>5 DEF IInv, ContentsWellFormed, StatesTrack, After
<1> QED BY <1>1, <1>2, <1>3, <1>4, <1>6 DEF IInv, UndoNeverFails, ActiveStatesKept, SessionsConsistent

LEMMA MergePreserves ==
    ASSUME IInv, merge
    PROVE  IInv'
<1> DEFINE n == Len(stack)
<1>1. /\ stack \in Seq(UndoState) /\ snapshots \in Seq(Content) /\ Len(snapshots) = n
      /\ n \in Nat /\ active_sessions \in Nat /\ active_sessions <= n
      /\ objects \in [Ids -> Slot] /\ next_id \in [Index -> Nat] /\ WellFormed(Current)
  BY DEF IInv, TypeOK, ActiveStatesKept, ContentsWellFormed
<1>2. active_sessions > 0 /\ EndSession /\ UNCHANGED <<objects, next_id>> /\ Current' = Current
  BY DEF merge, Current
<1>3. n > 0 /\ stack # << >>
  BY <1>1, <1>2
<1>4. CASE n = 1
  <2>1. stack' = SubSeq(stack, 1, 0) /\ snapshots' = SubSeq(snapshots, 1, 0) /\ failed' = failed
    BY <1>1, <1>2, <1>4 DEF merge, PopState
  <2>2. stack' = << >> /\ snapshots' = << >>
    BY <2>1, SeqNoSlice, Z3
  <2>3. stack' \in Seq(UndoState) /\ snapshots' \in Seq(Content)
        /\ Len(stack') = 0 /\ Len(snapshots') = 0
    BY <2>2
  <2>4. ContentsWellFormed' /\ StatesTrack'
    BY <2>3, <1>1, <1>2 DEF ContentsWellFormed, StatesTrack
  <2>5. UndoNeverFails'
    BY <2>1 DEF IInv, UndoNeverFails
  <2> QED BY <2>3, <2>4, <2>5, <1>1, <1>2, <1>4, EndSessionPreserves
<1>5. CASE n >= 2
  <2> DEFINE m == MergeStates(stack[n - 1], Top)
  <2>1. /\ stack' = [SubSeq(stack, 1, n - 1) EXCEPT ![n - 1] = m]
        /\ snapshots' = SubSeq(snapshots, 1, n - 1) /\ failed' = failed
    BY <1>1, <1>5 DEF merge
  <2>2. /\ n - 1 \in 1..n /\ n \in 1..n /\ n - 1 \in 1..(n - 1) /\ n - 1 # n /\ (n - 1) + 1 = n
    BY <1>1, <1>5
  <2>3. /\ stack[n - 1] \in UndoState /\ Top \in UndoState
        /\ WellFormed(snapshots[n - 1]) /\ WellFormed(snapshots[n])
        /\ Tracks(Top, snapshots[n], Current)
    <3>1. Top \in UndoState /\ Tracks(Top, snapshots[n], Current)
      BY <1>3, TopTracks
    <3>2. \A i \in 1..n : WellFormed(snapshots[i])
      BY DEF IInv, ContentsWellFormed
    <3>3. stack[n - 1] \in UndoState
      BY <2>2, <1>1, SeqElement, ZenonT(40)
    <3> HIDE DEF n
    <3> QED BY <3>1, <3>2, <3>3, <2>2
  <2>4. Tracks(stack[n - 1], snapshots[n - 1], snapshots[n])
    <3>1. After(n - 1) = snapshots[n]
      BY <2>2, Zenon DEF After
    <3> QED BY <3>1, <2>2, ZenonT(40) DEF IInv, StatesTrack
  <2>5. m \in UndoState /\ Tracks(m, snapshots[n - 1], Current)
    BY <2>3, <2>4, <1>1, MergeTracks
  <2> HIDE DEF m, n
  <2>6. /\ SubSeq(stack, 1, n - 1) \in Seq(UndoState)
        /\ Len(SubSeq(stack, 1, n - 1)) = n - 1
        /\ \A i \in 1..(n - 1) : SubSeq(stack, 1, n - 1)[i] = stack[i]
    <3>1. \A i \in 1..(n - 1) : stack[i] \in UndoState
      BY <1>1 DEF n
    <3> QED BY <3>1, <1>1, <1>5, SeqSlice, Z3
  <2>7. /\ stack' \in Seq(UndoState) /\ Len(stack') = n - 1
        /\ \A i \in 1..(n - 1) : stack'[i] = IF i = n - 1 THEN m ELSE SubSeq(stack, 1, n - 1)[i]
    <3> DEFINE front == SubSeq(stack, 1, n - 1)
    <3>1. n - 1 \in 1..Len(front) /\ front \in Seq(UndoState)
      BY <2>2, <2>6
    <3>2. stack' = [front EXCEPT ![n - 1] = m]
      BY <2>1
    <3> HIDE DEF front
    <3>3. /\ stack' \in Seq(UndoState) /\ Len(stack') = Len(front)
          /\ \A i \in 1..Len(front) : stack'[i] = IF i = n - 1 THEN m ELSE front[i]
      BY <3>1, <3>2, <2>5, SeqExcept
    <3> QED BY <3>3, <2>6 DEF front
  <2>8. \A i \in 1..(n - 2) : stack'[i] = stack[i]
    <3> SUFFICES ASSUME NEW i \in 1..(n - 2) PROVE stack'[i] = stack[i]
      OBVIOUS
    <3>1. i \in 1..(n - 1) /\ i # n - 1
      BY <1>1
    <3> QED BY <3>1, <2>6, <2>7
  <2>9. Tracks(stack'[n - 1], snapshots[n - 1], Current')
    BY <2>2, <2>5, <2>7, <1>2
  <2>10. WellFormed(Current')
    BY <1>1, <1>2, Zenon
  <2>11. /\ snapshots' \in Seq(Content) /\ Len(snapshots') = Len(stack')
         /\ ContentsWellFormed' /\ StatesTrack'
    BY <2>1, <2>7, <2>8, <2>9, <2>10, <1>3, PopTracks, Zenon DEF n
  <2>12. UndoNeverFails'
    BY <2>1 DEF IInv, UndoNeverFails
  <2>13. Len(stack') = Len(stack) - 1 /\ objects' \in [Ids -> Slot] /\ next_id' \in [Index -> Nat]
    BY <2>7, <1>1, <1>2 DEF n
  <2> QED BY <2>7, <2>11, <2>12, <2>13, <1>2, EndSessionPreserves
<1> QED BY <1>1, <1>3, <1>4, <1>5

-----------------------------------------------------------------------------
LEMMA InitIInv == Init => IInv
<1> SUFFICES ASSUME Init PROVE IInv
  OBVIOUS
<1>1. TypeOK
  <2>1. /\ objects \in [Ids -> Slot] /\ next_id \in [Index -> Nat] /\ max_size \in Nat \ {0}
        /\ active_sessions \in Nat /\ nesting \in 0..MaxNesting
    BY BoundsAssumption DEF Init, Slot
  <2>2. stack \in Seq(UndoState) /\ snapshots \in Seq(Content) /\ Len(snapshots) = Len(stack)
    BY DEF Init
  <2>3. disable_on_exit \in BOOLEAN /\ disabled \in BOOLEAN /\ failed \in BOOLEAN
    BY Zenon DEF Init
  <2> QED BY <2>1, <2>2, <2>3 DEF TypeOK
<1>2. WellFormed(Current)
  BY DEF Init, WellFormed, Current, Content, Slot, UniqueKeys
<1>3. Len(stack) = 0
  BY DEF Init
<1> QED
  BY <1>1, <1>2, <1>3 DEF Init, IInv, UndoNeverFails, ActiveStatesKept, SessionsConsistent,
     ContentsWellFormed, StatesTrack

LEMMA NextIInv == IInv /\ [Next]_vars => IInv'
<1> SUFFICES ASSUME IInv, [Next]_vars PROVE IInv'
  OBVIOUS
<1>1. ASSUME NEW x \in Index, NEW k \in Key, NEW v \in Val, create(x, k, v) PROVE IInv'
  BY <1>1, CreatePreserves
<1>2. ASSUME NEW id \in Ids, NEW v \in Val, modify(id, v) PROVE IInv'
  BY <1>2, ModifyPreserves
<1>3. ASSUME NEW id \in Ids, remove(id) PROVE IInv'
  BY <1>3, RemovePreserves
<1>4. CASE start_undo_session
  BY <1>4, StartPreserves
<1>5. CASE start_nested_session
  BY <1>5, StartNestedPreserves
<1>6. CASE undo
  BY <1>6, UndoPreserves
<1>7. CASE merge
  BY <1>7, MergePreserves
<1>8. CASE commit
  BY <1>8, CommitPreserves
<1>9. CASE pop_commit
  BY <1>9, PopCommitPreserves
<1>10. ASSUME NEW k \in 1..MaxUndo, set_max_size(k) PROVE IInv'
  <2>1. max_size' \in Nat \ {0}
    BY <1>10, BoundsAssumption DEF set_max_size
  <2>2. /\ UNCHANGED <<objects, next_id, stack, active_sessions, nesting, disable_on_exit>>
        /\ UNCHANGED <<disabled, failed, snapshots>>
    BY <1>10, Zenon DEF set_max_size
  <2> QED BY <2>1, <2>2, Zenon DEF IInv, TypeOK, UndoNeverFails, ActiveStatesKept,
         SessionsConsistent, ContentsWellFormed, StatesTrack, Current, After
<1>11. CASE disable
  <2>1. /\ active_sessions = 0 /\ stack = << >> /\ disabled' = TRUE
        /\ UNCHANGED <<objects, next_id, stack, active_sessions, nesting, disable_on_exit>>
        /\ UNCHANGED <<max_size, failed, snapshots>>
    BY <1>11, Zenon DEF disable
  <2>2. disable_on_exit = FALSE
    BY <2>1 DEF IInv, TypeOK, SessionsConsistent
  <2>3. TypeOK' /\ UndoNeverFails' /\ ActiveStatesKept' /\ ContentsWellFormed' /\ StatesTrack'
    BY <2>1, Zenon DEF IInv, TypeOK, UndoNeverFails, ActiveStatesKept,
       ContentsWellFormed, StatesTrack, Current, After
  <2>4. SessionsConsistent'
    BY <2>1, <2>2 DEF IInv, SessionsConsistent
  <2> QED BY <2>3, <2>4, Zenon DEF IInv
<1>12. CASE enable
  BY <1>12, Zenon DEF enable, IInv, TypeOK, UndoNeverFails, ActiveStatesKept,
     SessionsConsistent, ContentsWellFormed, StatesTrack, Current, After
<1>13. CASE UNCHANGED vars
  BY <1>13 DEF vars, IInv, TypeOK, UndoNeverFails, ActiveStatesKept,
     SessionsConsistent, ContentsWellFormed, StatesTrack, Current, After
<1> QED
  BY <1>1, <1>2, <1>3, <1>4, <1>5, <1>6, <1>7, <1>8, <1>9, <1>10, <1>11, <1>12, <1>13 DEF Next

(* Every reachable state satisfies the inductive invariant.                *)
THEOREM Invariance == Spec => []IInv
<1> QED BY InitIInv, NextIInv, PTL DEF Spec

(* The undo database and the objects it protects keep their types.         *)
THEOREM TypeCorrect == Spec => []TypeOK
<1>1. IInv => TypeOK
  BY DEF IInv
<1> QED BY <1>1, Invariance, PTL

(* Undoing any number of states from the top of _stack restores exactly    *)
(* the objects and the next ids there were when those states were pushed.  *)
THEOREM UndoIsExact == Spec => []UndoRestores
<1>1. IInv => UndoRestores
  <2> SUFFICES ASSUME IInv, NEW i \in 1..Len(stack)
               PROVE  /\ RestoreObjects(stack[i], After(i).objects) = snapshots[i].objects
                      /\ RestoreNextIds(stack[i], After(i).next_id) = snapshots[i].next_id
    BY DEF UndoRestores
  <2>1. stack[i] \in UndoState
    BY SeqElement DEF IInv, TypeOK
  <2>2. WellFormed(snapshots[i]) /\ Tracks(stack[i], snapshots[i], After(i))
    BY DEF IInv, ContentsWellFormed, StatesTrack
  <2>3. WellFormed(After(i))
    <3>1. CASE i = Len(stack)
      BY <3>1 DEF After, IInv, ContentsWellFormed
    <3>2. CASE i # Len(stack)
      <4>1. i + 1 \in 1..Len(stack)
        BY <3>2 DEF IInv, TypeOK
      <4> QED BY <3>2, <4>1 DEF After, IInv, ContentsWellFormed
    <3> QED BY <3>1, <3>2
  <2> QED BY <2>1, <2>2, <2>3, TracksRestores
<1> QED BY <1>1, Invariance, PTL

(* No undo(), merge() or pop_commit() throws, so no session destructor     *)
(* ends the process.                                                       *)
THEOREM UndoNeverThrows == Spec => []UndoNeverFails
<1>1. IInv => UndoNeverFails
  BY DEF IInv
<1> QED BY <1>1, Invariance, PTL

(* The limit on the number of undo states never costs a live session its   *)
(* state.                                                                  *)
THEOREM LiveSessionsKeepTheirState == Spec => []ActiveStatesKept
<1>1. IInv => ActiveStatesKept
  BY DEF IInv
<1> QED BY <1>1, Invariance, PTL

-----------------------------------------------------------------------------
(* Refinement.                                                             *)

LEMMA ObjectStepRefines ==
    ASSUME IInv, IInv', NEW st, Record(st)
    PROVE  Store!Change
<1>1. Current' \in Content
  BY DEF IInv, ContentsWellFormed, WellFormed
<1>2. snapshots' = snapshots \/ (snapshots = << >> /\ snapshots' = <<Current>>)
  <2>1. CASE disabled \/ stack # << >>
    BY <2>1 DEF Record
  <2>2. CASE ~disabled /\ stack = << >>
    <3>1. snapshots = << >>
      BY <2>2 DEF IInv, TypeOK
    <3> QED BY <2>2, <3>1 DEF Record
  <2> QED BY <2>1, <2>2
<1> QED BY <1>1, <1>2, Zenon DEF Store!Change

LEMMA PushRefines ==
    ASSUME IInv, NEW bound \in Nat \ {0}, PushState(bound), UNCHANGED <<objects, next_id>>
    PROVE  Store!Save
<1> DEFINE from == IF Len(stack) > bound THEN Len(stack) - bound + 1 ELSE 1
<1>1. snapshots' = Append(SubSeq(snapshots, from, Len(snapshots)), Current)
  BY DEF PushState, IInv, TypeOK
<1>2. from \in 1..(Len(snapshots) + 1)
  BY DEF IInv, TypeOK
<1>3. Current' = Current
  BY DEF Current
<1> HIDE DEF from
<1> QED BY <1>1, <1>2, <1>3 DEF Store!Save

LEMMA RestoreRefines ==
    ASSUME IInv, stack # << >>, RestoreTop
    PROVE  Store!GoBack
<1>1. Len(snapshots) = Len(stack) /\ snapshots # << >>
  BY DEF IInv, TypeOK
<1> QED BY <1>1, RestoreTopStep DEF Store!GoBack

LEMMA MergeRefines ==
    ASSUME IInv, merge
    PROVE  Store!Forget
<1>1. /\ active_sessions > 0 /\ UNCHANGED <<objects, next_id>>
      /\ active_sessions <= Len(stack) /\ active_sessions \in Nat /\ Len(stack) \in Nat
      /\ Len(snapshots) = Len(stack)
  BY DEF IInv, TypeOK, ActiveStatesKept, merge
<1>2. Current' = Current /\ snapshots # << >>
  BY <1>1 DEF Current
<1>3. snapshots' = SubSeq(snapshots, 1, Len(stack) - 1)
  BY <1>1 DEF merge, PopState
<1> QED BY <1>1, <1>2, <1>3 DEF Store!Forget

(* undo_database is a stack of saved contents: a step of it saves the      *)
(* content, goes back to the newest saved content, forgets one or is an    *)
(* ordinary change.                                                        *)
THEOREM UndoImplementsStore == Spec => ImplementsStore
<1>1. Init => Store!Init
  <2> SUFFICES ASSUME Init PROVE Store!Init
    OBVIOUS
  <2>1. Current \in Content
    BY InitIInv DEF IInv, ContentsWellFormed, WellFormed
  <2> QED BY <2>1 DEF Init, Store!Init
<1>2. IInv /\ IInv' /\ [Next]_vars => [Store!Next]_(Store!storeVars)
  <2> SUFFICES ASSUME IInv, IInv', [Next]_vars
               PROVE  Store!Next \/ UNCHANGED Store!storeVars
    OBVIOUS
  <2>1. ASSUME NEW x \in Index, NEW k \in Key, NEW v \in Val, create(x, k, v)
        PROVE  Store!Next
    <3>1. Record(on_create(Top, <<x, next_id[x]>>))
      BY <2>1 DEF create
    <3> QED BY <3>1, ObjectStepRefines DEF Store!Next
  <2>2. ASSUME NEW id \in Ids, NEW v \in Val, modify(id, v)
        PROVE  Store!Next
    <3>1. Record(on_modify(Top, id, objects[id]))
      BY <2>2 DEF modify
    <3> QED BY <3>1, ObjectStepRefines DEF Store!Next
  <2>3. ASSUME NEW id \in Ids, remove(id)
        PROVE  Store!Next
    <3>1. Record(on_remove(Top, id, objects[id]))
      BY <2>3 DEF remove
    <3> QED BY <3>1, ObjectStepRefines DEF Store!Next
  <2>4. CASE start_undo_session
    <3>1. /\ PushState(max_size) /\ UNCHANGED <<objects, next_id>>
          /\ max_size \in Nat \ {0}
      BY <2>4 DEF start_undo_session, IInv, TypeOK
    <3> QED BY <3>1, PushRefines DEF Store!Next
  <2>5. CASE start_nested_session
    <3>1. PICK bound \in Nat \ {0} : PushState(bound) /\ UNCHANGED <<objects, next_id>>
      BY <2>5 DEF start_nested_session, IInv, TypeOK
    <3> QED BY <3>1, PushRefines DEF Store!Next
  <2>6. CASE undo
    <3>1. RestoreTop /\ stack # << >>
      BY <2>6 DEF undo, IInv, TypeOK, ActiveStatesKept
    <3> QED BY <3>1, RestoreRefines DEF Store!Next
  <2>7. CASE merge
    BY <2>7, MergeRefines DEF Store!Next
  <2>8. CASE pop_commit
    <3>1. RestoreTop /\ stack # << >>
      BY <2>8 DEF pop_commit
    <3> QED BY <3>1, RestoreRefines DEF Store!Next
  <2>9. CASE commit \/ disable \/ enable \/ (\E k \in 1..MaxUndo : set_max_size(k)) \/ UNCHANGED vars
    BY <2>9 DEF commit, disable, enable, set_max_size, vars, Current, Store!storeVars
  <2> QED BY <2>1, <2>2, <2>3, <2>4, <2>5, <2>6, <2>7, <2>8, <2>9 DEF Next
<1> QED BY <1>1, <1>2, Invariance, PTL DEF Spec, ImplementsStore

=============================================================================
