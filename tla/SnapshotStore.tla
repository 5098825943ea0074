--------------------------- MODULE SnapshotStore ----------------------------
(***************************************************************************)
(* What undo_database promises, without undo states: a store whose content *)
(* can be saved, thrown back to the last saved content, and whose saved    *)
(* contents can be forgotten, the newest by a merge and the oldest by the  *)
(* limit on their number.                                                  *)
(***************************************************************************)
EXTENDS Naturals, Sequences

CONSTANT Contents

VARIABLES
    content,   \* the current content
    saved      \* the contents to go back to, newest last

storeVars == <<content, saved>>

TypeInvariant ==
    /\ content \in Contents
    /\ saved \in Seq(Contents)

Init ==
    /\ content \in Contents
    /\ saved = << >>

(* A change outside every session saves the content before it.             *)
Change ==
    /\ content' \in Contents
    /\ saved' \in {saved} \cup IF saved = << >> THEN {<<content>>} ELSE {}

(* A session saves the content; the oldest contents may be dropped.        *)
Save ==
    /\ \E oldest \in 1..(Len(saved) + 1) :
          saved' = Append(SubSeq(saved, oldest, Len(saved)), content)
    /\ UNCHANGED content

GoBack ==
    /\ saved # << >>
    /\ content' = saved[Len(saved)]
    /\ saved' = SubSeq(saved, 1, Len(saved) - 1)

Forget ==
    /\ saved # << >>
    /\ saved' = SubSeq(saved, 1, Len(saved) - 1)
    /\ UNCHANGED content

Next == Change \/ Save \/ GoBack \/ Forget

Spec == Init /\ [][Next]_storeVars

=============================================================================
