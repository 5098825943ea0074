--------------------------- MODULE WitnessSchedule --------------------------
(***************************************************************************)
(* Slots, the shuffled order of the witnesses, maintenance and the last    *)
(* irreversible block, along one chain: what _apply_block does to them     *)
(* with each block, in the order in which it does it.                      *)
(*                                                                         *)
(* The outcome of a vote count, of a change of the block interval by the   *)
(* committee, and of the shuffle (a function of the block time) are chosen *)
(* freely.                                                                 *)
(***************************************************************************)
EXTENDS Integers, Sequences, FiniteSets, FiniteSetsExt

CONSTANTS Witness,            \* all witnesses
          ActiveSets,         \* results the vote count can have
          Intervals,          \* block intervals the committee chooses from
          MaintenanceInterval,
          SkipSlots,          \* maintenance_skip_slots
          GenesisTime,
          Bits,               \* width of recent_slots_filled
          MaxTime             \* bound on the time of blocks

ASSUME ScheduleAssumption ==
    /\ IsFiniteSet(Witness)
    /\ ActiveSets \subseteq (SUBSET Witness) \ {{}} /\ ActiveSets # {}
    /\ Intervals \subseteq Nat \ {0} /\ Intervals # {}
    /\ {MaintenanceInterval, Bits} \subseteq Nat \ {0}
    /\ {SkipSlots, GenesisTime, MaxTime} \subseteq Nat
    /\ \A i \in Intervals : GenesisTime % i = 0

VARIABLES
    head_num, time,      \* head_block_number, time
    aslot,               \* current_aslot
    filled,              \* recent_slots_filled: the bits that are set
    interval,            \* block_interval
    maintenance,         \* maintenance_flag
    next_maintenance,    \* next_maintenance_time
    active,              \* active_witnesses
    shuffled,            \* current_shuffled_witnesses
    last_confirmed,      \* last_confirmed_block_num of each witness
    lib,                 \* last_irreversible_block_num
    recent,              \* history: whether each of the last Bits slots was filled
    turns,               \* history: witnesses scheduled since the last shuffle
    steady,              \* history: active has its size since the last shuffle
    outage               \* history: Bits slots in a row were missed once

vars == <<head_num, time, aslot, filled, interval, maintenance, next_maintenance, active,
          shuffled, last_confirmed, lib, recent, turns, steady, outage>>

-----------------------------------------------------------------------------
(* db_witness_schedule.cpp                                                 *)

\* Slots are multiples of the interval; after a maintenance block the first
\* ones are skipped.
get_slot_time(slot) ==
    IF slot = 0 THEN 0
    ELSE IF head_num = 0 THEN time + slot * interval
    ELSE (time \div interval) * interval
             + (slot + IF maintenance THEN SkipSlots ELSE 0) * interval

\* MUTANT: slots counted from the time of the head, not from its slot
get_slot_at_time_from_head(when) ==
    IF when < get_slot_time(1) THEN 0 ELSE (when - time) \div interval

get_slot_at_time(when) ==
    IF when < get_slot_time(1) THEN 0 ELSE (when - get_slot_time(1)) \div interval + 1

get_scheduled_witness(slot) == shuffled[((aslot + slot) % Len(shuffled)) + 1]

Orders(S) == {s \in [1..Cardinality(S) -> S] : IsInjective(s)}

\* MUTANT: rounds that are one block short
ShufflesAt_short(n, S) == Cardinality(S) > 1 /\ n % (Cardinality(S) - 1) = 0

ShufflesAt(n, S) == n % Cardinality(S) = 0

-----------------------------------------------------------------------------
(* db_update.cpp, db_maint.cpp                                             *)

\* A shift of the unsigned integer that has these bits set.  By its width or
\* more the shift is undefined in the code: machines take the amount modulo the
\* width, the library that stands in for a missing 128-bit type returns zero.
ShiftLeft(bits, n) == {b + n : b \in bits} \cap 0..(Bits - 1)

ShiftAmounts(n) == IF n < Bits THEN {n} ELSE {Bits, n % Bits}

\* update_global_dynamic_data puts the slots missed before the block below it.
ShiftedIn(missed) ==
    {ShiftLeft(ShiftLeft(filled, 1) \cup {0}, n) : n \in ShiftAmounts(missed)}

popcount(bits) == Cardinality(bits)

offset(S) == ((10000 - 7000) * Cardinality(S)) \div 10000

\* The element at the offset of the sorted last_confirmed_block_num values is
\* the highest one that at most offset values lie below.
NthConfirmed(S, confirmed) ==
    Max({n \in {confirmed[w] : w \in S} : Cardinality({w \in S : confirmed[w] < n}) <= offset(S)})

update_last_irreversible_block(S, confirmed) ==
    IF NthConfirmed(S, confirmed) > lib THEN NthConfirmed(S, confirmed) ELSE lib

\* perform_chain_maintenance: the first multiple after the block
NextMaintenance(n, now) ==
    IF n = 1 THEN (now \div MaintenanceInterval + 1) * MaintenanceInterval
    ELSE next_maintenance
         + ((now - next_maintenance) \div MaintenanceInterval + 1) * MaintenanceInterval

perform_chain_maintenance(n, now) ==
    /\ active' \in ActiveSets
    /\ interval' \in Intervals
    /\ next_maintenance' = NextMaintenance(n, now)

update_witness_schedule ==
    IF ShufflesAt(head_num', active')
    THEN /\ shuffled' \in Orders(active')
         /\ turns' = {}
         /\ steady' = TRUE
    ELSE /\ turns' = turns \cup {get_scheduled_witness(k) : k \in 1..(aslot' - aslot)}
         /\ steady' = (steady /\ Cardinality(active') = Cardinality(active))
         /\ UNCHANGED shuffled

LastOf(s, n) == SubSeq(s, Len(s) - n + 1, Len(s))

\* _apply_block with a block of the scheduled witness at time now
_apply_block(now) ==
    \E slot \in {get_slot_at_time(now)} :
       /\ slot > 0 /\ now > time
       /\ head_num' = head_num + 1
       /\ time' = now
       /\ aslot' = aslot + slot
       /\ filled' \in ShiftedIn(slot - 1)
       /\ last_confirmed' = [last_confirmed EXCEPT ![get_scheduled_witness(slot)] = head_num']
       /\ lib' = update_last_irreversible_block(active, last_confirmed')
       /\ maintenance' = (next_maintenance <= now)
       /\ IF next_maintenance <= now THEN perform_chain_maintenance(head_num', now)
          ELSE UNCHANGED <<active, interval, next_maintenance>>
       /\ update_witness_schedule
       /\ recent' = LastOf(recent \o [i \in 1..slot |-> i = slot], Bits)
       /\ outage' = (outage \/ slot > Bits)

\* init_genesis: all slots before count as filled, maintenance is due at once
Init ==
    /\ head_num = 0 /\ time = GenesisTime /\ aslot = 0
    /\ filled = 0..(Bits - 1)
    /\ interval \in Intervals
    /\ maintenance = FALSE
    /\ next_maintenance = 0
    /\ active \in ActiveSets
    /\ shuffled \in Orders(active)
    /\ last_confirmed = [w \in Witness |-> 0]
    /\ lib = 0
    /\ recent = [i \in 1..Bits |-> TRUE]
    /\ turns = {} /\ steady = TRUE /\ outage = FALSE

Next == \E now \in GenesisTime..MaxTime : _apply_block(now)

Spec == Init /\ [][Next]_vars

-----------------------------------------------------------------------------
(* Properties                                                              *)

\* Checked as part of SlotsAhead
TypeOK ==
    /\ {head_num, time, aslot} \subseteq Nat /\ lib \in 0..head_num
    /\ filled \subseteq 0..(Bits - 1)
    /\ interval \in Intervals
    /\ maintenance \in BOOLEAN
    /\ next_maintenance \in Nat
    /\ active \in ActiveSets
    /\ shuffled \in Seq(Witness) /\ shuffled # <<>> /\ IsInjective(shuffled)
    /\ last_confirmed \in [Witness -> 0..head_num]
    /\ recent \in [1..Bits -> BOOLEAN]
    /\ turns \subseteq Witness /\ {steady, outage} \subseteq BOOLEAN

\* A slot that is open lies after the head, and the time of a slot belongs to
\* that slot: the witness plugin asserts the one and relies on the other when
\* it signs with get_slot_time(get_slot_at_time(now)).  It holds for blocks
\* in the middle of a slot, after maintenance and when the interval changes.
\* The next maintenance is ahead too, by one interval at most, however many
\* intervals passed without a block.  And the participation rate that lets a
\* witness produce is not above the share of the last slots that were filled,
\* as long as a block is never preceded by as many missed slots as it has bits.
SlotsAhead ==
    /\ TypeOK
    /\ \A slot \in 1..3 : /\ get_slot_time(slot) > time
                          /\ get_slot_at_time(get_slot_time(slot)) = slot
    /\ head_num > 0 => /\ next_maintenance > time
                       /\ next_maintenance - MaintenanceInterval <= time
    /\ ~outage => popcount(filled) <= Cardinality({i \in 1..Bits : recent[i]})

\* In every round, from one shuffle to the next, each witness of the round has
\* a slot: shuffling by block numbers, and taking turns by slot numbers, leaves
\* nobody out as long as the number of active witnesses stays.
EveryoneGetsATurn ==
    [][head_num' > head_num /\ turns' = {} /\ steady /\ Cardinality(active') = Cardinality(active) =>
         turns \cup {get_scheduled_witness(k) : k \in 1..(aslot' - aslot)} = Range(shuffled)]_vars
=============================================================================
