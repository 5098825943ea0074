---------------------------- MODULE WitnessPlugin ---------------------------
(***************************************************************************)
(* The witness plugin of a node: a task that wakes up every second, looks  *)
(* whether a witness of the node is scheduled now, and generates a block.  *)
(* Around it the chain of WitnessSchedule: blocks of others arrive, forks  *)
(* switch, and transactions that change signing keys wait in the pending   *)
(* state, which the database shows to everyone who reads it.               *)
(*                                                                         *)
(* The clock counts ticks, the times of blocks are seconds.  push_block,   *)
(* generate_block and a run of the task are atomic: they do not yield.     *)
(***************************************************************************)
EXTENDS WitnessSchedule

CONSTANTS
    _witnesses,         \* the witnesses of the node
    Key, NoKey,         \* all signing keys, and none
    _private_keys,      \* the keys whose private keys the node has
    InitialKey,         \* the signing key of each witness at the start
    Second,             \* ticks in a second
    MinSleep,           \* the task sleeps at least so long (50 ms)
    MaxLag,             \* a block is not generated later than this (2500 ms)
    MaxLate,            \* bound: how late the task is woken up
    _required_witness_participation,
    MaxKeyUpdates,      \* bound: transactions that change a signing key
    MaxClock            \* bound on the clock, in seconds

ASSUME PluginAssumption ==
    /\ _witnesses \subseteq Witness /\ _private_keys \subseteq Key /\ NoKey \notin Key
    /\ InitialKey \in [_witnesses -> Key]
    /\ {Second, MinSleep, MaxLag} \subseteq Nat \ {0}
    /\ {MaxLate, _required_witness_participation, MaxKeyUpdates, MaxClock} \subseteq Nat

\* The task is not woken up so late that a slot, or the time in which its block
\* may still be generated, has passed; and it sleeps through no second.
ASSUME PunctualAssumption ==
    /\ 2 * MinSleep <= Second
    /\ MaxLate + Second \div 2 <= MaxLag
    /\ \A i \in Intervals : MaxLate + Second \div 2 < i * Second

Stopped == -1
NoUndo == [head_num |-> -1]

VARIABLES
    clock,              \* fc::time_point::now()
    wakeup,             \* when _block_production_task runs, or Stopped
    _production_enabled,
    network,            \* p2p_node() # nullptr
    signing_key,        \* of the node's witnesses, in the state of the head
    pending,            \* their keys by pending transactions, or NoKey
    _witness_key_cache,
    undo,               \* what pop_block goes back to
    switching,          \* blocks that a switch of forks has still to apply
    key_updates,        \* bound
    failed,             \* history: an assertion of generate_block failed
    since               \* history: when the head or the network last changed

plugin_vars == <<clock, wakeup, _production_enabled, network, signing_key, pending,
                 _witness_key_cache, undo, switching, key_updates, failed, since>>

-----------------------------------------------------------------------------
ChainState ==
    [head_num |-> head_num, time |-> time, aslot |-> aslot, filled |-> filled, interval |-> interval,
     maintenance |-> maintenance, next_maintenance |-> next_maintenance, active |-> active,
     shuffled |-> shuffled, last_confirmed |-> last_confirmed, lib |-> lib, recent |-> recent,
     turns |-> turns, steady |-> steady, outage |-> outage, signing_key |-> signing_key]

Restore(s) ==
    /\ head_num' = s.head_num /\ time' = s.time /\ aslot' = s.aslot /\ filled' = s.filled
    /\ interval' = s.interval /\ maintenance' = s.maintenance
    /\ next_maintenance' = s.next_maintenance /\ active' = s.active /\ shuffled' = s.shuffled
    /\ last_confirmed' = s.last_confirmed /\ lib' = s.lib /\ recent' = s.recent
    /\ turns' = s.turns /\ steady' = s.steady /\ outage' = s.outage /\ signing_key' = s.signing_key

(* The signing key that the database shows, pending transactions applied.  *)
ShownKey(w) == IF pending[w] = NoKey THEN signing_key[w] ELSE pending[w]

refresh_witness_key_cache(keys) == _witness_key_cache' = keys

(* A block that sets these keys: _apply_block emits applied_block.         *)
Applied(when, keys) ==
    /\ _apply_block(when)
    /\ signing_key' = keys
    /\ refresh_witness_key_cache(keys)
    /\ undo' = ChainState
    /\ since' = clock

-----------------------------------------------------------------------------
(* The surroundings of the plugin                                          *)

\* witness_update in a transaction that is received
push_transaction(w, key) ==
    /\ switching = 0 /\ key_updates < MaxKeyUpdates
    /\ ShownKey(w) # key
    /\ pending' = [pending EXCEPT ![w] = key]
    /\ key_updates' = key_updates + 1
    /\ UNCHANGED <<vars, clock, wakeup, _production_enabled, network, signing_key,
                   _witness_key_cache, undo, switching, failed, since>>

(* A block of another witness, not too far in the future.  It contains all *)
(* or none of the pending transactions; the others stay pending.           *)
push_block(when) ==
    /\ when * Second < clock + MaxLag
    /\ get_slot_at_time(when) > 0
    /\ get_scheduled_witness(get_slot_at_time(when)) \notin _witnesses
    /\ \/ Applied(when, [w \in _witnesses |-> ShownKey(w)]) /\ pending' = [w \in _witnesses |-> NoKey]
       \/ /\ \E w \in _witnesses : pending[w] # NoKey
          /\ Applied(when, signing_key) /\ UNCHANGED pending
    /\ switching' = IF switching > 0 THEN switching - 1 ELSE 0
    /\ UNCHANGED <<clock, wakeup, _production_enabled, network, key_updates, failed>>

(* The head is popped for a longer branch, of which two blocks follow; the *)
(* popped transactions are pending again.                                  *)
pop_block ==
    /\ switching = 0 /\ undo # NoUndo
    /\ Restore(undo)
    /\ pending' = [w \in _witnesses |->
                      IF undo.signing_key[w] # signing_key[w] THEN ShownKey(w) ELSE pending[w]]
    /\ switching' = 2 /\ undo' = NoUndo
    /\ UNCHANGED <<clock, wakeup, _production_enabled, network, _witness_key_cache, key_updates,
                   failed, since>>

\* application_impl::startup starts the plugins first
reset_p2p_node ==
    /\ ~network /\ switching = 0
    /\ network' = TRUE /\ since' = clock
    /\ UNCHANGED <<vars, clock, wakeup, _production_enabled, signing_key, pending,
                   _witness_key_cache, undo, switching, key_updates, failed>>

Tick ==
    /\ switching = 0
    /\ clock < MaxClock * Second
    /\ wakeup # Stopped => clock < wakeup + MaxLate
    /\ clock' = clock + 1
    /\ UNCHANGED <<vars, wakeup, _production_enabled, network, signing_key, pending,
                   _witness_key_cache, undo, switching, key_updates, failed, since>>

-----------------------------------------------------------------------------
(* witness.cpp                                                             *)

time_to_next_second == Second - (clock % Second)

\* MUTANT: a second more is slept unless a whole one is left
next_wakeup_late ==
    clock + time_to_next_second + IF time_to_next_second < Second THEN Second ELSE 0

next_wakeup ==
    clock + time_to_next_second + IF time_to_next_second < MinSleep THEN Second ELSE 0

\* rounded to seconds
now == (clock + Second \div 2) \div Second

\* MUTANT: the key that the database shows
scheduled_key_shown(w) == ShownKey(w)

scheduled_key(w) == _witness_key_cache[w]

EnabledNow == _production_enabled \/ get_slot_time(1) >= now

witness_participation_rate == (10000 * popcount(filled)) \div Bits

(* maybe_produce_block: what it finds, in its order.                       *)
Condition ==
    LET slot == get_slot_at_time(now)
        w    == get_scheduled_witness(slot)
    IN  IF ~EnabledNow THEN "not_synced"
        ELSE IF slot = 0 THEN "not_time_yet"
        ELSE IF w \notin _witnesses THEN "not_my_turn"
        ELSE IF scheduled_key(w) \notin _private_keys THEN "no_private_key"
        ELSE IF witness_participation_rate < _required_witness_participation THEN "low_participation"
        ELSE IF (now - get_slot_time(slot)) * Second > MaxLag THEN "lag"
        ELSE IF ~network THEN "no_network"
        ELSE "generate"

(* generate_block undoes the pending transactions before it checks the     *)
(* key, and applies them to the block.                                     *)
Generates(slot, w) ==
    /\ get_slot_at_time(get_slot_time(slot)) > 0
    /\ get_scheduled_witness(get_slot_at_time(get_slot_time(slot))) = w
    /\ signing_key[w] = scheduled_key(w)

generate_block(slot) ==
    IF Generates(slot, get_scheduled_witness(slot))
    THEN /\ Applied(get_slot_time(slot), [w \in _witnesses |-> ShownKey(w)])
         /\ pending' = [w \in _witnesses |-> NoKey]
         /\ UNCHANGED failed
    ELSE /\ failed' = TRUE
         /\ UNCHANGED <<vars, signing_key, pending, _witness_key_cache, undo, since>>

block_production_loop ==
    /\ switching = 0 /\ wakeup # Stopped /\ clock >= wakeup
    /\ _production_enabled' = EnabledNow
    /\ IF Condition = "generate" THEN generate_block(get_slot_at_time(now))
       ELSE UNCHANGED <<vars, signing_key, pending, _witness_key_cache, undo, failed, since>>
    /\ wakeup' = IF Condition = "no_network" THEN Stopped ELSE next_wakeup
    /\ UNCHANGED <<clock, network, switching, key_updates>>

-----------------------------------------------------------------------------
\* plugin_startup, at any point of the first second
PluginInit ==
    /\ Init
    /\ clock \in GenesisTime * Second .. (GenesisTime + 1) * Second - 1
    /\ wakeup = next_wakeup
    /\ _production_enabled \in BOOLEAN
    /\ network = FALSE
    /\ signing_key = InitialKey /\ pending = [w \in _witnesses |-> NoKey]
    /\ _witness_key_cache = signing_key
    /\ undo = NoUndo /\ switching = 0
    /\ key_updates = 0 /\ failed = FALSE /\ since = clock

PluginNext ==
    \/ Tick \/ block_production_loop \/ reset_p2p_node \/ pop_block
    \/ \E w \in _witnesses, key \in Key : push_transaction(w, key)
    \/ \E when \in GenesisTime..MaxClock : push_block(when)

PluginSpec == PluginInit /\ [][PluginNext]_<<vars, plugin_vars>>

-----------------------------------------------------------------------------
(* generate_block's own conditions never fail for the plugin ("this check  *)
(* failed (which won't happen in normal situations)"): the cached key is   *)
(* the one in the state of the head, whatever transactions are pending and *)
(* after forks have switched, and the slot is the witness's.               *)
ProductionSucceeds == ~failed

(* A slot of a witness of the node is not missed: unless the head changes  *)
(* just before it, the node has filled it by the time the task has run     *)
(* that was to be woken up when the slot began.                            *)
OwnSlotsFilled ==
    \A slot \in 1..3 :
       LET begins == get_slot_time(slot)
           w == get_scheduled_witness(slot)
       IN  /\ wakeup # Stopped /\ network /\ _production_enabled /\ switching = 0
           /\ w \in _witnesses /\ _witness_key_cache[w] \in _private_keys
           /\ witness_participation_rate >= _required_witness_participation
           /\ since < (begins - 1) * Second
           => clock <= begins * Second + MaxLate
=============================================================================
