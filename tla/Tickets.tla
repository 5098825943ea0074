------------------------------ MODULE Tickets ------------------------------
(***************************************************************************)
(* Tickets: core tokens that an account locks for voting power.  The       *)
(* evaluators of ticket_create and ticket_update, the state machine of a   *)
(* ticket, and process_tickets, which runs with every block and after      *)
(* every update.                                                           *)
(*                                                                         *)
(* Transactions are evaluated at the time of the block before.  The types  *)
(* are numbers, as in the code.  The totals that the vote count reads are  *)
(* kept next to the tickets, in the statistics of the accounts and in the  *)
(* global properties.                                                      *)
(***************************************************************************)
EXTENDS Accounts, Integers, FiniteSetsExt

CONSTANTS
    seconds_per_charging_step, seconds_to_cancel_charging,
    seconds_per_lock_forever_update_step,
    seconds_to_downgrade,   \* to type 0, 1 and 2
    TicketEndowment,        \* per account, its initial balance
    TicketAmounts,          \* bound: amounts of tickets and of parts of them
    MaxTickets,             \* bound: number of tickets
    MaxTicketUpdates,       \* bound: number of updates by the owners
    LastTicketCreation,     \* bound: time of the last creation of a ticket
    MaxTicketTime           \* bound: time of the last block

ASSUME TicketAssumption ==
    /\ {seconds_per_charging_step, seconds_to_cancel_charging,
        seconds_per_lock_forever_update_step} \subseteq Nat \ {0}
    /\ seconds_to_downgrade \in [0..2 -> Nat \ {0}]
    /\ TicketEndowment \in [Account -> Nat]
    /\ TicketAmounts \subseteq Nat \ {0}
    /\ {MaxTickets, MaxTicketUpdates, LastTicketCreation, MaxTicketTime} \subseteq Nat

liquid == 0
lock_forever == 4
maximum == 2^20          \* time_point_sec::maximum()
lock_forever_update_steps == 4
value_multiplier(type) == CASE type = 0 -> 0 [] type = 1 -> 2 [] type = 2 -> 4 [] OTHER -> 8

VARIABLES
    ticket_time,    \* head_block_time()
    tk,             \* tickets, balances and totals, see TicketTypeOK
    ticket_updates  \* bound: updates so far

ticket_vars == <<ticket_time, tk, ticket_updates>>

TicketId == 0..MaxTickets - 1

(* The downgrades that lead from type k to the end of the lock.            *)
LockOf(k) == MapThenSumSet(LAMBDA i : seconds_to_downgrade[i], 0..k - 1)

(* `born' and `until' are history: when the ticket was created, and when   *)
(* all downgrades are over of each type it had, counted from when it last  *)
(* reached that type or its owner began to give it up.                     *)
Ticket ==
    [account : Account, target_type : 0..4, amount : Nat, current_type : 0..4,
     status : {"charging", "stable", "withdrawing"}, value : Nat,
     next_auto_update_time : Int, next_type_downgrade_time : Int,
     born : Nat, until : Nat]

-----------------------------------------------------------------------------
(* ticket_object.cpp                                                       *)

update_value(t) ==
    IF t.current_type = lock_forever THEN t
    ELSE [t EXCEPT !.value = t.amount * value_multiplier(t.current_type)]

init_new(now, acct, target, amount) ==
    update_value([account |-> acct, target_type |-> target, amount |-> amount, current_type |-> liquid,
                  status |-> "charging", value |-> 0,
                  next_auto_update_time |-> now + seconds_per_charging_step,
                  next_type_downgrade_time |-> maximum,
                  born |-> now, until |-> 0])

Charge(t, now) ==
    IF t.status = "charging" THEN t
    ELSE [t EXCEPT !.status = "charging", !.next_auto_update_time = now + seconds_per_charging_step]

(* No downgrade was started before: one type less at once, or only the     *)
(* wait for the end of a charge that is given up.                          *)
StartDowngrade(t, now, target) ==
    IF t.current_type = target
    THEN [t EXCEPT !.next_type_downgrade_time = now + seconds_to_cancel_charging]
    ELSE [t EXCEPT !.current_type = @ - 1,
                   !.next_type_downgrade_time = now + seconds_to_downgrade[t.current_type - 1],
                   !.until = Max({@, now + LockOf(t.current_type)})]

Withdraw(t, now, target) ==
    LET d == IF t.next_type_downgrade_time = maximum THEN StartDowngrade(t, now, target) ELSE t
    IN  [d EXCEPT !.status = "withdrawing", !.next_auto_update_time = d.next_type_downgrade_time]

update_target_type(t, now, target) ==
    update_value([(IF t.current_type < target THEN Charge(t, now) ELSE Withdraw(t, now, target))
                  EXCEPT !.target_type = target])

(* A mutant: a downgrade that was begun before the charge is not           *)
(* forgotten.                                                              *)
Charged_keeps_downgrade(t) == [t EXCEPT !.current_type = @ + 1]

(* One type more, and no downgrade under way.                              *)
Charged(t) == [t EXCEPT !.current_type = @ + 1, !.next_type_downgrade_time = maximum]

AfterCharge(t) ==
    IF t.current_type < t.target_type
    THEN [t EXCEPT !.next_auto_update_time = @ + seconds_per_charging_step]
    ELSE IF t.current_type # lock_forever
    THEN [t EXCEPT !.status = "stable", !.next_auto_update_time = maximum]
    ELSE [t EXCEPT !.status = "withdrawing",
                   !.next_auto_update_time = @ + seconds_per_lock_forever_update_step,
                   !.value = t.amount * value_multiplier(lock_forever)]

(* A ticket that is locked for ever loses its value in steps.              *)
LoseValue(t) ==
    LET delta == Max({1, (t.amount * value_multiplier(lock_forever)) \div lock_forever_update_steps})
    IN  IF t.value <= delta
        THEN [t EXCEPT !.value = 0, !.status = "stable", !.next_auto_update_time = maximum]
        ELSE [t EXCEPT !.value = @ - delta,
                       !.next_auto_update_time = @ + seconds_per_lock_forever_update_step]

Downgraded(t) ==
    LET next == t.next_type_downgrade_time + seconds_to_downgrade[t.current_type - 1]
    IN  [t EXCEPT !.current_type = @ - 1, !.next_type_downgrade_time = next,
                  !.next_auto_update_time = next]

auto_update(t) ==
    update_value(IF t.status = "charging" THEN AfterCharge(Charged(t))
                 ELSE IF t.current_type = lock_forever THEN LoseValue(t)
                 ELSE IF t.current_type = t.target_type
                 THEN [t EXCEPT !.status = "stable", !.next_type_downgrade_time = maximum,
                                !.next_auto_update_time = maximum]
                 ELSE Downgraded(t))

-----------------------------------------------------------------------------
(* process_tickets                                                         *)

PutTicket(s, id, t) ==
    [s EXCEPT !.tickets = [i \in DOMAIN s.tickets \cup {id} |-> IF i = id THEN t ELSE s.tickets[i]]]

Refunded(s, id, now) ==
    LET t == s.tickets[id]
    IN  [s EXCEPT !.tickets = [i \in DOMAIN s.tickets \ {id} |-> s.tickets[i]],
                  !.balances[t.account] = @ + t.amount,
                  !.stats[t.account].core_pol = @ - t.amount,
                  !.stats[t.account].pol_value = @ - t.value,
                  !.early = @ \/ now < t.until]

(* What an automatic update of old to new changes in the totals.           *)
Forever(old, new) == old.current_type # lock_forever /\ new.current_type = lock_forever
Fades(old, new)   == old.current_type = lock_forever /\ new.value = 0

Updated(s, id, now) ==
    LET old == s.tickets[id]
        new == auto_update(old)
        held == IF new.current_type \in old.current_type + 1 .. lock_forever - 1
                THEN [new EXCEPT !.until = Max({@, now + LockOf(new.current_type)})] ELSE new
        pob == IF Forever(old, new) THEN old.amount ELSE IF Fades(old, new) THEN -old.amount ELSE 0
        inactive == IF Fades(old, new) THEN old.amount ELSE 0
        locked == new.current_type = lock_forever
    IN  [PutTicket(s, id, held) EXCEPT
            !.stats[old.account] =
               [core_inactive |-> @.core_inactive + inactive,
                core_pob  |-> @.core_pob + pob,
                core_pol  |-> @.core_pol - (IF Forever(old, new) THEN old.amount ELSE 0),
                pob_value |-> @.pob_value + (IF Forever(old, new) THEN new.value
                                             ELSE IF locked THEN new.value - old.value ELSE 0),
                pol_value |-> @.pol_value + (IF Forever(old, new) THEN -old.value
                                             ELSE IF locked THEN 0 ELSE new.value - old.value)],
            !.total_pob = @ + pob, !.total_inactive = @ + inactive]

(* by_next_update                                                          *)
DueTickets(s, now) == {id \in DOMAIN s.tickets : s.tickets[id].next_auto_update_time <= now}
FirstDueTicket(s, now) ==
    CHOOSE id \in DueTickets(s, now) : \A other \in DueTickets(s, now) \ {id} :
        \/ s.tickets[id].next_auto_update_time < s.tickets[other].next_auto_update_time
        \/ s.tickets[id].next_auto_update_time = s.tickets[other].next_auto_update_time /\ id < other

RECURSIVE process_tickets(_, _)
process_tickets(s, now) ==
    IF DueTickets(s, now) = {} THEN s
    ELSE LET id == FirstDueTicket(s, now)
         IN  process_tickets(IF s.tickets[id].status = "withdrawing" /\ s.tickets[id].current_type = liquid
                             THEN Refunded(s, id, now) ELSE Updated(s, id, now), now)

-----------------------------------------------------------------------------
(* ticket_evaluator.cpp                                                    *)

ticket_create(acct, target, amount) ==
    LET t == init_new(ticket_time, acct, target, amount)
    IN  /\ tk.next_id \in TicketId /\ ticket_time <= LastTicketCreation
        /\ target # liquid
        /\ tk.balances[acct] >= amount
        /\ tk' = [PutTicket(tk, tk.next_id, t) EXCEPT
                     !.next_id = @ + 1,
                     !.balances[acct] = @ - amount,
                     !.stats[acct].core_pol = @ + amount,
                     !.stats[acct].pol_value = @ + t.value]
        /\ UNCHANGED <<ticket_time, ticket_updates>>

(* A part gets the new target as a ticket of its own.                      *)
Split(t, target, amount) ==
    LET part == update_target_type([t EXCEPT !.amount = amount], ticket_time, target)
        rest == update_value([t EXCEPT !.amount = @ - amount])
    IN  [part |-> part, rest |-> rest]

ticket_update(acct, id, target, amount) ==
    /\ id \in DOMAIN tk.tickets
    /\ ticket_updates < MaxTicketUpdates
    /\ ticket_updates' = ticket_updates + 1
    /\ LET t == tk.tickets[id]
           both == Split(t, target, amount)
           whole == update_target_type(t, ticket_time, target)
       IN  /\ t.account = acct /\ t.current_type # lock_forever /\ t.target_type # target
           /\ amount <= t.amount
           /\ amount < t.amount => tk.next_id \in TicketId
           /\ tk' = process_tickets(
                       IF amount < t.amount
                       THEN [PutTicket(PutTicket(tk, id, both.rest), tk.next_id, both.part) EXCEPT
                                !.next_id = @ + 1,
                                !.stats[acct].pol_value = @ + both.part.value + both.rest.value - t.value]
                       ELSE [PutTicket(tk, id, whole) EXCEPT
                                !.stats[acct].pol_value = @ + whole.value - t.value],
                       ticket_time)
    /\ UNCHANGED ticket_time

(* A block with this timestamp.                                            *)
ticket_block(time) ==
    /\ time > ticket_time
    /\ ticket_time' = time
    /\ tk' = process_tickets(tk, time)
    /\ UNCHANGED ticket_updates

-----------------------------------------------------------------------------
NoTotals == [core_inactive |-> 0, core_pob |-> 0, core_pol |-> 0, pob_value |-> 0, pol_value |-> 0]

TicketInit ==
    /\ ticket_time = 0 /\ ticket_updates = 0
    /\ tk = [tickets |-> [id \in {} |-> 0], next_id |-> 0, balances |-> TicketEndowment,
             stats |-> [acct \in Account |-> NoTotals],
             total_pob |-> 0, total_inactive |-> 0, early |-> FALSE]

TicketNext ==
    \/ \E acct \in Account, target \in 1..4, amount \in TicketAmounts : ticket_create(acct, target, amount)
    \/ \E acct \in Account, id \in TicketId, target \in 0..4, amount \in TicketAmounts :
          ticket_update(acct, id, target, amount)
    \/ \E time \in 1..MaxTicketTime : ticket_block(time)

TicketSpec == TicketInit /\ [][TicketNext]_ticket_vars

-----------------------------------------------------------------------------
(* Checked as part of TicketTotals.                                        *)
TicketTypeOK ==
    /\ ticket_time \in 0..MaxTicketTime /\ ticket_updates \in 0..MaxTicketUpdates
    /\ tk.next_id \in 0..MaxTickets /\ DOMAIN tk.tickets \subseteq 0..tk.next_id - 1
    /\ \A id \in DOMAIN tk.tickets : tk.tickets[id] \in Ticket
    /\ tk.balances \in [Account -> Nat] /\ tk.early \in BOOLEAN

SumOver(ids, f(_)) == MapThenSumSet(f, ids)

(* The totals of the accounts and of the chain are those of the tickets,   *)
(* through splits, downgrades, locks for ever and their fading.            *)
TicketTotals ==
    /\ TicketTypeOK
    /\ LET Of(acct, kind) == {id \in DOMAIN tk.tickets : tk.tickets[id].account = acct /\
                                 kind = IF tk.tickets[id].current_type # lock_forever THEN "pol"
                                        ELSE IF tk.tickets[id].value > 0 THEN "pob" ELSE "inactive"}
           Amounts(ids) == SumOver(ids, LAMBDA id : tk.tickets[id].amount)
           Values(ids)  == SumOver(ids, LAMBDA id : tk.tickets[id].value)
       IN  /\ \A acct \in Account :
                 tk.stats[acct] = [core_inactive |-> Amounts(Of(acct, "inactive")),
                                   core_pob  |-> Amounts(Of(acct, "pob")),
                                   core_pol  |-> Amounts(Of(acct, "pol")),
                                   pob_value |-> Values(Of(acct, "pob")),
                                   pol_value |-> Values(Of(acct, "pol"))]
           /\ tk.total_pob = Amounts(UNION {Of(acct, "pob") : acct \in Account})
           /\ tk.total_inactive = Amounts(UNION {Of(acct, "inactive") : acct \in Account})

TicketSupplies ==
    SumOver(Account, LAMBDA acct : tk.balances[acct])
       + SumOver(DOMAIN tk.tickets, LAMBDA id : tk.tickets[id].amount)
    = SumOver(Account, LAMBDA acct : TicketEndowment[acct])

(* No ticket waits for an update that is due: "calling process_tickets()   *)
(* here won't affect other tickets".                                       *)
TicketsInTime == DueTickets(tk, ticket_time) = {}

(* However the target of a ticket is changed back and forth, and its parts *)
(* split off: from the time it reached a type, and from the time the owner *)
(* began to give it up, all downgrades of that type pass before the tokens *)
(* are free; and no type is reached before its charging steps have passed. *)
TicketLocks ==
    /\ ~tk.early
    /\ \A id \in DOMAIN tk.tickets :
          tk.tickets[id].born + tk.tickets[id].current_type * seconds_per_charging_step <= ticket_time
=============================================================================
