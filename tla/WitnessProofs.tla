---------------------------- MODULE WitnessProofs ---------------------------
(***************************************************************************)
(* Proofs about WitnessSchedule, for every set of witnesses, all results   *)
(* of the vote count, every block and maintenance interval and every width *)
(* of recent_slots_filled, and about WitnessPlugin, for every set of keys  *)
(* and all the times of PunctualAssumption.                                *)
(*                                                                         *)
(* SlotsAhead needs more than it says of the participation rate: the bits  *)
(* of recent_slots_filled are not in the order of the slots, so the claim  *)
(* is made for the lowest k bits and the last k slots, for every k         *)
(* (Dominated).  EveryoneGetsATurn rests on RoundOK: a round that began    *)
(* after slot s has seen at least as many slots as blocks.  OwnSlotsFilled *)
(* speaks of the clock when it is too late.  What the task keeps is that   *)
(* it will still be woken up when the slot begins (SlotsAwaited); this     *)
(* needs that wakeups are whole seconds and never far ahead (WakesUp).     *)
(***************************************************************************)
EXTENDS WitnessPlugin, FiniteSetTheorems, TLAPS

-----------------------------------------------------------------------------
(* Sequences                                                               *)

LEMMA SeqElement ==
    ASSUME NEW T, NEW q \in Seq(T), NEW n \in 1..Len(q)
    PROVE  q[n] \in T
OBVIOUS

LEMMA SeqSlice ==
    ASSUME NEW T, NEW q, NEW a \in Int, NEW z \in Int, \A i \in a..z : q[i] \in T
    PROVE  /\ SubSeq(q, a, z) \in Seq(T)
           /\ Len(SubSeq(q, a, z)) = IF a <= z THEN z - a + 1 ELSE 0
           /\ \A i \in 1..z - a + 1 : SubSeq(q, a, z)[i] = q[a + i - 1]
OBVIOUS

LEMMA SeqLen ==
    ASSUME NEW T, NEW q \in Seq(T)
    PROVE  Len(q) \in Nat /\ q \in [1..Len(q) -> T] /\ DOMAIN q = 1..Len(q)
OBVIOUS

LEMMA SeqEmpty ==
    ASSUME NEW T
    PROVE  /\ << >> \in Seq(T) /\ Len(<< >>) = 0
           /\ \A q \in Seq(T) : q # << >> => Len(q) \in Nat \ {0}
OBVIOUS

LEMMA SeqConcat ==
    ASSUME NEW T, NEW q \in Seq(T), NEW r \in Seq(T)
    PROVE  /\ q \o r \in Seq(T) /\ Len(q \o r) = Len(q) + Len(r)
           /\ \A i \in 1..Len(q) + Len(r) :
                 (q \o r)[i] = IF i <= Len(q) THEN q[i] ELSE r[i - Len(q)]
OBVIOUS

LEMMA SeqSubset ==
    ASSUME NEW T, NEW U, NEW q \in Seq(T), T \subseteq U
    PROVE  q \in Seq(U)
OBVIOUS

-----------------------------------------------------------------------------
(* Numbers                                                                 *)

\* What \div is.
LEMMA DivFacts ==
    ASSUME NEW a \in Nat, NEW b \in Nat \ {0}
    PROVE  /\ a \div b \in Nat
           /\ (a \div b) * b <= a
           /\ a < (a \div b) * b + b
OBVIOUS

\* There is one remainder.
LEMMA ModUnique ==
    ASSUME NEW a \in Nat, NEW b \in Nat \ {0}, NEW q \in Nat, NEW r \in 0..(b - 1),
           a = q * b + r
    PROVE  a % b = r
OBVIOUS

\* What % is.
LEMMA ModFacts ==
    ASSUME NEW a \in Nat, NEW b \in Nat \ {0}
    PROVE  /\ a % b \in 0..(b - 1)
           /\ a = (a \div b) * b + (a % b)
<1> DEFINE q == a \div b
           r == a - q * b
<1>1. q \in Nat /\ r \in 0..(b - 1) /\ a = q * b + r
  BY DivFacts
<1> HIDE DEF q, r
<1>2. a % b = r
  BY <1>1, ModUnique
<1> QED BY <1>1, <1>2 DEF q

\* The remainder of the next number.
LEMMA ModNext ==
    ASSUME NEW a \in Nat, NEW b \in Nat \ {0}
    PROVE  (a + 1) % b = IF a % b = b - 1 THEN 0 ELSE (a % b) + 1
<1> DEFINE q == a \div b
           r == a % b
<1>1. q \in Nat /\ r \in 0..(b - 1) /\ a = q * b + r
  BY ModFacts, DivFacts, Zenon
<1> HIDE DEF q, r
<1>2. CASE r = b - 1
  <2>1. a + 1 = (q + 1) * b + 0
    BY <1>1, <1>2
  <2>2. (a + 1) % b = 0
    BY <2>1, <1>1, ModUnique
  <2> QED BY <2>2, <1>2 DEF r
<1>3. CASE r # b - 1
  <2>1. a + 1 = q * b + (r + 1) /\ r + 1 \in 0..(b - 1)
    BY <1>1, <1>3
  <2>2. (a + 1) % b = r + 1
    BY <2>1, <1>1, ModUnique
  <2> QED BY <2>2, <1>3 DEF r
<1> QED BY <1>2, <1>3

Remainders(n, s, e) == {j % n : j \in (s + 1)..e}

\* Among n or more consecutive numbers every remainder modulo n occurs.
LEMMA RemaindersOccur ==
    ASSUME NEW n \in Nat \ {0}, NEW s \in Nat, NEW e \in Nat, e - s >= n, NEW p \in 0..(n - 1)
    PROVE  p \in Remainders(n, s, e)
<1> DEFINE q == (s + 1) \div n
           r == (s + 1) % n
<1>1. q \in Nat /\ r \in 0..(n - 1) /\ s + 1 = q * n + r
  BY s + 1 \in Nat, ModFacts, DivFacts, Zenon
<1> HIDE DEF q, r
<1>2. CASE p >= r
  <2>1. q * n + p \in (s + 1)..e /\ q * n + p \in Nat
    BY <1>1, <1>2
  <2>2. (q * n + p) % n = p
    BY <1>1, <2>1, ModUnique, Zenon
  <2> QED BY <2>1, <2>2 DEF Remainders
<1>3. CASE p < r
  <2>1. (q + 1) * n + p \in (s + 1)..e /\ (q + 1) * n + p \in Nat /\ q + 1 \in Nat
    BY <1>1, <1>3
  <2>2. ((q + 1) * n + p) % n = p
    BY <2>1, ModUnique, Zenon
  <2> QED BY <2>1, <2>2 DEF Remainders
<1> QED BY <1>1, <1>2, <1>3

\* Every set of naturals that is not empty has a least element.
LEMMA LeastElement ==
    ASSUME NEW T \in SUBSET Nat, T # {}
    PROVE  \E x \in T : \A y \in T : x <= y
<1> DEFINE R == {ss \in Nat \X Nat : ss[1] < ss[2]}
<1>1. IsWellFoundedOn(R, Nat)
  BY NatLessThanWellFounded DEF OpToRel
<1>2. \E x \in T : \A y \in T : ~(<<y, x>> \in R)
  <2> HIDE DEF R
  <2> QED BY <1>1, WFMin, Zenon
<1>3. PICK x \in T : \A y \in T : ~(<<y, x>> \in R)
  BY <1>2
<1>4. ASSUME NEW y \in T PROVE x <= y
  <2>1. <<y, x>> \in Nat \X Nat /\ <<y, x>>[1] = y /\ <<y, x>>[2] = x
    OBVIOUS
  <2> QED BY <1>3, <2>1
<1> QED BY <1>4

\* A set of numbers up to n has a greatest one.
LEMMA GreatestElement ==
    ASSUME NEW n \in Nat, NEW S \in SUBSET (0..n), S # {}
    PROVE  Max(S) \in S /\ \A y \in S : y <= Max(S)
<1> DEFINE T == {n - x : x \in S}
<1>1. T \in SUBSET Nat /\ T # {}
  <2>1. \A x \in S : x \in 0..n /\ n - x \in Nat
    OBVIOUS
  <2> QED BY <2>1, Zenon
<1>2. PICK t \in T : \A y \in T : t <= y
  BY <1>1, LeastElement, Zenon
<1>3. PICK x \in S : t = n - x
  BY <1>2
<1>4. ASSUME NEW y \in S PROVE x >= y
  <2>1. n - x <= n - y
    BY <1>2, <1>3
  <2>2. x \in 0..n /\ y \in 0..n
    OBVIOUS
  <2> QED BY <2>1, <2>2
<1>5. \E z \in S : \A y \in S : z >= y
  BY <1>4, Zenon
<1>6. Max(S) \in S /\ \A y \in S : Max(S) >= y
  BY <1>5, Zenon DEF Max
<1> QED BY <1>6

-----------------------------------------------------------------------------
(* Cardinalities                                                           *)

\* A set with an element put to it.
LEMMA OneMore ==
    ASSUME NEW S, IsFiniteSet(S), NEW x
    PROVE  IsFiniteSet(S \cup {x}) /\ Cardinality(S \cup {x}) <= Cardinality(S) + 1
<1>1. Cardinality(S) \in Nat
  BY FS_CardinalityType
<1> QED BY <1>1, FS_AddElement

\* Moving numbers leaves as many.
LEMMA ShiftedCardinality ==
    ASSUME NEW S \in SUBSET Int, IsFiniteSet(S), NEW d \in Int
    PROVE  /\ IsFiniteSet({b + d : b \in S})
           /\ Cardinality({b + d : b \in S}) = Cardinality(S)
<1> DEFINE T == {b + d : b \in S}
           f == [b \in S |-> b + d]
<1>1. f \in Bijection(S, T)
  BY DEF Bijection, Injection, Surjection, IsInjective
<1>2. ExistsBijection(S, T)
  BY <1>1 DEF ExistsBijection
<1> QED BY <1>2, FS_Bijection

-----------------------------------------------------------------------------
(* The participation rate                                                  *)

Low(bits, k) == {b \in bits : b < k}

High(r, k) == {i \in 1..Bits : i > Bits - k /\ r[i]}

\* Of the lowest k bits no more are set than of the last k slots were filled.
Dominated(bits, r) ==
    \A k \in 0..Bits : Cardinality(Low(bits, k)) <= Cardinality(High(r, k))

\* The history of the slots after a block in this slot.
NextRecent(r, slot) == LastOf(r \o [i \in 1..slot |-> i = slot], Bits)

\* The slots before move down, the block is the last one.
LEMMA NextRecentFacts ==
    ASSUME NEW r \in [1..Bits -> BOOLEAN], NEW slot \in Nat \ {0}
    PROVE  /\ NextRecent(r, slot) \in [1..Bits -> BOOLEAN]
           /\ \A i \in 1..Bits : NextRecent(r, slot)[i] =
                                    IF i + slot <= Bits THEN r[i + slot] ELSE i = Bits
<1> DEFINE new == [i \in 1..slot |-> i = slot]
           all == r \o new
<1>1. Bits \in Nat \ {0}
  BY ScheduleAssumption
<1>2. r \in Seq(BOOLEAN) /\ Len(r) = Bits /\ new \in Seq(BOOLEAN) /\ Len(new) = slot
  BY <1>1
<1>3. /\ all \in Seq(BOOLEAN) /\ Len(all) = Bits + slot
      /\ \A i \in 1..(Bits + slot) : all[i] = IF i <= Bits THEN r[i] ELSE new[i - Bits]
  BY <1>2, SeqConcat
<1> HIDE DEF all
<1>4. NextRecent(r, slot) = SubSeq(all, slot + 1, Bits + slot)
  <2>1. NextRecent(r, slot) = SubSeq(all, Len(all) - Bits + 1, Len(all))
    BY DEF NextRecent, LastOf, all
  <2>2. Len(all) - Bits + 1 = slot + 1
    BY <1>1, <1>3
  <2> QED BY <1>3, <2>1, <2>2
<1>5. \A i \in (slot + 1)..(Bits + slot) : all[i] \in BOOLEAN
  <2>1. \A i \in 1..Len(all) : all[i] \in BOOLEAN
    BY <1>3, SeqElement
  <2> QED BY <1>1, <1>3, <2>1
<1>6. /\ NextRecent(r, slot) \in Seq(BOOLEAN) /\ Len(NextRecent(r, slot)) = Bits
      /\ \A i \in 1..Bits : NextRecent(r, slot)[i] = all[slot + i]
  <2> DEFINE m == slot + 1
             n == Bits + slot
             sub == SubSeq(all, m, n)
  <2>1. m \in Int /\ n \in Int /\ m <= n /\ n - m + 1 = Bits
    BY <1>1
  <2>2. \A i \in m..n : all[i] \in BOOLEAN
    BY <1>5
  <2> HIDE DEF m, n
  <2>3. /\ sub \in Seq(BOOLEAN) /\ Len(sub) = n - m + 1
        /\ \A i \in 1..(n - m + 1) : sub[i] = all[m + i - 1]
    BY <2>1, <2>2, SeqSlice
  <2>4. \A i \in 1..Bits : m + i - 1 = slot + i
    BY <1>1 DEF m
  <2>5. NextRecent(r, slot) = sub
    BY <1>4 DEF m, n
  <2> QED BY <2>1, <2>3, <2>4, <2>5
<1>7. NextRecent(r, slot) \in [1..Bits -> BOOLEAN]
  BY <1>6, SeqLen
<1>8. ASSUME NEW i \in 1..Bits
      PROVE  all[slot + i] = IF i + slot <= Bits THEN r[i + slot] ELSE i = Bits
  <2>1. all[slot + i] = IF slot + i <= Bits THEN r[slot + i] ELSE new[slot + i - Bits]
    BY <1>1, <1>3
  <2>2. CASE ~(slot + i <= Bits)
    BY <1>1, <2>1, <2>2, slot + i - Bits \in 1..slot
  <2>3. CASE slot + i <= Bits
    BY <1>1, <2>1, <2>3, slot + i = i + slot
  <2> QED BY <2>2, <2>3
<1> QED BY <1>6, <1>7, <1>8

\* The bits after a block in this slot: of the block, and those before moved up.
LEMMA ShiftedBits ==
    ASSUME NEW bits \in SUBSET (0..(Bits - 1)), NEW slot \in 1..Bits,
           NEW b \in ShiftLeft(ShiftLeft(bits, 1) \cup {0}, slot - 1)
    PROVE  b \in 0..(Bits - 1) /\ (b = slot - 1 \/ (b - slot \in bits /\ b >= slot))
<1>1. Bits \in Nat \ {0}
  BY ScheduleAssumption
<1>2. b \in 0..(Bits - 1) /\ \E c \in ShiftLeft(bits, 1) \cup {0} : b = c + (slot - 1)
  BY DEF ShiftLeft
<1>3. PICK c \in ShiftLeft(bits, 1) \cup {0} : b = c + (slot - 1)
  BY <1>2
<1>4. CASE c = 0
  BY <1>2, <1>3, <1>4
<1>5. CASE c \in ShiftLeft(bits, 1)
  <2>1. PICK a \in bits : c = a + 1
    BY <1>5 DEF ShiftLeft
  <2>2. a \in Nat /\ b - slot = a /\ b >= slot
    BY <1>1, <1>3, <2>1
  <2> QED BY <1>2, <2>2
<1> QED BY <1>4, <1>5

\* A block after less than Bits missed slots keeps the order of bits and slots.
LEMMA DominatedNext ==
    ASSUME NEW bits \in SUBSET (0..(Bits - 1)), NEW r \in [1..Bits -> BOOLEAN],
           NEW slot \in 1..Bits, Dominated(bits, r)
    PROVE  Dominated(ShiftLeft(ShiftLeft(bits, 1) \cup {0}, slot - 1), NextRecent(r, slot))
<1> DEFINE bits2 == ShiftLeft(ShiftLeft(bits, 1) \cup {0}, slot - 1)
           r2 == NextRecent(r, slot)
<1>1. Bits \in Nat \ {0}
  BY ScheduleAssumption
<1>2. r2 \in [1..Bits -> BOOLEAN]
      /\ \A i \in 1..Bits : r2[i] = IF i + slot <= Bits THEN r[i + slot] ELSE i = Bits
  BY <1>1, NextRecentFacts
<1>3. \A b \in bits2 : b \in 0..(Bits - 1) /\ (b = slot - 1 \/ (b - slot \in bits /\ b >= slot))
  BY ShiftedBits, Zenon
<1> HIDE DEF bits2, r2
<1> SUFFICES ASSUME NEW k \in 0..Bits
             PROVE  Cardinality(Low(bits2, k)) <= Cardinality(High(r2, k))
  BY Zenon DEF Dominated, bits2, r2
<1>4. IsFiniteSet(1..Bits) /\ IsFiniteSet(0..(Bits - 1))
  BY <1>1, FS_Interval
<1>5. IsFiniteSet(High(r2, k)) /\ Cardinality(High(r2, k)) \in Nat
  BY <1>4, FS_Subset, FS_CardinalityType, Zenon DEF High
<1>6. CASE k < slot
  <2>1. Low(bits2, k) = {}
    BY <1>1, <1>3, <1>6 DEF Low
  <2> QED BY <1>5, <2>1, FS_EmptySet
<1>7. CASE k >= slot
  <2> DEFINE L == Low(bits, k - slot)
             H == High(r, k - slot)
             L2 == {b + slot : b \in L}
             H2 == {i + (-slot) : i \in H}
  <2>1. k - slot \in 0..Bits
    BY <1>1, <1>7
  <2>2. L \in SUBSET (0..(Bits - 1)) /\ H \in SUBSET (1..Bits)
    BY Zenon DEF Low, High
  <2>3. IsFiniteSet(L) /\ IsFiniteSet(H) /\ Cardinality(L) \in Nat /\ Cardinality(H) \in Nat
    BY <1>4, <2>2, FS_Subset, FS_CardinalityType, Zenon
  <2>4. Cardinality(L) <= Cardinality(H)
    BY <2>1 DEF Dominated
  <2>5. L \in SUBSET Int /\ H \in SUBSET Int /\ slot \in Int /\ -slot \in Int
    BY <2>2
  <2>6. IsFiniteSet(L2) /\ Cardinality(L2) = Cardinality(L)
    BY <2>3, <2>5, ShiftedCardinality, Zenon
  <2>7. IsFiniteSet(H2) /\ Cardinality(H2) = Cardinality(H)
    <3> DEFINE d == -slot
    <3>1. d \in Int
      OBVIOUS
    <3> HIDE DEF d
    <3>2. IsFiniteSet({i + d : i \in H}) /\ Cardinality({i + d : i \in H}) = Cardinality(H)
      BY <2>3, <2>5, <3>1, ShiftedCardinality, Zenon
    <3> QED BY <3>2 DEF d
  <2>8. Low(bits2, k) \subseteq L2 \cup {slot - 1}
    <3> SUFFICES ASSUME NEW b \in Low(bits2, k), b # slot - 1 PROVE b \in L2
      OBVIOUS
    <3>1. b \in bits2 /\ b < k
      BY DEF Low
    <3>2. b \in 0..(Bits - 1) /\ b - slot \in bits
      BY <1>3, <3>1
    <3>3. b - slot < k - slot /\ b = (b - slot) + slot
      BY <1>1, <3>1, <3>2
    <3>4. b - slot \in L
      BY <3>2, <3>3 DEF Low
    <3> QED BY <3>3, <3>4
  <2>9. Bits \in High(r2, k) /\ H2 \subseteq High(r2, k) /\ Bits \notin H2
    <3>1. Bits \in High(r2, k)
      BY <1>1, <1>2, <1>7 DEF High
    <3>2. ASSUME NEW j \in H PROVE j + (-slot) \in High(r2, k) /\ j + (-slot) # Bits
      <4> DEFINE i == j + (-slot)
      <4>1. j \in 1..Bits /\ j > Bits - (k - slot) /\ r[j]
        BY DEF High
      <4>2. i \in 1..Bits /\ i + slot = j /\ i > Bits - k /\ i # Bits
        BY <1>1, <4>1
      <4> HIDE DEF i
      <4>3. r2[i] = r[j]
        <5>1. i + slot <= Bits
          BY <4>1, <4>2
        <5>2. r2[i] = r[i + slot]
          BY <1>2, <4>2, <5>1
        <5> QED BY <4>2, <5>2
      <4>4. i \in High(r2, k)
        BY <4>1, <4>2, <4>3, Zenon DEF High
      <4> QED BY <4>2, <4>4 DEF i
    <3> QED BY <3>1, <3>2
  <2>10. Cardinality(Low(bits2, k)) <= Cardinality(L) + 1
    <3>1. IsFiniteSet(L2 \cup {slot - 1}) /\ Cardinality(L2 \cup {slot - 1}) <= Cardinality(L2) + 1
      BY <2>6, OneMore, Zenon
    <3>2. IsFiniteSet(Low(bits2, k)) /\ Cardinality(Low(bits2, k)) <= Cardinality(L2 \cup {slot - 1})
      BY <2>8, <3>1, FS_Subset
    <3>3. /\ Cardinality(Low(bits2, k)) \in Nat /\ Cardinality(L2 \cup {slot - 1}) \in Nat
          /\ Cardinality(L2) \in Nat
      BY <2>6, <3>1, <3>2, FS_CardinalityType
    <3> QED BY <2>6, <3>1, <3>2, <3>3
  <2>11. Cardinality(H) + 1 <= Cardinality(High(r2, k))
    <3>1. Cardinality(H2 \cup {Bits}) = Cardinality(H2) + 1
      BY <2>7, <2>9, FS_AddElement, Zenon
    <3>2. Cardinality(H2 \cup {Bits}) <= Cardinality(High(r2, k))
      <4>1. H2 \cup {Bits} \in SUBSET High(r2, k)
        BY <2>9
      <4> QED BY <1>5, <4>1, FS_Subset
    <3> QED BY <2>7, <3>1, <3>2
  <2>12. Cardinality(Low(bits2, k)) \in Nat
    <3>1. Low(bits2, k) \in SUBSET (0..(Bits - 1))
      BY <1>3 DEF Low
    <3> QED BY <1>4, <3>1, FS_Subset, FS_CardinalityType, Zenon
  <2> QED BY <1>5, <2>3, <2>4, <2>10, <2>11, <2>12
<1> QED BY <1>1, <1>6, <1>7

-----------------------------------------------------------------------------
(* Slots                                                                   *)

\* Open slots lie ahead of the head, and the time of a slot belongs to it,
\* whatever the interval, the time of the head and the skipped slots are.
LEMMA SlotTimes ==
    ASSUME head_num \in Nat, time \in Nat, interval \in Nat \ {0}, maintenance \in BOOLEAN,
           NEW slot \in Nat \ {0}
    PROVE  /\ get_slot_time(slot) \in Nat /\ get_slot_time(slot) > time
           /\ get_slot_at_time(get_slot_time(slot)) = slot
<1> DEFINE skipped == IF maintenance THEN SkipSlots ELSE 0
           begin == IF head_num = 0 THEN time ELSE (time \div interval) * interval + skipped * interval
           n == slot - 1
<1>1. skipped \in Nat
  BY ScheduleAssumption
<1>2. begin \in Nat /\ begin + interval > time
  <2>1. CASE head_num = 0
    BY <2>1
  <2>2. CASE head_num # 0
    <3>1. time \div interval \in Nat /\ time < (time \div interval) * interval + interval
      BY DivFacts
    <3>2. (time \div interval) * interval \in Nat /\ skipped * interval \in Nat
      BY <1>1, <3>1
    <3> QED BY <2>2, <3>1, <3>2
  <2> QED BY <2>1, <2>2
<1>3. \A s \in Nat \ {0} : get_slot_time(s) = begin + s * interval
  <2> SUFFICES ASSUME NEW s \in Nat \ {0} PROVE get_slot_time(s) = begin + s * interval
    OBVIOUS
  <2>1. CASE head_num = 0
    BY <2>1 DEF get_slot_time
  <2>2. CASE head_num # 0
    <3>1. get_slot_time(s) = (time \div interval) * interval + (s + skipped) * interval
      BY <2>2 DEF get_slot_time
    <3>2. time \div interval \in Nat
      BY DivFacts
    <3>3. (s + skipped) * interval = s * interval + skipped * interval
      BY <1>1
    <3> QED BY <1>1, <2>2, <3>1, <3>2, <3>3
  <2> QED BY <2>1, <2>2
<1> HIDE DEF begin
<1>4. get_slot_time(1) = begin + interval /\ get_slot_time(slot) = begin + interval + n * interval
  BY <1>2, <1>3
<1>5. n \in Nat /\ n * interval \in Nat /\ n + 1 = slot
  OBVIOUS
<1>6. (n * interval) \div interval = n
  BY <1>5
<1> HIDE DEF n
<1>7. get_slot_time(slot) - get_slot_time(1) = n * interval /\ ~(get_slot_time(slot) < get_slot_time(1))
  BY <1>2, <1>4, <1>5
<1>8. get_slot_at_time(get_slot_time(slot)) = n + 1
  BY <1>6, <1>7 DEF get_slot_at_time
<1> QED BY <1>2, <1>4, <1>5, <1>8

\* A block that applies is in a slot.
LEMMA SlotType ==
    ASSUME head_num \in Nat, time \in Nat, interval \in Nat \ {0}, maintenance \in BOOLEAN,
           NEW when \in Nat
    PROVE  get_slot_at_time(when) \in Nat
<1>1. get_slot_time(1) \in Nat
  BY SlotTimes
<1>2. CASE when < get_slot_time(1)
  BY <1>2 DEF get_slot_at_time
<1>3. CASE ~(when < get_slot_time(1))
  <2>1. when - get_slot_time(1) \in Nat
    BY <1>1, <1>3
  <2>2. (when - get_slot_time(1)) \div interval \in Nat
    BY <2>1, DivFacts
  <2> QED BY <1>3, <2>2 DEF get_slot_at_time
<1> QED BY <1>2, <1>3

-----------------------------------------------------------------------------
(* Witnesses                                                               *)

\* A result of the vote count is a finite set that is not empty.
LEMMA ActiveFacts ==
    ASSUME NEW S \in ActiveSets
    PROVE  /\ S \in SUBSET Witness /\ S # {} /\ IsFiniteSet(S)
           /\ Cardinality(S) \in Nat \ {0}
<1>1. S \in SUBSET Witness /\ S # {} /\ IsFiniteSet(Witness)
  BY ScheduleAssumption
<1>2. IsFiniteSet(S)
  BY <1>1, FS_Subset
<1> QED BY <1>1, <1>2, FS_CardinalityType, FS_EmptySet

\* The order of a round.
LEMMA OrderFacts ==
    ASSUME NEW S \in ActiveSets, NEW s \in Orders(S)
    PROVE  /\ s \in Seq(Witness) /\ s # <<>> /\ IsInjective(s) /\ Len(s) = Cardinality(S)
<1>1. S \in SUBSET Witness /\ Cardinality(S) \in Nat \ {0}
  BY ActiveFacts
<1>2. s \in [1..Cardinality(S) -> S] /\ IsInjective(s)
  BY DEF Orders
<1>3. s \in Seq(S) /\ Len(s) = Cardinality(S)
  BY <1>1, <1>2
<1>4. s \in Seq(Witness)
  BY <1>1, <1>3, SeqSubset
<1> QED BY <1>1, <1>2, <1>3, <1>4, SeqEmpty

\* The block number that enough witnesses confirmed is one they confirmed.
LEMMA NthConfirmedType ==
    ASSUME NEW S \in ActiveSets, NEW n \in Nat, NEW confirmed \in [Witness -> 0..n]
    PROVE  NthConfirmed(S, confirmed) \in 0..n
<1> DEFINE values == {confirmed[w] : w \in S}
           enough == {m \in values : Cardinality({w \in S : confirmed[w] < m}) <= offset(S)}
<1>1. S \in SUBSET Witness /\ S # {} /\ Cardinality(S) \in Nat
  BY ActiveFacts
<1>2. values \in SUBSET (0..n) /\ values # {} /\ values \in SUBSET Nat
  BY <1>1
<1>3. PICK least \in values : \A y \in values : least <= y
  BY <1>2, LeastElement, Zenon
<1>4. {w \in S : confirmed[w] < least} = {}
  <2> SUFFICES ASSUME NEW w \in S, confirmed[w] < least PROVE FALSE
    OBVIOUS
  <2>1. confirmed[w] \in values /\ confirmed[w] \in Nat /\ least \in Nat
    BY <1>2
  <2> QED BY <1>3, <2>1
<1>5. offset(S) \in Nat
  <2>1. (10000 - 7000) * Cardinality(S) \in Nat
    BY <1>1
  <2> QED BY <2>1, DivFacts DEF offset
<1>6. least \in enough
  BY <1>3, <1>4, <1>5, FS_EmptySet
<1>7. enough \in SUBSET (0..n) /\ enough # {}
  BY <1>2, <1>6, Zenon
<1> HIDE DEF enough
<1>8. Max(enough) \in enough
  BY <1>7, GreatestElement, Zenon
<1>9. NthConfirmed(S, confirmed) = Max(enough)
  BY DEF NthConfirmed, enough
<1> QED BY <1>7, <1>8, <1>9, Zenon

-----------------------------------------------------------------------------
(* Maintenance and rounds                                                  *)

\* The next maintenance is ahead, by one interval at most; it is due with the
\* first block.
MaintenanceAhead(num, stamp, next) ==
    /\ num = 0 => next = 0
    /\ num > 0 => next > stamp /\ next - MaintenanceInterval <= stamp

\* perform_chain_maintenance skips the intervals that passed without a block.
LEMMA NextMaintenanceFacts ==
    ASSUME NEW num \in Nat, NEW stamp \in Nat, next_maintenance \in Nat,
           next_maintenance <= stamp
    PROVE  /\ NextMaintenance(num, stamp) \in Nat
           /\ NextMaintenance(num, stamp) > stamp
           /\ NextMaintenance(num, stamp) - MaintenanceInterval <= stamp
<1> DEFINE M == MaintenanceInterval
<1>1. M \in Nat \ {0}
  BY ScheduleAssumption
<1> HIDE DEF M
<1>2. CASE num = 1
  <2>1. stamp \div M \in Nat /\ (stamp \div M) * M <= stamp /\ stamp < (stamp \div M) * M + M
    BY <1>1, DivFacts
  <2>2. (stamp \div M + 1) * M = (stamp \div M) * M + M /\ (stamp \div M) * M \in Nat
    BY <1>1, <2>1
  <2>3. NextMaintenance(num, stamp) = (stamp \div M) * M + M
    BY <1>2, <2>2 DEF NextMaintenance, M
  <2> QED BY <1>1, <2>1, <2>2, <2>3 DEF M
<1>3. CASE num # 1
  <2> DEFINE late == stamp - next_maintenance
  <2>1. late \in Nat /\ stamp = next_maintenance + late
    OBVIOUS
  <2>2. NextMaintenance(num, stamp) = next_maintenance + (late \div M + 1) * M
    BY <1>3 DEF NextMaintenance, M
  <2> HIDE DEF late
  <2>3. late \div M \in Nat /\ (late \div M) * M <= late /\ late < (late \div M) * M + M
    BY <1>1, <2>1, DivFacts
  <2>4. (late \div M + 1) * M = (late \div M) * M + M /\ (late \div M) * M \in Nat
    BY <1>1, <2>3
  <2> QED BY <1>1, <2>1, <2>2, <2>3, <2>4 DEF M
<1> QED BY <1>2, <1>3

\* The witnesses with a slot after slot s, up to slot e
Turns(order, s, e) == {order[(j % Len(order)) + 1] : j \in (s + 1)..e}

\* A round began after some slot s; every slot since then was somebody's turn,
\* and there were at least as many slots as blocks.
RoundOK(had, order, constant, size, num, slot) ==
    /\ had \subseteq Range(order)
    /\ constant => /\ Len(order) = size
                   /\ \E s \in Nat : /\ s + (num % size) <= slot
                                     /\ Turns(order, s, slot) \subseteq had

\* The slots of one block.
LEMMA BlockTurns ==
    ASSUME shuffled \in Seq(Witness), shuffled # <<>>, aslot \in Nat, NEW slot \in Nat
    PROVE  /\ {get_scheduled_witness(k) : k \in 1..slot} = Turns(shuffled, aslot, aslot + slot)
           /\ Turns(shuffled, aslot, aslot + slot) \subseteq Range(shuffled)
<1>1. Len(shuffled) \in Nat \ {0} /\ DOMAIN shuffled = 1..Len(shuffled)
  BY SeqEmpty, SeqLen
<1>2. ASSUME NEW k \in 1..slot
      PROVE  get_scheduled_witness(k) \in Turns(shuffled, aslot, aslot + slot)
  BY aslot + k \in (aslot + 1)..(aslot + slot) DEF get_scheduled_witness, Turns
<1>3. ASSUME NEW j \in (aslot + 1)..(aslot + slot)
      PROVE  \E k \in 1..slot : shuffled[(j % Len(shuffled)) + 1] = get_scheduled_witness(k)
  <2>1. j - aslot \in 1..slot /\ aslot + (j - aslot) = j
    OBVIOUS
  <2> QED BY <2>1, Zenon DEF get_scheduled_witness
<1>4. ASSUME NEW j \in (aslot + 1)..(aslot + slot)
      PROVE  shuffled[(j % Len(shuffled)) + 1] \in Range(shuffled)
  <2>1. j \in Nat
    OBVIOUS
  <2>2. j % Len(shuffled) \in 0..(Len(shuffled) - 1)
    BY <1>1, <2>1, ModFacts
  <2>3. (j % Len(shuffled)) + 1 \in DOMAIN shuffled
    BY <1>1, <2>2
  <2> QED BY <2>3 DEF Range
<1>5. {get_scheduled_witness(k) : k \in 1..slot} = Turns(shuffled, aslot, aslot + slot)
  <2>1. \A x \in Turns(shuffled, aslot, aslot + slot) :
           \E k \in 1..slot : x = get_scheduled_witness(k)
    BY <1>3, Zenon DEF Turns
  <2> QED BY <1>2, <2>1
<1> QED BY <1>4, <1>5, Zenon DEF Turns

\* As many slots as there are witnesses in the order give everyone a turn.
LEMMA AllTurns ==
    ASSUME NEW order \in Seq(Witness), order # <<>>, NEW s \in Nat, NEW e \in Nat,
           e - s >= Len(order)
    PROVE  Range(order) \subseteq Turns(order, s, e)
<1>1. Len(order) \in Nat \ {0} /\ DOMAIN order = 1..Len(order)
  BY SeqEmpty, SeqLen
<1> SUFFICES ASSUME NEW p \in 1..Len(order) PROVE order[p] \in Turns(order, s, e)
  BY <1>1 DEF Range
<1> DEFINE n == Len(order)
           q == p - 1
<1>2. n \in Nat \ {0} /\ q \in 0..(n - 1) /\ e - s >= n /\ q + 1 = p
  BY <1>1
<1> HIDE DEF n, q
<1>3. q \in Remainders(n, s, e)
  BY <1>2, RemaindersOccur
<1>5. PICK j \in (s + 1)..e : j % n = q
  BY <1>3 DEF Remainders
<1>4. (j % Len(order)) + 1 = p
  BY <1>2, <1>5 DEF n
<1> QED BY <1>4, Zenon DEF Turns

\* Slots before and after.
LEMMA TurnsSplit ==
    ASSUME NEW order, NEW s \in Nat, NEW m \in Nat, NEW e \in Nat, s <= m, m <= e
    PROVE  Turns(order, s, e) = Turns(order, s, m) \cup Turns(order, m, e)
<1>1. (s + 1)..e = ((s + 1)..m) \cup ((m + 1)..e)
  OBVIOUS
<1> QED BY <1>1, Zenon DEF Turns

-----------------------------------------------------------------------------
(* The invariant                                                           *)

\* Between any two blocks.
ScheduleInv ==
    /\ TypeOK
    /\ MaintenanceAhead(head_num, time, next_maintenance)
    /\ ~outage => Dominated(filled, recent)
    /\ RoundOK(turns, shuffled, steady, Cardinality(active), head_num, aslot)

\* At the genesis all slots count as filled.
LEMMA GenesisBits == Dominated(0..(Bits - 1), [i \in 1..Bits |-> TRUE])
<1>1. Bits \in Nat \ {0}
  BY ScheduleAssumption
<1> SUFFICES ASSUME NEW k \in 0..Bits
             PROVE  Cardinality(Low(0..(Bits - 1), k)) <= Cardinality(High([i \in 1..Bits |-> TRUE], k))
  BY Zenon DEF Dominated
<1>2. Low(0..(Bits - 1), k) = 0..(k - 1)
  BY <1>1 DEF Low
<1>3. High([i \in 1..Bits |-> TRUE], k) = (Bits - k + 1)..Bits
  BY <1>1 DEF High
<1>4. Cardinality(0..(k - 1)) = k
  BY <1>1, FS_Interval
<1>5. Cardinality((Bits - k + 1)..Bits) = k
  BY <1>1, FS_Interval
<1> QED BY <1>1, <1>2, <1>3, <1>4, <1>5

\* init_genesis establishes the invariant.
LEMMA ScheduleInit == Init => ScheduleInv
<1> SUFFICES ASSUME Init PROVE ScheduleInv
  OBVIOUS
<1> USE DEF Init
<1>1. active \in ActiveSets /\ shuffled \in Orders(active)
  OBVIOUS
<1>2. /\ shuffled \in Seq(Witness) /\ shuffled # <<>> /\ IsInjective(shuffled)
      /\ Len(shuffled) = Cardinality(active)
  BY <1>1, OrderFacts
<1>3. Cardinality(active) \in Nat \ {0}
  BY <1>1, ActiveFacts
<1>4. TypeOK
  <2>1. /\ {head_num, time, aslot} \subseteq Nat /\ lib \in 0..head_num
        /\ filled \subseteq 0..(Bits - 1) /\ next_maintenance \in Nat
    BY ScheduleAssumption
  <2>2. last_confirmed \in [Witness -> 0..head_num] /\ recent \in [1..Bits -> BOOLEAN]
    OBVIOUS
  <2>3. turns \subseteq Witness /\ {steady, outage} \subseteq BOOLEAN /\ maintenance \in BOOLEAN
    BY Zenon
  <2> QED BY <1>1, <1>2, <2>1, <2>2, <2>3 DEF TypeOK
<1>5. MaintenanceAhead(head_num, time, next_maintenance)
  BY DEF MaintenanceAhead
<1>6. Dominated(filled, recent)
  BY GenesisBits
<1>7. RoundOK(turns, shuffled, steady, Cardinality(active), head_num, aslot)
  <2>1. 0 % Cardinality(active) = 0
    BY <1>3, ModUnique, 0 = 0 * Cardinality(active) + 0
  <2>2. Turns(shuffled, 0, 0) = {}
    BY DEF Turns
  <2>3. 0 + (0 % Cardinality(active)) <= 0
    BY <2>1
  <2> QED BY <1>2, <2>2, <2>3 DEF RoundOK
<1> QED BY <1>4, <1>5, <1>6, <1>7, Zenon DEF ScheduleInv

\* What the invariant says of a slot in which a block applies.
LEMMA BlockFacts ==
    ASSUME ScheduleInv, NEW stamp \in Nat, NEW slot, slot = get_slot_at_time(stamp), slot > 0
    PROVE  /\ slot \in Nat \ {0}
           /\ get_scheduled_witness(slot) \in Witness
<1>1. head_num \in Nat /\ time \in Nat /\ interval \in Nat \ {0} /\ maintenance \in BOOLEAN
  BY ScheduleAssumption DEF ScheduleInv, TypeOK
<1>2. slot \in Nat \ {0}
  BY <1>1, SlotType
<1>3. shuffled \in Seq(Witness) /\ shuffled # <<>> /\ aslot \in Nat
  BY DEF ScheduleInv, TypeOK
<1>4. aslot + slot \in Nat /\ Len(shuffled) \in Nat \ {0}
  BY <1>2, <1>3, SeqEmpty, SeqLen
<1>5. (aslot + slot) % Len(shuffled) \in 0..(Len(shuffled) - 1)
  BY <1>4, ModFacts, Zenon
<1>6. ((aslot + slot) % Len(shuffled)) + 1 \in 1..Len(shuffled)
  BY <1>4, <1>5
<1>7. get_scheduled_witness(slot) \in Witness
  BY <1>3, <1>6, SeqElement DEF get_scheduled_witness
<1> QED BY <1>2, <1>7

\* Maintenance keeps the sets and times what they are.
LEMMA BlockMaintenance ==
    ASSUME ScheduleInv, NEW stamp \in Nat, _apply_block(stamp)
    PROVE  /\ active' \in ActiveSets /\ interval' \in Intervals /\ next_maintenance' \in Nat
           /\ maintenance' \in BOOLEAN
           /\ MaintenanceAhead(head_num, time, next_maintenance)'
<1>1. /\ head_num \in Nat /\ time \in Nat /\ next_maintenance \in Nat
      /\ active \in ActiveSets /\ interval \in Intervals
      /\ MaintenanceAhead(head_num, time, next_maintenance)
  BY DEF ScheduleInv, TypeOK
<1>2. /\ head_num' = head_num + 1 /\ time' = stamp /\ stamp > time
      /\ maintenance' = (next_maintenance <= stamp)
      /\ IF next_maintenance <= stamp THEN perform_chain_maintenance(head_num', stamp)
         ELSE UNCHANGED <<active, interval, next_maintenance>>
  BY DEF _apply_block
<1>3. MaintenanceInterval \in Nat
  BY ScheduleAssumption
<1>4. CASE next_maintenance <= stamp
  <2>1. head_num' \in Nat
    BY <1>1, <1>2
  <2>2. /\ next_maintenance' = NextMaintenance(head_num', stamp)
        /\ active' \in ActiveSets /\ interval' \in Intervals
    BY <1>2, <1>4 DEF perform_chain_maintenance
  <2>3. /\ next_maintenance' \in Nat /\ next_maintenance' > stamp
        /\ next_maintenance' - MaintenanceInterval <= stamp
    BY <1>1, <1>4, <2>1, <2>2, NextMaintenanceFacts
  <2> QED BY <1>1, <1>2, <2>2, <2>3 DEF MaintenanceAhead
<1>5. CASE ~(next_maintenance <= stamp)
  <2>1. UNCHANGED <<active, interval, next_maintenance>>
    BY <1>2, <1>5
  <2>2. next_maintenance > stamp /\ next_maintenance - MaintenanceInterval <= stamp
    BY <1>1, <1>2, <1>3, <1>5 DEF MaintenanceAhead
  <2> QED BY <1>1, <1>2, <2>1, <2>2 DEF MaintenanceAhead
<1> QED BY <1>4, <1>5

\* recent_slots_filled stays in order with the slots, unless it was shifted by
\* its whole width.
LEMMA BlockBits ==
    ASSUME ScheduleInv, NEW stamp \in Nat, _apply_block(stamp)
    PROVE  /\ (filled \subseteq 0..(Bits - 1))' /\ (recent \in [1..Bits -> BOOLEAN])'
           /\ (outage \in BOOLEAN)'
           /\ (~outage => Dominated(filled, recent))'
<1> DEFINE slot == get_slot_at_time(stamp)
<1>1. /\ filled \in SUBSET (0..(Bits - 1)) /\ recent \in [1..Bits -> BOOLEAN] /\ outage \in BOOLEAN
      /\ ~outage => Dominated(filled, recent)
  BY DEF ScheduleInv, TypeOK
<1>2. /\ slot > 0 /\ filled' \in ShiftedIn(slot - 1) /\ recent' = NextRecent(recent, slot)
      /\ outage' = (outage \/ slot > Bits)
  BY DEF _apply_block, NextRecent
<1>3. slot \in Nat \ {0}
  BY <1>2, BlockFacts
<1> HIDE DEF slot
<1>4. Bits \in Nat \ {0}
  BY ScheduleAssumption
<1>5. filled' \subseteq 0..(Bits - 1)
  BY <1>2 DEF ShiftedIn, ShiftLeft
<1>6. recent' \in [1..Bits -> BOOLEAN]
  BY <1>1, <1>2, <1>3, NextRecentFacts
<1>7. ASSUME ~outage' PROVE Dominated(filled', recent')
  <2>0. ~(slot > Bits) /\ ~outage
    BY <1>2, <1>7, Zenon
  <2>1. slot \in 1..Bits
    BY <1>3, <1>4, <2>0
  <2>2. ShiftAmounts(slot - 1) = {slot - 1}
    BY <1>4, <2>1 DEF ShiftAmounts
  <2>3. filled' = ShiftLeft(ShiftLeft(filled, 1) \cup {0}, slot - 1)
    BY <1>2, <2>2 DEF ShiftedIn
  <2> QED BY <1>1, <1>2, <2>0, <2>1, <2>3, DominatedNext
<1>8. outage' \in BOOLEAN
  BY <1>2
<1> QED BY <1>5, <1>6, <1>7, <1>8

\* The confirmations name blocks of the chain.
LEMMA BlockConfirmed ==
    ASSUME ScheduleInv, NEW stamp \in Nat, _apply_block(stamp)
    PROVE  /\ (last_confirmed \in [Witness -> 0..head_num])' /\ (lib \in 0..head_num)'
<1> DEFINE slot == get_slot_at_time(stamp)
<1>1. /\ slot > 0 /\ head_num' = head_num + 1
      /\ last_confirmed' = [last_confirmed EXCEPT ![get_scheduled_witness(slot)] = head_num']
      /\ lib' = update_last_irreversible_block(active, last_confirmed')
  BY DEF _apply_block
<1>2. /\ head_num \in Nat /\ lib \in 0..head_num /\ active \in ActiveSets
      /\ last_confirmed \in [Witness -> 0..head_num]
  BY DEF ScheduleInv, TypeOK
<1>3. head_num' \in Nat /\ (0..head_num) \subseteq 0..head_num' /\ head_num' \in 0..head_num'
  BY <1>1, <1>2
<1>4. last_confirmed' \in [Witness -> 0..head_num']
  BY <1>1, <1>2, <1>3, Zenon
<1>5. NthConfirmed(active, last_confirmed') \in 0..head_num'
  BY <1>2, <1>3, <1>4, NthConfirmedType
<1>6. lib' \in 0..head_num'
  BY <1>1, <1>2, <1>3, <1>5 DEF update_last_irreversible_block
<1> QED BY <1>4, <1>6

\* A block goes on with the round, or the order is shuffled and a round begins.
LEMMA BlockRound ==
    ASSUME ScheduleInv, NEW stamp \in Nat, _apply_block(stamp)
    PROVE  /\ (aslot \in Nat)'
           /\ (shuffled \in Seq(Witness) /\ shuffled # <<>> /\ IsInjective(shuffled))'
           /\ (turns \subseteq Witness)' /\ (steady \in BOOLEAN)'
           /\ RoundOK(turns, shuffled, steady, Cardinality(active), head_num, aslot)'
<1> DEFINE slot == get_slot_at_time(stamp)
           size == Cardinality(active')
<1>1. slot > 0 /\ head_num' = head_num + 1 /\ aslot' = aslot + slot /\ update_witness_schedule
  BY DEF _apply_block
<1>2. slot \in Nat \ {0}
  BY <1>1, BlockFacts
<1> HIDE DEF slot
<1>3. /\ head_num \in Nat /\ aslot \in Nat /\ turns \subseteq Witness /\ steady \in BOOLEAN
      /\ shuffled \in Seq(Witness) /\ shuffled # <<>> /\ IsInjective(shuffled)
      /\ RoundOK(turns, shuffled, steady, Cardinality(active), head_num, aslot)
  BY DEF ScheduleInv, TypeOK
<1>4. active' \in ActiveSets
  BY BlockMaintenance
<1>5. size \in Nat \ {0}
  BY <1>4, ActiveFacts
<1>6. aslot' \in Nat /\ head_num' \in Nat /\ aslot' - aslot = slot
  BY <1>1, <1>2, <1>3
<1>7. CASE ShufflesAt(head_num', active')
  <2>1. shuffled' \in Orders(active') /\ turns' = {} /\ steady' = TRUE
    BY <1>1, <1>7 DEF update_witness_schedule
  <2>2. /\ shuffled' \in Seq(Witness) /\ shuffled' # <<>> /\ IsInjective(shuffled')
        /\ Len(shuffled') = size
    BY <1>4, <2>1, OrderFacts
  <2>3. aslot' + (head_num' % size) <= aslot'
    BY <1>6, <1>7 DEF ShufflesAt
  <2>4. Turns(shuffled', aslot', aslot') = {}
    BY <1>6 DEF Turns
  <2>5. RoundOK(turns', shuffled', steady', size, head_num', aslot')
    BY <1>6, <2>1, <2>2, <2>3, <2>4 DEF RoundOK
  <2> QED BY <1>6, <2>1, <2>2, <2>5, Zenon
<1>8. CASE ~ShufflesAt(head_num', active')
  <2>1. /\ turns' = turns \cup {get_scheduled_witness(k) : k \in 1..slot}
        /\ steady' = (steady /\ size = Cardinality(active))
        /\ shuffled' = shuffled
    BY <1>1, <1>6, <1>8 DEF update_witness_schedule
  <2>2. /\ turns' = turns \cup Turns(shuffled, aslot, aslot')
        /\ Turns(shuffled, aslot, aslot') \subseteq Range(shuffled)
    BY <1>1, <1>2, <1>3, <2>1, BlockTurns
  <2>3. turns' \subseteq Range(shuffled) /\ Range(shuffled) \subseteq Witness
    <3>1. Range(shuffled) \subseteq Witness
      BY <1>3, SeqLen, SeqElement DEF Range
    <3> QED BY <1>3, <2>2, <3>1 DEF RoundOK
  <2>4. ASSUME steady'
        PROVE  /\ Len(shuffled) = size
               /\ \E s \in Nat : /\ s + (head_num' % size) <= aslot'
                                 /\ Turns(shuffled, s, aslot') \subseteq turns'
    <3>1. steady /\ size = Cardinality(active)
      BY <2>1, <2>4, Zenon
    <3>2. /\ Len(shuffled) = size
          /\ \E s \in Nat : s + (head_num % size) <= aslot /\ Turns(shuffled, s, aslot) \subseteq turns
      BY <1>3, <3>1 DEF RoundOK
    <3>3. PICK s \in Nat : s + (head_num % size) <= aslot /\ Turns(shuffled, s, aslot) \subseteq turns
      BY <3>2
    <3>4. head_num % size \in Nat
      <4>1. head_num % size \in 0..(size - 1)
        BY <1>3, <1>5, ModFacts, Zenon
      <4> QED BY <1>5, <4>1
    <3>5. head_num' % size # 0
      BY <1>8 DEF ShufflesAt
    <3>6. head_num' % size = (head_num % size) + 1
      BY <1>1, <1>3, <1>5, <3>5, ModNext, Zenon
    <3>7. s <= aslot /\ aslot <= aslot' /\ s + (head_num' % size) <= aslot'
      BY <1>1, <1>2, <1>3, <1>6, <3>3, <3>4, <3>6
    <3>8. Turns(shuffled, s, aslot') \subseteq turns'
      BY <1>3, <1>6, <2>2, <3>3, <3>7, TurnsSplit
    <3> QED BY <3>2, <3>7, <3>8
  <2>5. RoundOK(turns', shuffled', steady', size, head_num', aslot')
    BY <2>1, <2>3, <2>4 DEF RoundOK
  <2>6. steady' \in BOOLEAN
    BY <2>1
  <2> QED BY <1>3, <1>6, <2>1, <2>3, <2>5, <2>6
<1> QED BY <1>7, <1>8

\* _apply_block preserves the invariant.
LEMMA BlockStep ==
    ASSUME ScheduleInv, NEW stamp \in Nat, _apply_block(stamp)
    PROVE  ScheduleInv'
<1>1. (head_num \in Nat /\ time \in Nat)'
  BY DEF ScheduleInv, TypeOK, _apply_block
<1>2. TypeOK'
  BY <1>1, BlockMaintenance, BlockBits, BlockConfirmed, BlockRound, Zenon DEF TypeOK
<1> QED BY <1>2, BlockMaintenance, BlockBits, BlockRound, Zenon DEF ScheduleInv

\* A step that changes nothing here.
LEMMA ScheduleStutter ==
    ASSUME ScheduleInv, UNCHANGED vars
    PROVE  ScheduleInv'
BY DEF ScheduleInv, TypeOK, vars

\* The invariant says what SlotsAhead says.
LEMMA ScheduleInvSlotsAhead ==
    ASSUME ScheduleInv
    PROVE  SlotsAhead
<1>1. /\ head_num \in Nat /\ time \in Nat /\ interval \in Nat \ {0} /\ maintenance \in BOOLEAN
      /\ filled \in SUBSET (0..(Bits - 1)) /\ Bits \in Nat \ {0}
  BY ScheduleAssumption, Zenon DEF ScheduleInv, TypeOK
<1>2. \A slot \in 1..3 : get_slot_time(slot) > time /\ get_slot_at_time(get_slot_time(slot)) = slot
  BY <1>1, SlotTimes
<1>3. ~outage => popcount(filled) <= Cardinality({i \in 1..Bits : recent[i]})
  <2>0. Bits \in 0..Bits /\ \A b \in filled : b < Bits
    BY <1>1
  <2>1. Low(filled, Bits) = filled
    BY <2>0, Zenon DEF Low
  <2>2. \A i \in 1..Bits : i > Bits - Bits
    BY <1>1
  <2>3. High(recent, Bits) = {i \in 1..Bits : recent[i]}
    BY <2>2, Zenon DEF High
  <2> QED BY <2>0, <2>1, <2>3 DEF ScheduleInv, Dominated, popcount
<1> QED BY <1>2, <1>3 DEF SlotsAhead, ScheduleInv, MaintenanceAhead

\* A shuffle ends a round in which everyone had a slot.
LEMMA RoundComplete ==
    ASSUME ScheduleInv, NEW stamp \in Nat, _apply_block(stamp),
           turns' = {}, steady, Cardinality(active') = Cardinality(active)
    PROVE  turns \cup {get_scheduled_witness(k) : k \in 1..(aslot' - aslot)} = Range(shuffled)
<1> DEFINE slot == get_slot_at_time(stamp)
           size == Cardinality(active')
<1>1. slot > 0 /\ head_num' = head_num + 1 /\ aslot' = aslot + slot /\ update_witness_schedule
  BY DEF _apply_block
<1>2. slot \in Nat \ {0}
  BY <1>1, BlockFacts
<1> HIDE DEF slot
<1>3. /\ head_num \in Nat /\ aslot \in Nat
      /\ shuffled \in Seq(Witness) /\ shuffled # <<>>
      /\ RoundOK(turns, shuffled, steady, Cardinality(active), head_num, aslot)
  BY DEF ScheduleInv, TypeOK
<1>4. aslot' \in Nat /\ aslot' - aslot = slot /\ aslot <= aslot'
  BY <1>1, <1>2, <1>3
<1>5. /\ {get_scheduled_witness(k) : k \in 1..slot} = Turns(shuffled, aslot, aslot')
      /\ Turns(shuffled, aslot, aslot') \subseteq Range(shuffled)
  BY <1>1, <1>2, <1>3, BlockTurns
<1>6. ShufflesAt(head_num', active')
  <2>1. get_scheduled_witness(1) \in {get_scheduled_witness(k) : k \in 1..slot}
    BY <1>2
  <2> QED BY <1>1, <1>4, <2>1 DEF update_witness_schedule
<1>7. active' \in ActiveSets
  BY BlockMaintenance
<1>8. size \in Nat \ {0}
  BY <1>7, ActiveFacts
<1>9. /\ Len(shuffled) = size /\ turns \subseteq Range(shuffled)
      /\ \E s \in Nat : s + (head_num % size) <= aslot /\ Turns(shuffled, s, aslot) \subseteq turns
  BY <1>3 DEF RoundOK
<1>10. PICK s \in Nat : s + (head_num % size) <= aslot /\ Turns(shuffled, s, aslot) \subseteq turns
  BY <1>9
<1>11. head_num % size = size - 1
  <2>1. head_num % size \in 0..(size - 1)
    BY <1>3, <1>8, ModFacts, Zenon
  <2>2. (head_num + 1) % size = 0
    BY <1>1, <1>6 DEF ShufflesAt
  <2>3. (head_num + 1) % size = IF head_num % size = size - 1 THEN 0 ELSE (head_num % size) + 1
    BY <1>3, <1>8, ModNext, Zenon
  <2> QED BY <1>8, <2>1, <2>2, <2>3
<1>12. s <= aslot /\ aslot' - s >= Len(shuffled)
  BY <1>1, <1>2, <1>3, <1>8, <1>9, <1>10, <1>11
<1>13. Range(shuffled) \subseteq Turns(shuffled, s, aslot')
  BY <1>3, <1>4, <1>12, AllTurns
<1>14. Turns(shuffled, s, aslot') = Turns(shuffled, s, aslot) \cup Turns(shuffled, aslot, aslot')
  BY <1>3, <1>4, <1>12, TurnsSplit
<1> QED BY <1>4, <1>5, <1>9, <1>10, <1>13, <1>14

\* Every step along the chain preserves the invariant.
THEOREM ScheduleInvariant == Spec => []ScheduleInv
<1>1. ScheduleInv /\ [Next]_vars => ScheduleInv'
  <2>1. ASSUME ScheduleInv, NEW stamp \in GenesisTime..MaxTime, _apply_block(stamp) PROVE ScheduleInv'
    BY <2>1, ScheduleAssumption, stamp \in Nat, BlockStep
  <2> QED BY <2>1, ScheduleStutter DEF Next
<1> QED BY <1>1, ScheduleInit, PTL DEF Spec

\* The slots and the maintenance that update_global_dynamic_data and
\* perform_chain_maintenance leave are ahead, and the participation rate is not
\* too high, for every chain.
THEOREM SlotsAheadAlways == Spec => []SlotsAhead
<1>1. ScheduleInv => SlotsAhead
  BY ScheduleInvSlotsAhead
<1> QED BY <1>1, ScheduleInvariant, PTL

\* update_witness_schedule leaves no witness of a round out, for any number of
\* witnesses.
THEOREM EveryoneGetsATurnAlways == Spec => EveryoneGetsATurn
<1> DEFINE Complete ==
             head_num' > head_num /\ turns' = {} /\ steady /\ Cardinality(active') = Cardinality(active) =>
               turns \cup {get_scheduled_witness(k) : k \in 1..(aslot' - aslot)} = Range(shuffled)
<1>1. ScheduleInv /\ [Next]_vars => [Complete]_vars
  <2>1. ASSUME ScheduleInv, NEW stamp \in GenesisTime..MaxTime, _apply_block(stamp) PROVE Complete
    BY <2>1, ScheduleAssumption, stamp \in Nat, RoundComplete
  <2> QED BY <2>1 DEF Next
<1> QED BY <1>1, ScheduleInvariant, PTL DEF Spec, EveryoneGetsATurn

-----------------------------------------------------------------------------
(* The plugin: its invariant                                               *)

ChainTypes(num, when, i, flag, bits) ==
    /\ num \in Nat /\ when \in Nat /\ i \in Intervals /\ flag \in BOOLEAN
    /\ bits \subseteq 0..(Bits - 1)

\* The wakeup is a whole second, less than MinSleep after the next full one
\* from any run of the task, and the task is not late.
WakesUp(at, c) ==
    /\ \E m \in Nat : at = m * Second
    /\ at < c + Second + MinSleep
    /\ c <= at + MaxLate

\* When the conditions under which the node has to fill this slot are met, the
\* task is woken up at its beginning at the latest.
SlotAwaited(slot) ==
    /\ wakeup # Stopped /\ network /\ _production_enabled /\ switching = 0
    /\ get_scheduled_witness(slot) \in _witnesses
    /\ _witness_key_cache[get_scheduled_witness(slot)] \in _private_keys
    /\ witness_participation_rate >= _required_witness_participation
    /\ since < (get_slot_time(slot) - 1) * Second
    => wakeup <= get_slot_time(slot) * Second

PluginInv ==
    /\ ChainTypes(head_num, time, interval, maintenance, filled)
    /\ undo # NoUndo =>
          ChainTypes(undo.head_num, undo.time, undo.interval, undo.maintenance, undo.filled)
    /\ switching \in 0..2
    /\ switching # 2 => _witness_key_cache = signing_key
    /\ failed = FALSE
    /\ clock \in Nat
    /\ wakeup # Stopped => WakesUp(wakeup, clock)
    /\ \A slot \in Nat \ {0} : SlotAwaited(slot)

-----------------------------------------------------------------------------
(* Times                                                                   *)

\* The constants are numbers.
LEMMA Numbers ==
    /\ Second \in Nat \ {0} /\ MinSleep \in Nat \ {0} /\ MaxLag \in Nat /\ MaxLate \in Nat
    /\ GenesisTime \in Nat /\ MaxClock \in Nat /\ Intervals \subseteq Nat \ {0}
    /\ Second \div 2 \in Nat /\ 2 * (Second \div 2) <= Second /\ Second < 2 * (Second \div 2) + 2
    /\ 2 * MinSleep <= Second
    /\ MaxLate + Second \div 2 <= MaxLag
    /\ \A i \in Intervals : MaxLate + Second \div 2 < i * Second
BY ScheduleAssumption, PluginAssumption, PunctualAssumption

\* Multiples of a number are as far apart as it is large.
LEMMA Multiples ==
    ASSUME NEW s \in Nat, NEW a \in Int, NEW b \in Int, a * s > b * s
    PROVE  a * s >= b * s + s
<1>1. a > b
  <2> SUFFICES ASSUME a <= b PROVE FALSE
    OBVIOUS
  <2>1. PICK d \in Nat : b = a + d
    BY b - a \in Nat, b = a + (b - a)
  <2>2. b * s = a * s + d * s /\ d * s \in Nat
    BY <2>1
  <2> QED BY <2>2
<1>2. PICK d \in Nat : a = b + 1 + d
  BY <1>1, a - b - 1 \in Nat, a = b + 1 + (a - b - 1)
<1>3. a * s = b * s + s + d * s /\ d * s \in Nat
  BY <1>2
<1> QED BY <1>3

\* block_production_loop and schedule_production_loop choose such a wakeup.
LEMMA NextWakeup ==
    ASSUME clock \in Nat
    PROVE  /\ next_wakeup \in Nat /\ WakesUp(next_wakeup, clock) /\ next_wakeup # Stopped
           /\ next_wakeup > clock
<1> DEFINE q == clock \div Second
           r == clock % Second
<1>1. q \in Nat /\ r \in 0..(Second - 1) /\ clock = q * Second + r
  BY Numbers, DivFacts, ModFacts, Zenon
<1>2. time_to_next_second = Second - r
  BY DEF time_to_next_second
<1> HIDE DEF q, r
<1>3. CASE time_to_next_second < MinSleep
  <2>1. next_wakeup = clock + (Second - r) + Second
    BY <1>2, <1>3 DEF next_wakeup
  <2>2. next_wakeup = (q + 2) * Second
    BY <1>1, <2>1, Numbers
  <2>3. next_wakeup < clock + Second + MinSleep /\ clock <= next_wakeup + MaxLate
        /\ next_wakeup \in Nat /\ next_wakeup > clock
    BY <1>1, <1>2, <1>3, <2>1, Numbers
  <2> QED BY <1>1, <2>2, <2>3, q + 2 \in Nat DEF WakesUp, Stopped
<1>4. CASE ~(time_to_next_second < MinSleep)
  <2>1. next_wakeup = clock + (Second - r)
    BY <1>1, <1>2, <1>4, Numbers DEF next_wakeup
  <2>2. next_wakeup = (q + 1) * Second
    BY <1>1, <2>1, Numbers
  <2>3. next_wakeup < clock + Second + MinSleep /\ clock <= next_wakeup + MaxLate
        /\ next_wakeup \in Nat /\ next_wakeup > clock
    BY <1>1, <1>2, <1>4, <2>1, Numbers
  <2> QED BY <1>1, <2>2, <2>3, q + 1 \in Nat DEF WakesUp, Stopped
<1> QED BY <1>3, <1>4

\* A slot that is a second away will be awaited: when the head or the network
\* changes, the next wakeup comes in time.
LEMMA AwaitedAfterChange ==
    ASSUME NEW at \in Int, NEW c \in Nat, WakesUp(at, c), NEW begins \in Nat,
           c < (begins - 1) * Second
    PROVE  at <= begins * Second
<1>1. PICK m \in Nat : at = m * Second
  BY DEF WakesUp
<1> SUFFICES ASSUME at > begins * Second PROVE FALSE
  BY <1>1, Numbers
<1>2. m * Second >= begins * Second + Second
  BY <1>1, Multiples, Numbers
<1>3. (begins - 1) * Second = begins * Second - Second /\ begins * Second \in Nat
  BY Numbers
<1>4. at < c + Second + MinSleep
  BY DEF WakesUp
<1> QED BY <1>1, <1>2, <1>3, <1>4, Numbers

\* now is the time rounded to seconds.
LEMMA NowFacts ==
    ASSUME clock \in Nat
    PROVE  /\ now \in Nat
           /\ now * Second <= clock + Second \div 2
           /\ clock + Second \div 2 < now * Second + Second
BY Numbers, clock + Second \div 2 \in Nat, DivFacts DEF now

\* A run of the task before the slot begins is followed by one at its beginning.
LEMMA AwaitedBeforeSlot ==
    ASSUME clock \in Nat, NEW begins \in Nat, now < begins
    PROVE  next_wakeup <= begins * Second
<1>1. PICK m \in Nat : next_wakeup = m * Second
  BY NextWakeup DEF WakesUp
<1>2. next_wakeup < clock + Second + MinSleep /\ next_wakeup \in Nat
  BY NextWakeup DEF WakesUp
<1> SUFFICES ASSUME next_wakeup > begins * Second PROVE FALSE
  BY <1>2, Numbers
<1>3. m * Second >= begins * Second + Second
  BY <1>1, Multiples, Numbers
<1>4. now * Second + Second <= begins * Second /\ now * Second \in Nat /\ begins * Second \in Nat
  <2>1. now \in Nat
    BY NowFacts
  <2>2. PICK d \in Nat : begins = now + 1 + d
    BY <2>1, begins - now - 1 \in Nat, begins = now + 1 + (begins - now - 1)
  <2>3. begins * Second = now * Second + Second + d * Second /\ d * Second \in Nat
    BY <2>1, <2>2, Numbers
  <2> QED BY <2>1, <2>3, Numbers
<1>5. clock + Second \div 2 < now * Second + Second
  BY NowFacts
<1> QED BY <1>1, <1>2, <1>3, <1>4, <1>5, Numbers

\* Slots are an interval apart.
LEMMA SlotDistance ==
    ASSUME ChainTypes(head_num, time, interval, maintenance, filled), NEW slot \in Nat \ {0}
    PROVE  get_slot_time(slot) = get_slot_time(1) + (slot - 1) * interval
<1> DEFINE skipped == IF maintenance THEN SkipSlots ELSE 0
           n == slot - 1
<1>1. head_num \in Nat /\ time \in Nat /\ interval \in Nat \ {0} /\ skipped \in Nat
  BY Numbers, ScheduleAssumption DEF ChainTypes
<1>2. n \in Nat /\ slot = n + 1
  OBVIOUS
<1> HIDE DEF skipped, n
<1>3. (n + 1) * interval = interval + n * interval /\ n * interval \in Nat
  BY <1>1, <1>2
<1>4. CASE head_num = 0
  <2>1. get_slot_time(slot) = time + (n + 1) * interval /\ get_slot_time(1) = time + interval
    BY <1>1, <1>2, <1>4 DEF get_slot_time
  <2> QED BY <1>1, <1>3, <2>1 DEF n
<1>5. CASE head_num # 0
  <2> DEFINE begin == (time \div interval) * interval
  <2>1. /\ get_slot_time(slot) = begin + ((n + 1) + skipped) * interval
        /\ get_slot_time(1) = begin + (1 + skipped) * interval
    BY <1>2, <1>5 DEF get_slot_time, skipped
  <2>2. begin \in Nat
    BY <1>1, DivFacts
  <2> HIDE DEF begin
  <2>3. /\ ((n + 1) + skipped) * interval = interval + skipped * interval + n * interval
        /\ (1 + skipped) * interval = interval + skipped * interval
        /\ skipped * interval \in Nat
    BY <1>1, <1>2
  <2> QED BY <1>1, <1>3, <2>1, <2>2, <2>3 DEF n
<1> QED BY <1>4, <1>5

\* A run of the task that was to be woken up by the beginning of the slot is in
\* the slot, and early enough to generate its block.
LEMMA RunInSlot ==
    ASSUME ChainTypes(head_num, time, interval, maintenance, filled), clock \in Nat,
           NEW slot \in Nat \ {0}, now >= get_slot_time(slot),
           clock <= get_slot_time(slot) * Second + MaxLate
    PROVE  /\ get_slot_at_time(now) = slot
           /\ (now - get_slot_time(slot)) * Second <= MaxLag
<1> DEFINE begins == get_slot_time(slot)
           first == get_slot_time(1)
           late == now - begins
           n == slot - 1
<1>1. head_num \in Nat /\ time \in Nat /\ interval \in Nat \ {0} /\ maintenance \in BOOLEAN
      /\ interval \in Intervals
  BY Numbers DEF ChainTypes
<1>2. begins \in Nat /\ first \in Nat
  BY <1>1, SlotTimes
<1>3. begins = first + n * interval
  BY SlotDistance
<1>4. n \in Nat /\ n + 1 = slot
  OBVIOUS
<1>5. now \in Nat /\ now * Second <= clock + Second \div 2
  BY NowFacts
<1> HIDE DEF begins, first, n
<1>6. late \in Nat /\ now = begins + late
  BY <1>2, <1>5 DEF begins
<1> HIDE DEF late
<1>7. now * Second = begins * Second + late * Second /\ begins * Second \in Nat /\ late * Second \in Nat
  BY <1>2, <1>6, Numbers
<1>8. late * Second <= MaxLate + Second \div 2
  BY <1>5, <1>7, Numbers DEF begins
<1>9. late * Second < interval * Second
  <2>1. MaxLate + Second \div 2 < interval * Second /\ interval * Second \in Nat
    BY <1>1, Numbers
  <2> QED BY <1>7, <1>8, <2>1, Numbers
<1>10. late < interval
  <2> SUFFICES ASSUME late >= interval PROVE FALSE
    BY <1>1, <1>6
  <2>1. PICK d \in Nat : late = interval + d
    BY <1>1, <1>6, late - interval \in Nat, late = interval + (late - interval)
  <2>2. late * Second = interval * Second + d * Second /\ d * Second \in Nat /\ interval * Second \in Nat
    BY <1>1, <2>1, Numbers
  <2> QED BY <1>9, <2>2
<1>11. now - first = n * interval + late /\ n * interval \in Nat /\ ~(now < first)
  BY <1>1, <1>2, <1>3, <1>4, <1>6
<1>12. (n * interval + late) \div interval = n
  BY <1>1, <1>4, <1>6, <1>10
<1>13. get_slot_at_time(now) = n + 1
  BY <1>11, <1>12 DEF get_slot_at_time, first
<1>14. late * Second <= MaxLag
  BY <1>7, <1>8, Numbers
<1> QED BY <1>4, <1>13, <1>14 DEF late, begins

-----------------------------------------------------------------------------
(* Steps                                                                   *)

\* A block leaves numbers and flags of the head what they are.
LEMMA BlockTypes ==
    ASSUME ChainTypes(head_num, time, interval, maintenance, filled), NEW when \in Nat, _apply_block(when)
    PROVE  ChainTypes(head_num, time, interval, maintenance, filled)'
<1>1. /\ head_num' = head_num + 1 /\ time' = when
      /\ maintenance' = (next_maintenance <= when)
      /\ IF next_maintenance <= when THEN perform_chain_maintenance(head_num', when)
         ELSE UNCHANGED <<active, interval, next_maintenance>>
  BY DEF _apply_block
<1>2. interval' \in Intervals
  BY <1>1 DEF perform_chain_maintenance, ChainTypes
<1>3. head_num' \in Nat
  BY <1>1 DEF ChainTypes
<1>4. maintenance' \in BOOLEAN
  BY <1>1
<1>5. filled' \subseteq 0..(Bits - 1)
  BY DEF _apply_block, ShiftedIn, ShiftLeft
<1> QED BY <1>1, <1>2, <1>3, <1>4, <1>5, Zenon DEF ChainTypes

\* The times of slots are numbers.
LEMMA SlotTimeType ==
    ASSUME NEW t \in Nat, NEW i \in Nat \ {0}, NEW slot \in Nat, NEW skipped \in Nat
    PROVE  t + slot * i \in Nat /\ (t \div i) * i + (slot + skipped) * i \in Nat
<1>1. t \div i \in Nat /\ slot * i \in Nat /\ (slot + skipped) * i \in Nat
  BY DivFacts
<1> QED BY <1>1

\* After a change of the head or of the network every slot is awaited.
LEMMA ChangeAwaits ==
    ASSUME ChainTypes(head_num, time, interval, maintenance, filled)', clock' \in Nat, since' = clock',
           wakeup' # Stopped => WakesUp(wakeup', clock')
    PROVE  \A slot \in Nat \ {0} : SlotAwaited(slot)'
<1> SUFFICES ASSUME NEW slot \in Nat \ {0}, wakeup' # Stopped,
                    since' < (get_slot_time(slot)' - 1) * Second
             PROVE  wakeup' <= get_slot_time(slot)' * Second
  BY DEF SlotAwaited
<1>1. get_slot_time(slot)' \in Nat
  <2>1. head_num' \in Nat /\ time' \in Nat /\ interval' \in Nat \ {0} /\ maintenance' \in BOOLEAN
    BY Numbers DEF ChainTypes
  <2>2. \A skipped \in Nat : /\ time' + slot * interval' \in Nat
                             /\ (time' \div interval') * interval' + (slot + skipped) * interval' \in Nat
    BY <2>1, SlotTimeType, Zenon
  <2>3. SkipSlots \in Nat
    BY ScheduleAssumption
  <2> QED BY <2>1, <2>2, <2>3, Zenon DEF get_slot_time
<1>2. wakeup' \in Int
  BY Numbers DEF WakesUp
<1> QED BY <1>1, <1>2, AwaitedAfterChange
\* What does not touch the plugin and the chain keeps what it awaits.
LEMMA AwaitsStutter ==
    ASSUME \A slot \in Nat \ {0} : SlotAwaited(slot), UNCHANGED vars,
           UNCHANGED <<wakeup, _production_enabled, network, switching, _witness_key_cache, since>>
    PROVE  \A slot \in Nat \ {0} : SlotAwaited(slot)'
<1> SUFFICES ASSUME NEW slot \in Nat \ {0} PROVE SlotAwaited(slot)'
  OBVIOUS
<1>1. /\ get_slot_time(slot)' = get_slot_time(slot)
      /\ get_scheduled_witness(slot)' = get_scheduled_witness(slot)
      /\ witness_participation_rate' = witness_participation_rate
  BY DEF vars, get_slot_time, get_scheduled_witness, witness_participation_rate, popcount
<1> QED BY <1>1 DEF SlotAwaited

\* A block that applies, with the keys it sets.
LEMMA AppliedStep ==
    ASSUME PluginInv, NEW when \in Nat, NEW keys, Applied(when, keys), UNCHANGED <<clock, failed>>,
           switching' \in 0..1,
           wakeup' # Stopped => WakesUp(wakeup', clock)
    PROVE  PluginInv'
<1>1. /\ _apply_block(when) /\ signing_key' = keys /\ _witness_key_cache' = keys
      /\ undo' = ChainState /\ since' = clock
  BY DEF Applied, refresh_witness_key_cache
<1>2. ChainTypes(head_num, time, interval, maintenance, filled)
  BY DEF PluginInv
<1>3. ChainTypes(head_num, time, interval, maintenance, filled)'
  BY <1>1, <1>2, BlockTypes
<1>4. ChainTypes(undo.head_num, undo.time, undo.interval, undo.maintenance, undo.filled)'
  <2>1. undo'.head_num = head_num /\ undo'.time = time /\ undo'.interval = interval
        /\ undo'.maintenance = maintenance /\ undo'.filled = filled
    BY <1>1 DEF ChainState
  <2> QED BY <1>2, <2>1, Zenon
<1>5. clock' \in Nat /\ failed' = FALSE /\ (wakeup' # Stopped => WakesUp(wakeup', clock'))
  BY DEF PluginInv
<1>6. \A slot \in Nat \ {0} : SlotAwaited(slot)'
  BY <1>1, <1>3, <1>5, ChangeAwaits
<1>7. switching' \in 0..2
  OBVIOUS
<1> QED BY <1>1, <1>3, <1>4, <1>5, <1>6, <1>7 DEF PluginInv

\* The conditions that generate_block asserts hold when the plugin calls it.
LEMMA GenerateSucceeds ==
    ASSUME PluginInv, switching = 0, NEW slot \in Nat \ {0}
    PROVE  Generates(slot, get_scheduled_witness(slot))
<1>1. get_slot_at_time(get_slot_time(slot)) = slot
  BY SlotTimes, Numbers DEF PluginInv, ChainTypes
<1>2. _witness_key_cache = signing_key
  BY DEF PluginInv
<1> QED BY <1>1, <1>2 DEF Generates, scheduled_key

\* plugin_startup establishes the invariant.
LEMMA PluginInitInv == PluginInit => PluginInv
<1> SUFFICES ASSUME PluginInit PROVE PluginInv
  OBVIOUS
<1>1. ChainTypes(head_num, time, interval, maintenance, filled)
  BY Numbers, Zenon DEF PluginInit, Init, ChainTypes
<1>2. clock \in Nat
  <2>1. GenesisTime * Second \in Nat
    BY Numbers
  <2> QED BY <2>1 DEF PluginInit
<1>3. WakesUp(wakeup, clock)
  BY <1>2, NextWakeup DEF PluginInit
<1>4. \A slot \in Nat \ {0} : SlotAwaited(slot)
  <2> SUFFICES ASSUME NEW slot \in Nat \ {0}, since < (get_slot_time(slot) - 1) * Second
               PROVE  wakeup <= get_slot_time(slot) * Second
    BY DEF SlotAwaited
  <2>1. get_slot_time(slot) \in Nat
    BY <1>1, SlotTimes, Numbers DEF ChainTypes
  <2>2. wakeup \in Int /\ since = clock
    BY <1>2, NextWakeup DEF PluginInit
  <2> QED BY <1>2, <1>3, <2>1, <2>2, AwaitedAfterChange
<1> QED BY <1>1, <1>2, <1>3, <1>4 DEF PluginInit, PluginInv
\* The participation rate is a number.
LEMMA RateType ==
    ASSUME ChainTypes(head_num, time, interval, maintenance, filled)
    PROVE  witness_participation_rate \in Nat
<1>1. Bits \in Nat \ {0}
  BY ScheduleAssumption
<1>2. filled \subseteq 0..(Bits - 1)
  BY DEF ChainTypes
<1>3. IsFiniteSet(0..(Bits - 1))
  BY <1>1, FS_Interval
<1>4. Cardinality(filled) \in Nat
  BY <1>2, <1>3, FS_Subset, FS_CardinalityType, Zenon
<1>5. 10000 * Cardinality(filled) \in Nat
  BY <1>4
<1> QED BY <1>1, <1>5, DivFacts DEF witness_participation_rate, popcount

\* A run of the task that does not generate a block leaves every slot that the
\* node has to fill awaited: the slot has not begun.
LEMMA IdleRunAwaits ==
    ASSUME PluginInv, block_production_loop, Condition # "generate"
    PROVE  \A slot \in Nat \ {0} : SlotAwaited(slot)'
<1>1. /\ _production_enabled' = EnabledNow
      /\ wakeup' = IF Condition = "no_network" THEN Stopped ELSE next_wakeup
      /\ wakeup # Stopped /\ switching = 0
      /\ UNCHANGED <<vars, _witness_key_cache, since, clock, network, switching>>
  BY DEF block_production_loop
<1>2. /\ clock \in Nat /\ ChainTypes(head_num, time, interval, maintenance, filled)
      /\ WakesUp(wakeup, clock) /\ \A slot \in Nat \ {0} : SlotAwaited(slot)
  BY <1>1 DEF PluginInv
<1> SUFFICES ASSUME NEW slot \in Nat \ {0},
                    wakeup' # Stopped, network', _production_enabled',
                    get_scheduled_witness(slot)' \in _witnesses,
                    _witness_key_cache'[get_scheduled_witness(slot)'] \in _private_keys,
                    witness_participation_rate' >= _required_witness_participation,
                    since' < (get_slot_time(slot)' - 1) * Second
             PROVE  wakeup' <= get_slot_time(slot)' * Second
  BY Zenon DEF SlotAwaited
<1>3. /\ get_slot_time(slot)' = get_slot_time(slot)
      /\ get_scheduled_witness(slot)' = get_scheduled_witness(slot)
      /\ witness_participation_rate' = witness_participation_rate
  BY <1>1 DEF vars, get_slot_time, get_scheduled_witness, witness_participation_rate, popcount
<1>4. head_num \in Nat /\ time \in Nat /\ interval \in Nat \ {0} /\ maintenance \in BOOLEAN
  BY <1>2, Numbers DEF ChainTypes
<1>5. get_slot_time(slot) \in Nat /\ get_slot_time(1) \in Nat
      /\ get_slot_at_time(get_slot_time(1)) = 1
      /\ get_slot_time(slot) >= get_slot_time(1)
  <2>1. get_slot_time(slot) = get_slot_time(1) + (slot - 1) * interval
    BY <1>2, SlotDistance
  <2>2. (slot - 1) * interval \in Nat
    BY <1>4
  <2> QED BY <1>4, <2>1, <2>2, SlotTimes
<1>6. Condition # "no_network" /\ wakeup' = next_wakeup
  BY <1>1
<1>7. now \in Nat
  BY <1>2, NowFacts
<1>8. CASE now < get_slot_time(slot)
  BY <1>2, <1>3, <1>5, <1>6, <1>8, AwaitedBeforeSlot, Zenon
<1>9. CASE now >= get_slot_time(slot)
  <2>1. ASSUME get_slot_at_time(now) = slot, (now - get_slot_time(slot)) * Second <= MaxLag
        PROVE  FALSE
    <3>1. ~(witness_participation_rate < _required_witness_participation)
      BY <1>2, <1>3, RateType, PluginAssumption
    <3>2. (now - get_slot_time(slot)) * Second \in Int
      BY <1>5, <1>7, Numbers
    <3>3. ~((now - get_slot_time(slot)) * Second > MaxLag)
      BY <2>1, <3>2, Numbers
    <3>4. EnabledNow /\ network /\ slot # 0 /\ get_scheduled_witness(slot) \in _witnesses
          /\ scheduled_key(get_scheduled_witness(slot)) \in _private_keys
      BY <1>1, <1>3 DEF scheduled_key
    <3> QED BY <2>1, <3>1, <3>3, <3>4, Zenon DEF Condition
  <2>2. CASE _production_enabled
    <3>1. wakeup <= get_slot_time(slot) * Second
      BY <1>1, <1>2, <1>3, <2>2, Zenon DEF SlotAwaited
    <3>2. clock <= wakeup + MaxLate /\ wakeup \in Int /\ get_slot_time(slot) * Second \in Nat
      BY <1>2, <1>5, Numbers DEF WakesUp
    <3>3. clock <= get_slot_time(slot) * Second + MaxLate
      BY <1>2, <3>1, <3>2, Numbers
    <3> QED BY <1>2, <1>9, <2>1, <3>3, RunInSlot, Zenon
  <2>3. CASE ~_production_enabled
    <3>1. get_slot_time(1) >= now
      BY <1>1, <2>3, Zenon DEF EnabledNow
    <3>2. now = get_slot_time(1) /\ now = get_slot_time(slot)
      BY <1>5, <1>7, <1>9, <3>1
    <3>3. get_slot_at_time(get_slot_time(slot)) = slot
      BY <1>4, SlotTimes
    <3>4. (now - get_slot_time(slot)) * Second <= MaxLag
      BY <1>7, <3>2, Numbers, now - now = 0, 0 * Second = 0
    <3> QED BY <2>1, <3>2, <3>3, <3>4
  <2> QED BY <2>2, <2>3, Zenon
<1> QED BY <1>5, <1>7, <1>8, <1>9

\* A run of the task preserves the invariant.
LEMMA LoopStep ==
    ASSUME PluginInv, block_production_loop
    PROVE  PluginInv'
<1> DEFINE slot == get_slot_at_time(now)
<1>1. /\ clock \in Nat /\ ChainTypes(head_num, time, interval, maintenance, filled)
      /\ switching = 0 /\ switching \in 0..2
  BY DEF PluginInv, block_production_loop
<1>2. /\ wakeup' = IF Condition = "no_network" THEN Stopped ELSE next_wakeup
      /\ UNCHANGED <<clock, switching>>
  BY DEF block_production_loop
<1>3. wakeup' # Stopped => WakesUp(wakeup', clock)
  BY <1>1, <1>2, NextWakeup
<1>4. CASE Condition = "generate"
  <2>1. generate_block(slot)
    BY <1>4 DEF block_production_loop
  <2>2. head_num \in Nat /\ time \in Nat /\ interval \in Nat \ {0} /\ maintenance \in BOOLEAN
    BY <1>1, Numbers DEF ChainTypes
  <2>3. slot # 0
    BY <1>4 DEF Condition
  <2>4. slot \in Nat
    BY <1>1, <2>2, NowFacts, SlotType
  <2> HIDE DEF slot
  <2>5. Generates(slot, get_scheduled_witness(slot))
    BY <1>1, <2>3, <2>4, GenerateSucceeds
  <2>6. Applied(get_slot_time(slot), [w \in _witnesses |-> ShownKey(w)]) /\ UNCHANGED failed
    BY <2>1, <2>5 DEF generate_block
  <2>7. get_slot_time(slot) \in Nat
    BY <2>2, <2>3, <2>4, SlotTimes
  <2>8. switching' \in 0..1
    BY <1>1, <1>2
  <2> QED BY <1>2, <1>3, <2>6, <2>7, <2>8, AppliedStep, Zenon
<1>5. CASE Condition # "generate"
  <2>1. UNCHANGED <<vars, signing_key, _witness_key_cache, undo, failed>>
    BY <1>5 DEF block_production_loop
  <2>2. \A s \in Nat \ {0} : SlotAwaited(s)'
    BY <1>5, IdleRunAwaits, Zenon
  <2> QED BY <1>1, <1>2, <1>3, <2>1, <2>2 DEF PluginInv, vars
<1> QED BY <1>4, <1>5

\* The clock goes on only while the task is not too late.
LEMMA TickStep ==
    ASSUME PluginInv, Tick
    PROVE  PluginInv'
<1>1. clock \in Nat /\ clock' = clock + 1 /\ (wakeup # Stopped => clock < wakeup + MaxLate)
      /\ (wakeup # Stopped => WakesUp(wakeup, clock))
  BY DEF PluginInv, Tick
<1>2. UNCHANGED <<vars, wakeup, _production_enabled, network, signing_key, _witness_key_cache,
                  undo, switching, failed, since>>
  BY DEF Tick
<1>3. \A slot \in Nat \ {0} : SlotAwaited(slot)'
  BY <1>2, AwaitsStutter, Zenon DEF PluginInv
<1>4. ASSUME wakeup' # Stopped PROVE WakesUp(wakeup', clock')
  <2>1. \E m \in Nat : wakeup = m * Second
    BY <1>1, <1>2, <1>4 DEF WakesUp
  <2>2. wakeup \in Nat
    BY <2>1, Numbers
  <2>3. wakeup < clock + Second + MinSleep /\ clock < wakeup + MaxLate
    BY <1>1, <1>2, <1>4 DEF WakesUp
  <2> QED BY <1>1, <1>2, <2>1, <2>2, <2>3, Numbers DEF WakesUp
<1>5. clock' \in Nat
  BY <1>1
<1> QED BY <1>2, <1>3, <1>4, <1>5, Zenon DEF PluginInv, vars

\* While a branch is popped and the other one applied the task does not run.
LEMMA PopStep ==
    ASSUME PluginInv, pop_block
    PROVE  PluginInv'
<1>1. /\ undo # NoUndo /\ Restore(undo) /\ switching' = 2 /\ undo' = NoUndo
      /\ UNCHANGED <<clock, wakeup, failed>>
  BY DEF pop_block
<1>2. ChainTypes(head_num, time, interval, maintenance, filled)'
  BY <1>1 DEF PluginInv, Restore
<1>3. \A slot \in Nat \ {0} : SlotAwaited(slot)'
  BY <1>1 DEF SlotAwaited
<1> QED BY <1>1, <1>2, <1>3 DEF PluginInv

\* Every step of the plugin and of what surrounds it preserves the invariant.
THEOREM PluginInvariant == PluginSpec => []PluginInv
<1>1. PluginInv /\ [PluginNext]_<<vars, plugin_vars>> => PluginInv'
  <2> SUFFICES ASSUME PluginInv, [PluginNext]_<<vars, plugin_vars>> PROVE PluginInv'
    BY Zenon
  <2>1. ASSUME NEW w \in _witnesses, NEW key \in Key, push_transaction(w, key) PROVE PluginInv'
    <3>1. UNCHANGED <<vars, clock, wakeup, _production_enabled, network, signing_key,
                      _witness_key_cache, undo, switching, failed, since>>
      BY <2>1 DEF push_transaction
    <3>2. \A slot \in Nat \ {0} : SlotAwaited(slot)'
      BY <3>1, AwaitsStutter DEF PluginInv
    <3> QED BY <3>1, <3>2 DEF PluginInv, vars
  <2>2. ASSUME NEW when \in GenesisTime..MaxClock, push_block(when) PROVE PluginInv'
    <3>1. when \in Nat
      BY Numbers
    <3>2. PICK keys : Applied(when, keys)
      BY <2>2 DEF push_block
    <3>3. UNCHANGED <<clock, wakeup, failed>> /\ switching' = IF switching > 0 THEN switching - 1 ELSE 0
      BY <2>2 DEF push_block
    <3>4. switching' \in 0..1 /\ (wakeup' # Stopped => WakesUp(wakeup', clock))
      BY <3>3 DEF PluginInv
    <3> QED BY <3>1, <3>2, <3>3, <3>4, AppliedStep
  <2>3. ASSUME reset_p2p_node PROVE PluginInv'
    <3>1. since' = clock' /\ UNCHANGED <<vars, clock, wakeup, signing_key, _witness_key_cache,
                                         undo, switching, failed>>
      BY <2>3, Zenon DEF reset_p2p_node
    <3>2. /\ ChainTypes(head_num, time, interval, maintenance, filled)' /\ clock' \in Nat
          /\ (wakeup' # Stopped => WakesUp(wakeup', clock'))
      BY <3>1 DEF PluginInv, vars
    <3>3. \A slot \in Nat \ {0} : SlotAwaited(slot)'
      BY <3>1, <3>2, ChangeAwaits, Zenon
    <3> QED BY <3>1, <3>2, <3>3 DEF PluginInv, vars
  <2>4. CASE UNCHANGED <<vars, plugin_vars>>
    <3>1. UNCHANGED <<vars, clock, wakeup, _production_enabled, network, signing_key,
                      _witness_key_cache, undo, switching, failed, since>>
      BY <2>4 DEF plugin_vars
    <3>2. \A slot \in Nat \ {0} : SlotAwaited(slot)'
      BY <3>1, AwaitsStutter DEF PluginInv
    <3> QED BY <3>1, <3>2 DEF PluginInv, vars
  <2> QED BY <2>1, <2>2, <2>3, <2>4, LoopStep, TickStep, PopStep DEF PluginNext
<1> QED BY <1>1, PluginInitInv, PTL DEF PluginSpec

\* No assertion of generate_block fails for the plugin: the key that
\* refresh_witness_key_cache took from the head is the witness's, and the slot
\* that maybe_produce_block computes is open and its own.
THEOREM ProductionSucceedsAlways == PluginSpec => []ProductionSucceeds
<1>1. PluginInv => ProductionSucceeds
  BY DEF PluginInv, ProductionSucceeds
<1> QED BY <1>1, PluginInvariant, PTL

\* The node fills the slots of its witnesses: schedule_production_loop wakes the
\* task up when each of them begins.
THEOREM OwnSlotsFilledAlways == PluginSpec => []OwnSlotsFilled
<1>1. ASSUME PluginInv PROVE OwnSlotsFilled
  <2>1. ASSUME NEW slot \in 1..3, wakeup # Stopped, network, _production_enabled, switching = 0,
               get_scheduled_witness(slot) \in _witnesses,
               _witness_key_cache[get_scheduled_witness(slot)] \in _private_keys,
               witness_participation_rate >= _required_witness_participation,
               since < (get_slot_time(slot) - 1) * Second
        PROVE  clock <= get_slot_time(slot) * Second + MaxLate
    <3>1. wakeup <= get_slot_time(slot) * Second
      BY <1>1, <2>1, slot \in Nat \ {0} DEF PluginInv, SlotAwaited
    <3>2. clock \in Nat /\ WakesUp(wakeup, clock)
      BY <1>1, <2>1, Zenon DEF PluginInv
    <3>3. get_slot_time(slot) \in Nat
      BY <1>1, slot \in Nat \ {0}, SlotTimes, Numbers DEF PluginInv, ChainTypes
    <3>4. get_slot_time(slot) * Second \in Nat /\ wakeup \in Int /\ clock <= wakeup + MaxLate
      BY <3>2, <3>3, Numbers DEF WakesUp
    <3> QED BY <3>1, <3>2, <3>4, Numbers
  <2> QED BY <2>1 DEF OwnSlotsFilled
<1> QED BY <1>1, PluginInvariant, PTL
=============================================================================
