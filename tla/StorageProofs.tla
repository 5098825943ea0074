---------------------------- MODULE StorageProofs ---------------------------
(***************************************************************************)
(* LogHasChain and OnlyUnsavedLost, for every length of the chain, of the  *)
(* undo history and of the replay's queue, and any number of crashes.      *)
(*                                                                         *)
(* What has to be carried through a crash is what the log looks like in    *)
(* every state that the buffers may be lost in.  A log may have gaps:      *)
(* blocks that cannot be read in front of one that can.  A gap is harmless *)
(* in two cases: its entry points behind the end of the file, so that the  *)
(* next replay fails on it and drops nothing, or it lies so close to the   *)
(* end (Deep) that the replay stores again what it drops.                  *)
(***************************************************************************)
EXTENDS Storage, WellFoundedInduction, TLAPS

\* what lies at a position of the file "blocks"
Data == Num \cup {Torn, Garbled}
Entry == [block_pos : Nat \ {0}, block_size : {1}, block_id : Nat]

\* No entry is ever skipped over.
EntriesOK(x) == x \in Seq(Entry) /\ \A n \in 1..Len(x) : x[n].block_id = n

HasAll(b, x, n) == \A k \in 1..n : fetch_by_number(b, x, k)

\* Block k cannot be read, block n behind it can.
Gap(b, x, k, n) == k < n /\ fetch_by_number(b, x, n) /\ ~fetch_by_number(b, x, k)

\* When a replay up to n or less finds k missing, it has applied all the blocks
\* below its undo point but one.
Deep(k, n) == n <= MaxUndoHistory + 1 \/ k + MaxUndoHistory + 2 >= n + QueueSize

GapsMet(b, x) == \A n \in 1..Len(x) : \A k \in 1..Len(x) :
                     Gap(b, x, k, n) => ReadsPastEnd(b, x, k) \/ Deep(k, n)
GapsDeep(b, x) == \A n \in 1..Len(x) : \A k \in 1..Len(x) : Gap(b, x, k, n) => Deep(k, n)

\* The files b and x with block m in the buffers.
FilesIn(b, x, m) ==
    /\ b \in Seq(Data) /\ EntriesOK(x) /\ m \in 0..MaxNum
    /\ m = 0 => GapsMet(b, x)
    /\ m # 0 => /\ GapsDeep(b, x)
                /\ \/ fetch_by_number(b, x, m)
                   \/ m = Len(x) + 1 /\ HasAll(b, x, Len(x))

\* The files when m is written out.
With(b, m) == IF m = 0 THEN b ELSE Append(b, m)
WithEntry(b, x, m) == IF m = 0 THEN x ELSE Put(x, m, index_entry(Len(b) + 1, m))

-----------------------------------------------------------------------------
(* Numbers and sequences                                                   *)

\* Every set of naturals that is not empty has a least element.
LEMMA LeastElement ==
    ASSUME NEW T \in SUBSET Nat, T # {}
    PROVE  \E x \in T : \A y \in T : x <= y
<1> DEFINE R == {ss \in Nat \X Nat : ss[1] < ss[2]}
<1>1. IsWellFoundedOn(R, Nat)
  BY NatLessThanWellFounded DEF OpToRel
<1>2. \E x \in T : \A y \in T : ~(<<y, x>> \in R)
  <2> HIDE DEF R
  <2> QED BY <1>1, WFMin, Zenon
<1>3. PICK x \in T : \A y \in T : ~(<<y, x>> \in R)
  BY <1>2
<1>4. ASSUME NEW y \in T PROVE x <= y
  <2>1. <<y, x>> \in Nat \X Nat /\ <<y, x>>[1] = y /\ <<y, x>>[2] = x
    OBVIOUS
  <2> QED BY <1>3, <2>1
<1> QED BY <1>4

-----------------------------------------------------------------------------
(* Reading a block                                                         *)

LEMMA LenIsNat == ASSUME NEW S, NEW s \in Seq(S) PROVE Len(s) \in Nat /\ DOMAIN s = 1..Len(s)
OBVIOUS

LEMMA EntryFacts ==
    ASSUME NEW x, EntriesOK(x), NEW n \in 1..Len(x)
    PROVE  /\ x[n].block_pos \in Nat /\ x[n].block_pos # 0
           /\ x[n].block_size = 1 /\ x[n].block_id = n
<1>1. x[n] \in Entry
  BY DEF EntriesOK
<1> QED BY <1>1 DEF EntriesOK, Entry

\* A block can be read if its entry points to it.
LEMMA FetchIff ==
    ASSUME NEW b \in Seq(Data), NEW x, EntriesOK(x), NEW n \in Nat
    PROVE  fetch_by_number(b, x, n) <=>
              /\ n \in 1..Len(x)
              /\ x[n].block_pos \in 1..Len(b)
              /\ b[x[n].block_pos] = n
<1>1. Len(b) \in Nat /\ Len(x) \in Nat /\ DOMAIN x = 1..Len(x)
  BY LenIsNat DEF EntriesOK
<1>2. CASE n \in 1..Len(x)
  <2>1. /\ x[n].block_pos \in Nat /\ x[n].block_pos # 0
        /\ x[n].block_size = 1 /\ x[n].block_id = n
    BY <1>2, EntryFacts
  <2> DEFINE p == x[n].block_pos
             l == Len(b)
  <2>2. fetch_by_number(b, x, n) <=> (p < l \/ (p = l /\ b[l] # Torn)) /\ b[p] = n
    BY <1>1, <1>2, <2>1 DEF fetch_by_number, Readable, InFile
  <2>3. p \in Nat /\ p # 0 /\ l \in Nat /\ n # Torn
    BY <2>1, <1>1, <1>2 DEF Torn
  <2> HIDE DEF p, l
  <2>4. fetch_by_number(b, x, n) <=> p \in 1..l /\ b[p] = n
    BY <2>2, <2>3
  <2> QED BY <2>4, <1>2 DEF p, l
<1>3. CASE n \notin 1..Len(x)
  BY <1>1, <1>3 DEF fetch_by_number
<1> QED BY <1>2, <1>3

LEMMA PastEndIff ==
    ASSUME NEW b \in Seq(Data), NEW x, EntriesOK(x), NEW n \in 1..Len(x)
    PROVE  ReadsPastEnd(b, x, n) <=>
              ~(x[n].block_pos < Len(b) \/ (x[n].block_pos = Len(b) /\ b[Len(b)] # Torn))
<1>1. DOMAIN x = 1..Len(x)
  BY LenIsNat DEF EntriesOK
<1>2. x[n].block_size = 1
  BY EntryFacts
<1> QED BY <1>1, <1>2 DEF ReadsPastEnd, InFile

\* y is x with the entry of block m, which now points to p.
HasPut(x, m, p, y) ==
    /\ EntriesOK(y)
    /\ Len(y) = IF m = Len(x) + 1 THEN m ELSE Len(x)
    /\ m \in 1..Len(y) /\ y[m].block_pos = p
    /\ \A n \in 1..Len(x) : n # m => n \in 1..Len(y) /\ y[n] = x[n]
    /\ \A n \in 1..Len(y) : n # m => n \in 1..Len(x)

\* Put at most one entry behind the end.
LEMMA PutFacts ==
    ASSUME NEW x, EntriesOK(x), NEW m \in Nat, m \in 1..(Len(x) + 1), NEW p \in Nat, p # 0
    PROVE  HasPut(x, m, p, Put(x, m, index_entry(p, m)))
<1> DEFINE l == Len(x)
           k == IF m > l THEN m ELSE l
           y == Put(x, m, index_entry(p, m))
<1>1. l \in Nat /\ DOMAIN x = 1..l
  BY LenIsNat DEF EntriesOK
<1>2. k \in Nat /\ k = (IF m = l + 1 THEN m ELSE l) /\ m \in 1..k
      /\ (\A n \in 1..l : n \in 1..k) /\ (\A n \in 1..k : n # m => n \in 1..l)
  BY <1>1
<1>3. \A n \in 1..l : x[n] \in Entry
  BY <1>1 DEF EntriesOK
<1>4. index_entry(p, m) \in Entry
  BY DEF index_entry, Entry
<1>5. y = [n \in 1..k |-> IF n = m THEN index_entry(p, m) ELSE IF n \in 1..l THEN x[n] ELSE Hole]
  BY <1>1 DEF Put
<1> HIDE DEF k, l, y
<1>6. \A n \in 1..k : y[n] \in Entry
  BY <1>2, <1>3, <1>4, <1>5
<1>7. y \in Seq(Entry) /\ Len(y) = k
  <2>1. y \in [1..k -> Entry]
    BY <1>5, <1>6
  <2> QED BY <2>1, <1>2
<1>8. \A n \in 1..k : y[n] = IF n = m THEN index_entry(p, m) ELSE x[n]
  BY <1>2, <1>5
<1>9. \A n \in 1..k : y[n].block_id = n
  BY <1>2, <1>8 DEF EntriesOK, index_entry, l
<1> QED BY <1>2, <1>7, <1>8, <1>9 DEF HasPut, EntriesOK, l, y, index_entry
-----------------------------------------------------------------------------
(* What a crash leaves of the files                                        *)

\* The data that may be at the end of the file when m was in the buffer.
LEMMA AppendedFacts ==
    ASSUME NEW b \in Seq(Data), NEW v \in Data
    PROVE  /\ Append(b, v) \in Seq(Data) /\ Len(Append(b, v)) = Len(b) + 1
           /\ \A p \in 1..Len(b) : Append(b, v)[p] = b[p]
           /\ Append(b, v)[Len(b) + 1] = v
OBVIOUS

\* A new entry of m, or more data, change nothing for another block.
LEMMA EntryKept ==
    ASSUME NEW c \in Seq(Data), NEW x, EntriesOK(x), NEW m \in Nat, m \in 1..(Len(x) + 1),
           NEW p \in Nat, p # 0, NEW n \in Nat, n # m
    PROVE  fetch_by_number(c, Put(x, m, index_entry(p, m)), n) <=> fetch_by_number(c, x, n)
<1> DEFINE y == Put(x, m, index_entry(p, m))
<1>1. /\ EntriesOK(y)
      /\ \A k \in 1..Len(x) : k # m => k \in 1..Len(y) /\ y[k] = x[k]
      /\ \A k \in 1..Len(y) : k # m => k \in 1..Len(x)
  <2>1. HasPut(x, m, p, y)
    BY PutFacts
  <2> HIDE DEF y
  <2> QED BY <2>1 DEF HasPut
<1> HIDE DEF y
<1>2. fetch_by_number(c, y, n) <=> fetch_by_number(c, x, n)
  BY <1>1, FetchIff
<1> QED BY <1>2 DEF y

LEMMA DataKept ==
    ASSUME NEW b \in Seq(Data), NEW x, EntriesOK(x), NEW v \in Data, NEW n \in Nat, n # v
    PROVE  fetch_by_number(Append(b, v), x, n) <=> fetch_by_number(b, x, n)
<1> DEFINE c == Append(b, v)
           l == Len(b)
<1>1. c \in Seq(Data) /\ Len(c) = l + 1 /\ (\A p \in 1..l : c[p] = b[p]) /\ c[l + 1] = v
  BY AppendedFacts
<1>2. l \in Nat
  BY LenIsNat
<1> HIDE DEF c
<1>3. fetch_by_number(c, x, n) <=>
         n \in 1..Len(x) /\ x[n].block_pos \in 1..(l + 1) /\ c[x[n].block_pos] = n
  BY <1>1, FetchIff
<1>4. fetch_by_number(b, x, n) <=>
         n \in 1..Len(x) /\ x[n].block_pos \in 1..l /\ b[x[n].block_pos] = n
  BY FetchIff
<1> HIDE DEF l
<1>5. \A p \in 1..(l + 1) : c[p] = n => p \in 1..l
  BY <1>1, <1>2
<1>6. \A p \in 1..l : p \in 1..(l + 1)
  BY <1>2
<1>7. fetch_by_number(c, x, n) <=> fetch_by_number(b, x, n)
  BY <1>1, <1>3, <1>4, <1>5, <1>6
<1> QED BY <1>7 DEF c

\* Another block can be read exactly when it could be read before.
LEMMA OthersKept ==
    ASSUME NEW b \in Seq(Data), NEW x, EntriesOK(x),
           NEW m \in Num, m \in 1..(Len(x) + 1),
           NEW v \in {m, Torn}, NEW n \in Nat, n # m, n # Torn
    PROVE  LET z == Put(x, m, index_entry(Len(b) + 1, m))
           IN  /\ fetch_by_number(Append(b, v), x, n) <=> fetch_by_number(b, x, n)
               /\ fetch_by_number(b, z, n) <=> fetch_by_number(b, x, n)
               /\ fetch_by_number(Append(b, v), z, n) <=> fetch_by_number(b, x, n)
<1> DEFINE p == Len(b) + 1
           z == Put(x, m, index_entry(p, m))
<1>1. m \in Nat /\ v \in Data /\ p \in Nat /\ p # 0 /\ n # v
  BY LenIsNat DEF Data, Num
<1>2. Append(b, v) \in Seq(Data)
  BY <1>1, AppendedFacts
<1>3. fetch_by_number(Append(b, v), x, n) <=> fetch_by_number(b, x, n)
  BY <1>1, DataKept
<1>4. \A c \in Seq(Data) : fetch_by_number(c, z, n) <=> fetch_by_number(c, x, n)
  <2> HIDE DEF p
  <2> QED BY <1>1, EntryKept
<1> HIDE DEF z
<1>5. fetch_by_number(b, z, n) <=> fetch_by_number(b, x, n)
  BY <1>4
<1>6. fetch_by_number(Append(b, v), z, n) <=> fetch_by_number(b, x, n)
  BY <1>2, <1>3, <1>4, Zenon
<1> QED BY <1>3, <1>5, <1>6 DEF z, p

\* The block itself: with the old entry it can be read if it could be before,
\* with its new entry and its data it can be read, without its data the entry
\* points behind the end.
LEMMA OwnOutcome ==
    ASSUME NEW b \in Seq(Data), NEW x, EntriesOK(x),
           NEW m \in Num, m \in 1..(Len(x) + 1)
    PROVE  LET y == Put(x, m, index_entry(Len(b) + 1, m))
           IN  /\ fetch_by_number(Append(b, m), y, m)
               /\ ReadsPastEnd(b, y, m)
               /\ ReadsPastEnd(Append(b, Torn), y, m)
               /\ m \in 1..Len(y)
               /\ fetch_by_number(b, x, m) =>
                     \A v \in {m, Torn} : fetch_by_number(Append(b, v), x, m)
<1> DEFINE l == Len(b)
           y == Put(x, m, index_entry(l + 1, m))
<1>1. l \in Nat /\ m \in Nat /\ m \in Data /\ Torn \in Data
  BY LenIsNat DEF Data, Num, Torn
<1>2. EntriesOK(y) /\ m \in 1..Len(y) /\ y[m].block_pos = l + 1
  <2> DEFINE pos == l + 1
  <2>1. pos \in Nat /\ pos # 0
    BY <1>1
  <2> HIDE DEF pos
  <2>2. HasPut(x, m, pos, Put(x, m, index_entry(pos, m)))
    BY <1>1, <2>1, PutFacts
  <2> QED BY <2>2 DEF pos, HasPut
<1>3. \A v \in {m, Torn} : /\ Append(b, v) \in Seq(Data) /\ Len(Append(b, v)) = l + 1
                           /\ \A p \in 1..l : Append(b, v)[p] = b[p]
                           /\ Append(b, v)[l + 1] = v
  BY <1>1, AppendedFacts
<1> HIDE DEF y
<1>4. fetch_by_number(Append(b, m), y, m)
  <2>1. l + 1 \in 1..(l + 1)
    BY <1>1
  <2> QED BY <1>1, <1>2, <1>3, <2>1, FetchIff, ZenonT(60)
<1>5. ReadsPastEnd(b, y, m)
  <2>1. ~(l + 1 < l \/ (l + 1 = l /\ b[l] # Torn))
    BY <1>1
  <2> QED BY <1>2, <2>1, PastEndIff
<1>6. ReadsPastEnd(Append(b, Torn), y, m)
  <2> DEFINE c == Append(b, Torn)
  <2>1. c \in Seq(Data) /\ Len(c) = l + 1 /\ c[l + 1] = Torn
    BY <1>3
  <2> HIDE DEF c
  <2>2. ~(l + 1 < l + 1 \/ (l + 1 = l + 1 /\ c[l + 1] # Torn))
    BY <1>1, <2>1
  <2>3. ReadsPastEnd(c, y, m)
    BY <1>2, <2>1, <2>2, PastEndIff
  <2> QED BY <2>3 DEF c
<1>7. ASSUME fetch_by_number(b, x, m), NEW v \in {m, Torn}
      PROVE  fetch_by_number(Append(b, v), x, m)
  <2> DEFINE c == Append(b, v)
  <2>1. m \in 1..Len(x) /\ x[m].block_pos \in 1..l /\ b[x[m].block_pos] = m
    BY <1>1, <1>7, FetchIff
  <2>2. c \in Seq(Data) /\ Len(c) = l + 1 /\ \A p \in 1..l : c[p] = b[p]
    BY <1>3
  <2>3. \A p \in 1..l : p \in 1..(l + 1)
    BY <1>1
  <2> HIDE DEF c
  <2>4. fetch_by_number(c, x, m)
    BY <1>1, <2>1, <2>2, <2>3, FetchIff, SMTT(40)
  <2> QED BY <2>4 DEF c
<1> QED BY <1>2, <1>4, <1>5, <1>6, <1>7 DEF y

\* Files that are in order before a crash are in order after it, whatever it
\* loses: m was in the buffers.
LEMMA CrashedFiles ==
    ASSUME NEW b, NEW x, NEW m, FilesIn(b, x, m), m # 0,
           NEW v \in {m, Torn},
           NEW c \in {b, Append(b, v)},
           NEW y \in {x, Put(x, m, index_entry(Len(b) + 1, m))}
    PROVE  /\ FilesIn(c, y, 0)
           /\ \A h \in Nat : HasAll(b, x, h) /\ h < m => HasAll(c, y, h)
           /\ \A n \in Nat \ {0} : n # m => (fetch_by_number(c, y, n) <=> fetch_by_number(b, x, n))
<1>1. /\ b \in Seq(Data) /\ EntriesOK(x) /\ m \in Num /\ m \in Nat
      /\ Len(x) \in Nat /\ GapsDeep(b, x)
  BY LenIsNat DEF FilesIn, EntriesOK, Num
<1>2. m \in 1..(Len(x) + 1)
  <2>1. CASE fetch_by_number(b, x, m)
    BY <1>1, <2>1, FetchIff
  <2>2. CASE m = Len(x) + 1
    BY <1>1, <2>2
  <2> QED BY <2>1, <2>2 DEF FilesIn
<1>3. ASSUME NEW n \in Nat \ {0}, n # m
      PROVE  fetch_by_number(c, y, n) <=> fetch_by_number(b, x, n)
  <2>1. n \in Nat /\ n # Torn
    BY DEF Torn
  <2> DEFINE z == Put(x, m, index_entry(Len(b) + 1, m))
  <2>2. /\ fetch_by_number(Append(b, v), x, n) <=> fetch_by_number(b, x, n)
        /\ fetch_by_number(b, z, n) <=> fetch_by_number(b, x, n)
        /\ fetch_by_number(Append(b, v), z, n) <=> fetch_by_number(b, x, n)
    BY <1>1, <1>2, <1>3, <2>1, OthersKept
  <2>3. y = x \/ y = z
    OBVIOUS
  <2> HIDE DEF z
  <2>4. c = b \/ c = Append(b, v)
    OBVIOUS
  <2> QED BY <2>2, <2>3, <2>4, Zenon
<1>4. c \in Seq(Data) /\ EntriesOK(y)
  <2>1. v \in Data /\ Append(b, v) \in Seq(Data)
    BY <1>1 DEF Data
  <2>2. Len(b) + 1 \in Nat /\ Len(b) + 1 # 0
    BY <1>1, LenIsNat
  <2>3. EntriesOK(Put(x, m, index_entry(Len(b) + 1, m)))
    BY <1>1, <1>2, <2>2, PutFacts, Zenon DEF HasPut
  <2> QED BY <1>1, <2>1, <2>3, SMTT(40)
<1>5. ASSUME NEW k \in 1..Len(y), NEW n \in 1..Len(y), Gap(c, y, k, n)
      PROVE  ReadsPastEnd(c, y, k) \/ Deep(k, n)
  <2>1. Len(y) \in Nat /\ k \in Nat \ {0} /\ n \in Nat \ {0} /\ k < n
        /\ fetch_by_number(c, y, n) /\ ~fetch_by_number(c, y, k)
    BY <1>4, <1>5, LenIsNat DEF EntriesOK, Gap
  <2>2. CASE k = m
    <3>1. CASE y = x
      <4>1. ~fetch_by_number(b, x, m)
        BY <1>1, <1>2, <2>1, <2>2, <3>1, OwnOutcome, Zenon
      <4>2. m = Len(x) + 1 /\ n \in 1..Len(x) /\ k < n
        BY <4>1, <2>1, <3>1, <1>5 DEF FilesIn
      <4> QED BY <4>2, <2>2, <1>1
    <3>2. CASE y = Put(x, m, index_entry(Len(b) + 1, m))
      <4>1. /\ fetch_by_number(Append(b, m), y, m)
            /\ ReadsPastEnd(b, y, m)
            /\ ReadsPastEnd(Append(b, Torn), y, m)
        BY <1>1, <1>2, <3>2, OwnOutcome
      <4>2. c # Append(b, m)
        BY <4>1, <2>1, <2>2, Zenon
      <4> QED BY <4>1, <4>2, <2>2, Zenon
    <3> QED BY <3>1, <3>2
  <2>3. CASE k # m /\ n # m
    <3>1. fetch_by_number(b, x, n) /\ ~fetch_by_number(b, x, k)
      BY <1>3, <2>1, <2>3
    <3>2. n \in 1..Len(x)
      BY <3>1, <1>1, <2>1, FetchIff
    <3>3. k \in 1..Len(x)
      BY <3>2, <2>1, <1>1, <1>5
    <3> QED BY <3>1, <3>2, <3>3, <2>1, <1>1 DEF GapsDeep, Gap
  <2>4. CASE k # m /\ n = m
    <3>1. ~fetch_by_number(b, x, k)
      BY <1>3, <2>1, <2>4
    <3>2. k \in 1..Len(x)
      BY <1>1, <1>2, <2>1, <2>4, <1>5
    <3>3. fetch_by_number(b, x, m)
      BY <3>1, <3>2 DEF FilesIn, HasAll
    <3>4. m \in 1..Len(x)
      BY <3>3, <1>1, FetchIff
    <3> QED BY <3>1, <3>2, <3>3, <3>4, <2>1, <2>4, <1>1 DEF GapsDeep, Gap
  <2> QED BY <2>2, <2>3, <2>4
<1>6. FilesIn(c, y, 0)
  <2>1. GapsMet(c, y)
    BY <1>5 DEF GapsMet
  <2>2. 0 \in 0..MaxNum
    BY StorageAssumption
  <2> QED BY <1>4, <2>1, <2>2 DEF FilesIn
<1>7. ASSUME NEW h \in Nat, HasAll(b, x, h), h < m, NEW k \in 1..h
      PROVE  fetch_by_number(c, y, k)
  <2>1. k \in Nat \ {0} /\ k # m
    BY <1>1, <1>7
  <2> QED BY <1>3, <1>7, <2>1 DEF HasAll
<1> QED BY <1>3, <1>6, <1>7 DEF HasAll

\* The same for what is written out as a whole, which then can be read.
LEMMA WrittenFiles ==
    ASSUME NEW b, NEW x, NEW m, FilesIn(b, x, m)
    PROVE  /\ FilesIn(With(b, m), WithEntry(b, x, m), 0)
           /\ \A n \in Nat \ {0} : fetch_by_number(b, x, n) \/ (n = m /\ m # 0)
                             <=> fetch_by_number(With(b, m), WithEntry(b, x, m), n)
           /\ Len(WithEntry(b, x, m)) = IF m = Len(x) + 1 THEN m ELSE Len(x)
<1>0. Len(x) \in Nat
  BY LenIsNat DEF FilesIn, EntriesOK
<1>1. CASE m = 0
  <2>1. m # Len(x) + 1
    BY <1>0, <1>1
  <2> QED BY <1>1, <2>1 DEF With, WithEntry
<1>2. CASE m # 0
  <2> DEFINE c == Append(b, m)
             y == Put(x, m, index_entry(Len(b) + 1, m))
  <2>1. FilesIn(c, y, 0)
        /\ \A n \in Nat \ {0} : n # m => (fetch_by_number(c, y, n) <=> fetch_by_number(b, x, n))
    BY <1>2, CrashedFiles, Zenon
  <2>2. b \in Seq(Data) /\ EntriesOK(x) /\ m \in Num /\ m \in Nat
    BY <1>2 DEF FilesIn, Num
  <2>3. m \in 1..(Len(x) + 1)
    <3>1. CASE fetch_by_number(b, x, m)
      BY <1>0, <2>2, <3>1, FetchIff
    <3>2. CASE m = Len(x) + 1
      BY <1>0, <2>2, <3>2
    <3> QED BY <1>2, <3>1, <3>2 DEF FilesIn
  <2>4. fetch_by_number(c, y, m)
    BY <2>2, <2>3, OwnOutcome
  <2>5. Len(y) = IF m = Len(x) + 1 THEN m ELSE Len(x)
    <3>1. Len(b) + 1 \in Nat /\ Len(b) + 1 # 0
      BY <2>2, LenIsNat
    <3> QED BY <2>2, <2>3, <3>1, PutFacts, Zenon DEF HasPut
  <2> HIDE DEF c, y
  <2>6. With(b, m) = c /\ WithEntry(b, x, m) = y
    BY <1>2 DEF With, WithEntry, c, y
  <2> QED BY <1>2, <2>1, <2>4, <2>5, <2>6
<1> QED BY <1>1, <1>2

-----------------------------------------------------------------------------
(* The end of the log                                                      *)

\* last_index_entry finds the last block that can be read, if there is one.
LEMMA LastEntry ==
    ASSUME NEW b \in Seq(Data), NEW x, EntriesOK(x)
    PROVE  LET r == last_index_entry(b, x)
           IN  /\ r \in 0..Len(x)
               /\ r # 0 => fetch_by_number(b, x, r)
               /\ \A n \in Nat : fetch_by_number(b, x, n) => n <= r
<1> DEFINE l == Len(x)
           good == {n \in DOMAIN x : Readable(b, x[n])}
           r == last_index_entry(b, x)
<1>1. l \in Nat /\ DOMAIN x = 1..l
  BY LenIsNat DEF EntriesOK
<1>2. good \subseteq 1..l /\ \A n \in Nat : fetch_by_number(b, x, n) <=> n \in good
  BY <1>1 DEF fetch_by_number
<1>3. r = IF good = {} THEN 0 ELSE CHOOSE n \in good : \A m \in good : m <= n
  BY DEF last_index_entry
<1> HIDE DEF good, r, l
<1>4. CASE good = {}
  BY <1>1, <1>2, <1>3, <1>4 DEF l, r
<1>5. CASE good # {}
  <2> DEFINE T == {l - n : n \in good}
  <2>1. T \in SUBSET Nat /\ T # {}
    <3>1. \A n \in good : l - n \in Nat
      BY <1>1, <1>2
    <3>2. PICK n \in good : TRUE
      BY <1>5
    <3> QED BY <3>1, <3>2
  <2> HIDE DEF T
  <2>2. PICK t \in T : \A u \in T : t <= u
    BY <2>1, LeastElement
  <2>3. PICK n \in good : t = l - n
    BY <2>2 DEF T
  <2>4. ASSUME NEW m \in good PROVE m <= n
    <3>1. l - m \in T /\ m \in Int /\ n \in Int
      BY <1>1, <1>2 DEF T
    <3>2. l - n <= l - m
      BY <3>1, <2>2, <2>3, Zenon
    <3> QED BY <3>1, <3>2, <1>1
  <2>5. r \in good /\ \A m \in good : m <= r
    BY <1>3, <1>5, <2>4
  <2>6. r \in 1..l /\ r # 0
    BY <1>1, <1>2, <2>5
  <2> QED BY <1>1, <1>2, <2>5, <2>6 DEF l, r
<1> QED BY <1>4, <1>5

\* An index that is cut has the entries that are left.
LEMMA CutFacts ==
    ASSUME NEW b \in Seq(Data), NEW x, EntriesOK(x), NEW r \in 0..Len(x)
    PROVE  LET y == SubSeq(x, 1, r)
           IN  /\ EntriesOK(y) /\ Len(y) = r
               /\ \A n \in 1..r : y[n] = x[n]
               /\ \A n \in Nat : fetch_by_number(b, y, n) <=> n <= r /\ fetch_by_number(b, x, n)
<1> DEFINE y == SubSeq(x, 1, r)
           l == Len(x)
<1>1. l \in Nat /\ x \in Seq(Entry)
  BY LenIsNat DEF EntriesOK
<1>2. r \in Nat /\ r <= l
  BY <1>1
<1>3. y \in Seq(Entry) /\ Len(y) = r /\ \A n \in 1..r : y[n] = x[n]
  <2>1. y = [n \in 1..r |-> x[n]]
    BY <1>1, <1>2
  <2>2. \A n \in 1..r : n \in 1..l
    BY <1>1, <1>2
  <2>3. \A n \in 1..r : x[n] \in Entry
    BY <1>1, <2>2
  <2>4. y \in [1..r -> Entry]
    BY <2>1, <2>3, Zenon
  <2> HIDE DEF y
  <2> QED BY <1>2, <2>1, <2>4
<1> HIDE DEF y
<1>4. \A n \in 1..r : n \in 1..l
  BY <1>1, <1>2
<1>5. EntriesOK(y)
  BY <1>3, <1>4 DEF EntriesOK
<1>6. ASSUME NEW n \in Nat
      PROVE  fetch_by_number(b, y, n) <=> n <= r /\ fetch_by_number(b, x, n)
  <2>1. fetch_by_number(b, y, n) <=>
           n \in 1..r /\ y[n].block_pos \in 1..Len(b) /\ b[y[n].block_pos] = n
    BY <1>3, <1>5, FetchIff
  <2>2. fetch_by_number(b, x, n) <=>
           n \in 1..l /\ x[n].block_pos \in 1..Len(b) /\ b[x[n].block_pos] = n
    BY FetchIff
  <2>3. n \in 1..r <=> n <= r /\ n \in 1..l
    BY <1>1, <1>2
  <2> QED BY <1>3, <2>1, <2>2, <2>3
<1> QED BY <1>3, <1>5, <1>6 DEF y

LEMMA CutFiles ==
    ASSUME NEW b, NEW x, FilesIn(b, x, 0), NEW r \in 0..Len(x)
    PROVE  FilesIn(b, SubSeq(x, 1, r), 0)
<1> DEFINE y == SubSeq(x, 1, r)
<1>1. b \in Seq(Data) /\ EntriesOK(x) /\ Len(x) \in Nat /\ 0 \in 0..MaxNum /\ GapsMet(b, x)
  BY LenIsNat DEF FilesIn, EntriesOK
<1>2. /\ EntriesOK(y) /\ Len(y) = r
      /\ \A n \in 1..r : y[n] = x[n]
      /\ \A n \in Nat : fetch_by_number(b, y, n) <=> n <= r /\ fetch_by_number(b, x, n)
  BY <1>1, CutFacts
<1> HIDE DEF y
<1>3. ASSUME NEW n \in 1..r, NEW k \in 1..r, Gap(b, y, k, n)
      PROVE  ReadsPastEnd(b, y, k) \/ Deep(k, n)
  <2>1. n \in Nat /\ k \in Nat /\ n \in 1..Len(x) /\ k \in 1..Len(x) /\ n <= r /\ k <= r
    BY <1>1
  <2>2. Gap(b, x, k, n)
    BY <1>2, <1>3, <2>1 DEF Gap
  <2>3. CASE ReadsPastEnd(b, x, k)
    <3>1. ReadsPastEnd(b, y, k)
      BY <1>1, <1>2, <2>1, <2>3, PastEndIff
    <3> QED BY <3>1
  <2> QED BY <1>1, <2>1, <2>2, <2>3 DEF GapsMet
<1>4. GapsMet(b, y)
  BY <1>2, <1>3 DEF GapsMet
<1> QED BY <1>1, <1>2, <1>4 DEF FilesIn, y

\* When the blocks up to the next one to apply, n, can be read, and n itself or
\* not, the blocks behind it are dropped and nothing else.
LEMMA DroppedFacts ==
    ASSUME NEW b \in Seq(Data), NEW x, EntriesOK(x), NEW n \in Nat \ {0}, HasAll(b, x, n - 1)
    PROVE  LET y == DroppedAfter(b, x, n)
           IN  /\ EntriesOK(y)
               /\ Len(y) = IF fetch_by_number(b, x, n) THEN n ELSE n - 1
               /\ HasAll(b, y, Len(y))
<1> DEFINE l == Len(x)
           c == IF n < l THEN n ELSE l
           z == SubSeq(x, 1, c)
           r == last_index_entry(b, z)
           y == DroppedAfter(b, x, n)
<1>1. l \in Nat /\ c \in 0..l /\ c <= n
  BY LenIsNat DEF EntriesOK
<1>2. y = SubSeq(x, 1, r)
  BY DEF DroppedAfter
<1> HIDE DEF c, y
<1>3. /\ EntriesOK(z) /\ Len(z) = c
      /\ \A k \in Nat : fetch_by_number(b, z, k) <=> k <= c /\ fetch_by_number(b, x, k)
  BY <1>1, CutFacts
<1> HIDE DEF z
<1>4. r \in 0..c /\ (r # 0 => fetch_by_number(b, z, r))
      /\ \A k \in Nat : fetch_by_number(b, z, k) => k <= r
  BY <1>3, LastEntry
<1> HIDE DEF r
<1>5. r \in 0..l /\ r \in Nat /\ c \in Nat /\ r <= n
  BY <1>1, <1>4
<1>6. /\ EntriesOK(y) /\ Len(y) = r
      /\ \A k \in Nat : fetch_by_number(b, y, k) <=> k <= r /\ fetch_by_number(b, x, k)
  BY <1>2, <1>5, CutFacts
<1>7. \A k \in 1..n : fetch_by_number(b, x, k) => k <= r
  <2> SUFFICES ASSUME NEW k \in 1..n, fetch_by_number(b, x, k) PROVE k <= r
    OBVIOUS
  <2>1. k \in Nat /\ k \in 1..l
    BY FetchIff
  <2>2. k <= c
    BY <2>1, <1>1 DEF c
  <2> QED BY <1>3, <1>4, <2>1, <2>2
<1>8. r = IF fetch_by_number(b, x, n) THEN n ELSE n - 1
  <2>1. CASE fetch_by_number(b, x, n)
    BY <1>5, <1>7, <2>1
  <2>2. CASE ~fetch_by_number(b, x, n)
    <3>1. r # n
      BY <1>3, <1>4, <1>5, <2>2
    <3>2. n # 1 => n - 1 <= r
      BY <1>7 DEF HasAll
    <3>3. r >= n - 1
      BY <3>2, <1>5
    <3> QED BY <2>2, <3>1, <3>3, <1>5
  <2> QED BY <2>1, <2>2
<1>9. ASSUME NEW k \in 1..r PROVE fetch_by_number(b, y, k)
  <2>1. k \in Nat /\ k <= r
    BY <1>5
  <2>2. fetch_by_number(b, x, k)
    <3>1. CASE k = n
      BY <3>1, <1>5, <1>8, <2>1
    <3>2. CASE k # n
      <4>1. k \in 1..(n - 1)
        BY <3>2, <1>5, <2>1
      <4> QED BY <4>1 DEF HasAll
    <3> QED BY <3>1, <3>2
  <2> QED BY <1>6, <2>1, <2>2
<1> QED BY <1>6, <1>8, <1>9 DEF y, HasAll

\* A log without any gap.
LEMMA FullLog ==
    ASSUME NEW b \in Seq(Data), NEW x, EntriesOK(x), HasAll(b, x, Len(x)), NEW m \in 0..MaxNum,
           m <= Len(x) + 1
    PROVE  FilesIn(b, x, m)
<1>1. Len(x) \in Nat /\ m \in Nat
  BY LenIsNat, StorageAssumption DEF EntriesOK
<1>2. GapsMet(b, x) /\ GapsDeep(b, x)
  BY DEF GapsMet, GapsDeep, Gap, HasAll
<1>3. m # 0 => fetch_by_number(b, x, m) \/ m = Len(x) + 1
  <2>1. m # 0 /\ m # Len(x) + 1 => m \in 1..Len(x)
    BY <1>1
  <2> QED BY <2>1 DEF HasAll
<1> QED BY <1>2, <1>3 DEF FilesIn

\* The blocks up to n, whatever the type of n, are in the index.
LEMMA HasAllBound ==
    ASSUME NEW b \in Seq(Data), NEW x, EntriesOK(x), NEW n \in Nat, HasAll(b, x, n)
    PROVE  n <= Len(x)
<1>1. Len(x) \in Nat
  BY LenIsNat DEF EntriesOK
<1>2. CASE n # 0
  <2>1. fetch_by_number(b, x, n)
    BY <1>2 DEF HasAll
  <2> QED BY <1>1, <2>1, FetchIff
<1> QED BY <1>1, <1>2

LEMMA HasAllLess ==
    ASSUME NEW b, NEW x, NEW n \in Nat, HasAll(b, x, n), NEW m \in Nat, m <= n
    PROVE  HasAll(b, x, m)
BY DEF HasAll

-----------------------------------------------------------------------------
(* The inductive invariant                                                 *)

FilesOK == FilesIn(blocks, index, buffered) /\ failed \in BOOLEAN /\ (failed => buffered = 0)

\* The saved state is covered by the log, also when the buffers are lost, and
\* an incomplete directory is never used: it is there only while it is wiped,
\* before the version is written.
DirsOK ==
    /\ target \in Directory /\ old \in Directory /\ tmp \in Directory
    /\ db_version \in BOOLEAN
    /\ HasAll(blocks, index, target.head)
    /\ buffered # 0 => target.head < buffered
    /\ ~target.whole => ~db_version /\ pc \in {"down", "wipe"}
    /\ pc = "wipe" => ~db_version
    /\ pc \in {"unlocked", "renamed"} => tmp.head = head /\ tmp.whole

CountersOK ==
    /\ head \in 0..MaxNum /\ undo \in 0..head /\ stored \in Nat
    /\ last \in 0..MaxNum /\ next \in Nat /\ i \in Nat /\ loading \in BOOLEAN
    /\ buffered # 0 /\ pc \in {"running", "replay"} => undo > 0

Stopped == {"down", "wipe", "wiped", "version", "opened"}
InFlush == {"flush", "saved", "unlocked", "renamed"}
AtRest == next = 0 /\ last = 0 /\ i = 0 /\ loading = FALSE

StoppedOK ==
    /\ AtRest /\ buffered = 0 /\ ~failed /\ undo = 0
    /\ head = IF pc = "opened" THEN target.head ELSE 0
    /\ HasAll(blocks, index, stored)

RunningOK ==
    /\ AtRest
    /\ buffered \in {0, head}
    /\ \A n \in 1..head : n = buffered \/ fetch_by_number(blocks, index, n)
    /\ ~failed => Len(index) <= head
    /\ stored <= head

ClosingOK ==
    /\ AtRest
    /\ HasAll(blocks, index, head)
    /\ buffered # 0 => head < buffered
    /\ \A n \in 1..stored : n = buffered \/ fetch_by_number(blocks, index, n)

\* While the replay loads, the log is whole up to the blocks in the queue.
LoadingOK ==
    /\ ~failed /\ Len(index) = last
    /\ fetch_by_number(blocks, index, last)
    /\ HasAll(blocks, index, next - 1)
    /\ HasAll(blocks, index, stored)

\* After a gap the log ends with the block that is applied next or the one
\* before it, and what is missing of the queue is going to be stored again.
DroppedOK ==
    /\ Len(index) <= i /\ Len(index) < next
    /\ \A n \in 1..Len(index) : n = buffered \/ fetch_by_number(blocks, index, n)
    /\ buffered = 0 => i - 1 <= Len(index)
    /\ buffered # 0 => i - 2 <= Len(index)
    /\ i < next => i <= Len(index) \/ i >= undo_point
    /\ i + 1 < next => i + 1 >= undo_point

ReplayOK ==
    /\ last # 0 /\ i \in 1..next /\ next <= last + 1 /\ head = i - 1
    /\ target.head < i
    /\ buffered \in {0, i - 1}
    /\ buffered # 0 => i > undo_point
    /\ loading => LoadingOK
    /\ ~loading => stored < next /\ next <= last
    /\ ~loading /\ failed => HasAll(blocks, index, next - 1)
    /\ ~loading /\ ~failed => DroppedOK
    /\ pc # "replay" => i = undo_point /\ i < next /\ ~Loads /\ buffered = 0

PhaseOK ==
    \/ pc \in Stopped /\ StoppedOK
    \/ pc = "running" /\ RunningOK
    \/ pc \in InFlush \cup {"closing"} /\ ClosingOK
    \/ pc \in InFlush \cup {"replay", "flushed"} /\ ReplayOK

StorageInv == FilesOK /\ DirsOK /\ CountersOK /\ PhaseOK

\* A node that was just installed.
LEMMA StorageStart == Init => StorageInv
<1> SUFFICES ASSUME Init PROVE StorageInv
  OBVIOUS
<1> USE DEF Init
<1>1. 0 \in 0..MaxNum /\ 0 \in 0..0
  BY StorageAssumption
<1>2. blocks \in Seq(Data) /\ EntriesOK(index) /\ Len(index) = 0
  BY DEF EntriesOK
<1>3. \A n \in {0} : HasAll(blocks, index, n)
  BY DEF HasAll
<1>4. FilesOK
  <2>1. HasAll(blocks, index, Len(index)) /\ 0 <= Len(index) + 1
    BY <1>2, <1>3
  <2>2. FilesIn(blocks, index, 0)
    BY <1>1, <1>2, <2>1, FullLog, Zenon
  <2> QED BY <2>2, Zenon DEF FilesOK
<1>5. NoDir \in Directory /\ NoDir.head = 0 /\ NoDir.whole
  BY <1>1 DEF NoDir, Directory
<1>6. DirsOK
  BY <1>3, <1>5, Zenon DEF DirsOK
<1>7. CountersOK
  BY <1>1, Zenon DEF CountersOK
<1>8. PhaseOK
  BY <1>3 DEF PhaseOK, StoppedOK, Stopped, AtRest
<1> QED BY <1>4, <1>6, <1>7, <1>8 DEF StorageInv

-----------------------------------------------------------------------------
(* Steps that leave the log alone                                          *)

\* The process starts, and loads the saved state.
LEMMA StartingKeeps ==
    ASSUME StorageInv, Upgrade \/ open \/ wipe \/ write_version \/ open_objects
    PROVE  StorageInv'
<1> USE DEF files, dirs, replay
<1>0. NoDir \in Directory /\ NoDir.head = 0 /\ NoDir.whole
  BY StorageAssumption DEF NoDir, Directory
<1>1. HasAll(blocks, index, 0) /\ 0 \in 0..0
  BY DEF HasAll
<1>2. /\ pc \in {"down", "wipe", "wiped", "version"} /\ StoppedOK
      /\ FilesOK /\ DirsOK /\ CountersOK
  BY DEF StorageInv, PhaseOK, Upgrade, open, wipe, write_version, open_objects, Stopped,
         InFlush, Happens
<1>3. /\ UNCHANGED <<blocks, index, buffered, failed, old, tmp, undo, next, last, i, loading, stored>>
      /\ pc' \in Stopped /\ pc' \notin {"running", "replay", "unlocked", "renamed"}
      /\ head' = IF pc' = "opened" THEN target'.head ELSE 0
  BY <1>2 DEF Upgrade, open, wipe, write_version, open_objects, Stopped, StoppedOK, Happens
<1>4. /\ target' \in Directory /\ target'.head \in {0, target.head}
      /\ ~target'.whole => ~db_version' /\ pc' \in {"down", "wipe"}
      /\ pc' = "wipe" => ~db_version'
      /\ db_version' \in BOOLEAN
  <2>1. CASE Upgrade
    BY <1>2, <2>1, Zenon DEF Upgrade, DirsOK, Happens
  <2>2. CASE open
    <3>1. CASE db_version
      BY <1>2, <2>2, <3>1 DEF open, DirsOK
    <3>2. CASE ~db_version
      <4>1. target' = [target EXCEPT !.whole = ~target.exists]
        BY <2>2, <3>2 DEF open
      <4>2. target' \in Directory /\ target'.head = target.head
        BY <4>1, <1>2, Zenon DEF DirsOK, Directory
      <4> QED BY <4>2, <1>2, <2>2, <3>2 DEF open, DirsOK
    <3> QED BY <3>1, <3>2
  <2>3. CASE wipe
    BY <1>0, <1>2, <2>3 DEF wipe, DirsOK
  <2>4. CASE write_version
    BY <1>2, <2>4 DEF write_version, DirsOK
  <2>5. CASE open_objects
    BY <1>2, <2>5 DEF open_objects, DirsOK
  <2> QED BY <2>1, <2>2, <2>3, <2>4, <2>5
<1>5. FilesOK'
  BY <1>2, <1>3 DEF FilesOK
<1>6. HasAll(blocks', index', target'.head)
  BY <1>1, <1>2, <1>3, <1>4 DEF DirsOK
<1>7. DirsOK'
  BY <1>2, <1>3, <1>4, <1>6 DEF DirsOK, StoppedOK
<1>8. head' \in 0..MaxNum /\ undo' = 0 /\ undo' \in 0..head'
  <2>1. target'.head \in 0..MaxNum
    BY <1>4 DEF Directory
  <2>2. head' \in 0..MaxNum
    BY <1>3, <2>1, StorageAssumption
  <2> QED BY <2>2, <1>2, <1>3, StorageAssumption DEF StoppedOK
<1>9. CountersOK'
  BY <1>2, <1>3, <1>8 DEF CountersOK, StoppedOK
<1>10. StoppedOK'
  BY <1>2, <1>3 DEF StoppedOK, AtRest
<1> QED BY <1>3, <1>5, <1>7, <1>9, <1>10 DEF StorageInv, PhaseOK

\* The object database is saved, at shutdown or in a replay.
LEMMA FlushingKeeps ==
    ASSUME StorageInv, flush_save \/ flush_unlock \/ flush_rename_old \/ flush_rename
    PROVE  StorageInv'
<1> USE DEF files, dirs, replay
<1>1. NoDir \in Directory /\ NoDir.head = 0 /\ NoDir.whole
  BY StorageAssumption DEF NoDir, Directory
<1>2. HasAll(blocks, index, 0)
  BY DEF HasAll
<1>3. pc \in InFlush /\ FilesOK /\ DirsOK /\ CountersOK /\ (ClosingOK \/ ReplayOK)
  BY Zenon DEF StorageInv, PhaseOK, flush_save, flush_unlock, flush_rename_old, flush_rename, Stopped,
         InFlush
<1>4. UNCHANGED <<blocks, index, buffered, failed, db_version, head, undo, next, last, i, loading,
                  stored>>
  BY Zenon DEF flush_save, flush_unlock, flush_rename_old, flush_rename
<1>5. /\ pc' \in InFlush \cup {"closing", "flushed"}
      /\ pc' = "closing" => last = 0
      /\ pc' = "flushed" => last # 0
  BY Zenon DEF flush_save, flush_unlock, flush_rename_old, flush_rename, InFlush
<1>6. \A w \in BOOLEAN : Saved(w) \in Directory /\ Saved(w).head = head /\ Saved(w).whole = w
  BY <1>3 DEF Saved, Directory, CountersOK
<1>7. /\ target' \in Directory /\ old' \in Directory /\ tmp' \in Directory
      /\ target'.whole
      /\ target'.head \in {0, head, target.head}
      /\ pc' \in {"unlocked", "renamed"} => tmp'.head = head' /\ tmp'.whole
  <2>1. target.whole
    BY <1>3 DEF DirsOK, InFlush
  <2>2. CASE flush_save
    BY <1>3, <1>6, <2>1, <2>2, Zenon DEF flush_save, DirsOK
  <2>3. CASE flush_unlock
    BY <1>3, <1>6, <2>1, <2>3, Zenon DEF flush_unlock, DirsOK
  <2>4. CASE flush_rename_old
    BY <1>1, <1>3, <2>4 DEF flush_rename_old, DirsOK
  <2>5. CASE flush_rename
    BY <1>1, <1>3, <2>5 DEF flush_rename, DirsOK
  <2> QED BY <2>2, <2>3, <2>4, <2>5
<1>8. FilesOK'
  BY <1>3, <1>4 DEF FilesOK
<1>9. head \in Nat /\ target.head \in Nat /\ i \in Nat /\ next \in Nat /\ buffered \in Nat
  BY <1>3, StorageAssumption DEF CountersOK, DirsOK, Directory, FilesOK, FilesIn
<1>10. HasAll(blocks, index, head) /\ (buffered # 0 => head < buffered)
  <2>1. CASE ClosingOK
    BY <2>1 DEF ClosingOK
  <2>2. CASE ReplayOK
    <3>1. buffered = 0 /\ head = i - 1 /\ i \in 1..next /\ i < next
      BY <1>3, <2>2 DEF ReplayOK, InFlush
    <3>2. CASE loading \/ failed
      <4>1. HasAll(blocks, index, next - 1)
        BY <2>2, <3>2 DEF ReplayOK, LoadingOK
      <4>2. head \in Nat /\ next - 1 \in Nat /\ head <= next - 1
        BY <3>1, <1>9
      <4> QED BY <3>1, <4>1, <4>2, HasAllLess
    <3>3. CASE ~loading /\ ~failed
      <4>1. DroppedOK
        BY <2>2, <3>3 DEF ReplayOK
      <4> DEFINE l == Len(index)
      <4>2. HasAll(blocks, index, l) /\ i - 1 <= l /\ l \in Nat
        <5>1. l \in Nat
          BY <1>3, LenIsNat DEF FilesOK, FilesIn, EntriesOK
        <5>2. \A n \in 1..l : n # 0
          BY <5>1
        <5> QED BY <3>1, <4>1, <5>1, <5>2 DEF DroppedOK, HasAll
      <4> HIDE DEF l
      <4> QED BY <3>1, <4>2, <1>9, HasAllLess
    <3> QED BY <3>2, <3>3
  <2> QED BY <1>3, <2>1, <2>2
<1>11. HasAll(blocks', index', target'.head) /\ (buffered' # 0 => target'.head < buffered')
  BY <1>2, <1>3, <1>4, <1>7, <1>9, <1>10 DEF DirsOK
<1>12. DirsOK'
  BY <1>3, <1>4, <1>5, <1>7, <1>11 DEF DirsOK, InFlush
<1>13. CountersOK'
  BY <1>3, <1>4, <1>5 DEF CountersOK, InFlush
<1>14. PhaseOK'
  <2>1. CASE ClosingOK
    <3>1. last = 0 /\ ClosingOK'
      BY <1>4, <2>1 DEF ClosingOK, AtRest
    <3> QED BY <1>5, <3>1 DEF PhaseOK
  <2>2. CASE ReplayOK
    <3>1. last # 0 /\ pc # "replay" /\ i \in 1..next /\ head = i - 1 /\ target.head < i
      BY <1>3, <2>2 DEF ReplayOK, InFlush
    <3>2. target'.head < i
      BY <1>7, <1>9, <3>1
    <3>3. Loads' = Loads /\ undo_point' = undo_point
      BY <1>4 DEF Loads, undo_point
    <3>4. (LoadingOK => LoadingOK') /\ (DroppedOK => DroppedOK')
      BY <1>4, <3>3 DEF LoadingOK, DroppedOK
    <3>5. ReplayOK'
      BY <1>4, <2>2, <3>1, <3>2, <3>3, <3>4 DEF ReplayOK
    <3> QED BY <1>5, <3>1, <3>5 DEF PhaseOK
  <2> QED BY <1>3, <2>1, <2>2
<1> QED BY <1>8, <1>12, <1>13, <1>14 DEF StorageInv

-----------------------------------------------------------------------------
(* Steps of a running node, and its end                                    *)

LEMMA Numbers ==
    ASSUME StorageInv
    PROVE  /\ head \in Nat /\ undo \in Nat /\ undo <= head /\ target.head \in Nat /\ stored \in Nat
           /\ last \in Nat /\ next \in Nat /\ i \in Nat /\ buffered \in Nat /\ Len(index) \in Nat
           /\ MaxNum \in Nat /\ head <= MaxNum /\ last <= MaxNum
           /\ blocks \in Seq(Data) /\ EntriesOK(index)
BY StorageAssumption, LenIsNat
   DEF StorageInv, CountersOK, DirsOK, Directory, FilesOK, FilesIn, EntriesOK

\* The files with what is in the buffers.
LEMMA WriteOutFacts ==
    ASSUME StorageInv
    PROVE  /\ FilesIn(Written, Indexed, 0)
           /\ \A n \in Nat \ {0} : fetch_by_number(Written, Indexed, n)
                                   <=> fetch_by_number(blocks, index, n) \/ (n = buffered /\ buffered # 0)
           /\ Len(Indexed) = IF buffered = Len(index) + 1 THEN buffered ELSE Len(index)
           /\ \A h \in Nat : (\A n \in 1..h : n = buffered \/ fetch_by_number(blocks, index, n))
                             => HasAll(Written, Indexed, h)
           /\ \A h \in Nat : HasAll(blocks, index, h) => HasAll(Written, Indexed, h)
<1>1. FilesIn(blocks, index, buffered)
  BY DEF StorageInv, FilesOK
<1>2. Written = With(blocks, buffered) /\ Indexed = WithEntry(blocks, index, buffered)
  BY DEF Written, Indexed, With, WithEntry
<1>3. /\ FilesIn(Written, Indexed, 0)
      /\ \A n \in Nat \ {0} : fetch_by_number(Written, Indexed, n)
                              <=> fetch_by_number(blocks, index, n) \/ (n = buffered /\ buffered # 0)
      /\ Len(Indexed) = IF buffered = Len(index) + 1 THEN buffered ELSE Len(index)
  BY <1>1, <1>2, WrittenFiles
<1>4. ASSUME NEW h \in Nat, \A n \in 1..h : n = buffered \/ fetch_by_number(blocks, index, n),
             NEW n \in 1..h
      PROVE  fetch_by_number(Written, Indexed, n)
  <2>1. n \in Nat \ {0}
    OBVIOUS
  <2> QED BY <1>3, <1>4, <2>1
<1> QED BY <1>3, <1>4 DEF HasAll

\* What close() pops.
LEMMA Popped ==
    ASSUME NEW h \in Nat, NEW u \in Nat, u <= h, NEW c \in Nat, c <= h, h > 0 => c < h
    PROVE  LET t == IF h - c > u THEN h - u ELSE c
           IN  t \in Nat /\ t <= h /\ (u > 0 /\ h > 0 => t < h) /\ u - (h - t) \in 0..t
OBVIOUS

\* close() pops below every block that is still in the buffers.
LEMMA CloseKeeps == ASSUME StorageInv, close PROVE StorageInv'
<1> USE DEF files, dirs, replay
<1>1. pc = "running" /\ RunningOK /\ FilesOK /\ DirsOK /\ CountersOK
  BY DEF StorageInv, PhaseOK, close, Stopped, InFlush
<1>2. UNCHANGED <<blocks, index, buffered, failed, target, old, tmp, db_version, next, last, i, loading>>
      /\ pc' = "flush" /\ stored' = head
  BY DEF close
<1>3. head' \in Nat /\ head' <= head /\ undo' \in 0..head' /\ (undo > 0 /\ head > 0 => head' < head)
  <2>1. Lag \in Nat /\ Lag # 0
    BY StorageAssumption
  <2>2. head' = IF head - Cutoff > undo THEN head - undo ELSE Cutoff
    BY DEF close
  <2>3. undo' = undo - (head - head')
    BY DEF close
  <2>4. Cutoff = IF head > Lag THEN head - Lag ELSE 0
    BY DEF Cutoff
  <2>5. Cutoff \in Nat /\ Cutoff <= head /\ (head > 0 => Cutoff < head)
    BY <2>1, <2>4, Numbers, SMTT(40)
  <2>6. head' \in Nat /\ head' <= head /\ (undo > 0 /\ head > 0 => head' < head)
        /\ undo - (head - head') \in 0..head'
    BY <2>2, <2>5, Numbers, Popped, Zenon
  <2> QED BY <2>3, <2>6
<1>4. HasAll(blocks, index, head') /\ (buffered # 0 => head' < buffered)
  <2>1. CASE buffered = 0
    <3>1. \A n \in 1..head' : n \in 1..head /\ n # 0
      BY <1>3, Numbers, SMTT(40)
    <3> QED BY <1>1, <2>1, <3>1 DEF RunningOK, HasAll
  <2>2. CASE buffered # 0
    <3>1. buffered = head /\ undo > 0
      BY <1>1, <2>2 DEF RunningOK, CountersOK
    <3>2. head' < head
      BY <1>3, <2>2, <3>1, Numbers
    <3>3. \A n \in 1..head' : n \in 1..head /\ n # head
      BY <1>3, <3>2, Numbers, SMTT(40)
    <3> QED BY <1>1, <3>1, <3>2, <3>3 DEF RunningOK, HasAll
  <2> QED BY <2>1, <2>2
<1>5. FilesOK' /\ DirsOK'
  BY <1>1, <1>2 DEF FilesOK, DirsOK
<1>6. CountersOK'
  <2>1. head' \in 0..MaxNum
    BY <1>3, Numbers
  <2> QED BY <1>1, <1>2, <1>3, <2>1, Numbers DEF CountersOK
<1>7. ClosingOK'
  BY <1>1, <1>2, <1>4 DEF ClosingOK, RunningOK, AtRest
<1> QED BY <1>2, <1>5, <1>6, <1>7 DEF StorageInv, PhaseOK, InFlush

LEMMA BlockDatabaseCloseKeeps == ASSUME StorageInv, block_database_close PROVE StorageInv'
<1> USE DEF files, dirs, replay
<1>1. pc = "closing" /\ ClosingOK /\ FilesOK /\ DirsOK /\ CountersOK
  BY DEF StorageInv, PhaseOK, block_database_close, Stopped, InFlush
<1>2. /\ blocks' = Written /\ index' = Indexed /\ buffered' = 0 /\ failed' = FALSE
      /\ pc' = "down" /\ head' = 0 /\ undo' = 0
      /\ UNCHANGED <<target, old, tmp, db_version, next, last, i, loading, stored>>
  BY DEF block_database_close, WriteOut
<1>3. FilesOK'
  BY <1>2, WriteOutFacts, Zenon DEF FilesOK
<1>4. HasAll(Written, Indexed, target.head) /\ HasAll(Written, Indexed, stored)
  BY <1>1, Numbers, WriteOutFacts, SMTT(40) DEF DirsOK, ClosingOK
<1>5. DirsOK'
  BY <1>1, <1>2, <1>4 DEF DirsOK
<1>6. CountersOK'
  <2>1. 0 \in 0..MaxNum /\ 0 \in 0..0
    BY Numbers
  <2> QED BY <1>1, <1>2, <2>1 DEF CountersOK
<1>7. StoppedOK'
  BY <1>1, <1>2, <1>4 DEF StoppedOK, ClosingOK, AtRest
<1> QED BY <1>2, <1>3, <1>5, <1>6, <1>7 DEF StorageInv, PhaseOK, Stopped

\* A running node has its chain in the log once the buffers are written out.
LEMMA RunningLog ==
    ASSUME StorageInv, pc = "running"
    PROVE  /\ RunningOK
           /\ HasAll(Written, Indexed, head)
           /\ ~failed => Len(Indexed) = head
<1>1. RunningOK /\ FilesOK
  BY DEF StorageInv, PhaseOK, Stopped, InFlush
<1>2. HasAll(Written, Indexed, head)
  BY <1>1, Numbers, WriteOutFacts DEF RunningOK
<1>3. ASSUME ~failed PROVE Len(Indexed) = head
  <2>1. Len(Indexed) <= head
    BY <1>1, <1>3, Numbers, WriteOutFacts DEF RunningOK
  <2>2. head <= Len(Indexed) /\ Len(Indexed) \in Nat
    BY <1>2, Numbers, WriteOutFacts, HasAllBound, LenIsNat, Zenon DEF FilesIn, EntriesOK
  <2> QED BY <2>1, <2>2, Numbers
<1> QED BY <1>1, <1>2, <1>3

LEMMA LookupKeeps == ASSUME StorageInv, Lookup PROVE StorageInv'
<1> USE DEF files, dirs, replay
<1>1. pc = "running" /\ FilesOK /\ DirsOK /\ CountersOK
  BY DEF StorageInv, Lookup
<1>2. /\ blocks' = Written /\ index' = Indexed /\ buffered' = 0
      /\ UNCHANGED <<failed, target, old, tmp, db_version, pc, head, undo, next, last, i, loading, stored>>
  BY DEF Lookup, WriteOut
<1>3. FilesOK'
  BY <1>1, <1>2, WriteOutFacts DEF FilesOK
<1>4. DirsOK'
  <2>1. HasAll(Written, Indexed, target.head)
    BY <1>1, Numbers, WriteOutFacts, SMTT(40) DEF DirsOK
  <2> QED BY <1>1, <1>2, <2>1 DEF DirsOK
<1>5. CountersOK'
  BY <1>1, <1>2 DEF CountersOK
<1>6. RunningOK'
  <2>1. RunningOK /\ HasAll(Written, Indexed, head) /\ (~failed => Len(Indexed) <= head)
    BY <1>1, RunningLog, Numbers
  <2> QED BY <1>2, <2>1 DEF RunningOK, HasAll, AtRest
<1> QED BY <1>1, <1>2, <1>3, <1>4, <1>5, <1>6 DEF StorageInv, PhaseOK

LEMMA PushBlockKeeps == ASSUME StorageInv, push_block PROVE StorageInv'
<1> USE DEF files, dirs, replay
<1>1. pc = "running" /\ ~failed /\ FilesOK /\ DirsOK /\ CountersOK
  BY DEF StorageInv, push_block, store
<1>2. /\ blocks' = Written /\ index' = Indexed /\ buffered' = head + 1 /\ head' = head + 1
      /\ undo' = undo + 1 /\ head < MaxNum
      /\ UNCHANGED <<failed, target, old, tmp, db_version, pc, next, last, i, loading, stored>>
  BY DEF push_block, store
<1>3. RunningOK /\ HasAll(Written, Indexed, head) /\ Len(Indexed) = head
  BY <1>1, RunningLog
<1>4. Written \in Seq(Data) /\ EntriesOK(Indexed)
  BY WriteOutFacts DEF FilesIn
<1>5. head + 1 \in 0..MaxNum /\ head + 1 <= Len(Indexed) + 1 /\ head + 1 # 0
  BY <1>2, <1>3, Numbers, SMTT(40)
<1>6. FilesOK'
  <2>1. FilesIn(Written, Indexed, head + 1)
    BY <1>3, <1>4, <1>5, FullLog
  <2> QED BY <1>1, <1>2, <2>1 DEF FilesOK
<1>7. target.head <= head
  <2>1. HasAll(Written, Indexed, target.head)
    BY <1>1, Numbers, WriteOutFacts DEF DirsOK
  <2> QED BY <1>3, <1>4, <2>1, Numbers, HasAllBound
<1>8. DirsOK'
  <2>1. HasAll(Written, Indexed, target.head) /\ target.head < head + 1
    BY <1>1, <1>7, Numbers, WriteOutFacts, SMTT(40) DEF DirsOK
  <2> QED BY <1>1, <1>2, <2>1 DEF DirsOK
<1>9. CountersOK'
  <2>1. undo' \in 0..head' /\ undo' > 0 /\ head' \in 0..MaxNum
    BY <1>2, <1>5, Numbers, SMTT(40)
  <2> QED BY <1>1, <1>2, <2>1 DEF CountersOK
<1>10. RunningOK'
  <2>1. ASSUME NEW n \in 1..(head + 1) PROVE n = head + 1 \/ fetch_by_number(Written, Indexed, n)
    <3>1. n # head + 1 => n \in 1..head
      BY Numbers, SMTT(40)
    <3> QED BY <1>3, <3>1 DEF HasAll
  <2>2. Len(Indexed) <= head + 1 /\ stored <= head + 1
    BY <1>3, Numbers DEF RunningOK
  <2> QED BY <1>2, <1>3, <2>1, <2>2 DEF RunningOK, AtRest
<1> QED BY <1>1, <1>2, <1>6, <1>8, <1>9, <1>10 DEF StorageInv, PhaseOK

-----------------------------------------------------------------------------
(* The process dies, and data is damaged                                   *)

\* What is sure to come back can be read without the buffers.
LEMMA SurelyThere ==
    ASSUME StorageInv
    PROVE  Surely \in Nat /\ HasAll(blocks, index, Surely) /\ (buffered # 0 => Surely < buffered)
<1> DEFINE applied == pc = "running" \/ (last # 0 /\ ~loading /\ ~failed)
           known == IF applied THEN head ELSE stored
<1>1. Surely = IF buffered # 0 /\ buffered <= known THEN buffered - 1 ELSE known
  BY DEF Surely
<1>2. known \in Nat
  BY Numbers
<1>3. ASSUME \A n \in 1..known : n = buffered \/ fetch_by_number(blocks, index, n)
      PROVE  Surely \in Nat /\ HasAll(blocks, index, Surely) /\ (buffered # 0 => Surely < buffered)
  <2> HIDE DEF known
  <2>1. Surely \in Nat /\ (buffered # 0 => Surely < buffered)
    BY <1>1, <1>2, Numbers, SMTT(40)
  <2>2. \A n \in 1..Surely : n \in 1..known /\ n # buffered
    BY <1>1, <1>2, Numbers, SMTT(40)
  <2> QED BY <1>3, <2>1, <2>2 DEF HasAll
<1>4. CASE pc \in Stopped /\ StoppedOK
  <2>1. known = stored
    BY <1>4 DEF StoppedOK, AtRest, Stopped
  <2> QED BY <1>3, <1>4, <2>1 DEF StoppedOK, HasAll
<1>5. CASE pc = "running" /\ RunningOK
  BY <1>3, <1>5 DEF RunningOK
<1>6. CASE pc \in InFlush \cup {"closing"} /\ ClosingOK
  <2>1. known = stored
    BY <1>6 DEF ClosingOK, AtRest, InFlush
  <2> QED BY <1>3, <1>6, <2>1 DEF ClosingOK
<1>7. CASE pc \in InFlush \cup {"replay", "flushed"} /\ ReplayOK
  <2>1. pc # "running" /\ last # 0
    BY <1>7 DEF ReplayOK, InFlush
  <2>2. CASE loading
    <3>1. known = stored
      BY <2>1, <2>2
    <3> QED BY <1>3, <1>7, <2>2, <3>1 DEF ReplayOK, LoadingOK, HasAll
  <2>3. CASE ~loading /\ failed
    <3>1. known = stored
      BY <2>1, <2>3
    <3>2. HasAll(blocks, index, next - 1) /\ stored < next
      BY <1>7, <2>3 DEF ReplayOK
    <3>3. \A n \in 1..stored : n \in 1..(next - 1)
      BY <3>2, Numbers
    <3> QED BY <1>3, <3>1, <3>2, <3>3 DEF HasAll
  <2>4. CASE ~loading /\ ~failed
    <3>1. known = head
      BY <2>1, <2>4
    <3>2. DroppedOK /\ head = i - 1 /\ buffered \in {0, i - 1}
      BY <1>7, <2>4 DEF ReplayOK
    <3>3. ASSUME NEW n \in 1..head, n # buffered PROVE n \in 1..Len(index)
      <4>1. (buffered = 0 => i - 1 <= Len(index)) /\ (buffered # 0 => i - 2 <= Len(index))
        BY <3>2 DEF DroppedOK
      <4> QED BY <3>2, <3>3, <4>1, Numbers, SMTT(40)
    <3> QED BY <1>3, <3>1, <3>2, <3>3 DEF DroppedOK
  <2> QED BY <2>2, <2>3, <2>4
<1> QED BY <1>4, <1>5, <1>6, <1>7 DEF StorageInv, PhaseOK

LEMMA CrashKeeps == ASSUME StorageInv, Crash PROVE StorageInv'
<1> USE DEF dirs
<1>1. FilesOK /\ DirsOK /\ CountersOK
  BY DEF StorageInv
<1>2. /\ blocks' \in {blocks, Written} \cup (IF buffered = 0 THEN {} ELSE {Append(blocks, Torn)})
      /\ index' \in {index, Indexed} /\ buffered' = 0 /\ failed' = FALSE /\ stored' = Surely
      /\ pc' = "down" /\ head' = 0 /\ undo' = 0
      /\ next' = 0 /\ last' = 0 /\ i' = 0 /\ loading' = FALSE
      /\ UNCHANGED <<target, old, tmp, db_version>>
  BY DEF Crash, Ended
<1>3. Surely \in Nat /\ HasAll(blocks, index, Surely) /\ (buffered # 0 => Surely < buffered)
  BY SurelyThere
<1>4. /\ FilesIn(blocks', index', 0)
      /\ HasAll(blocks', index', target.head) /\ HasAll(blocks', index', Surely)
  <2>1. CASE buffered = 0
    <3>1. blocks' = blocks /\ index' = index
      BY <1>2, <2>1 DEF Written, Indexed
    <3> QED BY <1>1, <1>3, <2>1, <3>1 DEF FilesOK, DirsOK
  <2>2. CASE buffered # 0
    <3>1. PICK v \in {buffered, Torn} : blocks' \in {blocks, Append(blocks, v)}
      BY <1>2, <2>2 DEF Written
    <3>2. index' \in {index, Put(index, buffered, index_entry(Len(blocks) + 1, buffered))}
      BY <1>2, <2>2 DEF Indexed
    <3>3. FilesIn(blocks, index, buffered)
      BY <1>1 DEF FilesOK
    <3>4. /\ FilesIn(blocks', index', 0)
          /\ \A h \in Nat : HasAll(blocks, index, h) /\ h < buffered => HasAll(blocks', index', h)
      BY <2>2, <3>1, <3>2, <3>3, CrashedFiles, ZenonT(60)
    <3>5. HasAll(blocks, index, target.head) /\ target.head < buffered
      BY <1>1, <2>2 DEF DirsOK
    <3> QED BY <1>3, <2>2, <3>4, <3>5, Numbers, SMTT(40)
  <2> QED BY <2>1, <2>2
<1>5. FilesOK'
  BY <1>2, <1>4, Zenon DEF FilesOK
<1>6. DirsOK'
  BY <1>1, <1>2, <1>4 DEF DirsOK
<1>7. CountersOK'
  <2>1. 0 \in 0..MaxNum /\ 0 \in 0..0
    BY Numbers
  <2> QED BY <1>2, <1>3, <2>1, Zenon DEF CountersOK
<1>8. StoppedOK'
  BY <1>2, <1>4 DEF StoppedOK, AtRest
<1> QED BY <1>2, <1>5, <1>6, <1>7, <1>8 DEF StorageInv, PhaseOK, Stopped

\* Damage takes away one block and changes nothing about the others.
LEMMA DamagedFacts ==
    ASSUME NEW b \in Seq(Data), NEW x, EntriesOK(x), NEW n \in Nat, fetch_by_number(b, x, n)
    PROVE  LET c == [b EXCEPT ![x[n].block_pos] = Garbled]
           IN  /\ c \in Seq(Data)
               /\ \A k \in Nat : fetch_by_number(c, x, k) <=> k # n /\ fetch_by_number(b, x, k)
               /\ \A k \in 1..Len(x) : ReadsPastEnd(b, x, k) => ReadsPastEnd(c, x, k)
<1> DEFINE p == x[n].block_pos
           c == [b EXCEPT ![p] = Garbled]
           l == Len(b)
<1>1. n \in 1..Len(x) /\ p \in 1..l /\ b[p] = n
  BY FetchIff
<1>2. l \in Nat /\ b \in [1..l -> Data] /\ Len(x) \in Nat
  BY LenIsNat DEF EntriesOK
<1>3. c \in [1..l -> Data] /\ \A q \in 1..l : c[q] = IF q = p THEN Garbled ELSE b[q]
  <2> HIDE DEF p, l
  <2>1. Garbled \in Data
    BY DEF Data
  <2> QED BY <1>1, <1>2, <2>1
<1> HIDE DEF c, l
<1>4. c \in Seq(Data) /\ Len(c) = l
  BY <1>2, <1>3
<1>5. ASSUME NEW k \in Nat
      PROVE  fetch_by_number(c, x, k) <=> k # n /\ fetch_by_number(b, x, k)
  <2> DEFINE q == x[k].block_pos
  <2>1. fetch_by_number(c, x, k) <=> k \in 1..Len(x) /\ q \in 1..l /\ c[q] = k
    BY <1>4, FetchIff
  <2>2. fetch_by_number(b, x, k) <=> k \in 1..Len(x) /\ q \in 1..l /\ b[q] = k
    BY FetchIff DEF l
  <2>3. Garbled # k
    BY DEF Garbled
  <2>4. k = n => q = p
    OBVIOUS
  <2> HIDE DEF p, q
  <2> QED BY <1>1, <1>3, <2>1, <2>2, <2>3, <2>4
<1>6. ASSUME NEW k \in 1..Len(x), ReadsPastEnd(b, x, k) PROVE ReadsPastEnd(c, x, k)
  <2> DEFINE q == x[k].block_pos
  <2>1. ~(q < l \/ (q = l /\ b[l] # Torn))
    BY <1>6, PastEndIff DEF l
  <2>2. ReadsPastEnd(c, x, k) <=> ~(q < l \/ (q = l /\ c[l] # Torn))
    BY <1>4, PastEndIff
  <2>3. q \in Nat /\ q # 0
    BY EntryFacts
  <2>4. n # Torn
    BY <1>1 DEF Torn
  <2> HIDE DEF p, q
  <2>5. q = l => l \in 1..l /\ b[l] = Torn /\ l # p
    BY <1>1, <1>2, <2>1, <2>3, <2>4
  <2> QED BY <1>3, <2>1, <2>2, <2>5, Zenon
<1> QED BY <1>4, <1>5, <1>6, Zenon DEF c

\* Damage reaches only so far back that the replay stores again what it drops.
LEMMA DamageKeeps == ASSUME StorageInv, NEW d \in Num, Damage(d) PROVE StorageInv'
<1> USE DEF dirs, replay
<1>1. pc = "down" /\ StoppedOK /\ FilesOK /\ DirsOK /\ CountersOK
  BY DEF StorageInv, PhaseOK, Damage, Stopped, InFlush
<1>2. /\ blocks' = [blocks EXCEPT ![index[d].block_pos] = Garbled]
      /\ stored' = (IF d <= stored THEN d - 1 ELSE stored) /\ d > target.head
      /\ fetch_by_number(blocks, index, d) /\ d > Len(index) - DamageDepth
      /\ UNCHANGED <<index, buffered, failed, target, old, tmp, db_version, pc, head, undo, next, last, i, loading>>
  BY DEF Damage
<1>3. buffered = 0 /\ GapsMet(blocks, index) /\ 0 \in 0..MaxNum /\ d \in Nat /\ d # 0
  BY <1>1, Numbers DEF StoppedOK, FilesOK, FilesIn, Num
<1>4. /\ blocks' \in Seq(Data)
      /\ \A k \in Nat : fetch_by_number(blocks', index, k) <=> k # d /\ fetch_by_number(blocks, index, k)
      /\ \A k \in 1..Len(index) : ReadsPastEnd(blocks, index, k) => ReadsPastEnd(blocks', index, k)
  BY <1>2, <1>3, Numbers, DamagedFacts, Zenon
<1>5. ASSUME NEW n \in 1..Len(index), NEW k \in 1..Len(index), Gap(blocks', index, k, n)
      PROVE  ReadsPastEnd(blocks', index, k) \/ Deep(k, n)
  <2>1. k \in Nat /\ n \in Nat /\ n <= Len(index)
    BY Numbers
  <2>2. k < n /\ fetch_by_number(blocks, index, n) /\ (k = d \/ ~fetch_by_number(blocks, index, k))
    BY <1>4, <1>5, <2>1 DEF Gap
  <2>3. CASE k = d
    <3>1. DamageDepth \in Nat /\ QueueSize \in Nat /\ MaxUndoHistory \in Nat
          /\ DamageDepth + QueueSize <= MaxUndoHistory + 3
      BY StorageAssumption
    <3>2. k > Len(index) - DamageDepth
      BY <1>2, <2>3
    <3>3. k + MaxUndoHistory + 2 >= n + QueueSize
      BY <2>1, <3>1, <3>2, Numbers
    <3> QED BY <3>3 DEF Deep
  <2>4. CASE ~fetch_by_number(blocks, index, k)
    <3>1. ReadsPastEnd(blocks, index, k) \/ Deep(k, n)
      BY <1>3, <2>2, <2>4 DEF GapsMet, Gap
    <3> QED BY <1>4, <3>1
  <2> QED BY <2>2, <2>3, <2>4
<1>6. FilesOK'
  <2>1. FilesIn(blocks', index, 0)
    BY <1>3, <1>4, <1>5, Numbers DEF FilesIn, GapsMet
  <2> QED BY <1>1, <1>2, <1>3, <2>1 DEF FilesOK
<1>7. ASSUME NEW h \in Nat, HasAll(blocks, index, h), h < d PROVE HasAll(blocks', index, h)
  <2>1. \A k \in 1..h : k \in Nat /\ k # d
    BY <1>3, <1>7
  <2> QED BY <1>4, <1>7, <2>1 DEF HasAll
<1>8. DirsOK'
  <2>1. HasAll(blocks', index, target.head)
    BY <1>1, <1>2, <1>3, <1>7, Numbers, Zenon DEF DirsOK
  <2> QED BY <1>1, <1>2, <2>1 DEF DirsOK
<1>9. stored' \in Nat /\ stored' <= stored /\ stored' < d
  BY <1>2, <1>3, Numbers, SMTT(40)
<1>10. CountersOK'
  BY <1>1, <1>2, <1>9 DEF CountersOK
<1>11. StoppedOK'
  <2>1. HasAll(blocks, index, stored')
    BY <1>1, <1>9, Numbers, HasAllLess DEF StoppedOK
  <2>2. HasAll(blocks', index, stored')
    BY <1>7, <1>9, <2>1
  <2> QED BY <1>1, <1>2, <2>2 DEF StoppedOK, AtRest
<1> QED BY <1>1, <1>2, <1>6, <1>8, <1>10, <1>11 DEF StorageInv, PhaseOK, Stopped

-----------------------------------------------------------------------------
(* The replay                                                              *)

\* What the replay reads and counts with.
LEMMA ReplayFacts ==
    ASSUME StorageInv, pc \in {"replay", "flushed"}
    PROVE  /\ ReplayOK /\ FilesOK /\ DirsOK /\ CountersOK
           /\ i # 0 /\ i <= next /\ next <= last + 1
           /\ (buffered = 0 \/ buffered = i - 1)
           /\ QueueSize \in Nat /\ QueueSize # 0 /\ MaxUndoHistory \in Nat
           /\ undo_point = (IF last < MaxUndoHistory THEN 0 ELSE last - MaxUndoHistory)
           /\ undo_point \in Nat
<1>1. ReplayOK
  BY DEF StorageInv, PhaseOK, Stopped, InFlush
<1>2. QueueSize \in Nat /\ QueueSize # 0 /\ MaxUndoHistory \in Nat
  BY StorageAssumption
<1>3. undo_point = IF last < MaxUndoHistory THEN 0 ELSE last - MaxUndoHistory
  BY DEF undo_point
<1>4. undo_point \in Nat
  BY <1>2, <1>3, Numbers
<1>5. i \in 1..next /\ next <= last + 1 /\ (buffered = 0 \/ buffered = i - 1)
  BY <1>1 DEF ReplayOK
<1> QED BY <1>1, <1>2, <1>3, <1>4, <1>5, Numbers DEF StorageInv

LEMMA ReplayCounters ==
    ASSUME StorageInv
    PROVE  head \in Nat /\ undo \in Nat /\ undo <= head /\ last \in Nat /\ next \in Nat /\ i \in Nat
           /\ MaxNum \in Nat /\ last <= MaxNum
BY Numbers, Zenon

\* While it loads, the buffers hold a block that was in the log before.
LEMMA LoadingLog ==
    ASSUME StorageInv, pc \in {"replay", "flushed"}, loading
    PROVE  /\ FilesIn(Written, Indexed, 0) /\ Len(Indexed) = last /\ ~failed
           /\ fetch_by_number(Written, Indexed, last)
           /\ HasAll(Written, Indexed, next - 1) /\ HasAll(Written, Indexed, stored)
<1>1. LoadingOK /\ last # 0
  BY ReplayFacts DEF ReplayOK
<1>2. next - 1 \in Nat
  BY Numbers, ReplayFacts, SMTT(40)
<1>3. buffered # Len(index) + 1
  BY <1>1, Numbers, ReplayFacts, SMTT(40) DEF LoadingOK
<1>4. Len(Indexed) = last
  BY <1>1, <1>3, WriteOutFacts DEF LoadingOK
<1>5. fetch_by_number(Written, Indexed, last)
  <2>1. last \in Nat \ {0}
    BY <1>1, Numbers
  <2> QED BY <1>1, <2>1, WriteOutFacts DEF LoadingOK
<1> QED BY <1>1, <1>2, <1>4, <1>5, Numbers, WriteOutFacts DEF LoadingOK

LEMMA OpenBlocksKeeps == ASSUME StorageInv, open_blocks PROVE StorageInv'
<1> USE DEF dirs, replay
<1>1. pc = "opened" /\ StoppedOK /\ FilesOK /\ DirsOK /\ CountersOK
  BY DEF StorageInv, PhaseOK, open_blocks, Stopped, InFlush
<1> DEFINE r == last_index_entry(blocks, index)
<1>2. /\ index' = SubSeq(index, 1, r)
      /\ IF r > head
         THEN /\ pc' = "replay"
              /\ last' = r /\ next' = head + 1 /\ i' = head + 1 /\ loading' = TRUE
         ELSE /\ pc' = "running"
              /\ UNCHANGED <<next, last, i, loading>>
      /\ UNCHANGED <<blocks, buffered, failed, target, old, tmp, db_version, head, undo, stored>>
  BY Zenon DEF open_blocks
<1>3. /\ buffered = 0 /\ ~failed /\ undo = 0 /\ head = target.head /\ AtRest
      /\ HasAll(blocks, index, head) /\ HasAll(blocks, index, stored)
  BY <1>1 DEF StoppedOK, DirsOK
<1>4. /\ r \in 0..Len(index)
      /\ r # 0 => fetch_by_number(blocks, index, r)
      /\ \A n \in Nat : fetch_by_number(blocks, index, n) => n <= r
  BY Numbers, LastEntry, SMTT(40)
<1> HIDE DEF r
<1>5. r \in Nat /\ r <= MaxNum
  <2>1. ASSUME r # 0 PROVE r <= MaxNum
    <3>1. r \in Nat
      BY <1>4, Numbers
    <3>2. index[r].block_pos \in 1..Len(blocks) /\ blocks[index[r].block_pos] = r
      BY <1>4, <2>1, <3>1, Numbers, FetchIff
    <3>3. r \in Data
      BY <3>2, Numbers, SMTT(40)
    <3> QED BY <2>1, <3>1, <3>3 DEF Data, Num, Torn, Garbled
  <2> QED BY <1>4, <2>1, Numbers
<1>6. ASSUME NEW h \in Nat, HasAll(blocks, index, h) PROVE h <= r /\ HasAll(blocks, index', h)
  <2>1. h <= r
    <3>1. h # 0 => h \in 1..h
      OBVIOUS
    <3>2. h # 0 => fetch_by_number(blocks, index, h)
      BY <1>6, <3>1 DEF HasAll
    <3> QED BY <1>4, <1>5, <3>2
  <2>2. \A n \in Nat : fetch_by_number(blocks, index', n) <=> n <= r /\ fetch_by_number(blocks, index, n)
    BY <1>2, <1>4, Numbers, CutFacts, SMTT(40)
  <2>3. \A n \in 1..h : n \in Nat /\ n <= r
    BY <1>5, <2>1
  <2> QED BY <1>6, <2>1, <2>2, <2>3 DEF HasAll
<1>7. Len(index') = r /\ (r # 0 => fetch_by_number(blocks, index', r))
  BY <1>2, <1>4, <1>5, Numbers, CutFacts
<1>8. FilesOK'
  <2>1. FilesIn(blocks, index', 0)
    BY <1>1, <1>2, <1>3, <1>4, CutFiles DEF FilesOK
  <2> QED BY <1>1, <1>2, <1>3, <2>1 DEF FilesOK
<1>9. DirsOK'
  <2>1. HasAll(blocks, index', target.head)
    BY <1>3, <1>6, Numbers
  <2>2. pc' \in {"replay", "running"}
    BY <1>2
  <2> QED BY <1>1, <1>2, <1>3, <2>1, <2>2 DEF DirsOK
<1>10. HasAll(blocks, index', head) /\ head <= r /\ HasAll(blocks, index', stored) /\ stored <= r
  BY <1>3, <1>6, Numbers
<1>11. CASE r > head
  <2>1. CountersOK'
    <3>1. r \in 0..MaxNum /\ head + 1 \in Nat
      BY <1>5, Numbers
    <3>2. last' \in 0..MaxNum /\ next' \in Nat /\ i' \in Nat /\ loading' \in BOOLEAN
      BY <1>2, <1>11, <3>1
    <3> QED BY <1>1, <1>2, <1>3, <3>2 DEF CountersOK
  <2>2. LoadingOK'
    <3>1. r # 0 /\ (head + 1) - 1 = head
      BY <1>5, <1>11, Numbers, SMTT(40)
    <3> QED BY <1>2, <1>3, <1>7, <1>10, <1>11, <3>1, Zenon DEF LoadingOK
  <2>3. ReplayOK'
    <3>1. /\ r # 0 /\ head + 1 \in 1..(head + 1) /\ head + 1 <= r + 1 /\ head = (head + 1) - 1
          /\ target.head < head + 1
      BY <1>3, <1>5, <1>10, <1>11, Numbers, SMTT(40)
    <3> QED BY <1>2, <1>3, <1>11, <2>2, <3>1 DEF ReplayOK
  <2> QED BY <1>2, <1>8, <1>9, <1>11, <2>1, <2>3 DEF StorageInv, PhaseOK
<1>12. CASE ~(r > head)
  <2>1. CountersOK'
    BY <1>1, <1>2, <1>3, <1>12, Numbers, SMTT(40) DEF CountersOK
  <2>2. r = head
    BY <1>5, <1>10, <1>12, Numbers
  <2>3. RunningOK'
    BY <1>2, <1>3, <1>7, <1>10, <1>12, <2>2, Numbers DEF RunningOK, AtRest, HasAll
  <2> QED BY <1>2, <1>8, <1>9, <1>12, <2>1, <2>3, Zenon DEF StorageInv, PhaseOK
<1> QED BY <1>11, <1>12

LEMMA LoadBlockKeeps == ASSUME StorageInv, load_block PROVE StorageInv'
<1> USE DEF files, dirs, replay
<1>1. pc = "replay" /\ Loads /\ loading /\ next <= last /\ fetch_by_number(Written, Indexed, next)
  BY DEF load_block, Loads
<1>2. /\ blocks' = Written /\ index' = Indexed /\ buffered' = 0 /\ next' = next + 1
      /\ UNCHANGED <<failed, target, old, tmp, db_version, pc, head, undo, last, i, loading, stored>>
  BY DEF load_block, WriteOut
<1>3. ReplayOK /\ FilesOK /\ DirsOK /\ CountersOK
  BY <1>1, ReplayFacts
<1>4. /\ FilesIn(Written, Indexed, 0) /\ Len(Indexed) = last /\ ~failed
      /\ fetch_by_number(Written, Indexed, last)
      /\ HasAll(Written, Indexed, next - 1) /\ HasAll(Written, Indexed, stored)
  BY <1>1, LoadingLog
<1>5. HasAll(Written, Indexed, (next + 1) - 1)
  <2>1. \A n \in 1..((next + 1) - 1) : n = next \/ n \in 1..(next - 1)
    BY Numbers, SMTT(40)
  <2> QED BY <1>1, <1>4, <2>1 DEF HasAll
<1>6. FilesOK'
  BY <1>2, <1>3, <1>4 DEF FilesOK
<1>7. DirsOK'
  <2>1. HasAll(Written, Indexed, target.head)
    BY <1>3, Numbers, WriteOutFacts, SMTT(40) DEF DirsOK
  <2> QED BY <1>2, <1>3, <2>1 DEF DirsOK
<1>8. CountersOK'
  BY <1>2, <1>3, Numbers DEF CountersOK
<1>9. ReplayOK'
  <2>1. LoadingOK'
    BY <1>2, <1>4, <1>5 DEF LoadingOK
  <2>2. i \in 1..(next + 1) /\ next + 1 <= last + 1
    BY <1>1, Numbers, ReplayFacts, SMTT(40)
  <2> QED BY <1>1, <1>2, <1>3, <2>1, <2>2 DEF ReplayOK
<1> QED BY <1>1, <1>2, <1>6, <1>7, <1>8, <1>9 DEF StorageInv, PhaseOK

\* What the replay drops behind a gap it has in its queue or does not come to.
LEMMA LoadGapKeeps == ASSUME StorageInv, load_gap PROVE StorageInv'
<1> USE DEF files, dirs, replay
<1>1. /\ pc = "replay" /\ loading /\ next <= last /\ next - i < QueueSize
      /\ ~fetch_by_number(Written, Indexed, next)
  BY DEF load_gap, Loads
<1>2. /\ blocks' = Written /\ buffered' = 0 /\ loading' = FALSE
      /\ failed' = ReadsPastEnd(Written, Indexed, next)
      /\ index' = (IF failed' THEN Indexed ELSE DroppedAfter(Written, Indexed, i))
      /\ UNCHANGED <<target, old, tmp, db_version, pc, head, undo, next, last, i, stored>>
  BY DEF load_gap
<1>3. ReplayOK /\ FilesOK /\ DirsOK /\ CountersOK
  BY <1>1, ReplayFacts
<1>4. /\ FilesIn(Written, Indexed, 0) /\ Len(Indexed) = last
      /\ fetch_by_number(Written, Indexed, last)
      /\ HasAll(Written, Indexed, next - 1) /\ HasAll(Written, Indexed, stored)
  BY <1>1, LoadingLog
<1>5. Written \in Seq(Data) /\ EntriesOK(Indexed) /\ GapsMet(Written, Indexed) /\ 0 \in 0..MaxNum
  BY <1>4 DEF FilesIn
<1>6. /\ i # 0 /\ i <= next /\ next <= last + 1 /\ QueueSize \in Nat /\ MaxUndoHistory \in Nat
      /\ undo_point = (IF last < MaxUndoHistory THEN 0 ELSE last - MaxUndoHistory)
  BY <1>1, ReplayFacts
<1>7. stored < next
  <2>1. ASSUME next <= stored PROVE FALSE
    <3>1. next \in 1..stored
      BY <1>6, <2>1, Numbers
    <3> QED BY <1>1, <1>4, <3>1 DEF HasAll
  <2> QED BY <2>1, Numbers
<1>8. failed' \in BOOLEAN
  BY <1>2 DEF ReadsPastEnd
<1>9. CountersOK'
  BY <1>2, <1>3, Zenon DEF CountersOK
<1>10. HasAll(Written, Indexed, target.head) /\ target.head < i
  BY <1>3, Numbers, WriteOutFacts, SMTT(40) DEF DirsOK, ReplayOK
<1>11. CASE failed'
  <2>1. index' = Indexed
    BY <1>2, <1>11
  <2>2. FilesOK'
    BY <1>2, <1>4, <1>8, <2>1, Zenon DEF FilesOK
  <2>3. DirsOK'
    BY <1>2, <1>3, <1>10, <2>1, Zenon DEF DirsOK
  <2>4. ReplayOK'
    BY <1>1, <1>2, <1>3, <1>4, <1>7, <1>11, <2>1, Zenon DEF ReplayOK
  <2> QED BY <1>1, <1>2, <1>9, <2>2, <2>3, <2>4 DEF StorageInv, PhaseOK
<1>12. CASE ~failed'
  <2> DEFINE y == DroppedAfter(Written, Indexed, i)
  <2>1. index' = y
    BY <1>2, <1>12
  <2>2. i \in Nat \ {0} /\ i - 1 \in Nat /\ next - 1 \in Nat /\ i - 1 <= next - 1
    BY <1>6, Numbers, SMTT(60)
  <2>3. HasAll(Written, Indexed, i - 1)
    BY <1>4, <2>2, HasAllLess
  <2>4. /\ EntriesOK(y)
        /\ Len(y) = IF fetch_by_number(Written, Indexed, i) THEN i ELSE i - 1
        /\ HasAll(Written, y, Len(y))
    BY <1>5, <2>2, <2>3, DroppedFacts
  <2> HIDE DEF y
  <2>5. i < next => fetch_by_number(Written, Indexed, i)
    <3>1. i < next => i \in 1..(next - 1)
      BY <2>2, Numbers, SMTT(40)
    <3> QED BY <1>4, <3>1 DEF HasAll
  <2>6. i = next => ~fetch_by_number(Written, Indexed, i)
    BY <1>1
  <2>7. Len(y) \in Nat /\ Len(y) <= i /\ Len(y) < next /\ i - 1 <= Len(y) /\ (i < next => i <= Len(y))
    <3>1. Len(y) = i \/ (Len(y) = i - 1 /\ i = next)
      <4>1. i < next \/ i = next
        BY <1>6, ReplayCounters
      <4> QED BY <2>4, <2>5, <2>6, <4>1
    <3>2. i = next => Len(y) = i - 1
      BY <2>4, <2>6
    <3> HIDE <2>4, <2>5, <2>6
    <3> QED BY <1>6, <3>1, <3>2, ReplayCounters
  <2>8. Deep(next, last)
    <3>1. next # last
      BY <1>1, <1>4
    <3>2. next \in 1..last /\ last \in 1..last /\ next < last
      <4>1. next <= last
        BY <1>1
      <4> QED BY <1>6, <3>1, <4>1, ReplayCounters
    <3> QED BY <1>1, <1>2, <1>4, <1>5, <1>12, <3>2 DEF GapsMet, Gap
  <2>9. i + 1 >= undo_point
    <3>1. last <= MaxUndoHistory + 1 \/ next + MaxUndoHistory + 2 >= last + QueueSize
      BY <2>8 DEF Deep
    <3>2. next - i < QueueSize /\ next <= last
      BY <1>1
    <3> QED BY <1>6, <3>1, <3>2, ReplayCounters
  <2>10. FilesOK'
    <3>1. 0 <= Len(y) + 1
      BY <2>7
    <3>2. FilesIn(Written, y, 0)
      BY <1>5, <2>4, <3>1, FullLog
    <3> QED BY <1>2, <1>8, <2>1, <3>2 DEF FilesOK
  <2>11. DirsOK'
    <3>1. target.head <= Len(y)
      BY <1>10, <2>7, Numbers, SMTT(40)
    <3>2. HasAll(Written, y, target.head)
      BY <2>4, <2>7, <3>1, Numbers, HasAllLess, SMTT(40)
    <3> QED BY <1>2, <1>3, <2>1, <3>2 DEF DirsOK
  <2>12. DroppedOK'
    <3>1. undo_point' = undo_point
      BY <1>2, Zenon DEF undo_point
    <3> QED BY <1>2, <2>1, <2>4, <2>7, <2>9, <3>1 DEF DroppedOK, HasAll
  <2>13. ReplayOK'
    BY <1>1, <1>2, <1>3, <1>7, <1>12, <2>12 DEF ReplayOK
  <2> QED BY <1>1, <1>2, <1>9, <2>10, <2>11, <2>13 DEF StorageInv, PhaseOK
<1> QED BY <1>11, <1>12

LEMMA ReplayFlushKeeps == ASSUME StorageInv, replay_flush PROVE StorageInv'
<1> USE DEF files, dirs, replay
<1>1. pc = "replay" /\ ~Loads /\ i < next /\ i = undo_point /\ pc' = "flush"
      /\ UNCHANGED <<blocks, index, buffered, failed, target, old, tmp, db_version, head, undo,
                     next, last, i, loading, stored>>
  BY DEF replay_flush
<1>2. ReplayOK /\ FilesOK /\ DirsOK /\ CountersOK
  BY <1>1, ReplayFacts
<1>3. undo_point' = undo_point /\ (Loads' <=> Loads)
  BY <1>1 DEF undo_point, Loads
<1>4. buffered = 0
  <2>1. ~(i > undo_point)
    BY <1>1, ReplayFacts
  <2> QED BY <1>2, <2>1 DEF ReplayOK
<1>5. FilesOK' /\ DirsOK' /\ CountersOK'
  BY <1>1, <1>2, Zenon DEF FilesOK, DirsOK, CountersOK
<1>6. ReplayOK'
  BY <1>1, <1>2, <1>3, <1>4 DEF ReplayOK, LoadingOK, DroppedOK
<1> QED BY <1>1, <1>5, <1>6 DEF StorageInv, PhaseOK, InFlush

\* Below the undo point nothing is in the buffers, and what is applied stays in
\* the log.
LEMMA ReplayApplyKeeps == ASSUME StorageInv, replay_apply PROVE StorageInv'
<1> USE DEF files, dirs, replay
<1>1. pc = "replay" /\ i < next /\ i < undo_point /\ head' = i /\ i' = i + 1
      /\ UNCHANGED <<blocks, index, buffered, failed, target, old, tmp, db_version, pc, undo,
                     next, last, loading, stored>>
  BY DEF replay_apply
<1>2. ReplayOK /\ FilesOK /\ DirsOK /\ CountersOK /\ undo_point \in Nat /\ i # 0 /\ next <= last + 1
  BY <1>1, ReplayFacts
<1>3. undo_point' = undo_point
  BY <1>1 DEF undo_point
<1>4. buffered = 0
  <2>1. ~(i > undo_point)
    BY <1>1, <1>2, Numbers, SMTT(40)
  <2> QED BY <1>2, <2>1 DEF ReplayOK
<1>5. i \in 0..MaxNum /\ undo \in 0..i /\ i + 1 \in Nat /\ i + 1 \in 1..next
      /\ i = (i + 1) - 1 /\ head = i - 1
  <2>1. head = i - 1
    BY <1>2 DEF ReplayOK
  <2>2. i < next /\ next <= last + 1 /\ i # 0
    BY <1>1, <1>2
  <2> QED BY <2>1, <2>2, ReplayCounters
<1>6. FilesOK' /\ DirsOK'
  BY <1>1, <1>2 DEF FilesOK, DirsOK
<1>7. CountersOK'
  BY <1>1, <1>2, <1>5 DEF CountersOK
<1>8. LoadingOK => LoadingOK'
  BY <1>1 DEF LoadingOK
<1>9. DroppedOK => DroppedOK'
  <2> SUFFICES ASSUME DroppedOK PROVE DroppedOK'
    OBVIOUS
  <2>1. /\ Len(index) <= i /\ Len(index) < next
        /\ i <= Len(index) \/ i >= undo_point
        /\ i + 1 < next => i + 1 >= undo_point
    BY <1>1 DEF DroppedOK
  <2>2. /\ Len(index) <= i + 1 /\ (i + 1) - 1 <= Len(index)
        /\ i + 1 < next => i + 1 >= undo_point
        /\ (i + 1) + 1 < next => (i + 1) + 1 >= undo_point
    BY <1>1, <1>2, <2>1, Numbers, SMTT(60)
  <2> QED BY <1>1, <1>3, <1>4, <2>1, <2>2 DEF DroppedOK
<1>10. ReplayOK'
  <2>1. target.head < i + 1
    BY <1>2, Numbers, SMTT(40) DEF ReplayOK
  <2> QED BY <1>1, <1>2, <1>4, <1>5, <1>8, <1>9, <2>1 DEF ReplayOK
<1> QED BY <1>1, <1>6, <1>7, <1>10 DEF StorageInv, PhaseOK

\* The block that is pushed is one of the queue.
LEMMA Pushed ==
    ASSUME StorageInv, Pushes
    PROVE  /\ pc \in {"replay", "flushed"} /\ ~Loads /\ i < next /\ i >= undo_point
           /\ i \in 1..MaxNum /\ head = i - 1 /\ target.head < i
<1>1. pc \in {"replay", "flushed"}
  BY DEF Pushes
<1>2. ReplayOK /\ i # 0 /\ next <= last + 1 /\ undo_point \in Nat
  BY <1>1, ReplayFacts
<1>3. ~Loads /\ i < next /\ (i = undo_point \/ i > undo_point)
  BY <1>2 DEF Pushes, ReplayOK
<1>4. i >= undo_point /\ i \in 1..MaxNum
  BY <1>2, <1>3, ReplayCounters
<1> QED BY <1>1, <1>2, <1>3, <1>4 DEF ReplayOK

\* A gap behind the queue lies too close to the end of the log to matter.
LEMMA BehindQueue ==
    ASSUME NEW k \in Nat, NEW n \in Nat, NEW t \in Nat, NEW e \in Nat, NEW p \in Nat, NEW u \in Nat,
           NEW q \in Nat, u = (IF e < MaxUndoHistory THEN 0 ELSE e - MaxUndoHistory), q = QueueSize,
           k < n, n <= e, p <= k, t >= u, ~(p <= e /\ p - t < q), MaxUndoHistory \in Nat
    PROVE  Deep(k, n)
BY DEF Deep

\* While the replay loads, the block that it stores again was in the log.
LEMMA PushLoading ==
    ASSUME StorageInv, Pushes, loading
    PROVE  FilesIn(Written, Indexed, i)
<1>1. pc \in {"replay", "flushed"} /\ ~Loads /\ i < next /\ i >= undo_point /\ i \in 1..MaxNum
  BY Pushed
<1>2. /\ FilesIn(Written, Indexed, 0) /\ Len(Indexed) = last
      /\ HasAll(Written, Indexed, next - 1)
  BY <1>1, LoadingLog
<1>3. ~(next <= last /\ next - i < QueueSize)
  BY <1>1 DEF Loads
<1>4. /\ QueueSize \in Nat /\ MaxUndoHistory \in Nat /\ undo_point \in Nat
      /\ undo_point = (IF last < MaxUndoHistory THEN 0 ELSE last - MaxUndoHistory)
  BY <1>1, ReplayFacts
<1>5. ASSUME NEW n \in 1..last, NEW k \in 1..last, Gap(Written, Indexed, k, n) PROVE Deep(k, n)
  <2>1. k \in Nat /\ n \in Nat /\ n <= last /\ k < n
    BY <1>5, ReplayCounters DEF Gap
  <2>2. next <= k
    <3>1. ASSUME ~(next <= k) PROVE FALSE
      <4>1. k \in 1..(next - 1)
        BY <3>1, ReplayCounters
      <4> QED BY <1>2, <1>5, <4>1 DEF HasAll, Gap
    <3> QED BY <3>1
  <2> QED BY <1>1, <1>3, <1>4, <2>1, <2>2, ReplayCounters, BehindQueue, Zenon
<1>6. fetch_by_number(Written, Indexed, i)
  <2>1. i \in 1..(next - 1)
    BY <1>1, ReplayCounters
  <2> QED BY <1>2, <2>1 DEF HasAll
<1>7. i \in 0..MaxNum /\ i # 0
  BY <1>1, ReplayCounters
<1> QED BY <1>2, <1>5, <1>6, <1>7 DEF FilesIn, GapsDeep

\* After a gap it is in the log or comes next.
LEMMA PushDropped ==
    ASSUME StorageInv, Pushes, ~loading, ~failed
    PROVE  /\ FilesIn(Written, Indexed, i) /\ HasAll(Written, Indexed, Len(Indexed))
           /\ Len(Indexed) <= i /\ Len(Indexed) < next /\ i - 1 <= Len(Indexed)
<1>1. pc \in {"replay", "flushed"} /\ i < next /\ i \in 1..MaxNum
  BY Pushed
<1>2. DroppedOK /\ (buffered = 0 \/ buffered = i - 1)
  BY <1>1, ReplayFacts DEF ReplayOK
<1> DEFINE l == Len(index)
           m == Len(Indexed)
<1>3. /\ l \in Nat /\ l <= i /\ l < next
      /\ (buffered = 0 => i - 1 <= l) /\ (buffered # 0 => i - 2 <= l)
      /\ \A n \in 1..l : n = buffered \/ fetch_by_number(blocks, index, n)
  BY <1>2, Numbers DEF DroppedOK
<1>4. m = IF buffered = l + 1 THEN buffered ELSE l
  BY WriteOutFacts
<1> HIDE DEF l, m
<1>5. l <= i /\ l < next /\ (buffered = 0 => i - 1 <= l) /\ (buffered # 0 => i - 2 <= l) /\ l \in Nat
  BY <1>3
<1>6. m \in Nat /\ m <= i /\ m < next /\ i - 1 <= m /\ (m = l \/ (m = buffered /\ buffered = l + 1))
  BY <1>1, <1>2, <1>4, <1>5, ReplayCounters
<1>7. \A n \in 1..m : n = buffered \/ fetch_by_number(blocks, index, n)
  <2>1. \A n \in 1..m : n = buffered \/ n \in 1..l
    BY <1>5, <1>6
  <2> QED BY <1>3, <2>1
<1>8. HasAll(Written, Indexed, m)
  BY <1>6, <1>7, WriteOutFacts
<1>9. FilesIn(Written, Indexed, i)
  <2>1. i \in 0..MaxNum /\ i <= m + 1
    BY <1>1, <1>6, ReplayCounters
  <2> QED BY <1>8, <2>1, WriteOutFacts, FullLog DEF m, FilesIn
<1> QED BY <1>6, <1>8, <1>9 DEF m

LEMMA ReplayPushKeeps == ASSUME StorageInv, replay_push PROVE StorageInv'
<1> USE DEF files, dirs, replay
<1>1. /\ Pushes /\ ~failed /\ blocks' = Written /\ index' = Indexed /\ buffered' = i
      /\ head' = i /\ undo' = undo + 1 /\ i' = i + 1 /\ pc' = "replay"
      /\ UNCHANGED <<failed, target, old, tmp, db_version, next, last, loading, stored>>
  BY DEF replay_push, store
<1>2. /\ pc \in {"replay", "flushed"} /\ i < next /\ i >= undo_point /\ i \in 1..MaxNum
      /\ head = i - 1 /\ target.head < i
  BY <1>1, Pushed
<1>3. ReplayOK /\ FilesOK /\ DirsOK /\ CountersOK /\ undo_point \in Nat /\ next <= last + 1
  BY <1>2, ReplayFacts
<1>4. undo_point' = undo_point
  BY <1>1 DEF undo_point
<1>5. FilesOK'
  <2>1. FilesIn(Written, Indexed, i)
    BY <1>1, PushLoading, PushDropped, Zenon
  <2> QED BY <1>1, <1>3, <2>1 DEF FilesOK
<1>6. DirsOK'
  <2>1. HasAll(Written, Indexed, target.head)
    BY <1>3, Numbers, WriteOutFacts, SMTT(40) DEF DirsOK
  <2> QED BY <1>1, <1>2, <1>3, <2>1, Zenon DEF DirsOK
<1>7. /\ i \in 0..MaxNum /\ undo + 1 \in 0..i /\ undo + 1 > 0 /\ i + 1 \in Nat /\ i # 0
      /\ i + 1 \in 1..next /\ i = (i + 1) - 1 /\ i + 1 > undo_point
  <2>1. i < next /\ i >= undo_point /\ i \in 1..MaxNum /\ head = i - 1 /\ undo_point \in Nat
    BY <1>2, <1>3
  <2> QED BY <2>1, ReplayCounters
<1>8. CountersOK'
  BY <1>1, <1>3, <1>7 DEF CountersOK
<1>9. loading => LoadingOK'
  BY <1>1, <1>2, LoadingLog DEF LoadingOK
<1>10. ~loading => DroppedOK'
  <2> SUFFICES ASSUME ~loading PROVE DroppedOK'
    OBVIOUS
  <2>1. /\ HasAll(Written, Indexed, Len(Indexed))
        /\ Len(Indexed) <= i /\ Len(Indexed) < next /\ i - 1 <= Len(Indexed)
    BY <1>1, PushDropped, Zenon
  <2>2. Len(Indexed) \in Nat
    BY WriteOutFacts, LenIsNat, Zenon DEF FilesIn, EntriesOK
  <2>3. /\ Len(Indexed) <= i + 1 /\ (i + 1) - 2 <= Len(Indexed)
        /\ i + 1 >= undo_point /\ (i + 1) + 1 >= undo_point
    <3>1. i >= undo_point /\ undo_point \in Nat
      BY <1>2, <1>3, Zenon
    <3> QED BY <2>1, <2>2, <3>1, ReplayCounters
  <2> QED BY <1>1, <1>4, <1>7, <2>1, <2>3 DEF DroppedOK, HasAll
<1>11. ReplayOK'
  <2>1. target.head < i + 1
    BY <1>2, Numbers
  <2> QED BY <1>1, <1>3, <1>4, <1>7, <1>9, <1>10, <2>1 DEF ReplayOK
<1> QED BY <1>1, <1>5, <1>6, <1>8, <1>11 DEF StorageInv, PhaseOK

\* A failed replay has dropped nothing.
LEMMA ReplayThrowsKeeps == ASSUME StorageInv, replay_throws PROVE StorageInv'
<1> USE DEF files, dirs, replay
<1>1. /\ Pushes /\ failed /\ pc' = "down" /\ head' = 0 /\ undo' = 0 /\ failed' = FALSE
      /\ next' = 0 /\ last' = 0 /\ i' = 0 /\ loading' = FALSE
      /\ UNCHANGED <<blocks, index, buffered, target, old, tmp, db_version, stored>>
  BY DEF replay_throws, Ended
<1>2. pc \in {"replay", "flushed"}
  BY <1>1, Pushed
<1>3. ReplayOK /\ FilesOK /\ DirsOK /\ CountersOK
  BY <1>2, ReplayFacts
<1>4. buffered = 0 /\ HasAll(blocks, index, next - 1) /\ stored < next
  BY <1>1, <1>3 DEF FilesOK, ReplayOK, LoadingOK
<1>5. HasAll(blocks, index, stored)
  <2>1. \A n \in 1..stored : n \in 1..(next - 1)
    BY <1>4, Numbers
  <2> QED BY <1>4, <2>1 DEF HasAll
<1>6. FilesOK' /\ DirsOK'
  BY <1>1, <1>3, Zenon DEF FilesOK, DirsOK
<1>7. CountersOK'
  <2>1. 0 \in 0..MaxNum /\ 0 \in 0..0
    BY Numbers
  <2> QED BY <1>1, <1>3, <1>4, <2>1, Zenon DEF CountersOK
<1>8. StoppedOK'
  BY <1>1, <1>4, <1>5 DEF StoppedOK, AtRest
<1> QED BY <1>1, <1>6, <1>7, <1>8 DEF StorageInv, PhaseOK, Stopped

LEMMA ReplayDoneKeeps == ASSUME StorageInv, replay_done PROVE StorageInv'
<1> USE DEF files, dirs, replay
<1>1. /\ pc = "replay" /\ ~Loads /\ i = next /\ pc' = "running"
      /\ next' = 0 /\ last' = 0 /\ i' = 0 /\ loading' = FALSE
      /\ UNCHANGED <<blocks, index, buffered, failed, target, old, tmp, db_version, head, undo, stored>>
  BY Zenon DEF replay_done
<1>2. /\ ReplayOK /\ FilesOK /\ DirsOK /\ CountersOK /\ QueueSize \in Nat /\ QueueSize # 0
      /\ next <= last + 1 /\ (buffered = 0 \/ buffered = i - 1) /\ head = i - 1 /\ i # 0
  BY <1>1, ReplayFacts, Zenon DEF ReplayOK
<1>3. FilesOK' /\ DirsOK'
  BY <1>1, <1>2 DEF FilesOK, DirsOK
<1>4. CountersOK'
  <2>1. 0 \in 0..MaxNum
    BY Numbers
  <2> QED BY <1>1, <1>2, <2>1, Zenon DEF CountersOK
<1>5. /\ \A n \in 1..head : n = buffered \/ fetch_by_number(blocks, index, n)
      /\ ~failed => Len(index) <= head
      /\ stored <= head
  <2>1. CASE loading
    <3>1. LoadingOK
      BY <1>2, <2>1 DEF ReplayOK
    <3>2. ~(next <= last /\ next - i < QueueSize)
      BY <1>1, <2>1 DEF Loads
    <3>3. next = last + 1 /\ head = last /\ next - 1 = head
      <4>1. i = next /\ next <= last + 1 /\ head = i - 1
        BY <1>1, <1>2
      <4> QED BY <1>2, <3>2, <4>1, ReplayCounters
    <3>4. Len(index) = head /\ HasAll(blocks, index, head) /\ HasAll(blocks, index, stored)
      BY <3>1, <3>3 DEF LoadingOK
    <3>5. stored <= head
      BY <3>4, Numbers, HasAllBound
    <3> QED BY <3>4, <3>5, Numbers DEF HasAll
  <2>2. CASE ~loading /\ failed
    <3>1. HasAll(blocks, index, next - 1) /\ stored < next
      BY <1>2, <2>2 DEF ReplayOK
    <3>2. next - 1 = head /\ stored <= head
      BY <1>1, <1>2, <3>1, Numbers, SMTT(40)
    <3> QED BY <2>2, <3>1, <3>2 DEF HasAll
  <2>3. CASE ~loading /\ ~failed
    <3>1. DroppedOK /\ stored < next
      BY <1>2, <2>3 DEF ReplayOK
    <3>2. /\ Len(index) < next /\ (buffered = 0 => i - 1 <= Len(index))
          /\ (buffered # 0 => i - 2 <= Len(index))
      BY <3>1 DEF DroppedOK
    <3>3. Len(index) <= head /\ stored <= head
      BY <1>1, <1>2, <3>1, <3>2, Numbers, SMTT(40)
    <3>4. \A n \in 1..head : n = buffered \/ n \in 1..Len(index)
      BY <1>2, <3>2, Numbers, SMTT(60)
    <3> QED BY <3>1, <3>3, <3>4 DEF DroppedOK
  <2> QED BY <2>1, <2>2, <2>3
<1>6. buffered \in {0, head}
  BY <1>2
<1>7. RunningOK'
  BY <1>1, <1>5, <1>6 DEF RunningOK, AtRest
<1> QED BY <1>1, <1>3, <1>4, <1>7 DEF StorageInv, PhaseOK

-----------------------------------------------------------------------------
(* The results                                                             *)

LEMMA StorageStep == StorageInv /\ [Next]_vars => StorageInv'
<1> SUFFICES ASSUME StorageInv, [Next]_vars PROVE StorageInv'
  BY Zenon
<1>1. CASE UNCHANGED vars
  BY <1>1, ZenonT(40) DEF vars, StorageInv, FilesOK, DirsOK, CountersOK, PhaseOK, StoppedOK, RunningOK, ClosingOK,
              ReplayOK, LoadingOK, DroppedOK, AtRest, undo_point, Loads
<1>2. CASE push_block \/ Lookup
  BY <1>2, PushBlockKeeps, LookupKeeps
<1>3. CASE close \/ Flushing
  BY <1>3, CloseKeeps, FlushingKeeps, BlockDatabaseCloseKeeps DEF Flushing
<1>4. CASE Crash
  BY <1>4, CrashKeeps
<1>5. CASE \E n \in Num : Damage(n)
  BY <1>5, DamageKeeps
<1>6. CASE Upgrade \/ Starting
  BY <1>6, StartingKeeps, OpenBlocksKeeps DEF Starting
<1>7. CASE Replaying
  BY <1>7, LoadBlockKeeps, LoadGapKeeps, ReplayFlushKeeps, ReplayApplyKeeps, ReplayPushKeeps,
     ReplayThrowsKeeps, ReplayDoneKeeps DEF Replaying
<1> QED BY <1>1, <1>2, <1>3, <1>4, <1>5, <1>6, <1>7 DEF Next

LEMMA StorageInvAlways == Spec => []StorageInv
BY StorageStart, StorageStep, PTL DEF Spec

LEMMA StorageInvLog == StorageInv => LogHasChain
<1> SUFFICES ASSUME StorageInv PROVE LogHasChain
  OBVIOUS
<1>1. FilesOK /\ DirsOK /\ CountersOK /\ PhaseOK
  BY DEF StorageInv
<1>2. i <= next /\ next <= last + 1
  <2>1. CASE AtRest
    BY <2>1 DEF AtRest
  <2>2. CASE ReplayOK
    BY <2>2, Numbers DEF ReplayOK
  <2> QED BY <1>1, <2>1, <2>2 DEF PhaseOK, StoppedOK, RunningOK, ClosingOK
<1>3. \A n \in DOMAIN index : index[n].block_size = 1 /\ index[n].block_id = n
  <2>1. DOMAIN index = 1..Len(index)
    BY Numbers, LenIsNat DEF EntriesOK
  <2>2. ASSUME NEW n \in 1..Len(index) PROVE index[n].block_size = 1 /\ index[n].block_id = n
    <3>1. EntriesOK(index)
      BY Numbers
    <3> QED BY <3>1, EntryFacts
  <2> QED BY <2>1, <2>2, Zenon
<1>4. buffered \in 0..MaxNum
  BY <1>1, Zenon DEF FilesOK, FilesIn
<1>5. TypeOK
  BY <1>1, <1>2, <1>3, <1>4, Numbers DEF TypeOK, Data, CountersOK, DirsOK
<1>6. OpenedWhole
  BY <1>1 DEF OpenedWhole, DirsOK
<1>7. ASSUME pc = "running", ~failed
      PROVE  (\A n \in 1..head : LogHas(n)) /\ (\A n \in Num : LogHas(n) => n <= head)
  <2>1. HasAll(Written, Indexed, head) /\ Len(Indexed) = head
    BY <1>7, RunningLog
  <2>2. ASSUME NEW n \in Num, LogHas(n) PROVE n <= head
    <3>1. n \in Nat
      BY DEF Num
    <3>2. n \in 1..Len(Indexed)
      BY <2>2, <3>1, WriteOutFacts, FetchIff, Zenon DEF LogHas, FilesIn
    <3> QED BY <2>1, <3>2, Numbers
  <2> QED BY <2>1, <2>2 DEF HasAll, LogHas
<1> QED BY <1>5, <1>6, <1>7 DEF LogHasChain

\* LogHasChain of the storage run: whatever crashes and damage it came through,
\* a running node has every block of its chain in the block database, in its
\* files and the stream buffers, and none behind the head; and the state that
\* database::open starts from was saved as a whole.
THEOREM LogHasChainAlways == Spec => []LogHasChain
BY StorageInvAlways, StorageInvLog, PTL

\* OnlyUnsavedLost of the storage run: after a crash database::open and reindex
\* bring the node back at least to the block that was surely in the files, also
\* when it dies again in the replay.
THEOREM OnlyUnsavedLostAlways == Spec => []OnlyUnsavedLost
<1>1. StorageInv => OnlyUnsavedLost
  <2> SUFFICES ASSUME StorageInv, pc = "running" PROVE head >= stored
    BY DEF OnlyUnsavedLost
  <2>1. stored <= head
    BY RunningLog DEF RunningOK
  <2> QED BY <2>1, Numbers
<1> QED BY <1>1, StorageInvAlways, PTL
=============================================================================
