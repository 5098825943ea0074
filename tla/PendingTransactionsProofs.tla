--------------------- MODULE PendingTransactionsProofs ---------------------
(***************************************************************************)
(* Proofs about PendingTransactions, for every set of transactions, every  *)
(* relation of needs and conflicts, and all bounds.                        *)
(*                                                                         *)
(* None of the properties is inductive.  That a transaction is applied     *)
(* once rests on what the deduplication index may forget (LedgerOK) and on *)
(* how each block was applied to the ledger before it (ChainOK), also for  *)
(* the chain a fork switch may have to come back to (Base).  That nothing  *)
(* is lost rests on the order in which the restorer tries transactions     *)
(* (Ordered, PoppedOrdered): a transaction that was tried comes after what *)
(* it needs, so a failure is final (Final).                                *)
(***************************************************************************)
EXTENDS PendingTransactions, WellFoundedInduction, TLAPS

-----------------------------------------------------------------------------
(* Sequences                                                               *)

LEMMA SeqSlice ==
    ASSUME NEW T, NEW q, NEW a \in Int, NEW z \in Int, \A i \in a..z : q[i] \in T
    PROVE  /\ SubSeq(q, a, z) \in Seq(T)
           /\ Len(SubSeq(q, a, z)) = IF a <= z THEN z - a + 1 ELSE 0
           /\ \A i \in 1..z - a + 1 : SubSeq(q, a, z)[i] = q[a + i - 1]
OBVIOUS

LEMMA SameSeq ==
    ASSUME NEW T, NEW q \in Seq(T), NEW r \in Seq(T), Len(q) = Len(r),
           \A i \in 1..Len(q) : q[i] = r[i]
    PROVE  q = r
OBVIOUS

LEMMA SeqConcat ==
    ASSUME NEW T, NEW q \in Seq(T), NEW r \in Seq(T)
    PROVE  /\ q \o r \in Seq(T) /\ Len(q \o r) = Len(q) + Len(r)
           /\ \A i \in 1..Len(q) + Len(r) :
                 (q \o r)[i] = IF i <= Len(q) THEN q[i] ELSE r[i - Len(q)]
OBVIOUS

LEMMA ConcatNothing ==
    ASSUME NEW T, NEW q \in Seq(T)
    PROVE  q \o << >> = q /\ << >> \o q = q
OBVIOUS

LEMMA ConcatTwice ==
    ASSUME NEW T, NEW q \in Seq(T), NEW r \in Seq(T), NEW t \in Seq(T)
    PROVE  (q \o r) \o t = q \o (r \o t)
OBVIOUS

LEMMA SeqWhole ==
    ASSUME NEW T, NEW q \in Seq(T)
    PROVE  SubSeq(q, 1, Len(q)) = q
OBVIOUS

EmptyLedger == [done |-> {}, recent |-> {}, now |-> 0]

LedgerType == [done : SUBSET Tx, recent : SUBSET Tx, now : Nat]

\* The index may forget a transaction only when it has expired.
LedgerOK(l) ==
    /\ l \in LedgerType
    /\ l.recent \subseteq l.done
    /\ \A t \in l.done : l.now <= Expires[t] => t \in l.recent

BlockLedger == [done : SUBSET Tx, recent : SUBSET Tx, now : 1..MaxTime]

BlockType == [txs : Seq(Tx), ledger : BlockLedger]

\* The ledger block i of c was applied to
Before(c, i) == IF i = 1 THEN EmptyLedger ELSE c[i - 1].ledger

UpTo(c, n) == UNION {Range(c[k].txs) : k \in 1..n}

ChainOK(c) ==
    /\ c \in Seq(BlockType)
    /\ \A i \in 1..Len(c) :
          /\ LedgerOK(c[i].ledger)
          /\ c[i].ledger.done = UpTo(c, i)
          /\ AllApplicable(Before(c, i), c[i].txs)

Earlier(s, i) == {s[j] : j \in 1..(i - 1)}
Later(s, i) == {s[j] : j \in (i + 1)..Len(s)}

\* Every transaction of txs comes after what it needs, on top of those in base.
NeedsMet(base, txs) ==
    /\ Range(txs) \cap base = {}
    /\ \A i \in 1..Len(txs) : Needs[txs[i]] \subseteq base \cup Earlier(txs, i)

\* What a transaction of txs needs is not only after it.
Ordered(txs, before) ==
    \A i \in 1..Len(txs) : Needs[txs[i]] \cap Later(txs, i) \subseteq before \cup Earlier(txs, i)

\* What a transaction put aside needs is neither after it nor in rest.
PoppedOrdered(txs, rest, whose) ==
    \A i \in 1..Len(txs) : txs[i] \in whose =>
        Needs[txs[i]] \cap (Later(txs, i) \cup rest) = {}

OutOfTime(l, t) == l.now > 0 /\ Expires[t] \notin l.now..(l.now + MaxUntilExpiration)

\* t, which was dropped, cannot become applicable: rest has yet to be tried.
Final(l, rest, t, dropped) ==
    \/ OutOfTime(l, t)
    \/ Conflicts[t] \cap l.done # {}
    \/ Needs[t] \cap dropped # {}
    \/ \E x \in Needs[t] : x \notin l.done \cup rest

\* The restorer tried t on l, which left m.
Tried(l, t, m) ==
    /\ m.now = l.now
    /\ \/ Applicable(l, t) /\ m.done = l.done \cup {t}
       \/ ~Applicable(l, t) /\ m.done = l.done

\* What the node had is applied, dropped for good, or yet to be tried.
Accounted(l, aside, left, have, dropped) ==
    /\ dropped \cap l.done = {}
    /\ \A t \in dropped : Final(l, Range(aside) \cup Range(left), t, dropped)
    /\ Ordered(left, l.done \cup dropped)
    /\ have \subseteq l.done \cup dropped \cup Range(aside) \cup Range(left)

-----------------------------------------------------------------------------
(* Induction and sums                                                      *)

\* Every set of naturals that is not empty has a least element.
LEMMA LeastElement ==
    ASSUME NEW T \in SUBSET Nat, T # {}
    PROVE  \E x \in T : \A y \in T : x <= y
<1> DEFINE R == {ss \in Nat \X Nat : ss[1] < ss[2]}
<1>1. IsWellFoundedOn(R, Nat)
  BY NatLessThanWellFounded DEF OpToRel
<1>2. \E x \in T : \A y \in T : ~(<<y, x>> \in R)
  <2> HIDE DEF R
  <2> QED BY <1>1, WFMin, Zenon
<1>3. PICK x \in T : \A y \in T : ~(<<y, x>> \in R)
  BY <1>2
<1>4. ASSUME NEW y \in T PROVE x <= y
  <2>1. <<y, x>> \in Nat \X Nat /\ <<y, x>>[1] = y /\ <<y, x>>[2] = x
    OBVIOUS
  <2> QED BY <1>3, <2>1
<1> QED BY <1>4

\* A set that has 0 and, with every natural, the next one, has all of them.
LEMMA SetInduction ==
    ASSUME NEW S, 0 \in S, \A n \in Nat : n \in S => n + 1 \in S
    PROVE  \A n \in Nat : n \in S
<1> DEFINE T == {n \in Nat : n \notin S}
<1> SUFFICES ASSUME T # {} PROVE FALSE
  OBVIOUS
<1>1. PICK x \in T : \A y \in T : x <= y
  BY LeastElement, Zenon
<1>2. x # 0 /\ x \in Nat /\ x - 1 \in Nat /\ x - 1 \notin T
  BY <1>1
<1>3. x - 1 \in S
  BY <1>2
<1> QED BY <1>2, <1>3, x = (x - 1) + 1

\* f adds up the terms a[1], ..., a[n].
IsSum(f, a, n) == f = [i \in 0..n |-> IF i = 0 THEN 0 ELSE f[i - 1] + a[i]]

\* There is such a function, its values are naturals, and there is only one.
LEMMA SumExists ==
    ASSUME NEW n \in Nat, NEW a \in [1..n -> Nat]
    PROVE  \E f \in [0..n -> Nat] : IsSum(f, a, n)
<1> DEFINE S == {k \in Nat : k <= n => \E f \in [0..k -> Nat] : IsSum(f, a, k)}
<1>1. 0 \in S
  <2>1. [i \in 0..0 |-> 0] \in [0..0 -> Nat] /\ IsSum([i \in 0..0 |-> 0], a, 0)
    BY DEF IsSum
  <2> QED BY <2>1
<1>2. ASSUME NEW k \in Nat, k \in S PROVE k + 1 \in S
  <2> SUFFICES ASSUME k + 1 <= n
               PROVE  \E g \in [0..(k + 1) -> Nat] : IsSum(g, a, k + 1)
    OBVIOUS
  <2>1. PICK f \in [0..k -> Nat] : IsSum(f, a, k)
    BY <1>2
  <2> DEFINE g == [i \in 0..(k + 1) |-> IF i = k + 1 THEN f[k] + a[k + 1] ELSE f[i]]
  <2>2. g \in [0..(k + 1) -> Nat]
    OBVIOUS
  <2>3. \A i \in 0..(k + 1) : g[i] = IF i = 0 THEN 0 ELSE g[i - 1] + a[i]
    <3> SUFFICES ASSUME NEW i \in 0..(k + 1)
                 PROVE  g[i] = IF i = 0 THEN 0 ELSE g[i - 1] + a[i]
      BY Zenon
    <3>1. CASE i = k + 1
      BY <3>1
    <3>2. CASE i # k + 1
      <4>1. f[i] = IF i = 0 THEN 0 ELSE f[i - 1] + a[i]
        BY <2>1, <3>2 DEF IsSum
      <4> QED BY <4>1, <3>2
    <3> QED BY <3>1, <3>2
  <2>4. IsSum(g, a, k + 1)
    BY <2>2, <2>3, Zenon DEF IsSum
  <2> QED BY <2>2, <2>4, Zenon
<1> HIDE DEF S
<1>3. n \in S
  BY <1>1, <1>2, SetInduction, Zenon
<1> QED BY <1>3 DEF S

\* A sum depends on its terms only.
LEMMA SumsAgree ==
    ASSUME NEW n \in Nat, NEW m \in Nat, n <= m,
           NEW f, NEW a, IsSum(f, a, n), NEW g, NEW b, IsSum(g, b, m),
           \A i \in 1..n : a[i] = b[i]
    PROVE  f[n] = g[n]
<1> DEFINE S == {i \in Nat : i <= n => f[i] = g[i]}
<1>1. \A i \in 0..n : f[i] = IF i = 0 THEN 0 ELSE f[i - 1] + a[i]
  BY DEF IsSum
<1>2. \A i \in 0..m : g[i] = IF i = 0 THEN 0 ELSE g[i - 1] + b[i]
  BY DEF IsSum
<1>3. 0 \in S
  BY <1>1, <1>2
<1>4. ASSUME NEW i \in Nat, i \in S PROVE i + 1 \in S
  BY <1>1, <1>2, <1>4
<1> HIDE DEF S
<1>5. n \in S
  BY <1>3, <1>4, SetInduction
<1> QED BY <1>5 DEF S

-----------------------------------------------------------------------------
(* Ledgers                                                                 *)

\* The ledger before the first block.
LEMMA EmptyLedgerOK == LedgerOK(EmptyLedger)
BY DEF LedgerOK, EmptyLedger, LedgerType

\* A transaction that was applied is not applicable: it is in the index, or it
\* has expired.
LEMMA ApplicableNew ==
    ASSUME NEW l, LedgerOK(l), NEW t \in Tx, Applicable(l, t)
    PROVE  t \notin l.done
<1>1. Expires[t] \in Nat /\ l.now \in Nat /\ MaxUntilExpiration \in Nat
  BY PendingAssumption DEF LedgerOK, LedgerType
<1>2. l.now <= Expires[t]
  BY <1>1 DEF Applicable
<1> QED BY <1>2 DEF LedgerOK, Applicable, is_known_transaction

\* What ApplyAll makes of a ledger
LEMMA ApplyAllFields ==
    ASSUME NEW l \in LedgerType, NEW txs \in Seq(Tx)
    PROVE  /\ ApplyAll(l, txs) \in LedgerType
           /\ ApplyAll(l, txs).done = l.done \cup Range(txs)
           /\ ApplyAll(l, txs).recent = l.recent \cup Range(txs)
           /\ ApplyAll(l, txs).now = l.now
           /\ Range(txs) \subseteq Tx
<1>1. Range(txs) \subseteq Tx
  BY DEF Range
<1> DEFINE T == Range(txs)
<1> HIDE DEF T
<1>2. ApplyAll(l, txs) = [l EXCEPT !.done = @ \cup T, !.recent = @ \cup T]
  BY DEF ApplyAll, T
<1>3. T \subseteq Tx
  BY <1>1 DEF T
<1>4. /\ ApplyAll(l, txs) \in LedgerType
      /\ ApplyAll(l, txs).done = l.done \cup T
      /\ ApplyAll(l, txs).recent = l.recent \cup T
      /\ ApplyAll(l, txs).now = l.now
  BY <1>2, <1>3, Zenon DEF LedgerType
<1> QED BY <1>1, <1>4 DEF T

\* Applying transactions keeps a ledger sound.
LEMMA ApplyAllOK ==
    ASSUME NEW l, LedgerOK(l), NEW txs \in Seq(Tx)
    PROVE  LedgerOK(ApplyAll(l, txs))
BY ApplyAllFields DEF LedgerOK

\* Applying nothing changes nothing.
LEMMA ApplyNone ==
    ASSUME NEW l \in LedgerType
    PROVE  ApplyAll(l, <<>>) = l
<1>1. Range(<<>>) = {}
  BY DEF Range
<1>2. ApplyAll(l, <<>>) = [l EXCEPT !.done = @ \cup {}, !.recent = @ \cup {}]
  BY <1>1, Zenon DEF ApplyAll
<1> QED BY <1>2, Zenon DEF LedgerType

\* _apply_block keeps the index right: clear_expired_transactions forgets only
\* what has expired.
LEMMA ApplyBlockOK ==
    ASSUME NEW l, LedgerOK(l), NEW b \in [txs : Seq(Tx), time : 1..MaxTime], b.time > l.now
    PROVE  /\ LedgerOK(_apply_block(l, b))
           /\ _apply_block(l, b) \in BlockLedger
           /\ _apply_block(l, b).done = l.done \cup Range(b.txs)
           /\ _apply_block(l, b).now = b.time
<1> DEFINE a == ApplyAll(l, b.txs)
           m == [a EXCEPT !.now = b.time]
           c == _apply_block(l, b)
<1>1. LedgerOK(a) /\ a \in LedgerType /\ a.done = l.done \cup Range(b.txs) /\ a.now = l.now
  BY ApplyAllOK, ApplyAllFields DEF LedgerOK
<1>2. b.time \in Nat /\ b.time \in 1..MaxTime /\ l.now \in Nat /\ MaxTime \in Nat
  BY PendingAssumption DEF LedgerOK, LedgerType
<1>3. m \in LedgerType /\ m.done = a.done /\ m.recent = a.recent /\ m.now = b.time
  BY <1>1, <1>2 DEF LedgerType
<1>4. c = [m EXCEPT !.recent = {t \in m.recent : ~(m.now > Expires[t])}]
  BY DEF _apply_block, clear_expired_transactions
<1>5. /\ c \in LedgerType /\ c.done = m.done /\ c.now = m.now
      /\ c.recent = {t \in m.recent : ~(m.now > Expires[t])}
  BY <1>3, <1>4, Zenon DEF LedgerType
<1>6. c \in BlockLedger
  BY <1>2, <1>3, <1>5 DEF LedgerType, BlockLedger
<1>7. \A t \in c.done : c.now <= Expires[t] => t \in c.recent
  <2> SUFFICES ASSUME NEW t \in c.done, c.now <= Expires[t] PROVE t \in c.recent
    OBVIOUS
  <2>1. Expires[t] \in Nat /\ t \in a.done
    BY <1>5, <1>3, PendingAssumption DEF LedgerType
  <2>2. a.now <= Expires[t]
    BY <2>1, <1>1, <1>2, <1>3, <1>5
  <2>3. t \in a.recent
    BY <2>1, <2>2, <1>1 DEF LedgerOK
  <2> QED BY <2>1, <2>3, <1>3, <1>5, <1>2
<1> HIDE DEF a, m, c
<1>8. LedgerOK(c)
  BY <1>1, <1>3, <1>5, <1>7 DEF LedgerOK
<1> QED BY <1>1, <1>3, <1>5, <1>6, <1>8 DEF c

-----------------------------------------------------------------------------
(* Sequences of transactions                                               *)

\* The transactions before a place in a sequence.
LEMMA Prefix ==
    ASSUME NEW s \in Seq(Tx), NEW i \in 1..Len(s)
    PROVE  /\ SubSeq(s, 1, i - 1) \in Seq(Tx)
           /\ Range(SubSeq(s, 1, i - 1)) = Earlier(s, i)
<1>1. i \in Nat /\ i - 1 \in Nat /\ 1 \in Nat /\ Len(s) \in Nat
  OBVIOUS
<1>2. /\ SubSeq(s, 1, i - 1) \in Seq(Tx)
      /\ Len(SubSeq(s, 1, i - 1)) = i - 1
      /\ \A j \in 1..(i - 1) : SubSeq(s, 1, i - 1)[j] = s[j]
  BY <1>1
<1>3. DOMAIN SubSeq(s, 1, i - 1) = 1..(i - 1)
  BY <1>2
<1> QED BY <1>2, <1>3, Zenon DEF Range, Earlier

\* The members of a sequence with one more at its end.
LEMMA RangeAppend ==
    ASSUME NEW S, NEW s \in Seq(S), NEW t \in S
    PROVE  /\ Append(s, t) \in Seq(S)
           /\ Range(Append(s, t)) = Range(s) \cup {t}
<1>1. /\ Append(s, t) \in Seq(S) /\ Len(Append(s, t)) = Len(s) + 1
      /\ \A i \in 1..Len(s) : Append(s, t)[i] = s[i]
      /\ Append(s, t)[Len(s) + 1] = t
  OBVIOUS
<1>2. Len(s) \in Nat /\ DOMAIN s = 1..Len(s) /\ DOMAIN Append(s, t) = 1..(Len(s) + 1)
  BY <1>1
<1> QED BY <1>1, <1>2 DEF Range

\* The members of two sequences in a row.
LEMMA RangeConcat ==
    ASSUME NEW S, NEW s \in Seq(S), NEW t \in Seq(S)
    PROVE  /\ s \o t \in Seq(S)
           /\ Range(s \o t) = Range(s) \cup Range(t)
<1>1. /\ s \o t \in Seq(S) /\ Len(s \o t) = Len(s) + Len(t)
      /\ \A i \in 1..Len(s \o t) : (s \o t)[i] = IF i <= Len(s) THEN s[i] ELSE t[i - Len(s)]
  OBVIOUS
<1>2. /\ Len(s) \in Nat /\ DOMAIN s = 1..Len(s) /\ Len(t) \in Nat /\ DOMAIN t = 1..Len(t)
      /\ DOMAIN (s \o t) = 1..(Len(s) + Len(t))
  BY <1>1
<1>3. ASSUME NEW x \in Range(s \o t) PROVE x \in Range(s) \cup Range(t)
  BY <1>1, <1>2 DEF Range
<1>4. ASSUME NEW x \in Range(s) PROVE x \in Range(s \o t)
  BY <1>1, <1>2 DEF Range
<1>5. ASSUME NEW x \in Range(t) PROVE x \in Range(s \o t)
  <2>1. PICK j \in 1..Len(t) : x = t[j]
    BY <1>2 DEF Range
  <2>2. (s \o t)[Len(s) + j] = x /\ Len(s) + j \in 1..(Len(s) + Len(t))
    BY <2>1, <1>1, <1>2
  <2> QED BY <2>2, <1>2 DEF Range
<1> QED BY <1>1, <1>3, <1>4, <1>5

\* A sequence is its head and its tail.
LEMMA HeadTail ==
    ASSUME NEW S, NEW s \in Seq(S), s # <<>>
    PROVE  /\ Head(s) \in S /\ Tail(s) \in Seq(S)
           /\ Range(s) = {Head(s)} \cup Range(Tail(s))
           /\ Len(s) \in Nat /\ Len(s) > 0 /\ Len(Tail(s)) = Len(s) - 1
           /\ Head(s) = s[1]
           /\ \A i \in 1..Len(Tail(s)) : Tail(s)[i] = s[i + 1]
<1>1. /\ Head(s) \in S /\ Tail(s) \in Seq(S)
      /\ Len(s) \in Nat /\ Len(s) > 0 /\ Len(Tail(s)) = Len(s) - 1
      /\ Head(s) = s[1]
      /\ \A i \in 1..Len(Tail(s)) : Tail(s)[i] = s[i + 1]
  OBVIOUS
<1>2. DOMAIN s = 1..Len(s) /\ DOMAIN Tail(s) = 1..(Len(s) - 1)
  BY <1>1
<1>3. ASSUME NEW i \in 1..Len(s) PROVE s[i] \in {Head(s)} \cup Range(Tail(s))
  <2>1. CASE i = 1
    BY <2>1, <1>1
  <2>2. CASE i # 1
    <3>1. i - 1 \in 1..(Len(s) - 1) /\ (i - 1) + 1 = i
      BY <2>2, <1>1
    <3> QED BY <3>1, <1>1, <1>2, Zenon DEF Range
  <2> QED BY <2>1, <2>2
<1>4. ASSUME NEW i \in 1..(Len(s) - 1) PROVE Tail(s)[i] \in Range(s)
  <2>1. i + 1 \in 1..Len(s)
    BY <1>1
  <2> QED BY <2>1, <1>1, <1>2 DEF Range
<1>5. Head(s) \in Range(s)
  BY <1>1, <1>2 DEF Range
<1>6. Range(s) = {Head(s)} \cup Range(Tail(s))
  BY <1>2, <1>3, <1>4, <1>5 DEF Range
<1> QED BY <1>1, <1>6

-----------------------------------------------------------------------------
\* Transactions that apply in order are new, pairwise different, and come
\* after what they need.
LEMMA AllApplicableNew ==
    ASSUME NEW l, LedgerOK(l), NEW txs \in Seq(Tx), AllApplicable(l, txs)
    PROVE  NeedsMet(l.done, txs) /\ IsInjective(txs)
<1>1. ASSUME NEW i \in 1..Len(txs)
      PROVE  /\ txs[i] \notin l.done \cup Earlier(txs, i)
             /\ Needs[txs[i]] \subseteq l.done \cup Earlier(txs, i)
  <2> DEFINE m == ApplyAll(l, SubSeq(txs, 1, i - 1))
  <2>1. SubSeq(txs, 1, i - 1) \in Seq(Tx) /\ Range(SubSeq(txs, 1, i - 1)) = Earlier(txs, i)
    BY Prefix
  <2>2. LedgerOK(m) /\ m.done = l.done \cup Earlier(txs, i)
    BY <2>1, ApplyAllOK, ApplyAllFields, Zenon DEF LedgerOK
  <2>3. Applicable(m, txs[i]) /\ txs[i] \in Tx
    BY DEF AllApplicable
  <2> HIDE DEF m
  <2>4. txs[i] \notin m.done /\ Needs[txs[i]] \subseteq m.done
    BY <2>2, <2>3, ApplicableNew DEF Applicable
  <2> QED BY <2>2, <2>4
<1>2. Range(txs) \cap l.done = {}
  BY <1>1 DEF Range
<1>3. ASSUME NEW a \in 1..Len(txs), NEW b \in 1..Len(txs), a < b
      PROVE  txs[a] # txs[b]
  <2>1. txs[a] \in Earlier(txs, b)
    BY <1>3 DEF Earlier
  <2> QED BY <2>1, <1>1
<1>4. IsInjective(txs)
  <2> SUFFICES ASSUME NEW a \in 1..Len(txs), NEW b \in 1..Len(txs), txs[a] = txs[b], a # b
               PROVE  FALSE
    BY DEF IsInjective
  <2>1. a < b \/ b < a
    OBVIOUS
  <2> QED BY <2>1, <1>3
<1> QED BY <1>1, <1>2, <1>4 DEF NeedsMet

\* What push_transaction and the loop of generate_block do: one more
\* transaction that applies on top of the others
LEMMA AppendApplicable ==
    ASSUME NEW l, NEW txs \in Seq(Tx), AllApplicable(l, txs),
           NEW t \in Tx, Applicable(ApplyAll(l, txs), t)
    PROVE  AllApplicable(l, Append(txs, t))
<1> DEFINE s == Append(txs, t)
<1>1. /\ s \in Seq(Tx) /\ Len(s) = Len(txs) + 1 /\ Len(txs) \in Nat
      /\ \A i \in 1..Len(txs) : s[i] = txs[i]
      /\ s[Len(txs) + 1] = t
      /\ DOMAIN s = 1..(Len(txs) + 1)
  OBVIOUS
<1>2. ASSUME NEW i \in 1..(Len(txs) + 1)
      PROVE  Applicable(ApplyAll(l, SubSeq(s, 1, i - 1)), s[i])
  <2>1. SubSeq(s, 1, i - 1) = SubSeq(txs, 1, i - 1)
    BY <1>1
  <2>2. CASE i = Len(txs) + 1
    <3>1. SubSeq(txs, 1, i - 1) = txs
      BY <1>1, <2>2, i - 1 = Len(txs), SeqWhole
    <3>2. s[i] = t
      BY <1>1, <2>2
    <3> HIDE DEF s
    <3> QED BY <2>1, <3>1, <3>2, Zenon
  <2>3. CASE i # Len(txs) + 1
    <3>1. i \in 1..Len(txs) /\ s[i] = txs[i] /\ i \in DOMAIN txs
      BY <2>3, <1>1
    <3> QED BY <2>1, <3>1, Zenon DEF AllApplicable
  <2> QED BY <2>2, <2>3
<1> HIDE DEF s
<1> QED BY <1>1, <1>2 DEF AllApplicable, s

\* The empty sequence always applies.
LEMMA NoneApplicable == ASSUME NEW l PROVE AllApplicable(l, <<>>)
BY DEF AllApplicable

-----------------------------------------------------------------------------
(* Chains                                                                  *)

\* Blocks hold transactions.
LEMMA UpToTx ==
    ASSUME NEW c \in Seq(BlockType), NEW n \in Nat, n <= Len(c)
    PROVE  UpTo(c, n) \subseteq Tx
<1>1. ASSUME NEW k \in 1..n PROVE Range(c[k].txs) \subseteq Tx
  <2>1. c[k] \in BlockType
    OBVIOUS
  <2>2. c[k].txs \in Seq(Tx)
    BY <2>1 DEF BlockType
  <2> QED BY <2>2 DEF Range
<1> QED BY <1>1 DEF UpTo

\* The transactions of a chain are those of all its blocks.
LEMMA TxsOfUpTo ==
    ASSUME NEW c \in Seq(BlockType)
    PROVE  TxsOf(c) = UpTo(c, Len(c)) /\ TxsOf(c) \subseteq Tx
<1>1. DOMAIN c = 1..Len(c) /\ Len(c) \in Nat
  OBVIOUS
<1>2. TxsOf(c) = UpTo(c, Len(c))
  BY <1>1 DEF TxsOf, UpTo
<1> QED BY <1>1, <1>2, UpToTx

\* The ledger each block was applied to, and the ledger of the head
LEMMA BeforeOK ==
    ASSUME NEW c, ChainOK(c), NEW i \in 1..(Len(c) + 1)
    PROVE  LedgerOK(Before(c, i)) /\ Before(c, i).done = UpTo(c, i - 1)
<1>1. c \in Seq(BlockType) /\ Len(c) \in Nat
  BY DEF ChainOK
<1>2. CASE i = 1
  BY <1>2, EmptyLedgerOK DEF Before, UpTo, EmptyLedger
<1>3. CASE i # 1
  BY <1>1, <1>3, i - 1 \in 1..Len(c) DEF Before, ChainOK
<1> QED BY <1>2, <1>3

\* The ledger of the head block holds the transactions of the chain, as
\* _apply_block left it.
LEMMA HeadLedger ==
    ASSUME NEW c, ChainOK(c)
    PROVE  /\ Ledger(c) = Before(c, Len(c) + 1)
           /\ LedgerOK(Ledger(c)) /\ Ledger(c).done = TxsOf(c)
<1>1. c \in Seq(BlockType) /\ Len(c) \in Nat
  BY DEF ChainOK
<1>2. Ledger(c) = Before(c, Len(c) + 1)
  <2>1. CASE c = <<>>
    BY <2>1 DEF Ledger, Before, EmptyLedger
  <2>2. CASE c # <<>>
    BY <2>2, <1>1, Len(c) + 1 # 1, (Len(c) + 1) - 1 = Len(c) DEF Ledger, Before, HeadBlock
  <2> QED BY <2>1, <2>2
<1>3. Len(c) + 1 \in 1..(Len(c) + 1) /\ (Len(c) + 1) - 1 = Len(c)
  BY <1>1
<1>4. LedgerOK(Before(c, Len(c) + 1)) /\ Before(c, Len(c) + 1).done = UpTo(c, Len(c))
  BY <1>3, BeforeOK
<1> QED BY <1>1, <1>2, <1>4, TxsOfUpTo

\* Chains that begin alike have the same ledgers there.
LEMMA SameStart ==
    ASSUME NEW c, NEW d, NEW n \in Nat, \A k \in 1..n : c[k] = d[k], NEW i \in 1..(n + 1)
    PROVE  /\ Before(c, i) = Before(d, i)
           /\ UpTo(c, i - 1) = UpTo(d, i - 1)
<1>1. i # 1 => i - 1 \in 1..n
  OBVIOUS
<1>2. \A k \in 1..(i - 1) : c[k] = d[k]
  OBVIOUS
<1>3. UpTo(c, i - 1) = UpTo(d, i - 1)
  BY <1>2 DEF UpTo
<1>4. Before(c, i) = Before(d, i)
  BY <1>1 DEF Before
<1> QED BY <1>3, <1>4

\* A chain without blocks.
LEMMA EmptyChain == ChainOK(<<>>) /\ TxsOf(<<>>) = {}
BY DEF ChainOK, TxsOf

\* What pop_block leaves is a chain.
LEMMA ChainPrefix ==
    ASSUME NEW c, ChainOK(c), NEW n \in 0..Len(c)
    PROVE  ChainOK(SubSeq(c, 1, n)) /\ Len(SubSeq(c, 1, n)) = n
<1> DEFINE d == SubSeq(c, 1, n)
<1>1. c \in Seq(BlockType) /\ Len(c) \in Nat /\ n \in Nat
  BY DEF ChainOK
<1>2. d \in Seq(BlockType) /\ Len(d) = n /\ \A k \in 1..n : d[k] = c[k]
  BY <1>1
<1> HIDE DEF d
<1>3. ASSUME NEW i \in 1..n
      PROVE  /\ LedgerOK(d[i].ledger)
             /\ d[i].ledger.done = UpTo(d, i)
             /\ AllApplicable(Before(d, i), d[i].txs)
  <2>1. d[i] = c[i] /\ i \in 1..(n + 1) /\ i + 1 \in 1..(n + 1) /\ i \in 1..Len(c)
    BY <1>1, <1>2
  <2>2. Before(d, i) = Before(c, i)
    BY <2>1, <1>1, <1>2, SameStart
  <2>3. UpTo(d, (i + 1) - 1) = UpTo(c, (i + 1) - 1)
    BY <2>1, <1>1, <1>2, SameStart, ZenonT(40)
  <2>4. (i + 1) - 1 = i
    OBVIOUS
  <2> QED BY <2>1, <2>2, <2>3, <2>4 DEF ChainOK
<1>4. ChainOK(d)
  BY <1>2, <1>3 DEF ChainOK
<1> QED BY <1>2, <1>4 DEF d

\* A block that applies makes a chain of the chain.
LEMMA ChainExtended ==
    ASSUME NEW c, ChainOK(c), NEW b \in [txs : Seq(Tx), time : 1..MaxTime],
           BlockApplies(Ledger(c), b)
    PROVE  /\ ChainOK(Extended(c, b))
           /\ Len(Extended(c, b)) = Len(c) + 1
           /\ \A k \in 1..Len(c) : Extended(c, b)[k] = c[k]
           /\ TxsOf(Extended(c, b)) = TxsOf(c) \cup Range(b.txs)
<1> DEFINE e == [txs |-> b.txs, ledger |-> _apply_block(Ledger(c), b)]
           d == Extended(c, b)
           n == Len(c)
<1>1. c \in Seq(BlockType) /\ n \in Nat
  BY DEF ChainOK
<1>2. LedgerOK(Ledger(c)) /\ Ledger(c).done = UpTo(c, n) /\ Ledger(c) = Before(c, n + 1)
  BY HeadLedger, TxsOfUpTo, <1>1
<1>3. /\ LedgerOK(e.ledger) /\ e.ledger \in BlockLedger
      /\ e.ledger.done = UpTo(c, n) \cup Range(b.txs)
  BY <1>2, ApplyBlockOK DEF BlockApplies
<1>4. e \in BlockType /\ e.txs = b.txs
  BY <1>3 DEF BlockType
<1>5. d = Append(c, e)
  BY DEF Extended
<1> HIDE DEF e, d
<1>6. /\ d \in Seq(BlockType) /\ Len(d) = n + 1 /\ d[n + 1] = e
      /\ \A k \in 1..n : d[k] = c[k]
  BY <1>1, <1>4, <1>5
<1>7. UpTo(d, n) = UpTo(c, n)
  BY <1>6 DEF UpTo
<1>8. UpTo(d, n + 1) = UpTo(c, n) \cup Range(b.txs)
  <2>1. 1..(n + 1) = 1..n \cup {n + 1}
    BY <1>1
  <2>2. UpTo(d, n + 1) = UpTo(d, n) \cup Range(d[n + 1].txs)
    BY <2>1 DEF UpTo
  <2> QED BY <2>2, <1>4, <1>6, <1>7
<1>9. ASSUME NEW i \in 1..(n + 1)
      PROVE  /\ LedgerOK(d[i].ledger)
             /\ d[i].ledger.done = UpTo(d, i)
             /\ AllApplicable(Before(d, i), d[i].txs)
  <2>1. Before(d, i) = Before(c, i)
    BY <1>1, <1>6, SameStart, Zenon
  <2>2. CASE i = n + 1
    <3>1. AllApplicable(Before(d, i), d[i].txs)
      BY <2>1, <2>2, <1>2, <1>4, <1>6 DEF BlockApplies
    <3> QED BY <3>1, <2>2, <1>3, <1>6, <1>8, Zenon
  <2>3. CASE i # n + 1
    <3>1. i \in 1..n /\ i + 1 \in 1..(n + 1) /\ (i + 1) - 1 = i
      BY <2>3, <1>1
    <3>2. UpTo(d, (i + 1) - 1) = UpTo(c, (i + 1) - 1)
      BY <3>1, <1>1, <1>6, SameStart, Zenon
    <3>3. UpTo(d, i) = UpTo(c, i)
      BY <3>1, <3>2
    <3>4. d[i] = c[i]
      BY <3>1, <1>6
    <3> QED BY <2>1, <3>1, <3>3, <3>4 DEF ChainOK
  <2> QED BY <2>2, <2>3
<1>10. ChainOK(d)
  BY <1>6, <1>9 DEF ChainOK
<1>11. TxsOf(d) = TxsOf(c) \cup Range(b.txs)
  BY <1>1, <1>6, <1>8, TxsOfUpTo
<1> QED BY <1>6, <1>10, <1>11 DEF d

\* In a chain no transaction is applied twice, and each one comes after what
\* it needs.
LEMMA ChainOnce ==
    ASSUME NEW c, ChainOK(c), NEW i \in 1..Len(c)
    PROVE  /\ IsInjective(c[i].txs)
           /\ NeedsMet(UpTo(c, i - 1), c[i].txs)
           /\ c[i].txs \in Seq(Tx)
<1>1. c[i] \in BlockType /\ i \in 1..(Len(c) + 1)
  BY DEF ChainOK
<1>2. c[i].txs \in Seq(Tx) /\ AllApplicable(Before(c, i), c[i].txs)
  BY <1>1 DEF ChainOK, BlockType
<1>3. LedgerOK(Before(c, i)) /\ Before(c, i).done = UpTo(c, i - 1)
  BY <1>1, BeforeOK
<1> QED BY <1>2, <1>3, AllApplicableNew

\* No transaction is in two blocks of a chain.
LEMMA ChainDisjoint ==
    ASSUME NEW c, ChainOK(c), NEW i \in 1..Len(c), NEW j \in 1..Len(c), i # j
    PROVE  Range(c[i].txs) \cap Range(c[j].txs) = {}
<1>1. ASSUME NEW a \in 1..Len(c), NEW b \in 1..Len(c), a < b
      PROVE  Range(c[a].txs) \cap Range(c[b].txs) = {}
  <2>1. Range(c[a].txs) \subseteq UpTo(c, b - 1)
    BY <1>1, a \in 1..(b - 1) DEF UpTo
  <2> QED BY <2>1, ChainOnce DEF NeedsMet
<1>2. i < j \/ j < i
  OBVIOUS
<1> QED BY <1>1, <1>2, Zenon

\* The transactions of two stretches of a chain.
LEMMA TxsOfConcat ==
    ASSUME NEW c \in Seq(BlockType), NEW d \in Seq(BlockType)
    PROVE  /\ c \o d \in Seq(BlockType)
           /\ TxsOf(c \o d) = TxsOf(c) \cup TxsOf(d)
<1>1. /\ c \o d \in Seq(BlockType)
      /\ \A b : b \in Range(c \o d) <=> b \in Range(c) \/ b \in Range(d)
  BY RangeConcat
<1>2. ASSUME NEW s PROVE TxsOf(s) = UNION {Range(b.txs) : b \in Range(s)}
  BY DEF TxsOf, Range
<1> QED BY <1>1, <1>2

-----------------------------------------------------------------------------
(* The size of a block                                                     *)

Sizes(txs) == [n \in 1..Len(txs) |-> Size[txs[n]]]

\* TotalSize is the sum of the sizes: the function it is defined by exists.
LEMMA TotalSizeSum ==
    ASSUME NEW txs \in Seq(Tx)
    PROVE  \E f \in [0..Len(txs) -> Nat] : /\ IsSum(f, Sizes(txs), Len(txs))
                                           /\ TotalSize(txs) = f[Len(txs)]
<1> DEFINE Body(f) == [n \in 0..Len(txs) |-> IF n = 0 THEN 0 ELSE f[n - 1] + Size[txs[n]]]
           up == CHOOSE f : f = Body(f)
<1>1. Len(txs) \in Nat /\ Sizes(txs) \in [1..Len(txs) -> Nat]
  BY PendingAssumption DEF Sizes
<1>2. ASSUME NEW f PROVE IsSum(f, Sizes(txs), Len(txs)) <=> f = Body(f)
  <2>1. \A n \in 1..Len(txs) : Sizes(txs)[n] = Size[txs[n]]
    BY DEF Sizes
  <2>2. [n \in 0..Len(txs) |-> IF n = 0 THEN 0 ELSE f[n - 1] + Sizes(txs)[n]] = Body(f)
    BY <1>1, <2>1
  <2> QED BY <2>2, Zenon DEF IsSum
<1>3. PICK f \in [0..Len(txs) -> Nat] : IsSum(f, Sizes(txs), Len(txs))
  BY <1>1, SumExists
<1>4. TotalSize(txs) = up[Len(txs)]
  BY DEF TotalSize
<1>5. up = Body(up)
  <2> HIDE DEF Body
  <2> QED BY <1>2, <1>3
<1> HIDE DEF Body, up
<1>6. IsSum(up, Sizes(txs), Len(txs))
  BY <1>2, <1>5
<1>7. up[Len(txs)] = f[Len(txs)]
  BY <1>1, <1>3, <1>6, SumsAgree
<1> QED BY <1>3, <1>4, <1>7

\* A block without transactions.
LEMMA TotalSizeEmpty == TotalSize(<<>>) = 0
<1>1. <<>> \in Seq(Tx) /\ Len(<<>>) = 0
  OBVIOUS
<1>2. PICK f : IsSum(f, Sizes(<<>>), 0) /\ TotalSize(<<>>) = f[0]
  BY <1>1, TotalSizeSum, Zenon
<1> QED BY <1>2 DEF IsSum

\* The loop of generate_block keeps account of the size of its block.
LEMMA TotalSizeAppend ==
    ASSUME NEW txs \in Seq(Tx), NEW t \in Tx
    PROVE  TotalSize(Append(txs, t)) = TotalSize(txs) + Size[t]
<1> DEFINE s == Append(txs, t)
           n == Len(txs)
<1>1. /\ s \in Seq(Tx) /\ Len(s) = n + 1 /\ s[n + 1] = t /\ n \in Nat
      /\ \A i \in 1..n : s[i] = txs[i]
  OBVIOUS
<1> HIDE DEF s
<1>2. PICK f : IsSum(f, Sizes(txs), n) /\ TotalSize(txs) = f[n]
  BY TotalSizeSum
<1>3. PICK g : IsSum(g, Sizes(s), n + 1) /\ TotalSize(s) = g[n + 1]
  BY <1>1, TotalSizeSum
<1>4. \A i \in 1..n : Sizes(txs)[i] = Sizes(s)[i]
  BY <1>1 DEF Sizes
<1>5. f[n] = g[n]
  <2> DEFINE m == n + 1
             a == Sizes(txs)
             b == Sizes(s)
  <2>1. n \in Nat /\ m \in Nat /\ n <= m /\ n <= n
    BY <1>1
  <2>2. IsSum(f, a, n) /\ IsSum(g, b, m) /\ \A i \in 1..n : a[i] = b[i]
    BY <1>2, <1>3, <1>4
  <2> HIDE DEF n, m, a, b
  <2> QED BY <2>1, <2>2, SumsAgree
<1>6. g[n + 1] = g[n] + Sizes(s)[n + 1]
  <2>1. \A i \in 0..(n + 1) : g[i] = IF i = 0 THEN 0 ELSE g[i - 1] + Sizes(s)[i]
    BY <1>3 DEF IsSum
  <2>2. n + 1 \in 0..(n + 1) /\ n + 1 # 0 /\ (n + 1) - 1 = n
    BY <1>1
  <2> QED BY <2>1, <2>2
<1>7. Sizes(s)[n + 1] = Size[t]
  BY <1>1 DEF Sizes
<1> QED BY <1>2, <1>3, <1>5, <1>6, <1>7 DEF s

-----------------------------------------------------------------------------
(* Order                                                                   *)

\* Without transactions there is nothing to order.
LEMMA NeedsMetEmpty == ASSUME NEW base PROVE NeedsMet(base, <<>>) /\ Ordered(<<>>, {})
BY DEF NeedsMet, Ordered, Range

\* A transaction that is applicable keeps the sequence it is appended to in
\* order.
LEMMA NeedsMetAppend ==
    ASSUME NEW base, NEW s \in Seq(Tx), NeedsMet(base, s), NEW t \in Tx,
           t \notin base, Needs[t] \subseteq base \cup Range(s)
    PROVE  NeedsMet(base, Append(s, t))
<1> DEFINE r == Append(s, t)
           n == Len(s)
<1>1. /\ r \in Seq(Tx) /\ Len(r) = n + 1 /\ r[n + 1] = t /\ n \in Nat
      /\ \A i \in 1..n : r[i] = s[i]
      /\ Range(r) = Range(s) \cup {t}
  BY RangeAppend
<1> HIDE DEF r
<1>2. ASSUME NEW i \in 1..(n + 1) PROVE Needs[r[i]] \subseteq base \cup Earlier(r, i)
  <2>1. CASE i = n + 1
    <3>1. Earlier(r, i) = {s[j] : j \in 1..n}
      BY <2>1, <1>1 DEF Earlier
    <3>2. Earlier(r, i) = Range(s)
      BY <3>1 DEF Range
    <3> QED BY <3>2, <2>1, <1>1
  <2>2. CASE i # n + 1
    <3>1. i \in 1..n
      BY <2>2, <1>1
    <3>2. Earlier(r, i) = Earlier(s, i)
      BY <3>1, <1>1 DEF Earlier
    <3> QED BY <3>1, <3>2, <1>1 DEF NeedsMet
  <2> QED BY <2>1, <2>2
<1>3. Range(r) \cap base = {}
  BY <1>1 DEF NeedsMet
<1> QED BY <1>1, <1>2, <1>3 DEF NeedsMet, r

\* A sequence that was applied is in order.
LEMMA NeedsMetOrdered ==
    ASSUME NEW base, NEW s \in Seq(Tx), NeedsMet(base, s)
    PROVE  Ordered(s, {})
<1> SUFFICES ASSUME NEW i \in 1..Len(s), NEW x \in Needs[s[i]], x \in Later(s, i)
             PROVE  x \in Earlier(s, i)
  BY DEF Ordered
<1>1. x \in Range(s)
  BY DEF Later, Range
<1> QED BY <1>1 DEF NeedsMet

\* More transactions out of the way leave a sequence in order.
LEMMA OrderedMore ==
    ASSUME NEW s, NEW A, NEW B, A \subseteq B, Ordered(s, A)
    PROVE  Ordered(s, B)
BY DEF Ordered

\* What comes before and after a place, when the restorer has taken the head.
LEMMA TailShift ==
    ASSUME NEW s \in Seq(Tx), s # <<>>, NEW i \in 1..Len(Tail(s))
    PROVE  /\ i + 1 \in 1..Len(s) /\ Tail(s)[i] = s[i + 1]
           /\ Later(s, i + 1) = Later(Tail(s), i)
           /\ Earlier(s, i + 1) = {Head(s)} \cup Earlier(Tail(s), i)
<1> DEFINE r == Tail(s)
           n == Len(s)
<1>1. /\ Len(r) = n - 1 /\ n \in Nat /\ n > 0 /\ Head(s) = s[1]
      /\ \A k \in 1..(n - 1) : r[k] = s[k + 1]
  BY HeadTail
<1> HIDE DEF r
<1>2. i + 1 \in 1..n /\ r[i] = s[i + 1] /\ i \in 1..(n - 1)
  BY <1>1 DEF r
<1>3. ASSUME NEW k \in ((i + 1) + 1)..n PROVE s[k] \in Later(r, i)
  <2>1. k - 1 \in (i + 1)..(n - 1) /\ k - 1 \in 1..(n - 1) /\ (k - 1) + 1 = k
    BY <1>1, <1>2
  <2> QED BY <2>1, <1>1, Zenon DEF Later
<1>4. ASSUME NEW k \in (i + 1)..(n - 1) PROVE r[k] \in Later(s, i + 1)
  <2>1. k + 1 \in ((i + 1) + 1)..n /\ k \in 1..(n - 1)
    BY <1>1, <1>2
  <2> QED BY <2>1, <1>1 DEF Later
<1>5. ASSUME NEW k \in 1..((i + 1) - 1) PROVE s[k] \in {Head(s)} \cup Earlier(r, i)
  <2>1. CASE k = 1
    BY <2>1, <1>1
  <2>2. CASE k # 1
    <3>1. k - 1 \in 1..(i - 1) /\ k - 1 \in 1..(n - 1) /\ (k - 1) + 1 = k
      BY <1>1, <1>2, <2>2
    <3> QED BY <3>1, <1>1, Zenon DEF Earlier
  <2> QED BY <2>1, <2>2
<1>6. ASSUME NEW k \in 1..(i - 1) PROVE r[k] \in Earlier(s, i + 1)
  <2>1. k + 1 \in 1..((i + 1) - 1) /\ k \in 1..(n - 1)
    BY <1>1, <1>2
  <2> QED BY <2>1, <1>1 DEF Earlier
<1>7. Head(s) \in Earlier(s, i + 1)
  <2>1. 1 \in 1..((i + 1) - 1)
    BY <1>2
  <2> QED BY <2>1, <1>1 DEF Earlier
<1>8. Later(s, i + 1) = Later(r, i)
  BY <1>1, <1>3, <1>4, Zenon DEF Later
<1>9. Earlier(s, i + 1) = {Head(s)} \cup Earlier(r, i)
  BY <1>5, <1>6, <1>7 DEF Earlier
<1> QED BY <1>2, <1>8, <1>9 DEF r

\* The order of _pending_tx is kept when the restorer takes its head.
LEMMA OrderedTail ==
    ASSUME NEW s \in Seq(Tx), s # <<>>, NEW B, Ordered(s, B)
    PROVE  /\ Ordered(Tail(s), B \cup {Head(s)})
           /\ Needs[Head(s)] \cap Range(Tail(s)) \subseteq B
<1>1. ASSUME NEW i \in 1..Len(Tail(s))
      PROVE  Needs[Tail(s)[i]] \cap Later(Tail(s), i) \subseteq B \cup {Head(s)} \cup Earlier(Tail(s), i)
  BY TailShift DEF Ordered
<1>2. Needs[Head(s)] \cap Range(Tail(s)) \subseteq B
  <2>1. 1 \in 1..Len(s) /\ s[1] = Head(s) /\ Earlier(s, 1) = {}
    BY HeadTail DEF Earlier
  <2>2. Range(Tail(s)) \subseteq Later(s, 1)
    <3> SUFFICES ASSUME NEW i \in 1..Len(Tail(s)) PROVE Tail(s)[i] \in Later(s, 1)
      BY HeadTail DEF Range
    <3>1. i + 1 \in (1 + 1)..Len(s) /\ Tail(s)[i] = s[i + 1]
      BY HeadTail
    <3> QED BY <3>1 DEF Later
  <2> QED BY <2>1, <2>2 DEF Ordered
<1> QED BY <1>1, <1>2 DEF Ordered

\* The order of _popped_tx is kept when the restorer takes its head.
LEMMA PoppedTail ==
    ASSUME NEW s \in Seq(Tx), s # <<>>, NEW rest, NEW whose, PoppedOrdered(s, rest, whose)
    PROVE  /\ PoppedOrdered(Tail(s), rest, whose)
           /\ Head(s) \in whose => Needs[Head(s)] \cap (Range(Tail(s)) \cup rest) = {}
<1>1. ASSUME NEW i \in 1..Len(Tail(s)), Tail(s)[i] \in whose
      PROVE  Needs[Tail(s)[i]] \cap (Later(Tail(s), i) \cup rest) = {}
  BY <1>1, TailShift DEF PoppedOrdered
<1>2. ASSUME Head(s) \in whose PROVE Needs[Head(s)] \cap (Range(Tail(s)) \cup rest) = {}
  <2>1. 1 \in 1..Len(s) /\ s[1] = Head(s)
    BY HeadTail
  <2>2. Range(Tail(s)) \subseteq Later(s, 1)
    <3> SUFFICES ASSUME NEW i \in 1..Len(Tail(s)) PROVE Tail(s)[i] \in Later(s, 1)
      BY HeadTail DEF Range
    <3>1. i + 1 \in (1 + 1)..Len(s) /\ Tail(s)[i] = s[i + 1]
      BY HeadTail
    <3> QED BY <3>1 DEF Later
  <2> QED BY <1>2, <2>1, <2>2 DEF PoppedOrdered
<1> QED BY <1>1, <1>2 DEF PoppedOrdered

\* pop_block puts the transactions of a block before those of later blocks.
LEMMA PoppedConcat ==
    ASSUME NEW txs \in Seq(Tx), NEW p \in Seq(Tx), NEW base, NEW rest,
           NeedsMet(base, txs), IsInjective(txs),
           (base \cup Range(txs)) \cap (Range(p) \cup rest) = {},
           PoppedOrdered(p, rest, Tx)
    PROVE  PoppedOrdered(txs \o p, rest, Tx)
<1> DEFINE r == txs \o p
           n == Len(txs)
           m == Len(p)
<1>1. /\ r \in Seq(Tx) /\ Len(r) = n + m /\ n \in Nat /\ m \in Nat
      /\ \A i \in 1..(n + m) : r[i] = IF i <= n THEN txs[i] ELSE p[i - n]
      /\ DOMAIN txs = 1..n /\ DOMAIN p = 1..m
  BY SeqConcat
<1> HIDE DEF r
<1>2. ASSUME NEW i \in 1..n PROVE Needs[txs[i]] \cap (Later(r, i) \cup rest) = {}
  <2>1. Needs[txs[i]] \subseteq base \cup Earlier(txs, i)
    BY DEF NeedsMet
  <2>2. Later(r, i) \subseteq Later(txs, i) \cup Range(p)
    <3> SUFFICES ASSUME NEW k \in (i + 1)..(n + m) PROVE r[k] \in Later(txs, i) \cup Range(p)
      BY <1>1 DEF Later
    <3>1. CASE k <= n
      BY <3>1, <1>1, k \in 1..(n + m) DEF Later
    <3>2. CASE k > n
      <4>1. k \in 1..(n + m) /\ k - n \in 1..m /\ ~(k <= n)
        BY <3>2, <1>1
      <4> QED BY <4>1, <1>1, Zenon DEF Range
    <3> QED BY <3>1, <3>2, <1>1
  <2>3. Later(txs, i) \subseteq Range(txs) /\ Earlier(txs, i) \subseteq Range(txs)
    <3>1. (i + 1)..n \subseteq DOMAIN txs /\ 1..(i - 1) \subseteq DOMAIN txs
      BY <1>1
    <3> QED BY <3>1 DEF Later, Earlier, Range
  <2>4. Earlier(txs, i) \cap Later(txs, i) = {}
    <3> SUFFICES ASSUME NEW j \in 1..(i - 1), NEW k \in (i + 1)..n, txs[j] = txs[k] PROVE FALSE
      BY DEF Earlier, Later
    <3>1. j \in DOMAIN txs /\ k \in DOMAIN txs /\ j # k
      BY <1>1
    <3> QED BY <3>1 DEF IsInjective
  <2>5. base \cap Range(txs) = {}
    BY DEF NeedsMet
  <2> QED BY <2>1, <2>2, <2>3, <2>4, <2>5
<1>3. ASSUME NEW i \in (n + 1)..(n + m) PROVE Needs[r[i]] \cap (Later(r, i) \cup rest) = {}
  <2>1. i - n \in 1..m /\ r[i] = p[i - n] /\ p[i - n] \in Tx
    BY <1>1
  <2>2. Later(r, i) \subseteq Later(p, i - n)
    <3> SUFFICES ASSUME NEW k \in (i + 1)..(n + m) PROVE r[k] \in Later(p, i - n)
      BY <1>1 DEF Later
    <3>1. k \in 1..(n + m) /\ ~(k <= n) /\ k - n \in ((i - n) + 1)..m
      BY <1>1
    <3> QED BY <3>1, <1>1, Zenon DEF Later
  <2> QED BY <2>1, <2>2 DEF PoppedOrdered
<1>4. ASSUME NEW i \in 1..(n + m) PROVE Needs[r[i]] \cap (Later(r, i) \cup rest) = {}
  <2>1. CASE i <= n
    <3>1. i \in 1..n /\ r[i] = txs[i]
      BY <2>1, <1>1
    <3> QED BY <3>1, <1>2
  <2>2. CASE i > n
    BY <2>2, <1>1, <1>3
  <2> QED BY <2>1, <2>2, <1>1
<1> QED BY <1>1, <1>4 DEF PoppedOrdered, r

-----------------------------------------------------------------------------
(* The restorer                                                            *)

\* What was dropped does not become applicable.
LEMMA FinalNotApplicable ==
    ASSUME NEW l, NEW rest, NEW t \in Tx, NEW dropped, dropped \cap l.done = {},
           Final(l, rest, t, dropped)
    PROVE  ~Applicable(l, t)
BY DEF Final, OutOfTime, Applicable

\* Trying one of rest keeps the reasons.
LEMMA FinalKept ==
    ASSUME NEW l, NEW m, NEW rest, NEW less, NEW t \in rest, less \subseteq rest, Tried(l, t, m),
           NEW d, NEW dropped, NEW more, dropped \subseteq more, Final(l, rest, d, dropped)
    PROVE  Final(m, less, d, more)
<1>1. CASE OutOfTime(l, d)
  BY <1>1, Zenon DEF Final, OutOfTime, Tried
<1>2. CASE Conflicts[d] \cap l.done # {}
  BY <1>2 DEF Final, Tried
<1>3. CASE Needs[d] \cap dropped # {}
  BY <1>3 DEF Final
<1>4. CASE \E x \in Needs[d] : x \notin l.done \cup rest
  BY <1>4 DEF Final, Tried
<1> QED BY <1>1, <1>2, <1>3, <1>4 DEF Final

\* A transaction that fails, although what it needs was tried, fails for good.
LEMMA FailsForGood ==
    ASSUME NEW l, LedgerOK(l), NEW t \in Tx, t \notin l.done, ~Applicable(l, t),
           NEW rest, NEW dropped, Needs[t] \cap rest \subseteq l.done \cup dropped
    PROVE  Final(l, rest, t, dropped)
<1>1. t \notin l.recent
  BY DEF LedgerOK
<1>2. \/ l.now > 0 /\ Expires[t] \notin l.now..(l.now + MaxUntilExpiration)
      \/ ~(Needs[t] \subseteq l.done)
      \/ Conflicts[t] \cap l.done # {}
  BY <1>1 DEF Applicable, is_known_transaction
<1>3. CASE ~(Needs[t] \subseteq l.done)
  <2>1. PICK x \in Needs[t] : x \notin l.done
    BY <1>3
  <2>2. x \in dropped \/ x \notin rest
    BY <2>1
  <2> QED BY <2>1, <2>2 DEF Final
<1> QED BY <1>2, <1>3 DEF Final, OutOfTime

\* One round of the loop over the transactions put aside
LEMMA PoppedRound ==
    ASSUME NEW l, LedgerOK(l), NEW m, NEW aside \in Seq(Tx), NEW left \in Seq(Tx), NEW have, NEW known,
           aside # <<>>, Tried(l, Head(aside), m), known \subseteq l.done,
           PoppedOrdered(aside, Range(left), have \ (known \cup Range(left))),
           NEW dropped \in SUBSET Tx, Accounted(l, aside, left, have, dropped)
    PROVE  \E more \in SUBSET Tx : Accounted(m, Tail(aside), left, have, more)
<1> DEFINE t == Head(aside)
           rest == Range(aside) \cup Range(left)
           less == Range(Tail(aside)) \cup Range(left)
<1>1. /\ t \in Tx /\ Tail(aside) \in Seq(Tx) /\ Range(aside) = {t} \cup Range(Tail(aside))
  BY HeadTail
<1>2. t \in rest /\ rest = {t} \cup less /\ less \subseteq rest
  BY <1>1
<1>3. t \notin dropped \/ ~Applicable(l, t)
  BY <1>1, FinalNotApplicable DEF Accounted
<1>4. l.done \subseteq m.done /\ m.done \subseteq l.done \cup {t} /\ Tried(l, t, m)
  BY DEF Tried
<1>5. dropped \cap m.done = {}
  BY <1>3 DEF Tried, Accounted
<1> HIDE DEF t
<1>6. CASE t \in m.done \/ t \notin have \ (known \cup Range(left))
  <2>1. \A d \in dropped : Final(m, less, d, dropped)
    <3> HIDE DEF rest, less
    <3>1. \A d \in dropped : Final(l, rest, d, dropped)
      BY Zenon DEF Accounted, rest
    <3> QED BY <3>1, <1>2, <1>4, FinalKept
  <2>2. Ordered(left, m.done \cup dropped)
    BY <1>4, OrderedMore, l.done \cup dropped \subseteq m.done \cup dropped DEF Accounted
  <2>3. have \subseteq m.done \cup dropped \cup less
    BY <1>4, <1>6, <1>2 DEF Accounted
  <2>4. Accounted(m, Tail(aside), left, have, dropped)
    BY <1>5, <2>1, <2>2, <2>3, Zenon DEF Accounted
  <2> QED BY <2>4
<1>7. CASE t \notin m.done /\ t \in have \ (known \cup Range(left))
  <2> DEFINE more == dropped \cup {t}
  <2>1. ~Applicable(l, t) /\ m.done = l.done /\ m.now = l.now
    BY <1>4, <1>7 DEF Tried
  <2>2. Final(l, less, t, more)
    <3>1. Needs[t] \cap less = {}
      BY <1>7, PoppedTail DEF t
    <3> QED BY <3>1, <2>1, <1>1, <1>7, FailsForGood, Zenon
  <2>3. Final(m, less, t, more)
    BY <2>1, <2>2, Zenon DEF Final, OutOfTime
  <2>4. \A d \in dropped : Final(m, less, d, more)
    <3> HIDE DEF rest, less, more
    <3>1. \A d \in dropped : Final(l, rest, d, dropped)
      BY Zenon DEF Accounted, rest
    <3>2. dropped \subseteq more
      BY DEF more
    <3> QED BY <3>1, <3>2, <1>2, <1>4, FinalKept
  <2>5. Ordered(left, m.done \cup more)
    BY <1>4, OrderedMore, l.done \cup dropped \subseteq m.done \cup more DEF Accounted
  <2>6. have \subseteq m.done \cup more \cup less
    BY <1>4, <1>2, Zenon DEF Accounted
  <2>7. more \cap m.done = {}
    BY <1>5, <1>7
  <2>8. Accounted(m, Tail(aside), left, have, more)
    BY <2>3, <2>4, <2>5, <2>6, <2>7, Zenon DEF Accounted
  <2> QED BY <2>8, <1>1
<1> QED BY <1>6, <1>7

\* One round of the loop over the transactions that were pending
LEMMA PendingRound ==
    ASSUME NEW l, LedgerOK(l), NEW m, NEW left \in Seq(Tx), NEW have,
           left # <<>>, Tried(l, Head(left), m),
           NEW dropped \in SUBSET Tx, Accounted(l, <<>>, left, have, dropped)
    PROVE  \E more \in SUBSET Tx : Accounted(m, <<>>, Tail(left), have, more)
<1> DEFINE t == Head(left)
           none == Range(<<>>)
           rest == none \cup Range(left)
           less == none \cup Range(Tail(left))
<1>1. t \in Tx /\ Tail(left) \in Seq(Tx) /\ Range(left) = {t} \cup Range(Tail(left)) /\ none = {}
  <2>1. none = {}
    BY DEF Range
  <2> QED BY <2>1, HeadTail
<1>2. t \in rest /\ rest = {t} \cup less /\ less \subseteq rest
  BY <1>1
<1>3. t \notin dropped \/ ~Applicable(l, t)
  BY <1>1, FinalNotApplicable DEF Accounted
<1>4. l.done \subseteq m.done /\ m.done \subseteq l.done \cup {t} /\ Tried(l, t, m)
  BY DEF Tried
<1>5. dropped \cap m.done = {}
  BY <1>3 DEF Tried, Accounted
<1>6. /\ Ordered(Tail(left), (l.done \cup dropped) \cup {t})
      /\ Needs[t] \cap Range(Tail(left)) \subseteq l.done \cup dropped
  BY OrderedTail DEF Accounted
<1> HIDE DEF t
<1>7. CASE t \in m.done
  <2>1. \A d \in dropped : Final(m, less, d, dropped)
    <3> HIDE DEF rest, less
    <3>1. \A d \in dropped : Final(l, rest, d, dropped)
      BY Zenon DEF Accounted, rest
    <3> QED BY <3>1, <1>2, <1>4, FinalKept
  <2>2. Ordered(Tail(left), m.done \cup dropped)
    BY <1>4, <1>6, <1>7, OrderedMore, (l.done \cup dropped) \cup {t} \subseteq m.done \cup dropped
  <2>3. have \subseteq m.done \cup dropped \cup less
    BY <1>4, <1>7, <1>2 DEF Accounted
  <2>4. Accounted(m, <<>>, Tail(left), have, dropped)
    BY <1>5, <2>1, <2>2, <2>3, Zenon DEF Accounted
  <2> QED BY <2>4
<1>8. CASE t \notin m.done
  <2> DEFINE more == dropped \cup {t}
  <2>1. ~Applicable(l, t) /\ m.done = l.done /\ m.now = l.now
    BY <1>4, <1>8, Zenon DEF Tried
  <2>2. Final(l, less, t, more)
    <3>1. Needs[t] \cap less \subseteq l.done \cup more
      BY <1>1, <1>6
    <3> QED BY <3>1, <2>1, <1>1, <1>8, FailsForGood, Zenon
  <2>3. Final(m, less, t, more)
    BY <2>1, <2>2, Zenon DEF Final, OutOfTime
  <2>4. \A d \in dropped : Final(m, less, d, more)
    <3> HIDE DEF rest, less, more
    <3>1. \A d \in dropped : Final(l, rest, d, dropped)
      BY Zenon DEF Accounted, rest
    <3>2. dropped \subseteq more
      BY DEF more
    <3> QED BY <3>1, <3>2, <1>2, <1>4, FinalKept
  <2>5. Ordered(Tail(left), m.done \cup more)
    BY <1>4, <1>6, OrderedMore, (l.done \cup dropped) \cup {t} \subseteq m.done \cup more, Zenon
  <2>6. have \subseteq m.done \cup more \cup less
    BY <1>4, <1>2 DEF Accounted
  <2>7. more \cap m.done = {}
    BY <1>5, <1>8
  <2>8. Accounted(m, <<>>, Tail(left), have, more)
    BY <2>3, <2>4, <2>5, <2>6, <2>7, Zenon DEF Accounted
  <2> QED BY <2>8, <1>1
<1> QED BY <1>7, <1>8

-----------------------------------------------------------------------------
(* The invariant                                                           *)

\* In a switch: the chain the call began with
Base == SubSeq(chain, 1, Len(chain) - block.time) \o old

\* The types, and how the blocks of the chain were applied.
TypesOK ==
    /\ ChainOK(chain)
    /\ pending \in Seq(Tx) /\ popped \in Seq(Tx) /\ todo \in Seq(Tx)
    /\ old \in Seq(BlockType)
    /\ session \in [closed : BOOLEAN, txs : Seq(Tx)]
    /\ block \in [txs : Seq(Tx), time : Nat]
    /\ phase \in Phase
    /\ mismatch \in BOOLEAN
    /\ had \in SUBSET Tx

\* Between calls: the pending transactions come after what they need, and the
\* session is the one they were applied in, unless a wrong key dropped it.
IdleOK ==
    /\ popped = <<>> /\ todo = <<>> /\ old = <<>> /\ block = NoBlock
    /\ NeedsMet(TxsOf(chain), pending)
    /\ Range(session.txs) \subseteq Range(pending)
    /\ ~mismatch => session.txs = pending

\* In generate_block: what was taken so far is applied to the head and fits.
PackOK ==
    /\ popped = <<>> /\ old = <<>>
    /\ NeedsMet(TxsOf(chain), pending)
    /\ had = TxsOf(chain) \cup Range(pending)
    /\ block.txs = session.txs
    /\ block.time \in 1..MaxTime /\ block.time > Ledger(chain).now
    /\ TotalSize(block.txs) <= MaxBlockSize

\* In push_block: what has to be put back is in order, and the chain that a
\* failed switch comes back to is one.
PushOK ==
    /\ session = NoSession /\ pending = <<>>
    /\ block.txs = <<>> /\ block.time <= Len(chain)
    /\ phase \in {"push", "pop"} => block = NoBlock
    /\ phase = "push" => old = <<>>
    /\ ChainOK(Base)
    /\ had = TxsOf(Base) \cup Range(todo)
    /\ Range(todo) \cap TxsOf(Base) = {}
    /\ Ordered(todo, {})
    /\ phase # "unwind" => Range(popped) = TxsOf(old) /\ PoppedOrdered(popped, Range(todo), Tx)

\* In the restorer: all that was there is accounted for.
RestoreOK ==
    /\ session.txs = pending
    /\ block = NoBlock /\ old = <<>>
    /\ PoppedOrdered(popped, Range(todo), had \ (TxsOf(chain) \cup Range(todo)))
    /\ \E dropped \in SUBSET Tx : Accounted(PendingLedger, popped, todo, had, dropped)

\* The inductive invariant
PendingInv ==
    /\ TypesOK
    /\ AllApplicable(Ledger(chain), session.txs)
    /\ phase = "idle" => IdleOK
    /\ phase = "pack" => PackOK
    /\ phase \in {"push", "pop", "switch", "unwind"} => PushOK
    /\ phase = "restore" => RestoreOK

\* The invariant holds of a database that was just opened.
THEOREM PendingInit_Inv == PendingInit => PendingInv
<1> SUFFICES ASSUME PendingInit PROVE PendingInv
  OBVIOUS
<1> USE DEF PendingInit
<1>1. TypesOK
  <2>1. ChainOK(chain)
    BY EmptyChain
  <2>2. /\ session \in [closed : BOOLEAN, txs : Seq(Tx)]
        /\ block \in [txs : Seq(Tx), time : Nat]
    BY DEF NoSession, NoBlock
  <2>3. old \in Seq(BlockType) /\ pending \in Seq(Tx)
    OBVIOUS
  <2> QED BY <2>1, <2>2, <2>3, Zenon DEF TypesOK, Phase
<1>2. AllApplicable(Ledger(chain), session.txs)
  BY NoneApplicable DEF NoSession
<1>3. IdleOK
  BY NeedsMetEmpty DEF IdleOK, NoSession, Range
<1> QED BY <1>1, <1>2, <1>3 DEF PendingInv

\* What the invariant says of the pending state.
LEMMA PendingFacts ==
    ASSUME PendingInv
    PROVE  /\ session.txs \in Seq(Tx)
           /\ LedgerOK(Ledger(chain)) /\ Ledger(chain).done = TxsOf(chain) /\ TxsOf(chain) \subseteq Tx
           /\ LedgerOK(PendingLedger)
           /\ PendingLedger.done = TxsOf(chain) \cup Range(session.txs)
           /\ PendingLedger.now = Ledger(chain).now
           /\ NeedsMet(TxsOf(chain), session.txs) /\ IsInjective(session.txs)
<1>1. session.txs \in Seq(Tx) /\ ChainOK(chain) /\ chain \in Seq(BlockType)
  BY DEF PendingInv, TypesOK, ChainOK
<1>2. LedgerOK(Ledger(chain)) /\ Ledger(chain).done = TxsOf(chain) /\ TxsOf(chain) \subseteq Tx
  BY <1>1, HeadLedger, TxsOfUpTo, Zenon
<1>3. /\ LedgerOK(PendingLedger)
      /\ PendingLedger.done = TxsOf(chain) \cup Range(session.txs)
      /\ PendingLedger.now = Ledger(chain).now
  BY <1>1, <1>2, ApplyAllOK, ApplyAllFields DEF PendingLedger, LedgerOK
<1>4. NeedsMet(TxsOf(chain), session.txs) /\ IsInjective(session.txs)
  BY <1>1, <1>2, AllApplicableNew, Zenon DEF PendingInv
<1> QED BY <1>1, <1>2, <1>3, <1>4

\* What _push_transaction does to the session and to the ledger
LEMMA PushSession ==
    ASSUME PendingInv, NEW t \in Tx, _push_transaction(t), chain' = chain
    PROVE  /\ session' \in [closed : BOOLEAN, txs : Seq(Tx)] /\ pending' \in Seq(Tx)
           /\ AllApplicable(Ledger(chain), session'.txs)
           /\ Tried(PendingLedger, t, PendingLedger')
           /\ \/ /\ Applicable(PendingLedger, t)
                 /\ pending' = Append(pending, t) /\ session'.txs = Append(session.txs, t)
              \/ /\ ~Applicable(PendingLedger, t)
                 /\ pending' = pending /\ session'.txs = session.txs
<1>1. session.txs \in Seq(Tx) /\ pending \in Seq(Tx) /\ Ledger(chain) \in LedgerType
  BY PendingFacts, Zenon DEF PendingInv, TypesOK, LedgerOK
<1>2. /\ PendingLedger' = ApplyAll(Ledger(chain), session'.txs)
      /\ PendingLedger = ApplyAll(Ledger(chain), session.txs)
  BY DEF PendingLedger
<1>3. CASE Applicable(PendingLedger, t)
  <2>1. pending' = Append(pending, t) /\ session' = Open(Append(session.txs, t))
    BY <1>3 DEF _push_transaction
  <2>2. Append(session.txs, t) \in Seq(Tx) /\ Append(pending, t) \in Seq(Tx)
    BY <1>1
  <2>3. session' \in [closed : BOOLEAN, txs : Seq(Tx)] /\ session'.txs = Append(session.txs, t)
    BY <2>1, <2>2 DEF Open
  <2>4. AllApplicable(Ledger(chain), session'.txs)
    BY <1>1, <1>2, <1>3, <2>3, AppendApplicable, Zenon DEF PendingInv
  <2>5. Tried(PendingLedger, t, PendingLedger')
    <3>1. PendingLedger'.now = Ledger(chain).now /\ PendingLedger.now = Ledger(chain).now
      BY <1>1, <1>2, <2>2, <2>3, ApplyAllFields, Zenon
    <3>2. PendingLedger'.done = Ledger(chain).done \cup (Range(session.txs) \cup {t})
      <4>1. Range(Append(session.txs, t)) = Range(session.txs) \cup {t}
        BY <1>1, RangeAppend
      <4> QED BY <4>1, <1>1, <1>2, <2>2, <2>3, ApplyAllFields, ZenonT(60)
    <3>3. PendingLedger.done = Ledger(chain).done \cup Range(session.txs)
      BY <1>1, <1>2, ApplyAllFields
    <3> QED BY <1>3, <3>1, <3>2, <3>3 DEF Tried
  <2> QED BY <1>3, <2>1, <2>2, <2>3, <2>4, <2>5
<1>4. CASE ~Applicable(PendingLedger, t)
  <2>1. pending' = pending /\ session' = Open(session.txs)
    BY <1>4 DEF _push_transaction
  <2>2. session' \in [closed : BOOLEAN, txs : Seq(Tx)] /\ session'.txs = session.txs
    BY <1>1, <2>1 DEF Open
  <2>3. PendingLedger' = PendingLedger
    BY <1>2, <2>2
  <2> QED BY <1>1, <1>4, <2>1, <2>2, <2>3 DEF Tried, PendingInv
<1> QED BY <1>3, <1>4, Zenon

\* push_transaction: an applicable transaction joins the pending ones.
LEMMA PushTransactionStep ==
    ASSUME PendingInv, NEW t \in Tx, push_transaction(t)
    PROVE  PendingInv'
<1> USE DEF push_transaction
<1>1. IdleOK /\ phase' = "idle" /\ phase = "idle"
  BY Zenon DEF PendingInv
<1>2. /\ session' \in [closed : BOOLEAN, txs : Seq(Tx)] /\ pending' \in Seq(Tx)
      /\ AllApplicable(Ledger(chain), session'.txs)
      /\ \/ /\ Applicable(PendingLedger, t)
            /\ pending' = Append(pending, t) /\ session'.txs = Append(session.txs, t)
         \/ pending' = pending /\ session'.txs = session.txs
  BY PushSession
<1>3. TypesOK'
  BY <1>2 DEF PendingInv, TypesOK
<1>4. AllApplicable(Ledger(chain), session.txs)'
  BY <1>2
<1>5. NeedsMet(TxsOf(chain), pending') /\ Range(session'.txs) \subseteq Range(pending')
  <2>1. CASE pending' = pending /\ session'.txs = session.txs
    BY <2>1, <1>1 DEF IdleOK
  <2>2. CASE /\ Applicable(PendingLedger, t)
             /\ pending' = Append(pending, t) /\ session'.txs = Append(session.txs, t)
    <3>1. pending \in Seq(Tx) /\ session.txs \in Seq(Tx)
      BY Zenon DEF PendingInv, TypesOK
    <3>2. t \notin PendingLedger.done /\ Needs[t] \subseteq PendingLedger.done
      BY <2>2, PendingFacts, ApplicableNew, Zenon DEF Applicable
    <3>3. PendingLedger.done \subseteq TxsOf(chain) \cup Range(pending)
          /\ TxsOf(chain) \subseteq PendingLedger.done
      BY <1>1, PendingFacts, Zenon DEF IdleOK
    <3>4. NeedsMet(TxsOf(chain), Append(pending, t))
      BY <3>1, <3>2, <3>3, <1>1, NeedsMetAppend DEF IdleOK
    <3>5. Range(Append(session.txs, t)) \subseteq Range(Append(pending, t))
      BY <3>1, <1>1, RangeAppend DEF IdleOK
    <3> QED BY <2>2, <3>4, <3>5
  <2> QED BY <1>2, <2>1, <2>2, Zenon
<1>6. IdleOK'
  BY <1>1, <1>2, <1>5, Zenon DEF IdleOK
<1> QED BY <1>1, <1>3, <1>4, <1>6 DEF PendingInv

\* generate_block that fails after it dropped the pending session.
LEMMA GenerateWrongKeyStep ==
    ASSUME PendingInv, GenerateWrongKey
    PROVE  PendingInv'
<1> USE DEF GenerateWrongKey
<1>1. IdleOK /\ phase' = "idle" /\ phase = "idle"
  BY DEF PendingInv
<1>2. session'.txs = <<>> /\ session' \in [closed : BOOLEAN, txs : Seq(Tx)]
  BY DEF NoSession
<1>3. TypesOK'
  BY <1>2 DEF PendingInv, TypesOK
<1>4. AllApplicable(Ledger(chain), session.txs)'
  BY <1>2, NoneApplicable
<1>5. ~mismatch' => session'.txs = pending'
  BY <1>2, Zenon
<1>6. Range(session'.txs) = {}
  BY <1>2 DEF Range
<1>7. IdleOK'
  BY <1>1, <1>5, <1>6, Zenon DEF IdleOK
<1> QED BY <1>1, <1>3, <1>4, <1>7 DEF PendingInv

\* generate_block starts with an empty session.
LEMMA GenerateBlockStep ==
    ASSUME PendingInv, NEW when \in 1..MaxTime, _generate_block(when)
    PROVE  PendingInv'
<1> USE DEF _generate_block
<1>1. IdleOK /\ phase' = "pack" /\ phase = "idle"
  BY DEF PendingInv
<1>2. /\ session'.txs = <<>> /\ session' \in [closed : BOOLEAN, txs : Seq(Tx)]
      /\ block'.txs = <<>> /\ block'.time = when
      /\ MaxTime \in Nat /\ MaxBlockSize \in Nat /\ block' \in [txs : Seq(Tx), time : Nat]
  <2>1. session' = Open(<<>>) /\ block' = [txs |-> <<>>, time |-> when]
    BY Zenon
  <2>2. MaxTime \in Nat /\ MaxBlockSize \in Nat
    BY PendingAssumption
  <2>3. session'.txs = <<>> /\ session' \in [closed : BOOLEAN, txs : Seq(Tx)]
    BY <2>1 DEF Open
  <2>4. when \in Nat
    BY <2>2
  <2>5. block'.txs = <<>> /\ block'.time = when /\ block' \in [txs : Seq(Tx), time : Nat]
    BY <2>1, <2>4
  <2> QED BY <2>2, <2>3, <2>5, Zenon
<1>3. had' \in SUBSET Tx
  BY PendingFacts DEF PendingInv, TypesOK, Range
<1>4. TypesOK'
  BY <1>1, <1>2, <1>3, Zenon DEF PendingInv, TypesOK, Phase
<1>5. AllApplicable(Ledger(chain), session.txs)'
  BY <1>2, NoneApplicable, Zenon
<1>6. PackOK'
  BY <1>1, <1>2, TotalSizeEmpty DEF IdleOK, PackOK
<1> QED BY <1>1, <1>4, <1>5, <1>6 DEF PendingInv

\* generate_block takes or postpones one pending transaction.
LEMMA PackStep ==
    ASSUME PendingInv, Pack
    PROVE  PendingInv'
<1> USE DEF Pack
<1>1. PackOK /\ phase' = "pack" /\ phase = "pack"
  BY DEF PendingInv
<1>2. todo \in Seq(Tx) /\ Head(todo) \in Tx /\ Tail(todo) \in Seq(Tx)
  BY HeadTail DEF PendingInv, TypesOK
<1> DEFINE t == Head(todo)
<1>3. CASE Fits(t) /\ Applicable(PendingLedger, t)
  <2>1. session' = Open(Append(session.txs, t)) /\ block' = [block EXCEPT !.txs = Append(@, t)]
    BY <1>3
  <2>2. session.txs \in Seq(Tx) /\ block \in [txs : Seq(Tx), time : Nat]
    BY DEF PendingInv, TypesOK
  <2>3. /\ session'.txs = Append(session.txs, t) /\ session' \in [closed : BOOLEAN, txs : Seq(Tx)]
        /\ block'.txs = Append(block.txs, t) /\ block'.time = block.time
        /\ block' \in [txs : Seq(Tx), time : Nat]
    <3>1. Append(session.txs, t) \in Seq(Tx) /\ Append(block.txs, t) \in Seq(Tx)
      BY <1>2, <2>2
    <3> HIDE DEF t
    <3>2. block' = [block EXCEPT !.txs = Append(block.txs, t)]
      BY <2>1, <2>2
    <3> QED BY <2>1, <2>2, <3>1, <3>2, Zenon DEF Open
  <2>4. AllApplicable(Ledger(chain), session.txs)'
    BY <1>2, <1>3, <2>2, <2>3, AppendApplicable DEF PendingInv, PendingLedger
  <2>5. TotalSize(block'.txs) <= MaxBlockSize
    <3>1. TotalSize(Append(block.txs, t)) = TotalSize(block.txs) + Size[t]
      BY <1>2, <2>2, TotalSizeAppend
    <3> QED BY <3>1, <1>3, <2>3 DEF Fits
  <2>6. TypesOK'
    BY <1>1, <1>2, <2>3 DEF PendingInv, TypesOK
  <2>7. PackOK'
    BY <1>1, <2>3, <2>5 DEF PackOK
  <2> QED BY <1>1, <2>4, <2>6, <2>7 DEF PendingInv
<1>4. CASE ~(Fits(t) /\ Applicable(PendingLedger, t))
  <2>1. session' = session /\ block' = block
    BY <1>4
  <2>2. TypesOK'
    BY <1>1, <1>2, <2>1 DEF PendingInv, TypesOK
  <2>3. PackOK'
    BY <1>1, <2>1, Zenon DEF PackOK
  <2> QED BY <1>1, <2>1, <2>2, <2>3 DEF PendingInv
<1> QED BY <1>3, <1>4

\* The state in which the restorer begins
LEMMA RestoreStarts ==
    ASSUME TypesOK', session'.txs = <<>>, pending' = <<>>, phase' = "restore",
           block' = NoBlock, old' = <<>>, Ordered(todo', {}),
           PoppedOrdered(popped', Range(todo'), had' \ (TxsOf(chain') \cup Range(todo'))),
           had' \subseteq TxsOf(chain') \cup Range(popped') \cup Range(todo')
    PROVE  PendingInv'
<1>1. AllApplicable(Ledger(chain), session.txs)'
  BY NoneApplicable, Zenon
<1>2. LedgerOK(Ledger(chain')) /\ Ledger(chain').done = TxsOf(chain')
  BY HeadLedger, Zenon DEF TypesOK
<1>3. PendingLedger' = ApplyAll(Ledger(chain'), <<>>)
  BY Zenon DEF PendingLedger
<1>4. PendingLedger'.done = TxsOf(chain')
  BY <1>2, <1>3, ApplyNone, Zenon DEF LedgerOK
<1>5. Accounted(PendingLedger', popped', todo', had', {})
  <2>1. Ordered(todo', PendingLedger'.done \cup {})
    BY OrderedMore, Zenon
  <2> QED BY <1>4, <2>1, Zenon DEF Accounted
<1>6. RestoreOK'
  BY <1>5, Zenon DEF RestoreOK
<1> QED BY <1>1, <1>6, Zenon DEF PendingInv

\* The generated block is applied: the restorer has all that was pending.
LEMMA GeneratedStep ==
    ASSUME PendingInv, Generated
    PROVE  PendingInv'
<1> USE DEF Generated
<1>1. PackOK /\ phase' = "restore" /\ phase = "pack"
  BY Zenon DEF PendingInv
<1>2. block \in [txs : Seq(Tx), time : 1..MaxTime] /\ ChainOK(chain) /\ pending \in Seq(Tx)
  BY <1>1, Zenon DEF PendingInv, TypesOK, PackOK
<1>3. BlockApplies(Ledger(chain), block)
  BY <1>1, Zenon DEF BlockApplies, PackOK, PendingInv
<1>4. ChainOK(chain') /\ TxsOf(chain) \subseteq TxsOf(chain')
  BY <1>2, <1>3, ChainExtended, Zenon
<1>5. session' \in [closed : BOOLEAN, txs : Seq(Tx)] /\ session'.txs = <<>>
      /\ block' \in [txs : Seq(Tx), time : Nat]
  BY DEF NoSession, NoBlock
<1>6. TypesOK'
  BY <1>1, <1>2, <1>4, <1>5, Zenon DEF PendingInv, TypesOK, Phase
<1>7. Ordered(todo', {})
  BY <1>1, <1>2, NeedsMetOrdered, Zenon DEF PackOK
<1>8. popped' = <<>> /\ had' \subseteq TxsOf(chain') \cup Range(todo')
  BY <1>1, <1>4, Zenon DEF PackOK
<1>9. PoppedOrdered(popped', Range(todo'), had' \ (TxsOf(chain') \cup Range(todo')))
  BY <1>8 DEF PoppedOrdered
<1> QED BY <1>1, <1>5, <1>6, <1>7, <1>8, <1>9, RestoreStarts, Zenon DEF PackOK

-----------------------------------------------------------------------------
\* A received block has a sequence of transactions.
LEMMA ReceivedType ==
    ASSUME NEW b \in Received
    PROVE  b \in [txs : Seq(Tx), time : 1..MaxTime]
<1>1. b \in [txs : TxSequences, time : 1..MaxTime]
  BY DEF Received
<1>2. PICK m \in 0..MaxBlockTxs : b.txs \in [1..m -> Tx]
  BY <1>1 DEF TxSequences
<1>3. m \in Nat
  BY <1>2, PendingAssumption
<1>4. b.txs \in Seq(Tx)
  BY <1>2, <1>3
<1> QED BY <1>1, <1>4

\* A chain of which nothing was popped.
LEMMA WholeChain ==
    ASSUME NEW c \in Seq(BlockType)
    PROVE  SubSeq(c, 1, Len(c) - 0) = c /\ c \o <<>> = c
<1>1. Len(c) \in Nat /\ Len(c) - 0 = Len(c)
  OBVIOUS
<1> QED BY <1>1, SeqWhole, ConcatNothing

\* push_block moves the pending transactions to the restorer.
LEMMA PushBlockStep ==
    ASSUME PendingInv, push_block
    PROVE  PendingInv'
<1> USE DEF push_block, WithoutPending
<1>1. IdleOK /\ phase' = "push" /\ phase = "idle"
  BY DEF PendingInv
<1>2. ChainOK(chain) /\ chain \in Seq(BlockType) /\ pending \in Seq(Tx)
  BY Zenon DEF PendingInv, TypesOK, ChainOK
<1>3. had' \in SUBSET Tx
  BY PendingFacts, <1>2 DEF Range
<1>4. session' \in [closed : BOOLEAN, txs : Seq(Tx)] /\ session'.txs = <<>>
  BY DEF NoSession
<1>5. TypesOK'
  BY <1>1, <1>2, <1>3, <1>4, Zenon DEF PendingInv, TypesOK, Phase
<1>6. Base' = chain
  BY <1>1, <1>2, WholeChain DEF Base, IdleOK, NoBlock
<1>7. Ordered(todo', {}) /\ Range(todo') \cap TxsOf(chain) = {}
  BY <1>1, <1>2, NeedsMetOrdered, Zenon DEF IdleOK, NeedsMet
<1>8. Range(popped') = TxsOf(old') /\ PoppedOrdered(popped', Range(todo'), Tx)
  BY <1>1 DEF IdleOK, PoppedOrdered, Range, TxsOf
<1>9. block'.txs = <<>> /\ block'.time <= Len(chain)
  BY <1>1, <1>2 DEF IdleOK, NoBlock
<1>10. PushOK'
  BY <1>1, <1>2, <1>4, <1>6, <1>7, <1>8, <1>9 DEF PushOK, IdleOK
<1> QED BY <1>1, <1>4, <1>5, <1>10, NoneApplicable DEF PendingInv

\* A received block at the head, or no change of the chain: the transactions
\* put aside are none.
LEMMA PushFacts ==
    ASSUME PendingInv, phase = "push"
    PROVE  PushOK /\ Base = chain /\ popped = <<>>
<1>1. PushOK /\ chain \in Seq(BlockType) /\ popped \in Seq(Tx)
  BY DEF PendingInv, TypesOK, ChainOK
<1>2. Base = chain
  BY <1>1, WholeChain DEF Base, PushOK, NoBlock
<1>3. Range(popped) = {}
  BY <1>1, EmptyChain DEF PushOK
<1>4. Len(popped) = 0
  <2> SUFFICES ASSUME Len(popped) # 0 PROVE FALSE
    OBVIOUS
  <2>1. 1 \in DOMAIN popped
    BY <1>1
  <2> QED BY <2>1, <1>3 DEF Range
<1> QED BY <1>1, <1>2, <1>4

\* A block that is refused, or only stored in the fork database.
LEMMA PushLeavesChainStep ==
    ASSUME PendingInv, PushLeavesChain
    PROVE  PendingInv'
<1> USE DEF PushLeavesChain
<1>1. PushOK /\ Base = chain /\ popped = <<>>
  BY PushFacts
<1>2. TypesOK'
  BY DEF PendingInv, TypesOK, Phase
<1>3. PoppedOrdered(popped', Range(todo'), had' \ (TxsOf(chain') \cup Range(todo')))
  BY <1>1 DEF PoppedOrdered
<1> QED BY <1>1, <1>2, <1>3, RestoreStarts DEF PushOK, NoSession

\* A block on top of the head.
LEMMA PushExtendsStep ==
    ASSUME PendingInv, NEW b \in Received, PushExtends(b)
    PROVE  PendingInv'
<1> USE DEF PushExtends
<1>1. PushOK /\ Base = chain /\ popped = <<>>
  BY PushFacts, Zenon
<1>2. ChainOK(chain') /\ TxsOf(chain) \subseteq TxsOf(chain')
  BY ReceivedType, ChainExtended DEF PendingInv, TypesOK
<1>3. TypesOK'
  BY <1>2, Zenon DEF PendingInv, TypesOK, Phase
<1>4. PoppedOrdered(popped', Range(todo'), had' \ (TxsOf(chain') \cup Range(todo')))
  BY <1>1 DEF PoppedOrdered
<1>5. had' \subseteq TxsOf(chain') \cup Range(popped') \cup Range(todo')
  BY <1>1, <1>2, Zenon DEF PushOK
<1>6. session'.txs = <<>> /\ pending' = <<>> /\ block' = NoBlock /\ old' = <<>> /\ Ordered(todo', {})
  BY <1>1 DEF PushOK, NoSession
<1> QED BY <1>3, <1>4, <1>5, <1>6, RestoreStarts

-----------------------------------------------------------------------------
(* Fork switches                                                           *)

\* A chain is what is below its head, and its head.
LEMMA BelowHeadFacts ==
    ASSUME NEW c \in Seq(BlockType), Len(c) > 0
    PROVE  /\ BelowHead(c) \in Seq(BlockType) /\ Len(BelowHead(c)) = Len(c) - 1
           /\ HeadBlock(c) \in BlockType /\ HeadBlock(c) = c[Len(c)]
           /\ BelowHead(c) \o <<HeadBlock(c)>> = c
           /\ \A k \in 1..(Len(c) - 1) : BelowHead(c)[k] = c[k]
<1> DEFINE n == Len(c)
           f == BelowHead(c)
           l == <<HeadBlock(c)>>
           g == f \o l
<1>1. n \in Nat /\ n - 1 \in Nat /\ n \in 1..n
  OBVIOUS
<1>2. HeadBlock(c) \in BlockType /\ HeadBlock(c) = c[n]
  BY <1>1 DEF HeadBlock
<1>3. f \in Seq(BlockType) /\ Len(f) = n - 1 /\ \A k \in 1..(n - 1) : f[k] = c[k]
  <2>1. f = SubSeq(c, 1, n - 1)
    BY DEF BelowHead
  <2>2. \A k \in 1..(n - 1) : c[k] \in BlockType /\ (1 + k) - 1 = k
    BY <1>1
  <2>3. ((n - 1) - 1) + 1 = n - 1 /\ 1 \in Int /\ n - 1 \in Int
    BY <1>1
  <2>4. /\ SubSeq(c, 1, n - 1) \in Seq(BlockType)
        /\ Len(SubSeq(c, 1, n - 1)) = IF 1 <= n - 1 THEN n - 1 ELSE 0
        /\ \A k \in 1..(n - 1) : SubSeq(c, 1, n - 1)[k] = c[k]
    BY <2>2, <2>3, SeqSlice
  <2>5. Len(SubSeq(c, 1, n - 1)) = n - 1
    <3> HIDE DEF n
    <3> QED BY <1>1, <2>4
  <2> HIDE DEF f, n
  <2> QED BY <2>1, <2>4, <2>5
<1>4. l \in Seq(BlockType) /\ Len(l) = 1 /\ l[1] = c[n]
  BY <1>2
<1> HIDE DEF f, l
<1>5. /\ g \in Seq(BlockType) /\ Len(g) = n
      /\ \A k \in 1..n : g[k] = IF k <= n - 1 THEN f[k] ELSE l[k - (n - 1)]
  <2>1. /\ g \in Seq(BlockType) /\ Len(g) = Len(f) + Len(l)
        /\ \A k \in 1..(Len(f) + Len(l)) : g[k] = IF k <= Len(f) THEN f[k] ELSE l[k - Len(f)]
    BY <1>3, <1>4, SeqConcat, Zenon
  <2>2. Len(f) + Len(l) = n
    BY <1>1, <1>3, <1>4
  <2> HIDE DEF g
  <2> QED BY <2>1, <2>2, <1>3
<1> HIDE DEF g
<1>6. ASSUME NEW k \in 1..n PROVE g[k] = c[k]
  <2>1. CASE k <= n - 1
    BY <2>1, <1>1, <1>3, <1>5
  <2>2. CASE ~(k <= n - 1)
    <3>1. k = n /\ k - (n - 1) = 1
      BY <2>2, <1>1
    <3> QED BY <3>1, <2>2, <1>4, <1>5
  <2> QED BY <2>1, <2>2
<1>7. g = c
  BY <1>5, <1>6, SameSeq
<1> QED BY <1>2, <1>3, <1>7 DEF f, l, g

\* Chains that begin alike have the same beginnings.
LEMMA SameSubSeq ==
    ASSUME NEW c \in Seq(BlockType), NEW d \in Seq(BlockType), NEW n \in Nat,
           n <= Len(c), n <= Len(d), \A k \in 1..n : c[k] = d[k]
    PROVE  SubSeq(c, 1, n) = SubSeq(d, 1, n)
<1>1. SubSeq(c, 1, n) \in Seq(BlockType) /\ SubSeq(d, 1, n) \in Seq(BlockType)
      /\ Len(SubSeq(c, 1, n)) = n /\ Len(SubSeq(d, 1, n)) = n
      /\ \A k \in 1..n : SubSeq(c, 1, n)[k] = SubSeq(d, 1, n)[k]
  OBVIOUS
<1> QED BY <1>1, SameSeq

\* Two stretches of a chain share no transaction.
LEMMA ConcatDisjoint ==
    ASSUME NEW c \in Seq(BlockType), NEW d \in Seq(BlockType), ChainOK(c \o d)
    PROVE  TxsOf(c) \cap TxsOf(d) = {}
<1>1. /\ Len(c \o d) = Len(c) + Len(d) /\ Len(c) \in Nat /\ Len(d) \in Nat
      /\ \A i \in 1..(Len(c) + Len(d)) : (c \o d)[i] = IF i <= Len(c) THEN c[i] ELSE d[i - Len(c)]
  BY SeqConcat
<1>2. ASSUME NEW i \in 1..Len(c), NEW j \in 1..Len(d)
      PROVE  Range(c[i].txs) \cap Range(d[j].txs) = {}
  <2>1. /\ i \in 1..Len(c \o d) /\ Len(c) + j \in 1..Len(c \o d) /\ i # Len(c) + j
        /\ (c \o d)[i] = c[i] /\ (c \o d)[Len(c) + j] = d[j]
    BY <1>1
  <2> QED BY <2>1, ChainDisjoint, Zenon
<1>3. DOMAIN c = 1..Len(c) /\ DOMAIN d = 1..Len(d)
  OBVIOUS
<1> QED BY <1>2, <1>3 DEF TxsOf

\* What the invariant says in the middle of a fork switch.
LEMMA SwitchFacts ==
    ASSUME PendingInv, phase \in {"push", "pop", "switch", "unwind"}
    PROVE  /\ PushOK /\ TypesOK /\ ChainOK(chain) /\ chain \in Seq(BlockType) /\ Len(chain) \in Nat
           /\ block \in [txs : Seq(Tx), time : Nat] /\ block.time <= Len(chain)
           /\ old \in Seq(BlockType) /\ popped \in Seq(Tx) /\ todo \in Seq(Tx)
           /\ TxsOf(Base) \subseteq TxsOf(chain) \cup TxsOf(old)
<1>1. /\ PushOK /\ TypesOK /\ ChainOK(chain) /\ chain \in Seq(BlockType) /\ Len(chain) \in Nat
      /\ block \in [txs : Seq(Tx), time : Nat] /\ block.time <= Len(chain)
      /\ old \in Seq(BlockType) /\ popped \in Seq(Tx) /\ todo \in Seq(Tx)
  <2>1. PushOK /\ TypesOK
    BY DEF PendingInv
  <2>2. /\ ChainOK(chain) /\ block \in [txs : Seq(Tx), time : Nat]
        /\ old \in Seq(BlockType) /\ popped \in Seq(Tx) /\ todo \in Seq(Tx)
    BY <2>1, Zenon DEF TypesOK
  <2>3. chain \in Seq(BlockType)
    BY <2>2, Zenon DEF ChainOK
  <2>4. Len(chain) \in Nat
    BY <2>3
  <2>5. block.time <= Len(chain)
    BY <2>1, Zenon DEF PushOK
  <2> QED BY <2>1, <2>2, <2>3, <2>4, <2>5, Zenon
<1> DEFINE n == Len(chain) - block.time
           p == SubSeq(chain, 1, n)
<1>2. n \in Nat /\ n <= Len(chain)
  BY <1>1
<1>3. p \in Seq(BlockType) /\ Len(p) = n /\ \A k \in 1..n : p[k] = chain[k] /\ k \in DOMAIN chain
  BY <1>1, <1>2
<1>4. TxsOf(p) \subseteq TxsOf(chain)
  <2>1. DOMAIN p = 1..n
    BY <1>2, <1>3
  <2> HIDE DEF p
  <2> QED BY <1>3, <2>1 DEF TxsOf
<1>5. TxsOf(Base) = TxsOf(p) \cup TxsOf(old)
  <2> HIDE DEF p
  <2>1. Base = p \o old
    BY Zenon DEF Base, p
  <2> QED BY <2>1, <1>1, <1>3, TxsOfConcat
<1> QED BY <1>1, <1>4, <1>5

\* A switch pops a block: its transactions go in front of _popped_tx.
LEMMA SwitchPopStep ==
    ASSUME PendingInv, SwitchPop
    PROVE  PendingInv'
<1> USE DEF SwitchPop
<1> DEFINE n == Len(chain)
           last == HeadBlock(chain)
<1>1. /\ PushOK /\ TypesOK /\ ChainOK(chain) /\ chain \in Seq(BlockType) /\ n \in Nat /\ n > 1
      /\ old \in Seq(BlockType) /\ popped \in Seq(Tx) /\ todo \in Seq(Tx)
      /\ block = NoBlock /\ phase' = "pop"
  BY SwitchFacts DEF PushOK
<1>2. /\ chain' \in Seq(BlockType) /\ Len(chain') = n - 1 /\ chain' \o <<last>> = chain
      /\ last \in BlockType /\ last = chain[n] /\ last.txs \in Seq(Tx)
  <2>1. Len(chain) > 0
    BY <1>1
  <2>2. /\ chain' \in Seq(BlockType) /\ Len(chain') = n - 1 /\ chain' \o <<last>> = chain
        /\ last \in BlockType /\ last = chain[n]
    BY <1>1, <2>1, BelowHeadFacts, Zenon
  <2>3. last.txs \in Seq(Tx)
    BY <2>2 DEF BlockType
  <2> QED BY <2>2, <2>3, Zenon
<1>3. ChainOK(chain')
  BY <1>1, ChainPrefix, n - 1 \in 0..n DEF BelowHead
<1> HIDE DEF last
<1>4. old' = <<last>> \o old /\ popped' = last.txs \o popped /\ <<last>> \in Seq(BlockType)
  BY <1>2 DEF PutAside, last
<1>5. /\ old' \in Seq(BlockType) /\ popped' \in Seq(Tx)
      /\ Range(popped') = Range(last.txs) \cup Range(popped)
  BY <1>1, <1>2, <1>4, RangeConcat
<1>6. Base = chain \o old /\ Base' = chain' \o old'
  <2>1. block.time = 0 /\ block'.time = 0
    BY <1>1 DEF NoBlock
  <2>2. SubSeq(chain, 1, Len(chain) - 0) = chain /\ SubSeq(chain', 1, Len(chain') - 0) = chain'
    BY <1>1, <1>2, WholeChain
  <2> QED BY <2>1, <2>2, Zenon DEF Base
<1>7. Base' = Base
  <2>1. (chain' \o <<last>>) \o old = chain' \o (<<last>> \o old)
    <3>1. chain' \in Seq(BlockType) /\ <<last>> \in Seq(BlockType) /\ old \in Seq(BlockType)
      BY <1>1, <1>2, <1>4
    <3> DEFINE one == <<last>>
    <3> HIDE DEF one
    <3>2. one \in Seq(BlockType)
      BY <3>1 DEF one
    <3>3. (chain' \o one) \o old = chain' \o (one \o old)
      BY <3>1, <3>2, ConcatTwice
    <3> QED BY <3>3 DEF one
  <2>2. (chain' \o <<last>>) \o old = chain \o old
    BY <1>2, Zenon
  <2> QED BY <2>1, <2>2, <1>4, <1>6, Zenon
<1>8. TxsOf(<<last>>) = Range(last.txs)
  BY DEF TxsOf
<1>9. Range(popped') = TxsOf(old')
  BY <1>1, <1>4, <1>5, <1>8, TxsOfConcat, ZenonT(40) DEF PushOK
<1>10. PoppedOrdered(popped', Range(todo'), Tx)
  <2> DEFINE base == UpTo(chain, n - 1)
  <2>1. NeedsMet(base, last.txs) /\ IsInjective(last.txs)
    BY <1>1, <1>2, ChainOnce
  <2>2. base \cup Range(last.txs) \subseteq TxsOf(chain)
    <3>1. 1..(n - 1) \subseteq 1..n /\ n \in 1..n
      BY <1>1
    <3>2. UpTo(chain, n - 1) \subseteq UpTo(chain, n) /\ Range(last.txs) \subseteq UpTo(chain, n)
      BY <3>1, <1>2, Zenon DEF UpTo
    <3> QED BY <3>2, <1>1, TxsOfUpTo
  <2>3. TxsOf(chain) \cap (Range(popped) \cup Range(todo)) = {}
    <3>1. TxsOf(chain) \cap TxsOf(old) = {}
      BY <1>1, <1>6, ConcatDisjoint, Zenon DEF PushOK
    <3>2. TxsOf(chain) \cap Range(todo) = {}
      BY <1>1, <1>6, TxsOfConcat, ZenonT(40) DEF PushOK
    <3> QED BY <1>1, <3>1, <3>2, Zenon DEF PushOK
  <2>4. PoppedOrdered(popped, Range(todo), Tx)
    BY <1>1 DEF PushOK
  <2> HIDE DEF base
  <2>5. (base \cup Range(last.txs)) \cap (Range(popped) \cup Range(todo)) = {}
    BY <2>2, <2>3, Zenon
  <2> QED BY <1>1, <1>2, <1>4, <2>1, <2>4, <2>5, PoppedConcat, Zenon
<1>11. TypesOK'
  BY <1>1, <1>3, <1>5, ZenonT(40) DEF TypesOK, Phase
<1>12. PushOK'
  BY <1>1, <1>2, <1>7, <1>9, <1>10 DEF PushOK, NoBlock
<1>13. session'.txs = <<>>
  BY <1>1, Zenon DEF PushOK, NoSession
<1> QED BY <1>1, <1>11, <1>12, <1>13, NoneApplicable, Zenon DEF PendingInv

\* A switch applies a block of the new branch.
LEMMA SwitchPushStep ==
    ASSUME PendingInv, NEW b \in Received, SwitchPush(b)
    PROVE  PendingInv'
<1> USE DEF SwitchPush
<1>1. /\ PushOK /\ TypesOK /\ ChainOK(chain) /\ chain \in Seq(BlockType) /\ Len(chain) \in Nat
      /\ old \in Seq(BlockType) /\ popped \in Seq(Tx) /\ todo \in Seq(Tx)
      /\ block \in [txs : Seq(Tx), time : Nat] /\ block.time <= Len(chain)
      /\ TxsOf(Base) \subseteq TxsOf(chain) \cup TxsOf(old)
  BY SwitchFacts
<1>2. /\ ChainOK(chain') /\ Len(chain') = Len(chain) + 1 /\ chain' \in Seq(BlockType)
      /\ \A k \in 1..Len(chain) : chain'[k] = chain[k]
      /\ TxsOf(chain) \subseteq TxsOf(chain')
  <2>1. /\ ChainOK(chain') /\ Len(chain') = Len(chain) + 1
        /\ \A k \in 1..Len(chain) : chain'[k] = chain[k]
        /\ TxsOf(chain') = TxsOf(chain) \cup Range(b.txs)
    BY <1>1, ReceivedType, ChainExtended
  <2> QED BY <2>1 DEF ChainOK
<1>3. session'.txs = <<>>
  BY <1>1 DEF PushOK, NoSession
<1>4. CASE block.time < Len(old)
  <2>1. /\ block' = [block EXCEPT !.time = @ + 1] /\ phase' = "switch" /\ old' = old
    BY <1>4
  <2>2. block'.txs = <<>> /\ block'.time = block.time + 1 /\ block' \in [txs : Seq(Tx), time : Nat]
    BY <1>1, <2>1 DEF PushOK
  <2>3. Base' = Base
    <3> DEFINE n == Len(chain) - block.time
    <3>1. n \in Nat /\ n <= Len(chain) /\ n <= Len(chain') /\ Len(chain') - block'.time = n
      BY <1>1, <1>2, <2>2
    <3>2. SubSeq(chain', 1, n) = SubSeq(chain, 1, n)
      <4>1. \A k \in 1..n : chain'[k] = chain[k]
        BY <3>1, <1>1, <1>2
      <4> HIDE DEF n
      <4> QED BY <4>1, <3>1, <1>1, <1>2, SameSubSeq, Zenon
    <3> QED BY <3>1, <3>2, <2>1, Zenon DEF Base
  <2>4. TypesOK'
    BY <1>1, <1>2, <2>1, <2>2 DEF TypesOK, Phase
  <2>5. block'.time <= Len(chain')
    BY <1>1, <1>2, <2>2
  <2>6. PushOK'
    BY <1>1, <2>1, <2>2, <2>3, <2>5 DEF PushOK
  <2> QED BY <1>3, <2>1, <2>4, <2>6, NoneApplicable DEF PendingInv
<1>5. CASE ~(block.time < Len(old))
  <2>1. block' = NoBlock /\ phase' = "restore" /\ old' = <<>>
    BY <1>5
  <2>2. TypesOK'
    BY <1>1, <1>2, <2>1 DEF TypesOK, Phase, NoBlock
  <2>3. PoppedOrdered(popped', Range(todo'), had' \ (TxsOf(chain') \cup Range(todo')))
    BY <1>1 DEF PushOK, PoppedOrdered
  <2>4. had' \subseteq TxsOf(chain') \cup Range(popped') \cup Range(todo')
    BY <1>1, <1>2 DEF PushOK
  <2>5. pending' = <<>> /\ Ordered(todo', {})
    BY <1>1 DEF PushOK
  <2> QED BY <1>3, <2>1, <2>2, <2>3, <2>4, <2>5, RestoreStarts
<1> QED BY <1>4, <1>5

\* A block of the new branch is invalid.
LEMMA SwitchFailsStep ==
    ASSUME PendingInv, SwitchFails
    PROVE  PendingInv'
<1> USE DEF SwitchFails
<1>1. PushOK /\ TypesOK
  BY SwitchFacts
<1>2. TypesOK' /\ Base' = Base /\ phase' = "unwind"
  BY <1>1, Zenon DEF TypesOK, Phase, Base
<1>3. PushOK'
  BY <1>1, <1>2, Zenon DEF PushOK
<1>4. session'.txs = <<>>
  BY <1>1 DEF PushOK, NoSession
<1> QED BY <1>2, <1>3, <1>4, NoneApplicable, Zenon DEF PendingInv

\* The applied blocks of the new branch are popped again.
LEMMA UnwindStep ==
    ASSUME PendingInv, Unwind
    PROVE  PendingInv'
<1> USE DEF Unwind
<1>1. /\ PushOK /\ TypesOK /\ ChainOK(chain) /\ chain \in Seq(BlockType) /\ Len(chain) \in Nat
      /\ popped \in Seq(Tx) /\ block \in [txs : Seq(Tx), time : Nat] /\ block.time <= Len(chain)
      /\ Len(chain) > 0 /\ phase' = "unwind"
  BY SwitchFacts
<1>2. /\ chain' \in Seq(BlockType) /\ Len(chain') = Len(chain) - 1
      /\ \A k \in 1..(Len(chain) - 1) : chain'[k] = chain[k]
      /\ HeadBlock(chain) \in BlockType /\ HeadBlock(chain).txs \in Seq(Tx)
  BY <1>1, BelowHeadFacts, Zenon DEF BlockType
<1>3. ChainOK(chain')
  BY <1>1, ChainPrefix, Len(chain) - 1 \in 0..Len(chain), Zenon DEF BelowHead
<1>4. popped' \in Seq(Tx)
  BY <1>1, <1>2, RangeConcat DEF PutAside
<1>5. block'.txs = <<>> /\ block'.time = block.time - 1 /\ block' \in [txs : Seq(Tx), time : Nat]
  BY <1>1 DEF PushOK
<1>6. Base' = Base
  <2> DEFINE n == Len(chain) - block.time
  <2>1. n \in Nat /\ n <= Len(chain) /\ n <= Len(chain') /\ Len(chain') - block'.time = n
        /\ 1..n \subseteq 1..(Len(chain) - 1)
    BY <1>1, <1>2, <1>5
  <2>2. SubSeq(chain', 1, n) = SubSeq(chain, 1, n)
    BY <2>1, <1>1, <1>2, SameSubSeq, ZenonT(40)
  <2> QED BY <2>1, <2>2, Zenon DEF Base
<1>7. TypesOK'
  BY <1>1, <1>3, <1>4, <1>5 DEF TypesOK
<1>8. block'.time <= Len(chain')
  BY <1>1, <1>2, <1>5
<1>9. PushOK'
  BY <1>1, <1>5, <1>6, <1>8 DEF PushOK
<1>10. session'.txs = <<>>
  BY <1>1, Zenon DEF PushOK, NoSession
<1> QED BY <1>1, <1>7, <1>9, <1>10, NoneApplicable DEF PendingInv

\* The old branch is applied again.
LEMMA ReapplyStep ==
    ASSUME PendingInv, Reapply
    PROVE  PendingInv'
<1> USE DEF Reapply
<1>1. /\ PushOK /\ TypesOK /\ chain \in Seq(BlockType) /\ block \in [txs : Seq(Tx), time : Nat]
  BY SwitchFacts
<1>2. Base = chain'
  BY <1>1, WholeChain, Zenon DEF Base
<1>3. ChainOK(chain') /\ phase' = "restore" /\ old' = <<>>
  BY <1>1, <1>2 DEF PushOK
<1>4. block' = NoBlock
  BY <1>1, Zenon DEF PushOK, NoBlock
<1>5. TypesOK'
  BY <1>1, <1>3 DEF TypesOK, Phase
<1>6. had' \subseteq TxsOf(chain') \cup Range(todo')
  BY <1>1, <1>2, Zenon DEF PushOK
<1>7. PoppedOrdered(popped', Range(todo'), had' \ (TxsOf(chain') \cup Range(todo')))
  BY <1>6 DEF PoppedOrdered
<1>8. session'.txs = <<>> /\ pending' = <<>> /\ Ordered(todo', {})
  BY <1>1 DEF PushOK, NoSession
<1> QED BY <1>3, <1>4, <1>5, <1>6, <1>7, <1>8, RestoreStarts, Zenon

-----------------------------------------------------------------------------
(* Restoring                                                               *)

\* What a round of the restorer does to the session, the pending transactions
\* and the ledger
LEMMA RepushFacts ==
    ASSUME PendingInv, phase = "restore", NEW t \in Tx, Repush(t), chain' = chain
    PROVE  /\ session' \in [closed : BOOLEAN, txs : Seq(Tx)] /\ pending' \in Seq(Tx)
           /\ AllApplicable(Ledger(chain), session'.txs)
           /\ Tried(PendingLedger, t, PendingLedger')
           /\ session'.txs = pending'
<1>1. RestoreOK /\ TypesOK /\ session.txs = pending
  BY DEF PendingInv, RestoreOK
<1>2. CASE is_known_transaction(PendingLedger, t)
  <2>1. session' = session /\ pending' = pending
    BY <1>2 DEF Repush
  <2>2. PendingLedger' = PendingLedger
    BY <2>1, ZenonT(40) DEF PendingLedger
  <2> QED BY <1>1, <1>2, <2>1, <2>2, Zenon DEF Tried, Applicable, PendingInv, TypesOK
<1>3. CASE ~is_known_transaction(PendingLedger, t)
  <2>1. _push_transaction(t)
    BY <1>3 DEF Repush
  <2> QED BY <1>1, <2>1, PushSession, Zenon
<1> QED BY <1>2, <1>3, Zenon

\* The restorer tries the first of _popped_tx.
LEMMA RestorePoppedStep ==
    ASSUME PendingInv, RestorePopped
    PROVE  PendingInv'
<1> USE DEF RestorePopped
<1>1. RestoreOK /\ TypesOK /\ popped \in Seq(Tx) /\ todo \in Seq(Tx) /\ popped # <<>>
      /\ phase' = "restore"
  BY DEF PendingInv, TypesOK
<1>2. Head(popped) \in Tx /\ Tail(popped) \in Seq(Tx)
  BY <1>1, HeadTail, Zenon
<1>3. /\ session' \in [closed : BOOLEAN, txs : Seq(Tx)] /\ pending' \in Seq(Tx)
      /\ AllApplicable(Ledger(chain), session'.txs)
      /\ Tried(PendingLedger, Head(popped), PendingLedger')
      /\ session'.txs = pending'
  BY <1>2, RepushFacts, Zenon
<1>4. TypesOK'
  BY <1>1, <1>2, <1>3, Zenon DEF TypesOK
<1>5. LedgerOK(PendingLedger) /\ TxsOf(chain) \subseteq PendingLedger.done
  BY PendingFacts
<1>6. PICK dropped \in SUBSET Tx : Accounted(PendingLedger, popped, todo, had, dropped)
  BY <1>1 DEF RestoreOK
<1>7. PoppedOrdered(popped, Range(todo), had \ (TxsOf(chain) \cup Range(todo)))
  BY <1>1 DEF RestoreOK
<1>8. \E more \in SUBSET Tx : Accounted(PendingLedger', Tail(popped), todo, had, more)
  BY <1>1, <1>3, <1>5, <1>6, <1>7, PoppedRound, ZenonT(40)
<1>9. PoppedOrdered(Tail(popped), Range(todo), had \ (TxsOf(chain) \cup Range(todo)))
  BY <1>1, <1>7, PoppedTail
<1>10. RestoreOK'
  BY <1>1, <1>3, <1>8, <1>9, Zenon DEF RestoreOK
<1> QED BY <1>1, <1>3, <1>4, <1>10, Zenon DEF PendingInv

\* The restorer tries the first of the transactions that were pending.
LEMMA RestorePendingStep ==
    ASSUME PendingInv, RestorePending
    PROVE  PendingInv'
<1> USE DEF RestorePending
<1>1. RestoreOK /\ TypesOK /\ todo \in Seq(Tx) /\ popped = <<>> /\ todo # <<>> /\ phase' = "restore"
  BY DEF PendingInv, TypesOK
<1>2. Head(todo) \in Tx /\ Tail(todo) \in Seq(Tx)
  BY <1>1, HeadTail, Zenon
<1>3. /\ session' \in [closed : BOOLEAN, txs : Seq(Tx)] /\ pending' \in Seq(Tx)
      /\ AllApplicable(Ledger(chain), session'.txs)
      /\ Tried(PendingLedger, Head(todo), PendingLedger')
      /\ session'.txs = pending'
  BY <1>2, RepushFacts, Zenon
<1>4. TypesOK'
  BY <1>1, <1>2, <1>3 DEF TypesOK
<1>5. PICK dropped \in SUBSET Tx : Accounted(PendingLedger, <<>>, todo, had, dropped)
  BY <1>1 DEF RestoreOK
<1>6. \E more \in SUBSET Tx : Accounted(PendingLedger', <<>>, Tail(todo), had, more)
  BY <1>1, <1>3, <1>5, PendingFacts, PendingRound, Zenon
<1>7. PoppedOrdered(popped', Range(todo'), had' \ (TxsOf(chain') \cup Range(todo')))
  BY <1>1 DEF PoppedOrdered
<1>8. RestoreOK'
  BY <1>1, <1>3, <1>6, <1>7 DEF RestoreOK
<1> QED BY <1>1, <1>3, <1>4, <1>8, Zenon DEF PendingInv

\* The restorer is done.
LEMMA RestoredStep ==
    ASSUME PendingInv, Restored
    PROVE  PendingInv'
<1> USE DEF Restored, RestorerDone
<1>1. RestoreOK /\ TypesOK /\ phase' = "idle" /\ session.txs = pending
  BY DEF PendingInv, RestoreOK
<1>2. TypesOK'
  BY <1>1, Zenon DEF TypesOK, Phase
<1>3. NeedsMet(TxsOf(chain), pending)
  BY <1>1, PendingFacts, ZenonT(40)
<1>4. IdleOK'
  BY <1>1, <1>3 DEF RestoreOK, IdleOK
<1> QED BY <1>1, <1>2, <1>4 DEF PendingInv

\* Every step keeps the invariant.
THEOREM PendingNext_Inv == PendingInv /\ [PendingNext]_pending_vars => PendingInv'
<1> SUFFICES ASSUME PendingInv, [PendingNext]_pending_vars PROVE PendingInv'
  OBVIOUS
<1>1. CASE UNCHANGED pending_vars
  <2> USE <1>1 DEF pending_vars
  <2>1. TypesOK'
    BY DEF PendingInv, TypesOK
  <2>2. IdleOK => IdleOK'
    BY Zenon DEF IdleOK
  <2>3. PackOK => PackOK'
    BY DEF PackOK
  <2>4. RestoreOK => RestoreOK'
    BY ZenonT(40) DEF RestoreOK, PendingLedger
  <2>5. PushOK => PushOK'
    BY DEF PushOK, Base
  <2> QED BY <2>1, <2>2, <2>3, <2>4, <2>5, ZenonT(40) DEF PendingInv
<1>2. CASE PendingNext
  BY ZenonT(40), <1>2, PushTransactionStep, PushBlockStep, PushExtendsStep, PushLeavesChainStep, SwitchPopStep,
     SwitchPushStep, SwitchFailsStep, UnwindStep, ReapplyStep, RestorePoppedStep,
     RestorePendingStep, RestoredStep, GenerateBlockStep, GenerateWrongKeyStep, PackStep,
     GeneratedStep
     DEF PendingNext
<1> QED BY <1>1, <1>2

-----------------------------------------------------------------------------
\* The invariant implies AppliedOnce.
LEMMA InvAppliedOnce == PendingInv => AppliedOnce
<1> SUFFICES ASSUME PendingInv PROVE AppliedOnce
  BY Zenon
<1>1. TypesOK /\ ChainOK(chain) /\ chain \in Seq(BlockType) /\ DOMAIN chain = 1..Len(chain)
  BY DEF PendingInv, TypesOK, ChainOK
<1>2. PendingTypeOK
  <2>1. ASSUME NEW i \in DOMAIN chain
        PROVE  /\ chain[i].txs \in Seq(Tx)
               /\ chain[i].ledger \in [done : SUBSET Tx, recent : SUBSET Tx, now : 1..MaxTime]
    <3>1. chain[i] \in BlockType
      BY <1>1
    <3> QED BY <3>1 DEF BlockType, BlockLedger
  <2>2. {pending, popped, todo, session.txs, block.txs} \subseteq Seq(Tx)
    BY <1>1 DEF TypesOK
  <2>3. phase = "idle" => popped = <<>> /\ todo = <<>> /\ old = <<>> /\ block = NoBlock
    BY DEF PendingInv, IdleOK
  <2> QED BY <1>1, <2>1, <2>2, <2>3, Zenon DEF PendingTypeOK, TypesOK
<1>3. ASSUME NEW i \in DOMAIN chain, NEW j \in DOMAIN chain, i # j
      PROVE  Range(chain[i].txs) \cap Range(chain[j].txs) = {}
  BY <1>1, <1>3, ChainDisjoint, Zenon
<1>4. ASSUME NEW i \in DOMAIN chain PROVE IsInjective(chain[i].txs)
  BY <1>1, ChainOnce
<1>5. IsInjective(session.txs) /\ Range(session.txs) \cap TxsOf(chain) = {}
  BY PendingFacts, Zenon DEF NeedsMet
<1> QED BY <1>2, <1>3, <1>4, <1>5 DEF AppliedOnce

\* The invariant implies SessionIsPending.
LEMMA InvSessionIsPending == PendingInv => SessionIsPending
BY Zenon DEF PendingInv, SessionIsPending, IdleOK, PackOK, BlockApplies

\* The invariant implies NothingLost.
LEMMA InvNothingLost == PendingInv => NothingLost
<1> SUFFICES ASSUME PendingInv, RestorerDone, NEW t \in had \ (TxsOf(chain) \cup Range(pending))
             PROVE  ~Applicable(PendingLedger, t)
  BY DEF NothingLost
<1>1. RestoreOK /\ session.txs = pending /\ popped = <<>> /\ todo = <<>> /\ t \in Tx
  BY Zenon DEF PendingInv, RestorerDone, RestoreOK, TypesOK
<1>2. PICK dropped \in SUBSET Tx : Accounted(PendingLedger, popped, todo, had, dropped)
  BY <1>1, Zenon DEF RestoreOK
<1>3. t \notin PendingLedger.done /\ Range(popped) = {} /\ Range(todo) = {}
  BY <1>1, PendingFacts DEF Range
<1>4. t \in dropped
  BY <1>2, <1>3 DEF Accounted
<1> QED BY <1>1, <1>2, <1>4, FinalNotApplicable DEF Accounted

\* No transaction takes effect twice, whatever is popped, restored or expires.
THEOREM AppliedOnceAlways == PendingSpec => []AppliedOnce
<1>1. PendingSpec => []PendingInv
  BY PendingInit_Inv, PendingNext_Inv, PTL DEF PendingSpec
<1> QED BY <1>1, InvAppliedOnce, PTL

\* The pending session is what _pending_tx makes of the head, and the block
\* generate_block builds from it is one push_block accepts.
THEOREM SessionIsPendingAlways == PendingSpec => []SessionIsPending
<1>1. PendingSpec => []PendingInv
  BY PendingInit_Inv, PendingNext_Inv, PTL DEF PendingSpec
<1> QED BY <1>1, InvSessionIsPending, PTL

\* The restorer loses no transaction that could still be applied.
THEOREM NothingLostAlways == PendingSpec => []NothingLost
<1>1. PendingSpec => []PendingInv
  BY PendingInit_Inv, PendingNext_Inv, PTL DEF PendingSpec
<1> QED BY <1>1, InvNothingLost, PTL
=============================================================================
