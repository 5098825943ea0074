------------------------- MODULE ChainDatabaseProofs ------------------------
(***************************************************************************)
(* Proofs about ForkDatabase and ChainDatabase, for every tree of blocks,  *)
(* every set of invalid ones and every length of the undo history: the     *)
(* object database in memory and on disk and the block log hold one chain, *)
(* after every step of a switch, a replay, a shutdown and a crash.         *)
(***************************************************************************)
EXTENDS ChainDatabase, WellFoundedInduction, TLAPS

-----------------------------------------------------------------------------
(* Sequences                                                               *)

LEMMA SeqElement ==
    ASSUME NEW T, NEW q \in Seq(T), NEW n \in 1..Len(q)
    PROVE  q[n] \in T
OBVIOUS

LEMMA SeqSlice ==
    ASSUME NEW T, NEW q, NEW a \in Int, NEW z \in Int, \A i \in a..z : q[i] \in T
    PROVE  /\ SubSeq(q, a, z) \in Seq(T)
           /\ Len(SubSeq(q, a, z)) = IF a <= z THEN z - a + 1 ELSE 0
           /\ \A i \in 1..z - a + 1 : SubSeq(q, a, z)[i] = q[a + i - 1]
OBVIOUS

LEMMA SeqAppend ==
    ASSUME NEW T, NEW q \in Seq(T), NEW v \in T
    PROVE  /\ Append(q, v) \in Seq(T) /\ Append(q, v) # << >> /\ Len(Append(q, v)) = Len(q) + 1
           /\ \A i \in 1..Len(q) : Append(q, v)[i] = q[i]
           /\ Append(q, v)[Len(q) + 1] = v
OBVIOUS

LEMMA SeqLen ==
    ASSUME NEW T, NEW q \in Seq(T)
    PROVE  Len(q) \in Nat /\ q \in [1..Len(q) -> T] /\ DOMAIN q = 1..Len(q)
OBVIOUS

LEMMA SeqEmpty ==
    ASSUME NEW T
    PROVE  /\ << >> \in Seq(T) /\ Len(<< >>) = 0
           /\ \A q \in Seq(T) : q # << >> => Len(q) \in Nat \ {0}
OBVIOUS

LEMMA SameSeq ==
    ASSUME NEW T, NEW q \in Seq(T), NEW r \in Seq(T), Len(q) = Len(r),
           \A i \in 1..Len(q) : q[i] = r[i]
    PROVE  q = r
OBVIOUS

LEMMA SeqHeadTail ==
    ASSUME NEW T, NEW q \in Seq(T), q # << >>
    PROVE  /\ Head(q) \in T /\ Tail(q) \in Seq(T) /\ Len(Tail(q)) = Len(q) - 1
           /\ \A i \in 1..Len(Tail(q)) : Tail(q)[i] = q[i + 1]
OBVIOUS

-----------------------------------------------------------------------------
(* Numbers                                                                 *)

\* Every set of naturals that is not empty has a least element.
LEMMA LeastElement ==
    ASSUME NEW T \in SUBSET Nat, T # {}
    PROVE  \E x \in T : \A y \in T : x <= y
<1> DEFINE R == {ss \in Nat \X Nat : ss[1] < ss[2]}
<1>1. IsWellFoundedOn(R, Nat)
  BY NatLessThanWellFounded DEF OpToRel
<1>2. \E x \in T : \A y \in T : ~(<<y, x>> \in R)
  <2> HIDE DEF R
  <2> QED BY <1>1, WFMin, Zenon
<1>3. PICK x \in T : \A y \in T : ~(<<y, x>> \in R)
  BY <1>2
<1>4. ASSUME NEW y \in T PROVE x <= y
  <2>1. <<y, x>> \in Nat \X Nat /\ <<y, x>>[1] = y /\ <<y, x>>[2] = x
    OBVIOUS
  <2> QED BY <1>3, <2>1
<1> QED BY <1>4

\* A set that has 0 and, with every natural, the next one, has all of them.
LEMMA SetInduction ==
    ASSUME NEW S, 0 \in S, \A n \in Nat : n \in S => n + 1 \in S
    PROVE  \A n \in Nat : n \in S
<1> DEFINE T == {n \in Nat : n \notin S}
<1> SUFFICES ASSUME T # {} PROVE FALSE
  OBVIOUS
<1>1. PICK x \in T : \A y \in T : x <= y
  BY LeastElement, Zenon
<1>2. x # 0 /\ x \in Nat /\ x - 1 \in Nat /\ x - 1 \notin T
  BY <1>1
<1>3. x - 1 \in S
  BY <1>2
<1> QED BY <1>2, <1>3, x = (x - 1) + 1

\* A set of numbers up to n has a greatest one.
LEMMA GreatestNumber ==
    ASSUME NEW n \in Nat, NEW S \in SUBSET (0..n), S # {}
    PROVE  Max(S) \in S
<1> DEFINE T == {n - x : x \in S}
<1>1. T \in SUBSET Nat /\ T # {}
  <2>1. \A x \in S : n - x \in Nat
    OBVIOUS
  <2> QED BY <2>1, Zenon
<1>2. PICK t \in T : \A u \in T : t <= u
  BY <1>1, LeastElement, Zenon
<1>3. PICK x \in S : t = n - x
  BY <1>2
<1>4. ASSUME NEW y \in S PROVE x >= y
  <2>1. n - x <= n - y
    BY <1>2, <1>3
  <2>2. x \in 0..n /\ y \in 0..n
    OBVIOUS
  <2> QED BY <2>1, <2>2
<1>5. \E z \in S : \A y \in S : z >= y
  BY <1>4, Zenon
<1> QED BY <1>5, Zenon DEF Max

\* The lesser of two numbers.
LEMMA LesserNumber ==
    ASSUME NEW a \in Nat, NEW b \in Nat
    PROVE  Min({a, b}) \in Nat /\ Min({a, b}) <= a
<1>1. \E x \in {a, b} : \A y \in {a, b} : x <= y
  OBVIOUS
<1>2. Min({a, b}) \in {a, b} /\ \A y \in {a, b} : Min({a, b}) <= y
  BY <1>1 DEF Min
<1> QED BY <1>2

-----------------------------------------------------------------------------
(* The tree                                                                *)

\* The number of a block.
LEMMA NumberFacts ==
    ASSUME NEW b \in Block
    PROVE  /\ block_num[b] \in 1..MaxHeight /\ MaxHeight \in Nat
           /\ Previous[b] \in Block \cup {NoBlock}
           /\ Previous[b] = NoBlock => block_num[b] = 1
           /\ Previous[b] # NoBlock => /\ Previous[b] \in Block
                                       /\ block_num[b] = block_num[Previous[b]] + 1
<1>1. /\ num_from_id = block_num /\ num_from_id \in [Block -> 1..MaxHeight] /\ MaxHeight \in Nat
      /\ Previous[b] \in Block \cup {NoBlock}
  BY TreeAssumption
<1>2. block_num[b] = IF Previous[b] = NoBlock THEN 1 ELSE num_from_id[Previous[b]] + 1
  BY DEF block_num
<1> QED BY <1>1, <1>2

\* One step of path, with the paths of the blocks below.
Step(g, b) == IF Previous[b] = NoBlock THEN <<b>> ELSE Append(g[Previous[b]], b)

Upto(n) == {b \in Block : block_num[b] <= n}

\* The paths of the blocks up to a number exist.
LEMMA PathsExist ==
    ASSUME NEW n \in Nat
    PROVE  \E g : g = [b \in Upto(n) |-> Step(g, b)]
<1> DEFINE S == {k \in Nat : \E g : g = [b \in Upto(k) |-> Step(g, b)]}
<1>1. 0 \in S
  <2>1. Upto(0) = {}
    <3> SUFFICES ASSUME NEW b \in Block, block_num[b] <= 0 PROVE FALSE
      BY DEF Upto
    <3> QED BY NumberFacts
  <2> DEFINE g == [b \in Upto(0) |-> <<b>>]
  <2>2. g = [b \in Upto(0) |-> Step(g, b)]
    BY <2>1
  <2> QED BY <2>2, Zenon
<1>2. ASSUME NEW k \in Nat, k \in S PROVE k + 1 \in S
  <2>1. PICK g : g = [b \in Upto(k) |-> Step(g, b)]
    BY <1>2
  <2> DEFINE h == [b \in Upto(k + 1) |-> IF b \in Upto(k) THEN g[b] ELSE Step(g, b)]
  <2>2. ASSUME NEW b \in Upto(k + 1) PROVE h[b] = Step(h, b)
    <3>1. b \in Block /\ block_num[b] <= k + 1
      BY DEF Upto
    <3>2. CASE Previous[b] = NoBlock
      <4>1. h[b] = Step(g, b)
        BY <2>1
      <4> QED BY <3>2, <4>1 DEF Step
    <3>3. CASE Previous[b] # NoBlock
      <4>1. Previous[b] \in Block /\ block_num[Previous[b]] <= k
            /\ block_num[Previous[b]] <= k + 1
        BY <3>1, <3>3, NumberFacts
      <4>2. Previous[b] \in Upto(k) /\ Previous[b] \in Upto(k + 1)
        BY <4>1 DEF Upto
      <4>3. h[Previous[b]] = g[Previous[b]]
        BY <4>2
      <4>4. h[b] = Step(g, b)
        BY <2>1
      <4> QED BY <3>3, <4>3, <4>4, Zenon DEF Step
    <3> QED BY <3>2, <3>3
  <2>3. h = [b \in Upto(k + 1) |-> Step(h, b)]
    BY <2>2
  <2> HIDE DEF h
  <2> QED BY <2>3
<1> HIDE DEF S
<1>3. n \in S
  BY <1>1, <1>2, SetInduction
<1> QED BY <1>3 DEF S

\* The path of a block continues the one of its previous block.
LEMMA PathStep == \A b \in Block : path[b] = Step(path, b)
<1>1. MaxHeight \in Nat
  BY TreeAssumption
<1>2. Upto(MaxHeight) = Block
  BY NumberFacts DEF Upto
<1>3. \E g : g = [b \in Block |-> Step(g, b)]
  BY <1>1, <1>2, PathsExist
<1>4. path = [b \in Block |-> Step(path, b)]
  BY <1>3, Zenon DEF path, Step
<1> QED BY <1>4

Path(b) ==
    /\ path[b] \in Seq(Block) /\ path[b] # <<>> /\ Len(path[b]) = block_num[b]
    /\ Tip(path[b]) = b /\ Previous[path[b][1]] = NoBlock
    /\ \A n \in 2..Len(path[b]) : Previous[path[b][n]] = path[b][n - 1]

\* The path of a block leads from the first block to it.
LEMMA PathFacts ==
    ASSUME NEW b \in Block
    PROVE  Path(b)
<1> DEFINE S == {n \in Nat : \A c \in Block : block_num[c] <= n => Path(c)}
<1>1. 0 \in S
  BY NumberFacts
<1>2. ASSUME NEW n \in Nat, n \in S PROVE n + 1 \in S
  <2> SUFFICES ASSUME NEW c \in Block, block_num[c] <= n + 1 PROVE Path(c)
    OBVIOUS
  <2>1. path[c] = Step(path, c)
    BY PathStep
  <2>2. CASE Previous[c] = NoBlock
    <3>1. path[c] = <<c>> /\ block_num[c] = 1
      BY <2>1, <2>2, NumberFacts DEF Step
    <3> QED BY <2>2, <3>1 DEF Path, Tip
  <2>3. CASE Previous[c] # NoBlock
    <3> DEFINE p == Previous[c]
               s == path[p]
    <3>1. path[c] = Append(s, c)
      BY <2>1, <2>3 DEF Step
    <3>2. p \in Block /\ block_num[c] = block_num[p] + 1 /\ block_num[p] <= n
      BY <2>3, NumberFacts
    <3>3. Path(p)
      BY <1>2, <3>2
    <3>4. /\ s \in Seq(Block) /\ s # <<>> /\ Len(s) = block_num[p] /\ Previous[s[1]] = NoBlock
          /\ s[Len(s)] = p /\ \A m \in 2..Len(s) : Previous[s[m]] = s[m - 1]
      BY <3>3 DEF Path, Tip
    <3>5. Len(s) \in Nat \ {0}
      BY <3>4, SeqEmpty, SeqLen
    <3> HIDE DEF p, s
    <3>6. /\ Append(s, c) \in Seq(Block) /\ Append(s, c) # <<>> /\ Len(Append(s, c)) = Len(s) + 1
          /\ Append(s, c)[Len(s) + 1] = c /\ Append(s, c)[1] = s[1]
          /\ \A m \in 1..Len(s) : Append(s, c)[m] = s[m]
      BY <3>4, <3>5, SeqAppend
    <3>7. ASSUME NEW m \in 2..(Len(s) + 1) PROVE Previous[Append(s, c)[m]] = Append(s, c)[m - 1]
      <4>1. CASE m = Len(s) + 1
        <5>1. m - 1 = Len(s) /\ Len(s) \in 1..Len(s)
          BY <3>5, <4>1
        <5>2. Append(s, c)[m] = c /\ Append(s, c)[m - 1] = p
          BY <3>4, <3>6, <4>1, <5>1, Zenon
        <5> QED BY <5>2 DEF p
      <4>2. CASE m # Len(s) + 1
        <5>1. m \in 2..Len(s) /\ m \in 1..Len(s) /\ m - 1 \in 1..Len(s)
          BY <3>5, <4>2
        <5> QED BY <3>4, <3>6, <5>1
      <4> QED BY <4>1, <4>2
    <3> QED BY <3>1, <3>2, <3>4, <3>6, <3>7 DEF Path, Tip
  <2> QED BY <2>2, <2>3
<1> HIDE DEF S
<1>3. block_num[b] \in S
  BY <1>1, <1>2, SetInduction, NumberFacts
<1> QED BY <1>3, NumberFacts DEF S

\* A chain from the first block to its tip.
IsPath(c) == c # <<>> => c = path[Tip(c)]

\* The tip of a chain is one of its blocks.
LEMMA TipFacts ==
    ASSUME NEW c \in Seq(Block)
    PROVE  /\ Tip(c) \in Block \cup {NoBlock} /\ Len(c) \in Nat
           /\ c # <<>> => Tip(c) \in Block /\ Tip(c) = c[Len(c)] /\ Len(c) \in Nat \ {0}
           /\ c = <<>> => Tip(c) = NoBlock
           /\ (Tip(c) = NoBlock) = (c = <<>>)
<1>1. c # <<>> => Len(c) \in Nat \ {0}
  BY SeqEmpty, SeqLen
<1>2. c # <<>> => c[Len(c)] \in Block
  BY <1>1, SeqElement
<1> QED BY <1>1, <1>2, TreeAssumption, SeqLen DEF Tip

\* A block on top of a chain has the next number.
LEMMA PathAppend ==
    ASSUME NEW c \in Seq(Block), IsPath(c), NEW b \in Block, Previous[b] = Tip(c)
    PROVE  /\ IsPath(Append(c, b)) /\ Append(c, b) \in Seq(Block) /\ Append(c, b) # <<>>
           /\ Len(Append(c, b)) = Len(c) + 1 /\ DOMAIN Append(c, b) = 1..(Len(c) + 1)
           /\ Append(c, b)[Len(c) + 1] = b
           /\ \A n \in 1..Len(c) : Append(c, b)[n] = c[n]
           /\ block_num[b] = Len(c) + 1 /\ Len(c) + 1 \in 1..MaxHeight
<1> DEFINE d == Append(c, b)
<1>1. /\ d \in Seq(Block) /\ d # <<>> /\ Len(d) = Len(c) + 1 /\ d[Len(c) + 1] = b
      /\ \A n \in 1..Len(c) : d[n] = c[n]
  BY SeqAppend
<1>2. DOMAIN d = 1..(Len(c) + 1) /\ Len(c) \in Nat
  BY <1>1, SeqLen
<1>3. Tip(d) = b
  BY <1>1 DEF Tip
<1>4. path[b] = Step(path, b)
  BY PathStep
<1>5. CASE c = <<>>
  <2>1. Previous[b] = NoBlock /\ Len(c) = 0
    BY <1>5 DEF Tip
  <2>2. path[b] = d /\ block_num[b] = 1
    BY <1>4, <1>5, <2>1, NumberFacts DEF Step
  <2> QED BY <1>1, <1>2, <1>3, <2>1, <2>2, NumberFacts DEF IsPath
<1>6. CASE c # <<>>
  <2>1. Tip(c) \in Block /\ c = path[Tip(c)] /\ Previous[b] # NoBlock
    BY <1>6, TipFacts, TreeAssumption DEF IsPath
  <2>2. path[b] = d
    BY <1>4, <2>1 DEF Step
  <2>3. Len(c) = block_num[Tip(c)] /\ block_num[b] = block_num[Tip(c)] + 1
    BY <2>1, PathFacts, NumberFacts DEF Path
  <2> QED BY <1>1, <1>2, <1>3, <2>2, <2>3, NumberFacts DEF IsPath
<1> QED BY <1>5, <1>6

\* The first blocks of a chain.
LEMMA FirstBlocks ==
    ASSUME NEW c \in Seq(Block), NEW k \in 0..Len(c)
    PROVE  /\ SubSeq(c, 1, k) \in Seq(Block) /\ Len(SubSeq(c, 1, k)) = k
           /\ \A n \in 1..k : SubSeq(c, 1, k)[n] = c[n]
<1>1. Len(c) \in Nat /\ k \in Nat
  BY SeqLen
<1>2. \A i \in 1..k : c[i] \in Block
  BY <1>1, SeqElement
<1>3. /\ SubSeq(c, 1, k) \in Seq(Block) /\ Len(SubSeq(c, 1, k)) = IF 1 <= k THEN k - 1 + 1 ELSE 0
      /\ \A n \in 1..(k - 1 + 1) : SubSeq(c, 1, k)[n] = c[1 + n - 1]
  BY <1>1, <1>2, SeqSlice
<1>4. k - 1 + 1 = k /\ \A n \in 1..k : 1 + n - 1 = n
  BY <1>1
<1> QED BY <1>1, <1>3, <1>4

\* A chain without its tip.
LEMMA PathBelow ==
    ASSUME NEW c \in Seq(Block), IsPath(c), c # <<>>
    PROVE  /\ IsPath(BelowTip(c)) /\ BelowTip(c) \in Seq(Block)
           /\ Len(BelowTip(c)) = Len(c) - 1 /\ DOMAIN BelowTip(c) = 1..(Len(c) - 1)
           /\ \A n \in 1..(Len(c) - 1) : BelowTip(c)[n] = c[n]
<1> DEFINE t == Tip(c)
           p == Previous[t]
           d == BelowTip(c)
<1>1. t \in Block /\ Len(c) \in Nat \ {0} /\ c = path[t]
  BY TipFacts DEF IsPath
<1>2. path[t] = Step(path, t)
  BY <1>1, PathStep
<1>3. d \in Seq(Block) /\ Len(d) = Len(c) - 1 /\ \A n \in 1..(Len(c) - 1) : d[n] = c[n]
  <2>1. Len(c) - 1 \in 0..Len(c)
    BY <1>1
  <2> QED BY <2>1, FirstBlocks, Zenon DEF BelowTip
<1>4. DOMAIN d = 1..(Len(c) - 1)
  BY <1>3, SeqLen
<1> HIDE DEF d
<1>5. CASE p = NoBlock
  <2>1. c = <<t>>
    BY <1>1, <1>2, <1>5 DEF Step
  <2>2. Len(d) = 0
    BY <1>3, <2>1
  <2>3. d = <<>>
    BY <1>3, <2>2, SeqEmpty
  <2> QED BY <1>3, <1>4, <2>3 DEF IsPath, d
<1>6. CASE p # NoBlock
  <2> DEFINE s == path[p]
  <2>1. c = Append(s, t)
    BY <1>1, <1>2, <1>6 DEF Step
  <2>2. p \in Block
    BY <1>1, <1>6, NumberFacts
  <2>3. s \in Seq(Block) /\ s # <<>> /\ Tip(s) = p
    BY <2>2, PathFacts DEF Path
  <2>4. t \in Block
    BY <1>1
  <2> HIDE DEF t, p, s
  <2>5. Len(c) = Len(s) + 1 /\ Len(s) \in Nat /\ \A i \in 1..Len(s) : c[i] = s[i]
    BY <2>1, <2>3, <2>4, SeqAppend, SeqLen
  <2>6. Len(d) = Len(s) /\ \A i \in 1..Len(d) : d[i] = s[i]
    BY <1>3, <2>5
  <2>7. d = s
    BY <1>3, <2>3, <2>6, SameSeq
  <2>8. IsPath(d)
    BY <2>3, <2>7 DEF IsPath, s
  <2> QED BY <1>3, <1>4, <2>8 DEF d
<1> QED BY <1>5, <1>6

\* fetch_branch_from gives two branches that are not empty.
LEMMA BranchFacts ==
    ASSUME NEW x \in Block, NEW y \in Block
    PROVE  Branch(x, y) \in Seq(Block) /\ Branch(x, y) # <<>>
<1> DEFINE least == Min({block_num[x], block_num[y]})
           levels == {n \in 1..least : Previous[path[x][n]] = Previous[path[y][n]]}
           k == ForkLevel(x, y)
           m == block_num[x]
<1>1. block_num[x] \in Nat \ {0} /\ block_num[y] \in Nat \ {0}
  BY NumberFacts
<1>2. least \in Nat \ {0} /\ least <= block_num[x]
  <2>1. \E u \in {block_num[x], block_num[y]} : \A v \in {block_num[x], block_num[y]} : u <= v
    BY <1>1
  <2>2. least \in {block_num[x], block_num[y]} /\ \A v \in {block_num[x], block_num[y]} : least <= v
    BY <2>1 DEF Min
  <2> QED BY <1>1, <2>2
<1> HIDE DEF least
<1>3. 1 \in levels
  BY <1>2, PathFacts DEF Path
<1>4. levels \in SUBSET (0..least) /\ levels # {}
  BY <1>2, <1>3
<1>5. Max(levels) \in levels
  BY <1>2, <1>4, GreatestNumber, Zenon
<1>6. k = Max(levels)
  BY DEF ForkLevel, least
<1>7. k \in 1..m /\ k \in Int /\ m \in Int
  <2>1. k \in 1..least
    BY <1>5, <1>6, Zenon
  <2> HIDE DEF k
  <2> QED BY <1>1, <1>2, <2>1
<1>8. path[x] \in Seq(Block) /\ Len(path[x]) = m
  BY PathFacts DEF Path
<1> HIDE DEF k, m
<1>9. \A i \in k..m : path[x][i] \in Block
  BY <1>7, <1>8, SeqElement
<1>10. SubSeq(path[x], k, m) \in Seq(Block) /\ Len(SubSeq(path[x], k, m)) = IF k <= m THEN m - k + 1 ELSE 0
  BY <1>7, <1>9, SeqSlice
<1>11. Len(SubSeq(path[x], k, m)) # 0
  BY <1>7, <1>10
<1> QED BY <1>10, <1>11, SeqEmpty, Zenon DEF Branch, k, m

-----------------------------------------------------------------------------
(* The fork database                                                       *)

ForkType == [index : SUBSET Block, linked : SUBSET Block, head : Block \cup {NoBlock},
             head_linked : BOOLEAN, max_size : Nat \ {0}]

\* The prev pointers that lock lead from items of the index to such.
ForkOK(f) ==
    f \in ForkType /\ \A b \in f.linked : {b, Previous[b]} \subseteq f.index

\* Taking items out kills the pointers to them.
LEMMA KeepOK ==
    ASSUME NEW f \in ForkType, NEW kept \in SUBSET Block
    PROVE  ForkOK(Keep(f, kept)) /\ Keep(f, kept).head = f.head
<1> DEFINE bit == f.head_linked /\ Previous[f.head] \in kept
           left == {b \in f.linked \cap kept : Previous[b] \in kept}
           g == [f EXCEPT !.index = kept, !.linked = left, !.head_linked = bit]
<1>1. bit \in BOOLEAN
  OBVIOUS
<1>2. left \in SUBSET Block
  BY DEF ForkType
<1>3. Keep(f, kept) = g
  BY DEF Keep, ForkType
<1> HIDE DEF bit
<1>4. \A b \in left : {b, Previous[b]} \subseteq kept
  OBVIOUS
<1> HIDE DEF left
<1>5. g \in ForkType /\ g.index = kept /\ g.linked = left /\ g.head = f.head
  BY <1>1, <1>2, Zenon DEF ForkType
<1> HIDE DEF g
<1> QED BY <1>3, <1>4, <1>5 DEF ForkOK

\* set_max_size
LEMMA ResizeOK ==
    ASSUME NEW f, ForkOK(f), NEW size \in Nat \ {0}
    PROVE  ForkOK(fork_set_max_size(f, size))
<1> DEFINE r == [f EXCEPT !.max_size = size]
<1>1. r \in ForkType /\ r.linked = f.linked /\ r.index = f.index
  BY DEF ForkOK, ForkType
<1>2. CASE f.head = NoBlock
  BY <1>1, <1>2 DEF fork_set_max_size, ForkOK
<1>3. CASE f.head # NoBlock
  <2>1. {b \in f.index : block_num[b] >= Max({0, block_num[f.head] - size})} \in SUBSET Block
    BY DEF ForkOK, ForkType
  <2> HIDE DEF r
  <2> QED BY <1>1, <1>3, <2>1, KeepOK, Zenon DEF fork_set_max_size, r
<1> QED BY <1>2, <1>3

\* start_block
LEMMA StartOK ==
    ASSUME NEW f, ForkOK(f), NEW b \in Block
    PROVE  ForkOK(start_block(f, b))
<1> DEFINE g == start_block(f, b)
<1>1. /\ g.index = f.index \cup {b} /\ g.linked = f.linked /\ g \in ForkType
  BY Zenon DEF ForkOK, ForkType, start_block
<1> HIDE DEF g
<1>2. \A c \in g.linked : {c, Previous[c]} \subseteq g.index
  BY <1>1 DEF ForkOK
<1> QED BY <1>1, <1>2 DEF ForkOK, g

\* _push_block of an item that is linked
LEMMA PushOK ==
    ASSUME NEW f, ForkOK(f), NEW b \in Block, ~Unlinkable(f, b)
    PROVE  ForkOK(fork_push_block(f, b)) /\ fork_push_block(f, b).head \in Block
<1> DEFINE links == f.head # NoBlock /\ Previous[b] # NoBlock
           inserted == [f EXCEPT
                          !.index  = @ \cup {b},
                          !.linked = IF links /\ b \notin f.index THEN @ \cup {b} ELSE @]
           higher == f.head = NoBlock \/ block_num[b] > block_num[f.head]
           headed == [inserted EXCEPT !.head = b, !.head_linked = links]
           min_num == block_num[b] - Min({f.max_size, block_num[b]})
           kept == {c \in headed.index : block_num[c] >= min_num}
<1>1. f \in ForkType /\ links \in BOOLEAN /\ \A c \in f.linked : {c, Previous[c]} \subseteq f.index
  BY DEF ForkOK
<1>2. links => Previous[b] \in f.index
  BY DEF Unlinkable
<1> HIDE DEF links
<1>3. /\ inserted \in ForkType /\ inserted.index = f.index \cup {b} /\ inserted.head = f.head
      /\ inserted.linked = IF links /\ b \notin f.index THEN f.linked \cup {b} ELSE f.linked
  BY <1>1, Zenon DEF ForkType
<1> HIDE DEF inserted
<1>4. ForkOK(inserted)
  <2>1. \A c \in inserted.linked : {c, Previous[c]} \subseteq inserted.index
    BY <1>1, <1>2, <1>3
  <2> QED BY <1>3, <2>1 DEF ForkOK
<1>5. headed \in ForkType /\ headed.index = inserted.index /\ headed.linked = inserted.linked
      /\ headed.head = b
  BY <1>1, <1>3, Zenon DEF ForkType
<1>6. ForkOK(headed)
  BY <1>4, <1>5 DEF ForkOK
<1> HIDE DEF headed
<1>7. kept \in SUBSET Block
  BY <1>5 DEF ForkType
<1> HIDE DEF kept, min_num
<1>8. ForkOK(Keep(headed, kept)) /\ Keep(headed, kept).head = b
  BY <1>5, <1>7, KeepOK
<1>9. fork_push_block(f, b) = IF ~higher THEN inserted
                              ELSE IF f.head = NoBlock THEN headed ELSE Keep(headed, kept)
  BY DEF fork_push_block, links, inserted, headed, kept, min_num
<1>10. ~higher => f.head \in Block
  BY <1>1 DEF ForkType
<1> HIDE DEF higher
<1> QED BY <1>3, <1>4, <1>5, <1>6, <1>8, <1>9, <1>10

\* pop_block
LEMMA PopOK ==
    ASSUME NEW f, ForkOK(f), f.head \in Block
    PROVE  ForkOK(fork_pop_block(f))
<1> DEFINE bit == Previous[f.head] \in f.linked
           g == [f EXCEPT !.head = Previous[f.head], !.head_linked = bit]
<1>1. Previous[f.head] \in Block \cup {NoBlock} /\ bit \in BOOLEAN
  BY NumberFacts
<1>2. fork_pop_block(f) = g
  BY DEF fork_pop_block
<1> HIDE DEF bit
<1>3. g \in ForkType /\ g.index = f.index /\ g.linked = f.linked
  BY <1>1, Zenon DEF ForkOK, ForkType
<1> HIDE DEF g
<1> QED BY <1>2, <1>3 DEF ForkOK

\* remove
LEMMA RemoveOK ==
    ASSUME NEW f, ForkOK(f), NEW b
    PROVE  ForkOK(remove(f, b))
<1> DEFINE reset == [f EXCEPT !.head = NoBlock, !.head_linked = FALSE]
           stepped == IF f.head # b THEN f ELSE IF PopsHead(f) THEN fork_pop_block(f) ELSE reset
<1>1. f \in ForkType /\ f.index \ {b} \in SUBSET Block
  BY DEF ForkOK, ForkType
<1>2. reset \in ForkType
  BY <1>1, Zenon DEF ForkType
<1>3. PopsHead(f) => fork_pop_block(f) \in ForkType
  <2>1. PopsHead(f) => f.head \in Block
    BY <1>1 DEF PopsHead, ForkType
  <2> QED BY <2>1, PopOK DEF ForkOK
<1> HIDE DEF reset
<1>4. stepped \in ForkType
  BY <1>1, <1>2, <1>3
<1>5. remove(f, b) = Keep(stepped, f.index \ {b})
  BY DEF remove, reset
<1> HIDE DEF stepped
<1> QED BY <1>1, <1>4, <1>5, KeepOK

\* The removal of a rejected branch
LEMMA RemoveBranchOK ==
    ASSUME NEW f, ForkOK(f), NEW branch, NEW h \in Block
    PROVE  ForkOK(RemoveBranch(f, branch, h))
<1> DEFINE bit == h \in f.linked
           g == [f EXCEPT !.head = h, !.head_linked = bit]
<1>1. bit \in BOOLEAN /\ f \in ForkType /\ f.index \ branch \in SUBSET Block
  BY DEF ForkOK, ForkType
<1>2. RemoveBranch(f, branch, h) = Keep(g, f.index \ branch)
  BY DEF RemoveBranch
<1> HIDE DEF bit
<1>3. g \in ForkType
  BY <1>1, Zenon DEF ForkType
<1> HIDE DEF g
<1> QED BY <1>1, <1>2, <1>3, KeepOK

-----------------------------------------------------------------------------
(* Sizes                                                                   *)

\* The last irreversible block is one of the chain.
LEMMA IrreversibleFacts ==
    ASSUME NEW c \in Seq(Block)
    PROVE  last_irreversible(c) \in 0..Len(c) /\ HistorySize(c) \in Nat \ {0}
<1> DEFINE S == {0} \cup {n \in DOMAIN c : Cardinality(ConfirmedBy(c, n)) >= Cardinality(Witness) - offset}
<1>1. Len(c) \in Nat /\ DOMAIN c = 1..Len(c)
  BY SeqLen
<1>2. S \in SUBSET (0..Len(c)) /\ S # {}
  BY <1>1
<1>3. last_irreversible(c) = Max(S)
  BY DEF last_irreversible
<1> HIDE DEF S
<1>4. last_irreversible(c) \in 0..Len(c)
  BY <1>1, <1>2, <1>3, GreatestNumber, Zenon
<1> QED BY <1>1, <1>4 DEF HistorySize

\* What was irreversible stays a sequence of blocks.
LEMMA FinalType ==
    ASSUME NEW c \in Seq(Block), final \in Seq(Block)
    PROVE  Finalized(c) \in Seq(Block)
BY IrreversibleFacts, FirstBlocks DEF Finalized

-----------------------------------------------------------------------------
(* The stores                                                              *)

\* The log has an entry below each of its entries.
NoHoles(l) == \A n \in 1..MaxHeight : l[n] # NoBlock => \A m \in 1..n : l[m] # NoBlock

\* A chain c, on disk up to disk, a log l and the number of undo states.  The
\* states undo blocks that came after what is on disk.
StoresOK(c, disk, l, undone) ==
    /\ c \in Seq(Block) /\ disk \in Seq(Block) /\ undone \in Nat
    /\ l \in [1..MaxHeight -> Block \cup {NoBlock}]
    /\ IsPath(c) /\ IsPath(disk)
    /\ \A n \in DOMAIN c : c[n] \notin Invalid /\ l[n] = c[n]
    /\ NoHoles(l)
    /\ StartsWith(c, disk)
    /\ undone + Len(disk) <= Len(c)

\* A block is applied, stored and committed.
LEMMA StoresApply ==
    ASSUME NEW c, NEW disk, NEW l, NEW u, StoresOK(c, disk, l, u),
           NEW b \in Block \ Invalid, Previous[b] = Tip(c), NEW v \in Nat, v <= u
    PROVE  /\ StoresOK(Append(c, b), disk, store(l, b), v + 1)
           /\ block_num[b] = Len(c) + 1
<1> DEFINE d == Append(c, b)
           m == store(l, b)
<1>1. /\ c \in Seq(Block) /\ disk \in Seq(Block) /\ u \in Nat /\ IsPath(c) /\ IsPath(disk)
      /\ l \in [1..MaxHeight -> Block \cup {NoBlock}]
      /\ \A n \in DOMAIN c : c[n] \notin Invalid /\ l[n] = c[n]
      /\ NoHoles(l) /\ StartsWith(c, disk) /\ u + Len(disk) <= Len(c)
  BY DEF StoresOK
<1>2. Len(c) \in Nat /\ DOMAIN c = 1..Len(c) /\ Len(disk) \in Nat /\ DOMAIN disk = 1..Len(disk)
  BY <1>1, SeqLen
<1>3. /\ IsPath(d) /\ d \in Seq(Block) /\ Len(d) = Len(c) + 1 /\ DOMAIN d = 1..(Len(c) + 1)
      /\ d[Len(c) + 1] = b /\ \A n \in 1..Len(c) : d[n] = c[n]
      /\ block_num[b] = Len(c) + 1 /\ Len(c) + 1 \in 1..MaxHeight
  BY <1>1, PathAppend
<1> HIDE DEF d
<1>4. /\ m \in [1..MaxHeight -> Block \cup {NoBlock}] /\ m[Len(c) + 1] = b
      /\ \A n \in 1..MaxHeight : n # Len(c) + 1 => m[n] = l[n]
  BY <1>1, <1>3 DEF store
<1>5. MaxHeight \in Nat /\ NoBlock \notin Block
  BY TreeAssumption
<1> HIDE DEF m
<1>6. \A n \in DOMAIN d : d[n] \notin Invalid /\ m[n] = d[n]
  <2> SUFFICES ASSUME NEW n \in 1..(Len(c) + 1) PROVE d[n] \notin Invalid /\ m[n] = d[n]
    BY <1>3
  <2>1. CASE n = Len(c) + 1
    BY <1>3, <1>4, <2>1
  <2>2. CASE n # Len(c) + 1
    <3>1. n \in 1..Len(c) /\ n \in 1..MaxHeight
      BY <1>2, <1>3, <1>5, <2>2
    <3> QED BY <1>1, <1>2, <1>3, <1>4, <2>2, <3>1, Zenon
  <2> QED BY <2>1, <2>2
<1>7. NoHoles(m)
  <2> SUFFICES ASSUME NEW n \in 1..MaxHeight, m[n] # NoBlock, NEW k \in 1..n PROVE m[k] # NoBlock
    BY DEF NoHoles
  <2>1. CASE k = Len(c) + 1
    BY <1>4, <1>5, <2>1
  <2>2. CASE k < Len(c) + 1
    <3>1. k \in 1..Len(c) /\ k \in 1..MaxHeight
      BY <1>2, <1>3, <1>5, <2>2
    <3>2. m[k] = c[k] /\ c[k] \in Block
      BY <1>1, <1>2, <1>4, <2>2, <3>1, SeqElement
    <3> QED BY <1>5, <3>2
  <2>3. CASE k > Len(c) + 1
    <3>1. n # Len(c) + 1 /\ k # Len(c) + 1 /\ k \in 1..MaxHeight
      BY <1>2, <1>5, <2>3
    <3>2. l[n] # NoBlock
      BY <1>4, <3>1
    <3>3. l[k] # NoBlock
      BY <1>1, <3>2 DEF NoHoles
    <3> QED BY <1>4, <3>1, <3>3
  <2> QED BY <1>2, <2>1, <2>2, <2>3
<1>8. StartsWith(d, disk)
  BY <1>1, <1>2, <1>3 DEF StartsWith
<1>9. v + 1 \in Nat /\ v + 1 + Len(disk) <= Len(d)
  BY <1>1, <1>2, <1>3
<1> QED BY <1>1, <1>3, <1>4, <1>6, <1>7, <1>8, <1>9, Zenon DEF StoresOK, d, m

\* A block is undone: it is not on disk.
LEMMA StoresPop ==
    ASSUME NEW c, NEW disk, NEW l, NEW u, StoresOK(c, disk, l, u), u > 0
    PROVE  c # <<>> /\ StoresOK(BelowTip(c), disk, l, u - 1)
<1> DEFINE d == BelowTip(c)
<1>1. /\ c \in Seq(Block) /\ disk \in Seq(Block) /\ u \in Nat /\ IsPath(c) /\ IsPath(disk)
      /\ l \in [1..MaxHeight -> Block \cup {NoBlock}]
      /\ \A n \in DOMAIN c : c[n] \notin Invalid /\ l[n] = c[n]
      /\ NoHoles(l) /\ StartsWith(c, disk) /\ u + Len(disk) <= Len(c)
  BY DEF StoresOK
<1>2. Len(c) \in Nat /\ DOMAIN c = 1..Len(c) /\ Len(disk) \in Nat /\ DOMAIN disk = 1..Len(disk)
  BY <1>1, SeqLen
<1>3. Len(c) # 0 /\ Len(disk) <= Len(c) - 1 /\ u - 1 \in Nat /\ u - 1 + Len(disk) <= Len(c) - 1
  BY <1>1, <1>2
<1>4. c # <<>>
  BY <1>3, SeqEmpty
<1>5. /\ IsPath(d) /\ d \in Seq(Block) /\ Len(d) = Len(c) - 1 /\ DOMAIN d = 1..(Len(c) - 1)
      /\ \A n \in 1..(Len(c) - 1) : d[n] = c[n]
  BY <1>1, <1>4, PathBelow
<1> HIDE DEF d
<1>6. \A n \in DOMAIN d : d[n] \notin Invalid /\ l[n] = d[n]
  <2> SUFFICES ASSUME NEW n \in 1..(Len(c) - 1) PROVE d[n] \notin Invalid /\ l[n] = d[n]
    BY <1>5
  <2>1. n \in 1..Len(c) /\ d[n] = c[n]
    BY <1>2, <1>5
  <2> QED BY <1>1, <1>2, <2>1
<1>7. StartsWith(d, disk)
  BY <1>1, <1>2, <1>3, <1>5 DEF StartsWith
<1> QED BY <1>1, <1>3, <1>4, <1>5, <1>6, <1>7 DEF StoresOK, d

\* Old undo states are dropped.
LEMMA StoresForget ==
    ASSUME NEW c, NEW disk, NEW l, NEW u, StoresOK(c, disk, l, u), NEW v \in Nat, v <= u
    PROVE  StoresOK(c, disk, l, v)
<1>1. Len(c) \in Nat /\ Len(disk) \in Nat /\ u \in Nat /\ u + Len(disk) <= Len(c)
  BY SeqLen DEF StoresOK
<1>2. v + Len(disk) <= Len(c)
  BY <1>1
<1> QED BY <1>2 DEF StoresOK

\* The process comes up with what is on disk.
LEMMA StoresReload ==
    ASSUME NEW c, NEW disk, NEW l, NEW u, StoresOK(c, disk, l, u)
    PROVE  StoresOK(disk, disk, l, 0)
<1>1. /\ Len(disk) \in Nat /\ DOMAIN disk = 1..Len(disk) /\ Len(c) \in Nat /\ DOMAIN c = 1..Len(c)
      /\ Len(disk) <= Len(c) /\ \A n \in DOMAIN disk : c[n] = disk[n]
  BY SeqLen DEF StoresOK, StartsWith
<1>2. \A n \in DOMAIN disk : disk[n] \notin Invalid /\ l[n] = disk[n]
  BY <1>1 DEF StoresOK
<1>3. StartsWith(disk, disk) /\ 0 + Len(disk) <= Len(disk)
  BY <1>1 DEF StartsWith
<1> QED BY <1>2, <1>3 DEF StoresOK

\* The chain is written to disk while nothing can be undone.
LEMMA StoresFlush ==
    ASSUME NEW c, NEW disk, NEW l, NEW u, StoresOK(c, disk, l, u)
    PROVE  StoresOK(c, c, l, 0)
<1>1. Len(c) \in Nat
  BY SeqLen DEF StoresOK
<1>2. StartsWith(c, c) /\ 0 + Len(c) <= Len(c)
  BY <1>1 DEF StartsWith
<1> QED BY <1>2 DEF StoresOK
-----------------------------------------------------------------------------
(* The invariant                                                           *)

\* A switch has blocks to apply, and blocks to go back to.
SwitchOK ==
    /\ phase \in {"pop", "push"} => first # <<>>
    /\ phase \in {"pop", "push", "unwind", "restore"} => second # <<>>

\* The next block of a replay is in the log, and nothing can be undone before
\* the undo point, where the object database is written.
ReplayOK ==
    /\ phase = "down" => undo_size = 0
    /\ phase = "reindex" => /\ Len(chain) + 1 <= last_num
                            /\ (Len(chain) + 1 <= undo_point => undo_size = 0)

Others ==
    /\ undo_max \in Nat \ {0} /\ ForkOK(fork_db)
    /\ before \in Seq(Block) /\ final \in Seq(Block)
    /\ phase \in Phase /\ first \in Seq(Block) /\ second \in Seq(Block)
    /\ cutoff \in Nat /\ crashes \in 0..MaxCrashes /\ closes \in 0..MaxCloses

ChainInv ==
    /\ StoresOK(chain, flushed, log, undo_size)
    /\ Others /\ thrown \in BOOLEAN
    /\ SwitchOK /\ ReplayOK

\* The highest entry of the log.
LEMMA LastNumFacts ==
    ASSUME log \in [1..MaxHeight -> Block \cup {NoBlock}], NoHoles(log)
    PROVE  /\ last_num \in 0..MaxHeight /\ undo_point \in Nat /\ undo_point <= last_num
           /\ \A n \in 1..last_num : log[n] \in Block
<1> DEFINE S == {0} \cup {n \in DOMAIN log : log[n] # NoBlock}
<1>1. MaxHeight \in Nat /\ DOMAIN log = 1..MaxHeight /\ MaxUndoHistory \in Nat
  BY TreeAssumption, ChainAssumption
<1>2. S \in SUBSET (0..MaxHeight) /\ S # {}
  BY <1>1
<1>3. last_num = Max(S)
  BY DEF last_num
<1> HIDE DEF S
<1>4. last_num \in S
  BY <1>1, <1>2, <1>3, GreatestNumber, Zenon
<1>5. last_num \in 0..MaxHeight
  BY <1>2, <1>4
<1>6. ASSUME NEW n \in 1..last_num PROVE log[n] \in Block
  <2>1. last_num \in 1..MaxHeight /\ n \in 1..MaxHeight
    BY <1>1, <1>5
  <2>2. log[last_num] # NoBlock
    BY <1>4, <2>1 DEF S
  <2>3. log[n] # NoBlock
    BY <2>1, <2>2 DEF NoHoles
  <2> QED BY <2>1, <2>3
<1>7. undo_point \in Nat /\ undo_point <= last_num
  BY <1>1, <1>5 DEF undo_point
<1> QED BY <1>5, <1>6, <1>7

\* The node that the exploration starts from.
LEMMA ChainInit == Init => ChainInv
<1> SUFFICES ASSUME Init PROVE ChainInv
  BY Zenon
<1> DEFINE c == path[Start]
           index == Range(c)
           linked == Range(Tail(c))
           bit == Len(c) > 1
           size == HistorySize(BelowTip(c))
<1>1. Start \in Block /\ chain = c /\ Path(Start)
  BY ChainAssumption, PathFacts DEF Init
<1>2. /\ c \in Seq(Block) /\ c # <<>> /\ Tip(c) = Start
      /\ \A n \in 2..Len(c) : Previous[c[n]] = c[n - 1]
  BY <1>1 DEF Path
<1>3. /\ Len(c) \in 1..MaxHeight /\ MaxHeight \in Nat /\ DOMAIN c = 1..Len(c)
      /\ \A n \in DOMAIN c : c[n] \in Block
  <2>1. Len(c) = block_num[Start] /\ DOMAIN c = 1..Len(c)
    BY <1>1, <1>2, SeqLen, Zenon DEF Path
  <2> QED BY <1>1, <1>2, <2>1, NumberFacts, SeqElement
<1>4. StoresOK(chain, flushed, log, undo_size)
  <2>1. /\ log = [n \in 1..MaxHeight |-> IF n \in DOMAIN c THEN c[n] ELSE NoBlock]
        /\ flushed = <<>> /\ undo_size = Len(c)
    BY <1>1 DEF Init
  <2>2. log \in [1..MaxHeight -> Block \cup {NoBlock}]
    BY <1>3, <2>1
  <2>3. \A n \in DOMAIN c : log[n] = c[n] /\ c[n] \notin Invalid
    BY <1>3, <2>1, ChainAssumption
  <2>4. NoHoles(log)
    <3> SUFFICES ASSUME NEW n \in 1..MaxHeight, log[n] # NoBlock, NEW m \in 1..n PROVE log[m] # NoBlock
      BY DEF NoHoles
    <3>1. n \in 1..Len(c)
      BY <1>3, <2>1
    <3>2. m \in 1..Len(c) /\ m \in 1..MaxHeight
      BY <1>3, <3>1
    <3> QED BY <1>3, <2>1, <3>2, TreeAssumption, Zenon
  <2>5. IsPath(c) /\ IsPath(<<>>) /\ StartsWith(c, <<>>)
    BY <1>2, <1>3 DEF IsPath, StartsWith
  <2>6. Len(c) \in Nat /\ Len(c) + Len(<<>>) <= Len(c)
    BY <1>3
  <2> QED BY <1>1, <1>2, <2>1, <2>2, <2>3, <2>4, <2>5, <2>6, SeqEmpty, Zenon DEF StoresOK
<1>5. size \in Nat \ {0}
  BY <1>1, <1>2, PathBelow, IrreversibleFacts DEF IsPath
<1>6. ForkOK(fork_db)
  <2>1. fork_db = [index |-> index, linked |-> linked, head |-> Start, head_linked |-> bit,
                   max_size |-> size]
    BY <1>1 DEF Init
  <2>2. index \in SUBSET Block /\ bit \in BOOLEAN
    BY <1>3 DEF Range
  <2>3. \A b \in linked : \E n \in 2..Len(c) : b = c[n]
    <3>1. Tail(c) \in Seq(Block) /\ Len(Tail(c)) = Len(c) - 1 /\ \A i \in 1..(Len(c) - 1) : Tail(c)[i] = c[i + 1]
      BY <1>2, SeqHeadTail
    <3>2. DOMAIN Tail(c) = 1..(Len(c) - 1)
      BY <3>1, SeqLen
    <3>3. \A i \in 1..(Len(c) - 1) : i + 1 \in 2..Len(c)
      BY <1>3
    <3> QED BY <3>1, <3>2, <3>3 DEF Range
  <2>4. \A b \in linked : {b, Previous[b]} \subseteq index
    <3> SUFFICES ASSUME NEW n \in 2..Len(c) PROVE {c[n], Previous[c[n]]} \subseteq index
      BY <2>3
    <3>1. n \in 1..Len(c) /\ n - 1 \in 1..Len(c) /\ Previous[c[n]] = c[n - 1]
      BY <1>2, <1>3
    <3> QED BY <1>3, <3>1 DEF Range
  <2> HIDE DEF index, linked, bit, size
  <2>5. linked \in SUBSET Block
    BY <2>2, <2>4, Zenon
  <2> QED BY <1>1, <1>5, <2>1, <2>2, <2>4, <2>5, Zenon DEF ForkOK, ForkType
<1>7. final \in Seq(Block)
  BY <1>1, <1>2, IrreversibleFacts, FirstBlocks, Zenon DEF Init
<1>8. undo_max \in Nat \ {0}
  BY <1>1, <1>5 DEF Init
<1>9. thrown \in BOOLEAN
  BY Zenon DEF Init
<1> QED BY <1>4, <1>6, <1>7, <1>8, <1>9, SeqEmpty, ChainAssumption
     DEF Init, ChainInv, Others, SwitchOK, ReplayOK, Phase

-----------------------------------------------------------------------------
(* The steps                                                               *)

\* The undo states that start_undo_session leaves.
LEMMA EvictedFacts ==
    ASSUME undo_size \in Nat, undo_max \in Nat
    PROVE  Evicted \in Nat /\ Evicted <= undo_size
BY LesserNumber DEF Evicted

\* A block that is applied and committed: the log gets it under its own number.
LEMMA ApplyKeeps ==
    ASSUME StoresOK(chain, flushed, log, undo_size), undo_max \in Nat, final \in Seq(Block),
           NEW f, ForkOK(f), NEW b \in Block, ApplyAndCommit(f, b)
    PROVE  /\ StoresOK(chain', flushed, log', undo_size')
           /\ undo_max' \in Nat \ {0} /\ ForkOK(fork_db') /\ final' \in Seq(Block)
           /\ block_num[b] = Len(chain) + 1 /\ Len(chain') = Len(chain) + 1
<1>1. chain \in Seq(Block) /\ undo_size \in Nat
  BY DEF StoresOK
<1>2. Evicted \in Nat /\ Evicted <= undo_size
  BY <1>1, EvictedFacts
<1>3. b \in Block \ Invalid /\ Previous[b] = Tip(chain)
  BY DEF ApplyAndCommit, Applies
<1>4. StoresOK(Append(chain, b), flushed, store(log, b), Evicted + 1) /\ block_num[b] = Len(chain) + 1
  BY <1>2, <1>3, StoresApply
<1>5. HistorySize(chain) \in Nat \ {0}
  BY <1>1, IrreversibleFacts
<1>6. ForkOK(fork_set_max_size(f, HistorySize(chain)))
  BY <1>5, ResizeOK
<1>7. Append(chain, b) \in Seq(Block) /\ Len(Append(chain, b)) = Len(chain) + 1
  BY <1>1, SeqAppend
<1>8. Finalized(Append(chain, b)) \in Seq(Block)
  BY <1>7, FinalType, Zenon
<1> QED BY <1>4, <1>5, <1>6, <1>7, <1>8 DEF ApplyAndCommit

\* pop_block() of the chain, together with the one of the fork database.
LEMMA PopKeeps ==
    ASSUME StoresOK(chain, flushed, log, undo_size), ForkOK(fork_db), pop_block
    PROVE  /\ StoresOK(chain', flushed, log', undo_size') /\ undo_max' = undo_max
           /\ ForkOK(PoppedForkDb)
<1>1. undo_size > 0 /\ fork_db.head # NoBlock
  BY DEF pop_block, PopsBlock
<1>2. StoresOK(BelowTip(chain), flushed, log, undo_size - 1)
  BY <1>1, StoresPop
<1>3. fork_db.head \in Block
  BY <1>1 DEF ForkOK, ForkType
<1>4. ForkOK(PoppedForkDb)
  BY <1>3, PopOK DEF PoppedForkDb
<1> QED BY <1>2, <1>4 DEF pop_block

\* The blocks that push_block takes, when they extend the chain.
LEMMA PushExtendsKeeps ==
    ASSUME ChainInv, NEW b \in Block, PushExtends(b)
    PROVE  ChainInv'
<1> DEFINE f == fork_push_block(fork_db, b)
<1>1. /\ ApplyAndCommit(f, b) /\ ~Unlinkable(fork_db, b) /\ phase = "running" /\ before' = chain
      /\ thrown' = FALSE /\ UNCHANGED <<flushed, phase, switching, stops>>
  BY DEF PushExtends, Accepted
<1>2. ForkOK(f)
  BY <1>1, PushOK DEF ChainInv, Others
<1> HIDE DEF f
<1>3. /\ StoresOK(chain', flushed, log', undo_size')
      /\ undo_max' \in Nat \ {0} /\ ForkOK(fork_db') /\ final' \in Seq(Block)
  BY <1>1, <1>2, ApplyKeeps DEF ChainInv, Others
<1>4. chain \in Seq(Block)
  BY DEF ChainInv, StoresOK
<1> QED BY <1>1, <1>3, <1>4, ZenonT(40) DEF ChainInv, Others, SwitchOK, ReplayOK, switching, stops

\* The blocks that do not change the chain.
LEMMA PushOthersKeep ==
    ASSUME ChainInv, NEW b \in Block, PushInvalid(b) \/ PushStored(b) \/ PushUnconnected(b)
    PROVE  ChainInv'
<1> DEFINE f == fork_push_block(fork_db, b)
<1>1. ~Unlinkable(fork_db, b) /\ phase = "running"
  BY DEF PushInvalid, PushStored, PushUnconnected, Accepted
<1>2. ForkOK(f)
  BY <1>1, PushOK DEF ChainInv, Others
<1>3. ForkOK(remove(f, b))
  BY <1>2, RemoveOK, Zenon
<1>4. /\ fork_db' \in {f, remove(f, b)} /\ undo_size' \in {undo_size, Evicted} /\ thrown' \in BOOLEAN
      /\ before' = chain
      /\ UNCHANGED <<chain, final, undo_max, log, flushed, phase, switching, stops>>
  BY Zenon DEF PushInvalid, PushStored, PushUnconnected
<1>5. chain \in Seq(Block) /\ undo_size \in Nat /\ undo_max \in Nat
  BY DEF ChainInv, StoresOK, Others
<1>6. StoresOK(chain, flushed, log, Evicted)
  BY <1>5, EvictedFacts, StoresForget DEF ChainInv
<1> HIDE DEF f
<1>7. ForkOK(fork_db') /\ StoresOK(chain', flushed', log', undo_size')
  BY <1>2, <1>3, <1>4, <1>6 DEF ChainInv
<1> QED BY <1>1, <1>4, <1>5, <1>7 DEF ChainInv, Others, SwitchOK, ReplayOK, switching, stops

\* A switch starts with two branches that are not empty.
LEMMA PushSwitchesKeeps ==
    ASSUME ChainInv, NEW b \in Block, PushSwitches(b)
    PROVE  ChainInv'
<1> DEFINE f == fork_push_block(fork_db, b)
<1>1. /\ ~Unlinkable(fork_db, b) /\ phase = "running" /\ chain # <<>> /\ fork_db' = f
      /\ first' = Branch(f.head, Tip(chain)) /\ second' = Branch(Tip(chain), f.head)
      /\ phase' = "pop" /\ before' = chain /\ thrown' = FALSE
      /\ UNCHANGED <<chain, final, undo_size, undo_max, log, flushed, stops>>
  BY DEF PushSwitches, Accepted
<1>2. ForkOK(f) /\ f.head \in Block
  BY <1>1, PushOK DEF ChainInv, Others
<1> HIDE DEF f
<1>3. chain \in Seq(Block)
  BY DEF ChainInv, StoresOK
<1>4. Tip(chain) \in Block
  BY <1>1, <1>3, TipFacts
<1>5. first' \in Seq(Block) /\ first' # <<>> /\ second' \in Seq(Block) /\ second' # <<>>
  BY <1>1, <1>2, <1>4, BranchFacts, Zenon
<1> QED BY <1>1, <1>2, <1>3, <1>5, Zenon DEF ChainInv, Others, SwitchOK, ReplayOK, stops, Phase

\* The pops of a switch and of its way back.
LEMMA SwitchPopKeeps ==
    ASSUME ChainInv, SwitchPop \/ SwitchPopThrows
    PROVE  ChainInv'
<1>1. CASE SwitchPop
  <2>1. /\ phase \in {"pop", "unwind"} /\ pop_block /\ fork_db' = PoppedForkDb
        /\ phase' \in {phase, "push", "restore"} /\ (phase = "unwind" => phase' # "push")
        /\ UNCHANGED <<flushed, switching, stops, history>>
    BY <1>1 DEF SwitchPop
  <2>2. /\ StoresOK(chain', flushed, log', undo_size') /\ undo_max' = undo_max
        /\ ForkOK(PoppedForkDb)
    BY <2>1, PopKeeps DEF ChainInv, Others
  <2> QED BY <2>1, <2>2 DEF ChainInv, Others, SwitchOK, ReplayOK, switching, stops, history, Phase
<1>2. CASE SwitchPopThrows
  BY <1>2, SeqEmpty DEF SwitchPopThrows, ChainInv, Others, SwitchOK, ReplayOK, stops, Phase
<1> QED BY <1>1, <1>2

\* A block of the new branch, or of the old one again.
LEMMA SwitchPushKeeps ==
    ASSUME ChainInv, SwitchPush \/ Restore
    PROVE  ChainInv'
<1>1. ForkOK(fork_db) /\ first \in Seq(Block) /\ second \in Seq(Block)
  BY DEF ChainInv, Others
<1>2. CASE SwitchPush
  <2>1. /\ phase = "push" /\ ApplyAndCommit(fork_db, Head(first)) /\ first' = Tail(first)
        /\ Tail(first) = <<>> => phase' = "running" /\ second' = <<>>
        /\ Tail(first) # <<>> => phase' = phase /\ second' = second
        /\ UNCHANGED <<flushed, stops, before, thrown>>
    BY <1>2 DEF SwitchPush
  <2>2. first # <<>> /\ second # <<>>
    BY <2>1 DEF ChainInv, SwitchOK
  <2>3. Head(first) \in Block /\ Tail(first) \in Seq(Block)
    BY <1>1, <2>2, SeqHeadTail
  <2>4. /\ StoresOK(chain', flushed, log', undo_size')
        /\ undo_max' \in Nat \ {0} /\ ForkOK(fork_db') /\ final' \in Seq(Block)
    BY <1>1, <2>1, <2>3, ApplyKeeps DEF ChainInv, Others
  <2> QED BY <2>1, <2>2, <2>3, <2>4, SeqEmpty, Zenon DEF ChainInv, Others, SwitchOK, ReplayOK, stops, Phase
<1>3. CASE Restore
  <2>1. /\ phase = "restore" /\ ApplyAndCommit(fork_db, Head(second)) /\ second' = Tail(second)
        /\ phase' = IF Tail(second) = <<>> THEN "running" ELSE phase
        /\ UNCHANGED <<flushed, first, stops, before, thrown>>
    BY <1>3 DEF Restore
  <2>2. second # <<>>
    BY <2>1 DEF ChainInv, SwitchOK
  <2>3. Head(second) \in Block /\ Tail(second) \in Seq(Block)
    BY <1>1, <2>2, SeqHeadTail
  <2>4. /\ StoresOK(chain', flushed, log', undo_size')
        /\ undo_max' \in Nat \ {0} /\ ForkOK(fork_db') /\ final' \in Seq(Block)
    BY <1>1, <2>1, <2>3, ApplyKeeps DEF ChainInv, Others
  <2> QED BY <2>1, <2>2, <2>3, <2>4 DEF ChainInv, Others, SwitchOK, ReplayOK, stops, Phase
<1> QED BY <1>2, <1>3

\* The new branch is rejected.
LEMMA SwitchFailsKeeps ==
    ASSUME ChainInv, SwitchFails
    PROVE  ChainInv'
<1>1. /\ phase = "push" /\ fork_db' = RemoveRejected /\ undo_size' = Evicted
      /\ phase' = AfterFailure /\ first' = <<>> /\ thrown' = TRUE
      /\ UNCHANGED <<chain, undo_max, log, flushed, second, stops, before, final>>
  BY DEF SwitchFails
<1>2. second # <<>> /\ second \in Seq(Block) /\ ForkOK(fork_db) /\ undo_size \in Nat /\ undo_max \in Nat
  BY <1>1 DEF ChainInv, SwitchOK, Others, StoresOK
<1>3. Tip(second) \in Block
  BY <1>2, TipFacts
<1>4. ForkOK(RemoveRejected)
  BY <1>2, <1>3, RemoveBranchOK DEF RemoveRejected
<1>5. StoresOK(chain, flushed, log, Evicted)
  BY <1>2, EvictedFacts, StoresForget DEF ChainInv
<1>6. phase' \in {"restore", "unwind"}
  BY <1>1 DEF AfterFailure
<1> QED BY <1>1, <1>2, <1>4, <1>5, <1>6, SeqEmpty DEF ChainInv, Others, SwitchOK, ReplayOK, stops, Phase

\* A pending transaction takes room from the undo history.
LEMMA PushTransactionKeeps ==
    ASSUME ChainInv, push_transaction
    PROVE  ChainInv'
<1>1. undo_size \in Nat /\ undo_max \in Nat \ {0}
  BY DEF ChainInv, Others, StoresOK
<1>2. undo_max - 1 \in Nat /\ undo_max - 1 <= undo_size
  BY <1>1 DEF push_transaction
<1>3. StoresOK(chain, flushed, log, undo_max - 1)
  BY <1>2, StoresForget, Zenon DEF ChainInv
<1> QED BY <1>3 DEF push_transaction, ChainInv, Others, SwitchOK, ReplayOK, switching, stops, history

\* close() and its rewind.
LEMMA CloseKeeps ==
    ASSUME ChainInv, close \/ Rewind
    PROVE  ChainInv'
<1>1. CASE close
  <2>1. closes \in 0..MaxCloses /\ MaxCloses \in Nat /\ closes < MaxCloses
    BY <1>1, ChainAssumption DEF close, ChainInv, Others
  <2>2. closes + 1 \in 0..MaxCloses
    BY <2>1
  <2>3. Cutoff \in Nat
    <3>1. chain \in Seq(Block)
      BY DEF ChainInv, StoresOK
    <3>2. last_irreversible(chain) \in 0..Len(chain) /\ Len(chain) \in Nat
      BY <3>1, IrreversibleFacts, SeqLen
    <3> QED BY <3>2 DEF Cutoff
  <2> QED BY <1>1, <2>2, <2>3, Zenon
       DEF close, ChainInv, Others, SwitchOK, ReplayOK, switching, history, Phase
<1>2. CASE Rewind
  <2>1. /\ phase = "closing" /\ pop_block /\ fork_db' = remove(PoppedForkDb, Tip(chain))
        /\ UNCHANGED <<flushed, phase, switching, stops, history>>
    BY <1>2 DEF Rewind
  <2>2. /\ StoresOK(chain', flushed, log', undo_size') /\ undo_max' = undo_max
        /\ ForkOK(PoppedForkDb)
    BY <2>1, PopKeeps DEF ChainInv, Others
  <2>3. ForkOK(remove(PoppedForkDb, Tip(chain)))
    BY <2>2, RemoveOK
  <2> QED BY <2>1, <2>2, <2>3 DEF ChainInv, Others, SwitchOK, ReplayOK, switching, stops, history
<1> QED BY <1>1, <1>2

\* What is on disk is all that a stopped process has.
LEMMA ForgottenKeeps ==
    ASSUME ChainInv, NEW disk, StoresOK(disk, disk, log, 0), Forgotten(disk), flushed' = disk,
           cutoff' \in Nat, crashes' \in 0..MaxCrashes, closes' \in 0..MaxCloses
    PROVE  ChainInv'
<1>1. /\ chain' = disk /\ undo_size' = 0 /\ undo_max' = InitialSize
      /\ fork_db' = EmptyForkDatabase(InitialSize) /\ phase' = "down"
      /\ first' = <<>> /\ second' = <<>> /\ before' = <<>> /\ thrown' = FALSE
      /\ UNCHANGED <<log, final>>
  BY DEF Forgotten
<1>2. InitialSize \in Nat \ {0}
  BY TreeAssumption DEF InitialSize
<1>3. ForkOK(EmptyForkDatabase(InitialSize))
  BY <1>2 DEF EmptyForkDatabase, ForkOK, ForkType
<1>4. StoresOK(chain', flushed', log', undo_size')
  BY <1>1
<1> QED BY <1>1, <1>2, <1>3, <1>4, SeqEmpty, Zenon DEF ChainInv, Others, SwitchOK, ReplayOK, Phase

LEMMA StopKeeps ==
    ASSUME ChainInv, Flush \/ Crash \/ ReindexThrows
    PROVE  ChainInv'
<1>1. StoresOK(chain, chain, log, 0) /\ StoresOK(flushed, flushed, log, 0)
  BY StoresFlush, StoresReload DEF ChainInv
<1>2. cutoff \in Nat /\ crashes \in 0..MaxCrashes /\ closes \in 0..MaxCloses /\ MaxCrashes \in Nat
  BY ChainAssumption DEF ChainInv, Others
<1>3. CASE Flush
  BY <1>1, <1>2, <1>3, ForgottenKeeps DEF Flush
<1>4. CASE Crash
  <2>1. crashes' \in 0..MaxCrashes
    BY <1>2, <1>4 DEF Crash
  <2> QED BY <1>1, <1>2, <1>4, <2>1, ForgottenKeeps DEF Crash
<1>5. CASE ReindexThrows
  BY <1>1, <1>2, <1>5, ForgottenKeeps DEF ReindexThrows, stops
<1> QED BY <1>3, <1>4, <1>5

\* open() finds the log at least as long as the chain.
LEMMA OpenKeeps ==
    ASSUME ChainInv, open
    PROVE  ChainInv'
<1>1. /\ chain \in Seq(Block) /\ log \in [1..MaxHeight -> Block \cup {NoBlock}] /\ NoHoles(log)
      /\ \A n \in DOMAIN chain : log[n] = chain[n]
  BY DEF ChainInv, StoresOK
<1>2. /\ last_num \in Nat /\ Len(chain) \in Nat /\ DOMAIN chain = 1..Len(chain)
  BY <1>1, LastNumFacts, SeqLen, TreeAssumption
<1>3. /\ phase = "down" /\ phase' = IF last_num > Len(chain) THEN "reindex" ELSE "running"
      /\ fork_db' \in {fork_db} \cup (IF chain # <<>> THEN {start_block(fork_db, log[Len(chain)])} ELSE {})
      /\ UNCHANGED <<chain, undo_size, undo_max, log, flushed, switching, stops, history>>
  BY DEF open
<1>4. undo_size = 0 /\ ForkOK(fork_db)
  BY <1>3 DEF ChainInv, ReplayOK, Others
<1>5. chain # <<>> => log[Len(chain)] \in Block
  <2>1. chain # <<>> => Len(chain) \in 1..Len(chain) /\ chain[Len(chain)] \in Block
    BY <1>1, TipFacts
  <2> QED BY <1>1, <1>2, <2>1
<1>6. ForkOK(fork_db')
  BY <1>3, <1>4, <1>5, StartOK
<1>7. ReplayOK'
  <2>1. last_num' = last_num
    BY <1>3 DEF last_num
  <2>2. phase' = "reindex" => Len(chain) + 1 <= last_num
    BY <1>2, <1>3
  <2> QED BY <1>3, <1>4, <2>1, <2>2 DEF ReplayOK
<1> QED BY <1>3, <1>6, <1>7 DEF ChainInv, Others, SwitchOK, switching, stops, history, Phase

\* The next block of a replay.
LEMMA ReplayFacts ==
    ASSUME ChainInv, phase = "reindex"
    PROVE  /\ Replayed \in Block /\ Len(chain) \in Nat /\ last_num \in Nat /\ undo_point \in Nat
           /\ undo_point <= last_num /\ Len(chain) + 1 <= last_num
           /\ (Len(chain) + 1 <= undo_point => undo_size = 0)
           /\ block_num[Replayed] = Len(chain) + 1 => store(log, Replayed) = log
<1>1. chain \in Seq(Block) /\ log \in [1..MaxHeight -> Block \cup {NoBlock}] /\ NoHoles(log)
  BY DEF ChainInv, StoresOK
<1>2. /\ last_num \in Nat /\ Len(chain) \in Nat /\ undo_point \in Nat /\ undo_point <= last_num
      /\ last_num \in 0..MaxHeight /\ MaxHeight \in Nat
  BY <1>1, LastNumFacts, SeqLen, TreeAssumption
<1>3. /\ Len(chain) + 1 <= last_num /\ (Len(chain) + 1 <= undo_point => undo_size = 0)
  BY DEF ChainInv, ReplayOK
<1>4. Len(chain) + 1 \in 1..last_num /\ Len(chain) + 1 \in 1..MaxHeight
  BY <1>2, <1>3
<1>5. Replayed \in Block
  BY <1>1, <1>4, LastNumFacts DEF Replayed
<1>6. block_num[Replayed] = Len(chain) + 1 => store(log, Replayed) = log
  BY <1>1, <1>4, Zenon DEF store, Replayed
<1> QED BY <1>2, <1>3, <1>5, <1>6

\* Below the undo point: nothing to undo, so far or after the block.
LEMMA ReindexApplyKeeps ==
    ASSUME ChainInv, ReindexApply
    PROVE  ChainInv'
<1> DEFINE b == Replayed
<1>1. /\ phase = "reindex" /\ Len(chain) + 1 < undo_point /\ Applies(chain, b)
      /\ chain' = Append(chain, b) /\ final' = Finalized(chain') /\ undo_max' = HistorySize(chain)
      /\ fork_db' = fork_set_max_size(fork_db, HistorySize(chain))
      /\ UNCHANGED <<undo_size, log, flushed, phase, switching, stops, before, thrown>>
  BY DEF ReindexApply
<1>2. /\ b \in Block /\ Len(chain) \in Nat /\ last_num \in Nat /\ undo_point \in Nat
      /\ undo_point <= last_num /\ (Len(chain) + 1 <= undo_point => undo_size = 0)
      /\ (block_num[b] = Len(chain) + 1 => store(log, b) = log)
  BY <1>1, ReplayFacts
<1> HIDE DEF b
<1>3. undo_size = 0 /\ Len(chain) + 2 <= last_num
  BY <1>1, <1>2
<1>4. StoresOK(Append(chain, b), flushed, store(log, b), 1) /\ block_num[b] = Len(chain) + 1
  <2>1. b \in Block \ Invalid /\ Previous[b] = Tip(chain)
    BY <1>1, <1>2 DEF Applies
  <2>2. StoresOK(chain, flushed, log, 0) /\ 0 <= 0 /\ 0 + 1 = 1
    BY <1>3 DEF ChainInv
  <2>3. StoresOK(Append(chain, b), flushed, store(log, b), 0 + 1) /\ block_num[b] = Len(chain) + 1
    BY <2>1, <2>2, StoresApply
  <2> QED BY <2>2, <2>3, Zenon
<1>5. StoresOK(Append(chain, b), flushed, log, 0)
  <2>1. StoresOK(Append(chain, b), flushed, log, 1)
    BY <1>2, <1>4
  <2> QED BY <2>1, StoresForget
<1>6. chain \in Seq(Block)
  BY DEF ChainInv, StoresOK
<1>7. HistorySize(chain) \in Nat \ {0} /\ ForkOK(fork_set_max_size(fork_db, HistorySize(chain)))
  BY <1>6, IrreversibleFacts, ResizeOK, Zenon DEF ChainInv, Others
<1>8. Append(chain, b) \in Seq(Block) /\ Len(Append(chain, b)) = Len(chain) + 1
  BY <1>2, <1>6, SeqAppend
<1>9. Finalized(Append(chain, b)) \in Seq(Block)
  BY <1>8, FinalType, Zenon DEF ChainInv, Others
<1>10. ReplayOK'
  <2>1. last_num' = last_num /\ Len(chain') + 1 = Len(chain) + 2
    BY <1>1, <1>2, <1>8 DEF last_num
  <2> QED BY <1>1, <1>3, <2>1 DEF ReplayOK
<1>11. StoresOK(chain', flushed', log', undo_size')
  BY <1>1, <1>3, <1>5
<1> QED BY <1>1, <1>7, <1>9, <1>10, <1>11, Zenon DEF ChainInv, Others, SwitchOK, switching, stops

\* From the undo point on; what is written there is all that there is to undo.
LEMMA ReindexPushKeeps ==
    ASSUME ChainInv, ReindexPush
    PROVE  ChainInv'
<1> DEFINE b == Replayed
           f == fork_push_block(fork_db, b)
<1>1. /\ phase = "reindex" /\ Len(chain) + 1 >= undo_point /\ ~Unlinkable(fork_db, b)
      /\ ApplyAndCommit(f, b) /\ flushed' = IF FlushesNow THEN chain ELSE flushed
      /\ phase' = IF ReplayEnds THEN "running" ELSE "reindex"
      /\ UNCHANGED <<switching, stops, before, thrown>>
  BY DEF ReindexPush
<1>2. /\ b \in Block /\ Len(chain) \in Nat /\ last_num \in Nat /\ undo_point \in Nat
      /\ Len(chain) + 1 <= last_num /\ (Len(chain) + 1 <= undo_point => undo_size = 0)
      /\ (block_num[b] = Len(chain) + 1 => store(log, b) = log)
  BY <1>1, ReplayFacts, Zenon
<1> HIDE DEF b
<1>3. ForkOK(f)
  BY <1>1, <1>2, PushOK, Zenon DEF ChainInv, Others
<1> HIDE DEF f
<1>4. /\ StoresOK(chain', flushed, log', undo_size')
      /\ undo_max' \in Nat \ {0} /\ ForkOK(fork_db') /\ final' \in Seq(Block)
      /\ block_num[b] = Len(chain) + 1 /\ Len(chain') = Len(chain) + 1
  BY <1>1, <1>2, <1>3, ApplyKeeps DEF ChainInv, Others
<1>5. StoresOK(chain', flushed', log', undo_size')
  <2>1. CASE FlushesNow
    <3>1. undo_size = 0 /\ flushed' = chain
      BY <1>1, <1>2, <2>1 DEF FlushesNow
    <3>2. StoresOK(chain, chain, log, 0) /\ undo_max \in Nat /\ 0 \in Nat
      BY StoresFlush DEF ChainInv, Others
    <3>3. Evicted = 0
      <4>1. Evicted \in Nat /\ Evicted <= 0
        BY <3>1, <3>2, EvictedFacts, Zenon
      <4> QED BY <4>1
    <3>4. b \in Block \ Invalid /\ Previous[b] = Tip(chain)
      BY <1>1, <1>2, Zenon DEF ApplyAndCommit, Applies
    <3>5. StoresOK(Append(chain, b), chain, store(log, b), 0 + 1)
      BY <3>2, <3>4, StoresApply
    <3> QED BY <1>1, <3>1, <3>3, <3>5 DEF ApplyAndCommit
  <2>2. CASE ~FlushesNow
    BY <1>1, <1>4, <2>2
  <2> QED BY <2>1, <2>2
<1>6. ReplayOK'
  <2>1. log' = log
    BY <1>1, <1>2, <1>4 DEF ApplyAndCommit
  <2>2. last_num' = last_num /\ undo_point' = undo_point
    BY <2>1 DEF last_num, undo_point
  <2>3. ~ReplayEnds => Len(chain') + 1 <= last_num
    BY <1>2, <1>4 DEF ReplayEnds
  <2>4. ~(Len(chain') + 1 <= undo_point)
    BY <1>1, <1>2, <1>4
  <2>5. phase' # "down" /\ (phase' = "reindex" => ~ReplayEnds)
    BY <1>1
  <2> QED BY <2>2, <2>3, <2>4, <2>5 DEF ReplayOK
<1>7. phase' \in Phase /\ SwitchOK'
  BY <1>1 DEF Phase, SwitchOK
<1> QED BY <1>1, <1>4, <1>5, <1>6, <1>7, Zenon DEF ChainInv, Others, switching, stops

-----------------------------------------------------------------------------
(* The result                                                              *)

LEMMA ChainNext == ChainInv /\ [Next]_vars => ChainInv'
<1> SUFFICES ASSUME ChainInv, [Next]_vars PROVE ChainInv'
  OBVIOUS
<1>1. ASSUME NEW b \in Block, push_block(b) PROVE ChainInv'
  BY <1>1, PushExtendsKeeps, PushOthersKeep, PushSwitchesKeeps DEF push_block
<1>2. CASE Continue
  BY <1>2, SwitchPopKeeps, SwitchPushKeeps, SwitchFailsKeeps, CloseKeeps, StopKeeps,
     ReindexApplyKeeps, ReindexPushKeeps DEF Continue
<1>3. CASE push_transaction
  BY <1>3, PushTransactionKeeps
<1>4. CASE close
  BY <1>4, CloseKeeps
<1>5. CASE Crash
  BY <1>5, StopKeeps, Zenon
<1>6. CASE open
  BY <1>6, OpenKeeps
<1>7. CASE UNCHANGED vars
  BY <1>7, Zenon DEF vars, ChainInv, Others, SwitchOK, ReplayOK, last_num, undo_point
<1> QED BY <1>1, <1>2, <1>3, <1>4, <1>5, <1>6, <1>7 DEF Next

LEMMA ChainInvMeans == ChainInv => LogMatchesChain
<1> SUFFICES ASSUME ChainInv PROVE LogMatchesChain
  BY Zenon
<1>1. TypeOK
  BY Zenon DEF ChainInv, StoresOK, Others, ForkOK, ForkType, TypeOK
<1>2. chain # <<>> => chain = path[Tip(chain)]
  BY DEF ChainInv, StoresOK, IsPath
<1> QED BY <1>1, <1>2 DEF ChainInv, StoresOK, LogMatchesChain

\* Whatever blocks, forks, invalid blocks, shutdowns and crashes a node meets,
\* push_block, pop_block, close, open and reindex keep in the object database
\* one chain of valid blocks from the first block on, the block log has
\* these blocks under their numbers, and what is on disk is part of the chain.
THEOREM LogMatchesChainAlways == Spec => []LogMatchesChain
<1>1. Init => ChainInv
  BY ChainInit
<1>2. ChainInv /\ [Next]_vars => ChainInv'
  BY ChainNext
<1>3. ChainInv => LogMatchesChain
  BY ChainInvMeans
<1> QED BY <1>1, <1>2, <1>3, PTL DEF Spec
=============================================================================
