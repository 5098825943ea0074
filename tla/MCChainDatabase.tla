--------------------------- MODULE MCChainDatabase --------------------------
(* Instances of ChainDatabase: the trees of blocks that are offered.       *)
EXTENDS ChainDatabase, TLC

CONSTANTS a1, a2, a3, a4, a5, a6, a7, a8, a9, b3, b4, b5, b6, b7, d4, d5, e4, e5, w1, w2

\* Two partitions after a2.  The witness w1 goes on alone with a3 and a4, w2
\* with b3 and b4; they meet in b5, which makes b4 irreversible.
\* An invalid block d4, with a child, hangs off b3.
Fork == a1 :> NoBlock @@ a2 :> a1 @@ a3 :> a2 @@ a4 :> a3
        @@ b3 :> a2 @@ b4 :> b3 @@ b5 :> b4 @@ b6 :> b5 @@ b7 :> b6
        @@ d4 :> b3 @@ d5 :> d4
Signed == a1 :> w1 @@ a2 :> w2 @@ a3 :> w1 @@ a4 :> w1
                @@ b3 :> w2 @@ b4 :> w2 @@ b5 :> w1 @@ b6 :> w2 @@ b7 :> w1
                @@ d4 :> w2 @@ d5 :> w2
ForkTree == [b \in Block |-> Fork[b]]
ForkNumbers[b \in Block] == IF Fork[b] = NoBlock THEN 1 ELSE ForkNumbers[Fork[b]] + 1
ForkProducer == [b \in Block |-> Signed[b]]

\* Partitions that last for as long as four blocks; the second block of the
\* longer branch is invalid.  The partitions meet in a7.
Deep == a1 :> NoBlock @@ a2 :> a1 @@ a3 :> a2 @@ a4 :> a3 @@ a5 :> a4 @@ a6 :> a5
        @@ a7 :> a6 @@ a8 :> a7 @@ a9 :> a8
        @@ b3 :> a2 @@ b4 :> b3 @@ b5 :> b4 @@ b6 :> b5 @@ b7 :> b6
DeepSigned == a1 :> w1 @@ a2 :> w2 @@ a3 :> w1 @@ a4 :> w1 @@ a5 :> w1 @@ a6 :> w1
              @@ a7 :> w2 @@ a8 :> w1 @@ a9 :> w2
              @@ b3 :> w2 @@ b4 :> w2 @@ b5 :> w2 @@ b6 :> w2 @@ b7 :> w2
DeepTree == [b \in Block |-> Deep[b]]
DeepNumbers[b \in Block] == IF Deep[b] = NoBlock THEN 1 ELSE DeepNumbers[Deep[b]] + 1
DeepProducer == [b \in Block |-> DeepSigned[b]]
=============================================================================
