SPECIFICATION FairSpec
CONSTANTS
    NoBlock = NoBlock
    a1 = a1  a2 = a2  a3 = a3  a4 = a4  a5 = a5  a6 = a6  a7 = a7  a8 = a8  a9 = a9
    b3 = b3  b4 = b4  b5 = b5  b6 = b6  b7 = b7
    d4 = d4  d5 = d5  e4 = e4  e5 = e5
    w1 = w1  w2 = w2
    Block = {a1, a2, a3, a4, b3, b4, b5, b6, d4, d5}
    Previous <- ForkTree
    num_from_id <- ForkNumbers
    MaxHeight = 6
    Producer <- ForkProducer
    Witness = {w1, w2}
    Start = a2
    Invalid = {d4}
    MaxUndoHistory = 5
    MaxCrashes = 1
    MaxCloses = 1
INVARIANTS
    FailedPushRestoresChain
    SwitchPossible
PROPERTY Converges
CHECK_DEADLOCK FALSE
