SPECIFICATION MCSpec
CONSTANTS
    w1 = w1  w2 = w2  w3 = w3  w4 = w4
    k1 = k1  k2 = k2  k3 = k3
    Witness = {w1, w2, w3, w4}
    ActiveSets <- MCActiveSets
    Intervals = {2, 3}
    MaintenanceInterval = 7
    SkipSlots = 1
    GenesisTime = 6
    Bits = 5
    MaxTime = 21
    _witnesses = {w1}
    Key = {k1, k2, k3}
    NoKey = NoKey
    _private_keys = {k1, k2}
    InitialKey <- MCInitialKey
    Second = 4
    MinSleep = 2
    MaxLag = 10
    MaxLate = 3
    _required_witness_participation = 7000
    MaxKeyUpdates = 1
    MaxClock = 12
INVARIANTS
    SlotsAhead
    ProductionSucceeds
    OwnSlotsFilled
PROPERTY
    EveryoneGetsATurn
CHECK_DEADLOCK FALSE
