SPECIFICATION Spec
CONSTANTS
    MaxNum = 5
    MaxUndoHistory = 3
    QueueSize = 2
    Lag = 1
    DamageDepth = 4
    MaxCrashes = 2
    MaxCloses = 1
    MaxUpgrades = 1
    MaxDamage = 1
INVARIANTS LogHasChain OnlyUnsavedLost
 
CHECK_DEADLOCK FALSE
