SPECIFICATION MCSpec
CONSTANTS
    Index = {acct}
    Key = {k1, k2}
    Val = {v1, v2}
    Absent = Absent
    MaxInstance = 1
    MaxUndo = 2
    MaxNesting = 2
    MaxStates = 3
    pay = pay  spend = spend  rival = rival  bulk = bulk
    Tx = {pay, spend, rival, bulk}
    Needs <- MCNeeds
    Conflicts <- MCConflicts
    Expires <- MCExpires
    Size <- MCSize
    MaxBlockSize = 3
    MaxUntilExpiration = 3
    MaxTime = 4
    MaxPop = 2
    MaxPending = 3
    MaxBlockTxs = 2
    Account = {0, 1, 2, 3, 4, 9}
    PublicKey = {1, 2, 3, 4, 5}
    TempAccount = 0
    CommitteeAccount = 9
    max_authority_depth = 2
    ActiveChoices <- MCActiveChoices
    OwnerChoices <- MCOwnerChoices
    InitialActive <- MCInitialActive
    InitialOwner <- MCInitialOwner
    Operation <- MCOperation
    Transactions <- MCTransactions_
    CustomOwner = 1
    CustomAuthorities <- MCCustomAuthorities
    CustomId = {1}
    MaxCustomTime = 2
    HistoryAccount = {1, 2}
    BlockContents <- MCBlockContents
    Skipped = Skipped
    Options <- MCOptions
    MaxHistoryBlocks = 4
SYMMETRY UndoSymmetry
INVARIANTS
    UndoRestores
    UndoNeverFails
    ActiveStatesKept
    AppliedOnce
    SessionIsPending
    NothingLost
    SignaturesAgree
    WalletCanSign
    HistoryKept
PROPERTY
    ImplementsStore
