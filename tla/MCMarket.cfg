SPECIFICATION MCSpec
CONSTANTS
    Account = {"ann", "bob"}
    Asset = {"mia", "core"}
    Unset = Unset
    NullPrice = NullPrice
    NoRatio = NoRatio
    NoAction = NoAction
    MarketFeePercent <- MCMarketFeePercent
    TakerFeePercent <- MCTakerFeePercent
    MaxMarketFee <- MCMaxMarketFee
    RewardPercent <- MCRewardPercent
    NetworkPercent = 0
    Referral <- MCReferral
    RatioDenom = 10
    Owner = "ann"
    Feeder = {"f", "g"}
    MinFeeds = 1
    MCR = 17
    ICR = 18
    MSSR = 12
    MCFR = 1
    SettleFeePercent = 2000
    SettleOffset = 500
    MaxSettleVolume = 5000
    CreateFee = 2
    UpdateFee = 1
    CancelFee = 1
    MakerDiscount = 5000
    CoreExchangeRate <- MCCoreExchangeRate
    MaxNesting = 3
    MaxOps = 3
    NewOrders <- MCNewOrders
    OrderUpdates <- MCOrderUpdates
    CallUpdates <- MCCallUpdates
    Bids <- MCBids
    SettleAmount <- MCSettleAmount
    FeedPrices <- MCFeedPrices
    TotalCore = 130
INVARIANTS NothingBreaks SupplyIsOwed OrdersConsistent TradesAreFair NothingLeftToMatch
CHECK_DEADLOCK FALSE
