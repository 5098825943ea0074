SPECIFICATION Spec
CONSTANTS
    alice = alice
    bob = bob
    secret = secret
    Account = {alice, bob}
    Asset <- MCAsset
    Unset = Unset
    MarketFeePercent <- MCMarketFeePercent
    TakerFeePercent <- MCTakerFeePercent
    MaxMarketFee <- MCMaxMarketFee
    RewardPercent <- MCRewardPercent
    NetworkPercent = 5000
    Referral <- MCReferral
    Owner = alice
    PoolEndowment <- MCPoolEndowment
    MaxSupply = 5
    TakerFees = {0, 5000}
    WithdrawalFees = {0, 5000}
    PoolAmounts = {1, 3}
    NoPool = NoPool
    Secret = {secret}
    Maker <- MCMaker
    Diligent = {bob}
    HtlcEndowment = 2
    max_timeout = 4
    MaxGap = 2
    MaxHtlcTime = 4
    MaxHtlc = 3
    HtlcAmounts = {1}
    FEE_RATE_DENOM = 4
    MAX_OFFER_DURATION = 2
    Terms <- MCTerms
    Collateral <- MCCollateral
    CreditEndowment <- MCCreditEndowment
    CreditAmounts = {1, 2, 3}
    MaxOffers = 1
    MaxDeals = 2
    MaxCreditTime = 2
    FeeRateDenom = 4
    FeeRates = {0, 1}
    FundEndowment = 2
    FundAmounts = {1, 2}
    MaxFunds = 1
    MaxTransactions = 2
    MaxOperations = 3
    seconds_per_charging_step = 1
    seconds_to_cancel_charging = 1
    seconds_per_lock_forever_update_step = 1
    seconds_to_downgrade <- MCDowngrade
    TicketEndowment <- MCTicketEndowment
    TicketAmounts = {1, 2}
    MaxTickets = 2
    MaxTicketUpdates = 3
    LastTicketCreation = 0
    MaxTicketTime = 6
    Policies <- MCPolicies
    Periods = {0, 2}
    witness_pay_vesting_seconds = 1
    cashback_vesting_threshold = 1
    Members <- MCMembers
    Reserved = {bob}
    VestingEndowment <- MCVestingEndowment
    WitnessBudget = 1
    VestingAmounts = {1, 3}
    MaxVestings = 3
    MaxDeposits = 2
    MaxVestingTime = 4
    block_interval = 1
    Offered <- MCOffered
    PermitEndowment = 4
    PermitAmounts = {1, 2}
    MaxPermits = 1
    MaxPermitUpdates = 1
    MaxPermitTime = 6
    Proposable <- MCProposable
    ReviewPeriods = {1}
    NoReview = NoReview
    Levels = {"active", "owner"}
    maximum_proposal_lifetime = 2
    MaxNesting = 2
    MaxProposals = 3
    MaxPending = 2
    MaxProposalTime = 3
CHECK_DEADLOCK FALSE
INVARIANT
    IndexComplete
