\* One reserve: up to five operations, with interest between them.
CONSTANTS
    alice = alice
    bob = bob
    treasury = treasury
    maxUint = maxUint
    zero = zero
    theAToken = theAToken
    RAY = 10000
    WAD = 100
    PERCENTAGE_FACTOR = 100
    SECONDS_PER_YEAR = 4
    OPTIMAL_USAGE_RATIO = 5000
    OPTIMAL_STABLE_TO_TOTAL_DEBT_RATIO = 2000
    baseVariableBorrowRate = 100
    variableRateSlope1 = 800
    variableRateSlope2 = 3000
    stableRateSlope1 = 400
    stableRateSlope2 = 2000
    baseStableRateOffset = 200
    stableRateExcessOffset = 500
    reserveFactor = 20
    Borrowers = {alice, bob}
    Amounts = {4, 80}
    StableRates = {0}
    MaxStableBalance = 0
    MaxTime = 3
    Treasury = treasury
    MAX = maxUint
    MaxStableRateBorrowSizePercent = 50
    RebalanceUpLiquidityRateThreshold = 90
    FlashLoanPremiumTotal = 10
    FlashLoanPremiumToProtocol = 40
    BridgeProtocolFee = 30
    UnbackedMintCap = 150
    FlashBorrowers = {alice, bob}
    InitialWallet = 200
    MaxLoans = 2
    MaxRounding = 3
    ZERO_ADDRESS = zero
    aTokenAddress = theAToken
SYMMETRY Symmetry
SPECIFICATION MCSpec
INVARIANTS
    ReserveTypeOK
    FullExit
    AccrualNeverUnderflows
    RatesAreCurrent
    Solvent
    EventsAsExpected
PROPERTIES
    IncomeNeverFalls
    BalancesFromEvents
