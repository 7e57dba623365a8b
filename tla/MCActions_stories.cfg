\* Three stories of actions, each compared with what the suites expect.
CONSTANTS
    alice = alice
    bob = bob
    treasury = treasury
    maxUint = maxUint
    RAY = 10000
    WAD = 1000
    PERCENTAGE_FACTOR = 100
    SECONDS_PER_YEAR = 4
    OPTIMAL_USAGE_RATIO = 5000
    OPTIMAL_STABLE_TO_TOTAL_DEBT_RATIO = 2000
    baseVariableBorrowRate = 100
    variableRateSlope1 = 800
    variableRateSlope2 = 3000
    stableRateSlope1 = 400
    stableRateSlope2 = 2000
    baseStableRateOffset = 200
    stableRateExcessOffset = 500
    reserveFactor = 20
    Borrowers = {alice, bob}
    Amounts = {2000, 4000}
    StableRates = {0}
    MaxStableBalance = 0
    MaxTime = 6
    Treasury = treasury
    MAX = maxUint
    MaxStableRateBorrowSizePercent = 35
    RebalanceUpLiquidityRateThreshold = 90
    FlashLoanPremiumTotal = 10
    FlashLoanPremiumToProtocol = 40
    BridgeProtocolFee = 30
    UnbackedMintCap = 8000
    FlashBorrowers = {}
    InitialWallet = 20000
    MaxLoans = 0
    MaxRounding = 2
    DepositAmounts = {8000}
    Tolerance = 3
SYMMETRY Symmetry
SPECIFICATION MCSpec
INVARIANTS
    ReserveDataAsExpected
    UserDataAsExpected
