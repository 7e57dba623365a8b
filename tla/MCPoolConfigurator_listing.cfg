\* Reserves listed, dropped and configured under their users, and one with interest.
CONSTANTS
    weth = weth
    usdc = usdc
    dai = dai
    alice = alice
    bob = bob
    RAY = 2
    WAD = 100
    PERCENTAGE_FACTOR = 10
    Assets = {0, 1}
    Underlyings = {weth, usdc, dai}
    NoUnderlying = noUnderlying
    OraclePrice <- UnderlyingPriceOne
    InitReserves <- WethAndUsdc
    Users = {alice, bob}
    Treasury = treasury
    PriceSources = {}
    NoPriceSource = noSource
    Categories = {1}
    MaxUint = 10000
    IsolatedCollateralSuppliers = {}
    InitConfiguration <- ListedConfiguration
    InitEModeCategories <- NewCategories
    InitPrice <- PriceOne
    InitWallet <- OneOfEach
    ATokenAddress = aToken
    MaxStableRateBorrowSizePercent = 10
    Amounts = {1}
    Recipients <- OwnAccount
    Delegations = {}
    Prices <- FixedPrices
    IndexValues = {3}
    MaxStableDebt = 2
    TreasuryAccruals = {0, 1}
    SentinelMoves = FALSE
SPECIFICATION MCSpec
\* Paused, with no calls of the admin left, there is no step.
CHECK_DEADLOCK FALSE
SYMMETRY Symmetry
INVARIANTS
    TypeOK
    DebtImpliesBorrowingFlag
    ListingConsistent
    ClaimsInReserves
    CountedUnderACeiling
PROPERTIES
    SiloedBorrowingKept
