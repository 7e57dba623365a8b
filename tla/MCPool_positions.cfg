\* Four instances of the Pool: an isolated asset, a falling market, liquidations, eMode.
CONSTANTS
    eth = eth
    usd = usd
    dai = dai
    fx = fx
    borrower = borrower
    lp = lp
    RAY = 2
    WAD = 100
    PERCENTAGE_FACTOR = 10
    Assets = {eth, usd, dai}
    Users = {borrower, lp}
    Treasury = treasury
    PriceSources = {fx}
    NoPriceSource = noSource
    Categories = {1}
    MaxUint = 10000
    IsolatedCollateralSuppliers = {lp}
    InitConfiguration <- IsolationConfiguration
    InitEModeCategories <- NoCategories
    InitPrice <- EthWorth4
    InitWallet <- IsolationWallet
    ATokenAddress = aToken
    MaxStableRateBorrowSizePercent = 3
    Amounts = {1, 2}
    Recipients <- AnyRecipient
    Delegations = {}
    Prices <- EthFalls
    IndexValues = {}
    MaxStableDebt = 0
    TreasuryAccruals = {}
    SentinelMoves = TRUE
SPECIFICATION MCSpec
INVARIANTS
    IsolatedCollateralExclusive
    DebtCeilingRespected
    EModeBorrowsConsistent
    LiquidationWithinBonus
    ATokensBacked
PROPERTIES
    HealthyUnlessMarketMoves
