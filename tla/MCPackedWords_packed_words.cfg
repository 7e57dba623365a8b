\* Ids: neighbouring pairs of bits at the low end, one in the middle, the last
\* pair, and the first index beyond them.  Of the assets of the rollup there is
\* one more than ids, so that an id changes hands while a call is in flight.
CONSTANTS
    weth = weth
    usdc = usdc
    dai = dai
    lusd = lusd
    steth = steth
    zero = zero
    ReserveIndices = {0, 1, 2, 64, 127, 128}
    reservesById <- MCReservesById
    debtCeiling <- MCDebtCeiling
    siloedBorrowing <- MCSiloedBorrowing
    Values <- MCValues
    MaxSet = 2
    Assets = {weth, usdc, dai}
    NoAsset = zero
    MaxReserves = 2
    Requests <- MCRequests
SPECIFICATION PackedSpec
INVARIANTS
    PackedTypeOK
    QuestionsOfTheSets
    ActsAsRequested
PROPERTIES
    ImplementsFlags
    ImplementsRecord
