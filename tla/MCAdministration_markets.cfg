\* Four providers: the one that fills a gap may be before, behind or at it.  Four
\* proxies: two of them may be pools or configurators one after the other.
CONSTANTS
    p1 = p1
    p2 = p2
    p3 = p3
    p4 = p4
    other = other
    zero = zero
    weth = weth
    Providers = {p1, p2, p3, p4}
    Ids = {0, 1, 2, 3, 4}
    ZeroAddress = zero
    code <- MCCode
    Assets = {weth}
    Provider = p1
    None = zero
    Called = {1, 2, 3, 4, 21}
    MaxProxies = 4
SPECIFICATION MCSpec
INVARIANTS
    AdministrationTypeOK
    ListConsistent
    MapsInverse
    OneMarket
PROPERTIES
    ImplementsProviderIds
    InitializedByUpgradesOnly
