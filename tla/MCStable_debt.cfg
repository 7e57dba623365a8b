\* Two borrowers at a low and a high rate, over two time units.
CONSTANTS
    alice = alice
    bob = bob
    RAY = 1000
    WAD = 100
    PERCENTAGE_FACTOR = 10
    SECONDS_PER_YEAR = 1
    Borrowers = {alice, bob}
    Amounts = {20, 50}
    StableRates = {40, 120}
    MaxTime = 2
    MaxStableBalance = 70
    MaxOperations = 5
SPECIFICATION MCStableSpec
INVARIANT
    StableTypeOK
PROPERTY RebalanceKeepsDebts
