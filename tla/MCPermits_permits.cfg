\* Two signatures, of one owner for two tokens, over a fork of the chain.
CONSTANTS
    alice = alice
    bob = bob
    dai = dai
    variableDebtDai = variableDebtDai
    pool = pool
    Users = {bob}
    Owners = {alice}
    Pool = pool
    Tokens = {dai, variableDebtDai}
    Underlying = dai
    ChainIds = {1, 2}
    DeployedChainId = 1
    Values = {1, 2}
    Deadlines = {0}
    MaxSignatures = 2
    MaxTime = 1
SPECIFICATION PermitsSpec
CHECK_DEADLOCK FALSE
INVARIANTS
    AcceptedInOrder
    SpentWithinGrants
