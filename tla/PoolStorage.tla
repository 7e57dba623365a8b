----------------------------- MODULE PoolStorage -----------------------------
(***************************************************************************)
(* The state of the Pool and of the three tokens of each reserve, and the  *)
(* views the operations read: balances, the user's configuration bitmap,   *)
(* and the account data of GenericLogic.                                   *)
(*                                                                         *)
(* The indices are the normalized ones, i.e. those of the current block:   *)
(* every operation of the code starts with updateState, which stores them, *)
(* so that between the operations of one block stored and normalized index *)
(* agree.  Time passes in the environment action Accrue of module Pool.    *)
(***************************************************************************)
EXTENDS WadRayMath, Functions, FiniteSets

CONSTANTS
    Assets,                       \* the underlying assets with a reserve
    Users,                        \* the accounts that call the Pool
    Treasury,                     \* the account that receives protocol fees
    PriceSources,                 \* eMode price sources that are not reserves
    NoPriceSource,                \* address(0) as a category's price source
    Categories,                   \* eMode category ids; 0 is "no category"
    MaxUint,                      \* type(uint256).max
    IsolatedCollateralSuppliers,  \* holders of ISOLATED_COLLATERAL_SUPPLIER
    InitConfiguration, InitEModeCategories, InitPrice, InitWallet

Accounts == Users \cup {Treasury}

RateModes == {"STABLE", "VARIABLE"}

VARIABLES
    aTokenBalance,          \* [Assets -> [Accounts -> Nat]]: scaled
    variableDebt,           \* [Assets -> [Users -> Nat]]: scaled
    stableDebt,             \* [Assets -> [Users -> Nat]]: with interest
    borrowAllowance,        \* credit delegation, per debt token
    collateral, borrowing,  \* the two bits per reserve of _usersConfig
    usersEModeCategory,
    isolationModeTotalDebt,
    wallet, liquidity,      \* underlying held by users, and by the aToken
    liquidityIndex, variableBorrowIndex, accruedToTreasury,
    price, sentinelUp,      \* external: oracle prices, PriceOracleSentinel
    configuration, eModeCategories

tokens == <<aTokenBalance, variableDebt, stableDebt, borrowAllowance>>
usersConfig == <<collateral, borrowing, usersEModeCategory>>
underlying == <<wallet, liquidity>>
indices == <<liquidityIndex, variableBorrowIndex, accruedToTreasury>>
oracles == <<price, sentinelUp>>
listing == <<configuration, eModeCategories>>
vars == <<tokens, usersConfig, isolationModeTotalDebt, underlying, indices,
          oracles, listing>>

-----------------------------------------------------------------------------
(* Types.  Amounts are natural numbers, all checked against underflow.     *)

ReserveConfigurationMap ==
    [ltv : Nat, liquidationThreshold : Nat, liquidationBonus : Nat,
     liquidationProtocolFee : Nat,
     unit : Nat \ {0}, debtCeilingUnit : Nat \ {0},
     active : BOOLEAN, frozen : BOOLEAN, paused : BOOLEAN,
     borrowingEnabled : BOOLEAN, stableRateBorrowingEnabled : BOOLEAN,
     borrowableInIsolation : BOOLEAN, siloedBorrowing : BOOLEAN,
     eModeCategory : Categories \cup {0},
     borrowCap : Nat, supplyCap : Nat, debtCeiling : Nat]

\* What PoolConfigurator accepts as the risk parameters of a reserve.
ReserveConfigurations ==
    {c \in ReserveConfigurationMap :
        /\ c.ltv <= c.liquidationThreshold
        /\ c.liquidationThreshold # 0 => c.liquidationBonus > PERCENTAGE_FACTOR
        /\ c.liquidationProtocolFee <= PERCENTAGE_FACTOR}

\* ... and of an eMode category.
EModeCategories ==
    {c \in [ltv : Nat, liquidationThreshold : Nat, liquidationBonus : Nat,
            priceSource : Assets \cup PriceSources \cup {NoPriceSource}] :
        /\ c.ltv <= c.liquidationThreshold
        /\ c.liquidationBonus > PERCENTAGE_FACTOR}

Indices == {i \in Nat : i >= RAY}

ASSUME InitialValues ==
    /\ Treasury \notin Assets /\ Categories \subseteq Nat \ {0}
    /\ NoPriceSource \notin Assets \cup PriceSources
    /\ MaxUint \in Nat \ {0} /\ WAD < MaxUint
    /\ IsolatedCollateralSuppliers \subseteq Users
    /\ InitConfiguration \in [Assets -> ReserveConfigurations]
    /\ InitEModeCategories \in [Categories -> EModeCategories]
    /\ InitPrice \in [Assets \cup PriceSources -> Nat \ {0}]
    /\ InitWallet \in [Assets -> [Users -> Nat]]

\* Total supplies are sums over the accounts, the account data of a user over
\* the reserves, of which there are at most 128.
ASSUME UsersAreFinite == IsFiniteSet(Users)
ASSUME AssetsAreFinite == IsFiniteSet(Assets)

TypeOK ==
    /\ aTokenBalance \in [Assets -> [Accounts -> Nat]]
    /\ variableDebt \in [Assets -> [Users -> Nat]]
    /\ stableDebt \in [Assets -> [Users -> Nat]]
    /\ borrowAllowance \in
         [Assets -> [RateModes -> [Users -> [Users -> Nat]]]]
    /\ collateral \in [Users -> SUBSET Assets]
    /\ borrowing \in [Users -> SUBSET Assets]
    /\ usersEModeCategory \in [Users -> Categories \cup {0}]
    /\ isolationModeTotalDebt \in [Assets -> Nat]
    /\ wallet \in [Assets -> [Users -> Nat]]
    /\ liquidity \in [Assets -> Nat]
    /\ liquidityIndex \in [Assets -> Indices]
    /\ variableBorrowIndex \in [Assets -> Indices]
    /\ accruedToTreasury \in [Assets -> Nat]
    /\ price \in [Assets \cup PriceSources -> Nat \ {0}]
    /\ sentinelUp \in BOOLEAN
    /\ configuration \in [Assets -> ReserveConfigurations]
    /\ eModeCategories \in [Categories -> EModeCategories]

\* A freshly listed set of reserves: nothing supplied, nothing borrowed.
Init ==
    /\ aTokenBalance = [a \in Assets |-> [u \in Accounts |-> 0]]
    /\ variableDebt = [a \in Assets |-> [u \in Users |-> 0]]
    /\ stableDebt = [a \in Assets |-> [u \in Users |-> 0]]
    /\ borrowAllowance = [a \in Assets |-> [m \in RateModes |->
                             [u \in Users |-> [v \in Users |-> 0]]]]
    /\ collateral = [u \in Users |-> {}]
    /\ borrowing = [u \in Users |-> {}]
    /\ usersEModeCategory = [u \in Users |-> 0]
    /\ isolationModeTotalDebt = [a \in Assets |-> 0]
    /\ wallet = InitWallet
    /\ liquidity = [a \in Assets |-> 0]
    /\ liquidityIndex = [a \in Assets |-> RAY]
    /\ variableBorrowIndex = [a \in Assets |-> RAY]
    /\ accruedToTreasury = [a \in Assets |-> 0]
    /\ price = InitPrice
    /\ sentinelUp = TRUE
    /\ configuration = InitConfiguration
    /\ eModeCategories = InitEModeCategories

-----------------------------------------------------------------------------
(* Token views: AToken.balanceOf, Helpers.getUserCurrentDebt, supplies.    *)

BalanceOf(a, u) == RayMul(aTokenBalance[a][u], liquidityIndex[a])

VariableDebtOf(a, u) == RayMul(variableDebt[a][u], variableBorrowIndex[a])

DebtOf(a, u) == stableDebt[a][u] + VariableDebtOf(a, u)

ScaledTotalSupply(a) == SumFunction(aTokenBalance[a])

TotalDebt(a) ==
    SumFunction(stableDebt[a])
      + RayMul(SumFunction(variableDebt[a]), variableBorrowIndex[a])

\* Mutant: both balances are read before either is written.
MoveBalanceFromCopies(balances, from, to, scaled) ==
    [balances EXCEPT ![from] = balances[from] - scaled,
                     ![to] = balances[to] + scaled]

(* Moving scaled units between two accounts, read and written one after    *)
(* the other, so that a transfer to oneself changes nothing.               *)
MoveBalance(balances, from, to, scaled) ==
    [[balances EXCEPT ![from] = @ - scaled] EXCEPT ![to] = @ + scaled]

-----------------------------------------------------------------------------
(* UserConfiguration: what the two bitmaps say.                            *)

\* Isolation mode: the only collateral is an asset with a debt ceiling.
IsolatedBy(flags, a) == flags = {a} /\ configuration[a].debtCeiling # 0

IsolationModeActive(flags) == \E a \in Assets : IsolatedBy(flags, a)

\* The only debt is of a siloed asset.
SiloedBy(flags, a) == flags = {a} /\ configuration[a].siloedBorrowing

-----------------------------------------------------------------------------
(* GenericLogic.calculateUserAccountData, on a position given explicitly:  *)
(* the operations evaluate it on states between two of their writes.       *)

Position(u) ==
    [collateral |-> collateral[u],
     borrowing  |-> borrowing[u],
     eMode      |-> usersEModeCategory[u],
     aToken     |-> [a \in Assets |-> BalanceOf(a, u)],
     debt       |-> [a \in Assets |-> DebtOf(a, u)]]

InEMode(p, a) == p.eMode # 0 /\ configuration[a].eModeCategory = p.eMode

PriceSourceOf(category) ==
    IF category = 0 THEN NoPriceSource ELSE eModeCategories[category].priceSource

PriceFor(p, a) ==
    IF InEMode(p, a) /\ PriceSourceOf(p.eMode) # NoPriceSource
    THEN price[PriceSourceOf(p.eMode)]
    ELSE price[a]

CollateralAssets(p) ==
    {a \in p.collateral : configuration[a].liquidationThreshold # 0}

CollateralInBase(p) ==
    [a \in Assets |-> (p.aToken[a] * PriceFor(p, a)) \div configuration[a].unit]

DebtInBase(p) ==
    [a \in Assets |-> (PriceFor(p, a) * p.debt[a]) \div configuration[a].unit]

TotalCollateralInBase(p) ==
    SumFunctionOnSet(CollateralInBase(p), CollateralAssets(p))

TotalDebtInBase(p) == SumFunctionOnSet(DebtInBase(p), p.borrowing)

\* Averages over the collateral, weighted by value and rounded down.
WeightedAverage(p, percentage) ==
    LET value == CollateralInBase(p)
        total == SumFunctionOnSet(value, CollateralAssets(p))
    IN  IF total = 0 THEN 0
        ELSE SumFunctionOnSet([a \in Assets |-> value[a] * percentage[a]],
                              CollateralAssets(p)) \div total

\* A zero ltv stays zero in eMode; the category's ltv applies otherwise.
AvgLtv(p) ==
    WeightedAverage(p, [a \in Assets |->
        IF configuration[a].ltv # 0 /\ InEMode(p, a)
        THEN eModeCategories[p.eMode].ltv ELSE configuration[a].ltv])

AvgLiquidationThreshold(p) ==
    WeightedAverage(p, [a \in Assets |->
        IF InEMode(p, a) THEN eModeCategories[p.eMode].liquidationThreshold
                         ELSE configuration[a].liquidationThreshold])

HasZeroLtvCollateral(p) ==
    \E a \in CollateralAssets(p) : configuration[a].ltv = 0

HealthFactor(p) ==
    LET debt == TotalDebtInBase(p)
    IN  IF debt = 0 THEN MaxUint
        ELSE WadDiv(PercentMul(TotalCollateralInBase(p),
                               AvgLiquidationThreshold(p)), debt)

Healthy(p) == HealthFactor(p) >= WAD
=============================================================================
