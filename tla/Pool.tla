-------------------------------- MODULE Pool --------------------------------
(***************************************************************************)
(* The operations of the Pool: one action per entry point, each modelling  *)
(* the whole handler -- the validation of ValidationLogic, the token calls *)
(* and the updates of the user configuration, in one atomic transaction.   *)
(* A revert is a disabled action.  Amounts come from the bounded set       *)
(* Amounts; MaxUint stands for type(uint256).max, "all of it".             *)
(*                                                                         *)
(* The environment moves between transactions: time passes (Accrue), the   *)
(* oracle prices and the sequencer oracle change.                          *)
(***************************************************************************)
EXTENDS PoolStorage

CONSTANTS
    ATokenAddress,      \* an aToken as the receiver of a withdrawal
    MaxStableRateBorrowSizePercent,
    \* Bounds of the checked instances.
    Amounts,            \* amounts passed by callers
    Recipients,         \* per user, who it supplies for or sends tokens to
    Delegations,        \* the credit delegations that may be approved
    Prices,             \* prices the oracle may report, per asset or source
    IndexValues,        \* the values an index may grow to
    MaxStableDebt,      \* a stable debt does not accrue beyond
    TreasuryAccruals,   \* scaled amounts one accrual adds for the treasury
    SentinelMoves       \* TRUE when the sequencer may go down

ASSUME Bounds ==
    /\ ATokenAddress \notin Accounts
    /\ MaxStableRateBorrowSizePercent \in Nat
    /\ Recipients \in [Users -> SUBSET (Users \cup {ATokenAddress})]
    /\ Amounts \subseteq Nat \ {0}
    /\ Delegations \subseteq [delegator : Users, delegatee : Users,
                             asset : Assets, mode : RateModes, amount : Nat]
    /\ \A s \in Assets \cup PriceSources : Prices[s] \subseteq Nat \ {0}
    /\ IndexValues \subseteq Nat /\ MaxStableDebt \in Nat
    /\ TreasuryAccruals \subseteq Nat
    /\ SentinelMoves \in BOOLEAN

-----------------------------------------------------------------------------
(* Validation shared by several operations.                                *)

Usable(a) == configuration[a].active /\ ~configuration[a].paused

\* Mutant: the ceiling of the asset itself is forgotten.
ValidateUseAsCollateralOfAny(flags, a) ==
    /\ configuration[a].ltv # 0
    /\ flags # {} => ~IsolationModeActive(flags)

\* ValidationLogic.validateUseAsCollateral for a user with these flags.
ValidateUseAsCollateral(flags, a) ==
    /\ configuration[a].ltv # 0
    /\ flags # {} => ~IsolationModeActive(flags) /\ configuration[a].debtCeiling = 0

\* ValidationLogic.validateAutomaticUseAsCollateral: an isolated asset is
\* enabled as a side effect only for callers with the role.
ValidateAutomaticUseAsCollateral(flags, a, callerHasRole) ==
    /\ configuration[a].debtCeiling # 0 => callerHasRole
    /\ ValidateUseAsCollateral(flags, a)

ValidateHFAndLtv(p, a) ==
    /\ Healthy(p)
    /\ HasZeroLtvCollateral(p) => configuration[a].ltv = 0

\* Mutant: health is checked with the balance before the call.
WithStaleBalance(p, a, scaled) == p

WithBalance(p, a, scaled) ==
    [p EXCEPT !.aToken[a] = RayMul(scaled, liquidityIndex[a])]

\* IsolationModeLogic.updateIsolatedDebtIfIsolated, given the flags the
\* user has at the time of the call.
UpdateIsolatedDebtIfIsolated(flags, asset, amount) ==
    LET repaid == amount \div configuration[asset].debtCeilingUnit
    IN  [c \in Assets |->
            IF ~IsolatedBy(flags, c) THEN isolationModeTotalDebt[c]
            ELSE IF isolationModeTotalDebt[c] <= repaid THEN 0
            ELSE isolationModeTotalDebt[c] - repaid]

-----------------------------------------------------------------------------
(* SupplyLogic                                                             *)

ValidateSupply(a, amount) ==
    /\ amount # 0
    /\ Usable(a) /\ ~configuration[a].frozen
    /\ \/ configuration[a].supplyCap = 0
       \/ RayMul(ScaledTotalSupply(a) + accruedToTreasury[a], liquidityIndex[a])
            + amount <= configuration[a].supplyCap * configuration[a].unit

Supply(u, onBehalfOf, a, amount) ==
    LET scaled == RayDiv(amount, liquidityIndex[a])
    IN  /\ ValidateSupply(a, amount)
        /\ amount <= wallet[a][u]
        /\ scaled # 0
        /\ aTokenBalance' = [aTokenBalance EXCEPT ![a][onBehalfOf] = @ + scaled]
        /\ collateral' =
             IF /\ aTokenBalance[a][onBehalfOf] = 0
                /\ ValidateAutomaticUseAsCollateral(collateral[onBehalfOf], a,
                                                    u \in IsolatedCollateralSuppliers)
             THEN [collateral EXCEPT ![onBehalfOf] = @ \cup {a}]
             ELSE collateral
        /\ wallet' = [wallet EXCEPT ![a][u] = @ - amount]
        /\ liquidity' = [liquidity EXCEPT ![a] = @ + amount]
        /\ UNCHANGED <<variableDebt, stableDebt, borrowAllowance, borrowing,
                       usersEModeCategory, isolationModeTotalDebt, indices,
                       oracles, listing>>

\* `to` may be any address: with the aToken itself the burn transfers nothing;
\* updateInterestRates still subtracts the amount from the liquidity.
Withdraw(u, a, amount, to) ==
    LET userBalance == BalanceOf(a, u)
        withdrawn   == IF amount = MaxUint THEN userBalance ELSE amount
        scaled      == RayDiv(withdrawn, liquidityIndex[a])
        isCollateral == a \in collateral[u]
        flags       == IF withdrawn = userBalance THEN collateral[u] \ {a}
                                                  ELSE collateral[u]
        after       == WithBalance([Position(u) EXCEPT !.collateral = flags],
                                   a, aTokenBalance[a][u] - scaled)
    IN  /\ withdrawn # 0 /\ withdrawn <= userBalance
        /\ Usable(a)
        /\ scaled # 0 /\ scaled <= aTokenBalance[a][u]
        /\ to # ATokenAddress \/ TotalDebt(a) # 0 => withdrawn <= liquidity[a]
        /\ isCollateral /\ borrowing[u] # {} => ValidateHFAndLtv(after, a)
        /\ collateral' = [collateral EXCEPT ![u] = flags]
        /\ aTokenBalance' = [aTokenBalance EXCEPT ![a][u] = @ - scaled]
        /\ IF to = ATokenAddress THEN UNCHANGED underlying
           ELSE /\ wallet' = [wallet EXCEPT ![a][to] = @ + withdrawn]
                /\ liquidity' = [liquidity EXCEPT ![a] = @ - withdrawn]
        /\ UNCHANGED <<variableDebt, stableDebt, borrowAllowance, borrowing,
                       usersEModeCategory, isolationModeTotalDebt, indices,
                       oracles, listing>>

\* AToken.transfer and Pool.finalizeTransfer.  The caller of finalizeTransfer
\* is the aToken, which does not hold the isolated supplier role.
Transfer(from, to, a, amount) ==
    LET scaled     == RayDiv(amount, liquidityIndex[a])
        fromBefore == BalanceOf(a, from)
        toBefore   == BalanceOf(a, to)
        moves      == from # to /\ amount # 0
        leaves     == moves /\ a \in collateral[from] /\ fromBefore = amount
        enters     == /\ moves /\ toBefore = 0
                      /\ ValidateAutomaticUseAsCollateral(collateral[to], a, FALSE)
        after      == WithBalance(Position(from), a, aTokenBalance[a][from] - scaled)
    IN  /\ ~configuration[a].paused
        /\ scaled <= aTokenBalance[a][from]
        /\ moves /\ a \in collateral[from] /\ borrowing[from] # {}
             => ValidateHFAndLtv(after, a)
        /\ aTokenBalance' =
             [aTokenBalance EXCEPT ![a] = MoveBalance(@, from, to, scaled)]
        /\ collateral' = [u \in Users |->
                            IF u = from /\ leaves THEN collateral[u] \ {a}
                            ELSE IF u = to /\ enters THEN collateral[u] \cup {a}
                            ELSE collateral[u]]
        /\ UNCHANGED <<variableDebt, stableDebt, borrowAllowance, borrowing,
                       usersEModeCategory, isolationModeTotalDebt, underlying,
                       indices, oracles, listing>>

\* setUserUseReserveAsCollateral; the call that changes nothing is a stutter.
SetUserUseReserveAsCollateral(u, a, useAsCollateral) ==
    LET flags == IF useAsCollateral THEN collateral[u] \cup {a}
                                    ELSE collateral[u] \ {a}
    IN  /\ BalanceOf(a, u) # 0
        /\ Usable(a)
        /\ useAsCollateral # (a \in collateral[u])
        /\ IF useAsCollateral THEN ValidateUseAsCollateral(collateral[u], a)
           ELSE ValidateHFAndLtv([Position(u) EXCEPT !.collateral = flags], a)
        /\ collateral' = [collateral EXCEPT ![u] = flags]
        /\ UNCHANGED <<tokens, borrowing, usersEModeCategory,
                       isolationModeTotalDebt, underlying, indices, oracles,
                       listing>>

-----------------------------------------------------------------------------
(* BorrowLogic                                                             *)

\* Mutant: the amount to borrow is left out of the comparison.
ValidateIsolatedBorrowBefore(flags, a, amount) ==
    \A c \in Assets : IsolatedBy(flags, c) =>
        /\ configuration[a].borrowableInIsolation
        /\ isolationModeTotalDebt[c] <= configuration[c].debtCeiling

\* The isolation clause of validateBorrow: the asset is borrowable in
\* isolation and the ceiling of the collateral is not exceeded.
ValidateIsolatedBorrow(flags, a, amount) ==
    \A c \in Assets : IsolatedBy(flags, c) =>
        /\ configuration[a].borrowableInIsolation
        /\ isolationModeTotalDebt[c] + amount \div configuration[a].debtCeilingUnit
             <= configuration[c].debtCeiling

\* Mutant: the first debt may be siloed or not, later ones are not looked at.
ValidateSiloedBorrowOfFirst(flags, a) ==
    (\E s \in Assets : SiloedBy(flags, s)) => SiloedBy(flags, a)

\* The siloed clause: a siloed debt is a user's only debt.
ValidateSiloedBorrow(flags, a) ==
    flags # {} =>
        IF \E s \in Assets : SiloedBy(flags, s) THEN SiloedBy(flags, a)
        ELSE ~configuration[a].siloedBorrowing

\* The collateral covers the debt with the new loan, at the average ltv.  The
\* new loan is priced with the category's source whenever there is one.
ValidateCollateralCoversBorrow(p, a, amount) ==
    LET loanPrice == IF PriceSourceOf(p.eMode) # NoPriceSource
                     THEN price[PriceSourceOf(p.eMode)] ELSE price[a]
        loanInBase == (loanPrice * amount) \div configuration[a].unit
    IN  /\ TotalCollateralInBase(p) # 0
        /\ AvgLtv(p) # 0
        /\ HealthFactor(p) > WAD
        /\ PercentDiv(TotalDebtInBase(p) + loanInBase, AvgLtv(p))
             <= TotalCollateralInBase(p)

\* A stable loan must not be backed by more of the same asset, nor be a large
\* part of the available liquidity.
ValidateStableBorrow(u, a, amount) ==
    /\ configuration[a].stableRateBorrowingEnabled
    /\ \/ a \notin collateral[u]
       \/ configuration[a].ltv = 0
       \/ amount > BalanceOf(a, u)
    /\ amount <= PercentMul(liquidity[a], MaxStableRateBorrowSizePercent)

ValidateBorrow(u, a, amount, mode) ==
    /\ amount # 0
    /\ Usable(a) /\ ~configuration[a].frozen /\ configuration[a].borrowingEnabled
    /\ sentinelUp
    /\ \/ configuration[a].borrowCap = 0
       \/ TotalDebt(a) + amount <= configuration[a].borrowCap * configuration[a].unit
    /\ ValidateIsolatedBorrow(collateral[u], a, amount)
    /\ usersEModeCategory[u] # 0 =>
         configuration[a].eModeCategory = usersEModeCategory[u]
    /\ mode = "STABLE" => ValidateStableBorrow(u, a, amount)
    /\ ValidateSiloedBorrow(borrowing[u], a)
    /\ ValidateCollateralCoversBorrow(Position(u), a, amount)

\* Pool.borrow: `caller` receives the underlying, `u` (onBehalfOf) the debt.
Borrow(caller, u, a, amount, mode) ==
    LET scaled == RayDiv(amount, variableBorrowIndex[a])
        isFirstBorrowing == IF mode = "STABLE" THEN stableDebt[a][u] = 0
                                               ELSE variableDebt[a][u] = 0
    IN  /\ caller # u => amount <= borrowAllowance[a][mode][u][caller]
        /\ mode = "VARIABLE" => scaled # 0
        /\ amount <= liquidity[a]
        /\ ValidateBorrow(u, a, amount, mode)
        /\ IF mode = "STABLE"
           THEN /\ stableDebt' = [stableDebt EXCEPT ![a][u] = @ + amount]
                /\ UNCHANGED variableDebt
           ELSE /\ variableDebt' = [variableDebt EXCEPT ![a][u] = @ + scaled]
                /\ UNCHANGED stableDebt
        /\ borrowAllowance' =
             IF caller = u THEN borrowAllowance
             ELSE [borrowAllowance EXCEPT ![a][mode][u][caller] = @ - amount]
        /\ borrowing' = IF isFirstBorrowing
                        THEN [borrowing EXCEPT ![u] = @ \cup {a}] ELSE borrowing
        /\ isolationModeTotalDebt' =
             [c \in Assets |->
                IF IsolatedBy(collateral[u], c)
                THEN isolationModeTotalDebt[c]
                       + amount \div configuration[a].debtCeilingUnit
                ELSE isolationModeTotalDebt[c]]
        /\ wallet' = [wallet EXCEPT ![a][caller] = @ + amount]
        /\ liquidity' = [liquidity EXCEPT ![a] = @ - amount]
        /\ UNCHANGED <<aTokenBalance, collateral, usersEModeCategory, indices,
                       oracles, listing>>

\* Mutant: the flag is cleared when the debt of one mode is repaid.
IsWholeDebtOfAMode(a, u, amount) ==
    amount = stableDebt[a][u] \/ amount = VariableDebtOf(a, u)

\* stableDebt + variableDebt - paybackAmount == 0
IsWholeDebt(a, u, amount) == amount = DebtOf(a, u)

\* BorrowLogic.executeRepay up to the payment: burn the debt of the selected
\* mode, clear the borrowing flag when nothing is left, and lower the
\* isolated debt of the borrower's collateral.
RepayDebt(u, a, payback, mode) ==
    LET scaled == RayDiv(payback, variableBorrowIndex[a])
    IN  /\ IF mode = "STABLE"
           THEN /\ stableDebt' = [stableDebt EXCEPT ![a][u] = @ - payback]
                /\ UNCHANGED variableDebt
           ELSE /\ scaled # 0 /\ scaled <= variableDebt[a][u]
                /\ variableDebt' = [variableDebt EXCEPT ![a][u] = @ - scaled]
                /\ UNCHANGED stableDebt
        /\ borrowing' = IF IsWholeDebt(a, u, payback)
                        THEN [borrowing EXCEPT ![u] = @ \ {a}] ELSE borrowing
        /\ isolationModeTotalDebt' =
             UpdateIsolatedDebtIfIsolated(collateral[u], a, payback)

\* Mutant: the debts of both modes are offered to the token of one.
DebtOfBothModes(a, u, mode) == DebtOf(a, u)

DebtOfMode(a, u, mode) ==
    IF mode = "STABLE" THEN stableDebt[a][u] ELSE VariableDebtOf(a, u)

\* "All of it" is accepted only from the borrower.
ValidateRepay(caller, u, a, amount, mode) ==
    /\ amount # 0
    /\ amount = MaxUint => caller = u
    /\ Usable(a)
    /\ DebtOfMode(a, u, mode) # 0

Repay(caller, u, a, amount, mode) ==
    LET debt    == DebtOfMode(a, u, mode)
        payback == IF amount < debt THEN amount ELSE debt
    IN  /\ ValidateRepay(caller, u, a, amount, mode)
        /\ payback <= wallet[a][caller]
        /\ RepayDebt(u, a, payback, mode)
        /\ wallet' = [wallet EXCEPT ![a][caller] = @ - payback]
        /\ liquidity' = [liquidity EXCEPT ![a] = @ + payback]
        /\ UNCHANGED <<aTokenBalance, borrowAllowance, collateral,
                       usersEModeCategory, indices, oracles, listing>>

\* Pool.repayWithATokens: the caller repays the own debt by burning aTokens.
\* No collateral flag changes, also when the whole balance is burnt.
RepayWithATokens(u, a, amount, mode) ==
    LET debt    == DebtOfMode(a, u, mode)
        offered == IF amount = MaxUint THEN BalanceOf(a, u) ELSE amount
        payback == IF offered < debt THEN offered ELSE debt
        scaled  == RayDiv(payback, liquidityIndex[a])
    IN  /\ ValidateRepay(u, u, a, amount, mode)
        /\ RepayDebt(u, a, payback, mode)
        /\ scaled # 0 /\ scaled <= aTokenBalance[a][u]
        /\ aTokenBalance' = [aTokenBalance EXCEPT ![a][u] = @ - scaled]
        /\ UNCHANGED <<borrowAllowance, collateral, usersEModeCategory,
                       underlying, indices, oracles, listing>>

\* A variable debt becomes stable only under the conditions of a stable loan.
ValidateSwapRateMode(u, a, mode) ==
    /\ Usable(a) /\ ~configuration[a].frozen
    /\ DebtOfMode(a, u, mode) # 0
    /\ mode = "VARIABLE" =>
         /\ configuration[a].stableRateBorrowingEnabled
         /\ \/ a \notin collateral[u]
            \/ configuration[a].ltv = 0
            \/ DebtOf(a, u) > BalanceOf(a, u)

\* `mode` is the mode the debt is in before the swap.
SwapBorrowRateMode(u, a, mode) ==
    LET debt   == DebtOfMode(a, u, mode)
        scaled == RayDiv(debt, variableBorrowIndex[a])
    IN  /\ ValidateSwapRateMode(u, a, mode)
        /\ scaled # 0
        /\ IF mode = "STABLE"
           THEN /\ stableDebt' = [stableDebt EXCEPT ![a][u] = @ - debt]
                /\ variableDebt' = [variableDebt EXCEPT ![a][u] = @ + scaled]
           ELSE /\ scaled <= variableDebt[a][u]
                /\ variableDebt' = [variableDebt EXCEPT ![a][u] = @ - scaled]
                /\ stableDebt' = [stableDebt EXCEPT ![a][u] = @ + debt]
        /\ UNCHANGED <<aTokenBalance, borrowAllowance, usersConfig,
                       isolationModeTotalDebt, underlying, indices, oracles,
                       listing>>

\* DebtTokenBase.approveDelegation, on the debt token of the mode.
ApproveDelegation(delegator, delegatee, a, mode, amount) ==
    /\ borrowAllowance' =
         [borrowAllowance EXCEPT ![a][mode][delegator][delegatee] = amount]
    /\ UNCHANGED <<aTokenBalance, variableDebt, stableDebt, usersConfig,
                   isolationModeTotalDebt, underlying, indices, oracles, listing>>

-----------------------------------------------------------------------------
(* LiquidationLogic                                                        *)

\* 0.95e18: below it all of the debt may be liquidated, and liquidations go
\* through although the sequencer is down.
CloseFactorHFThreshold == (WAD * 95) \div 100

\* How much of the debt a call covers: _calculateDebt.
DebtToLiquidate(p, d, debtToCover) ==
    LET closeFactor == IF HealthFactor(p) > CloseFactorHFThreshold
                       THEN PERCENTAGE_FACTOR \div 2 ELSE PERCENTAGE_FACTOR
        maxLiquidatable == PercentMul(p.debt[d], closeFactor)
    IN  IF debtToCover > maxLiquidatable THEN maxLiquidatable ELSE debtToCover

ValidateLiquidationCall(u, c, d) ==
    /\ Usable(c) /\ Usable(d)
    /\ c \in collateral[u] /\ configuration[c].liquidationThreshold # 0
    /\ DebtOf(d, u) # 0
    /\ LET healthFactor == HealthFactor(Position(u))
       IN  /\ healthFactor < WAD
           /\ healthFactor < CloseFactorHFThreshold \/ sentinelUp

\* _getConfigurationData: bonus and prices of a liquidation.  The debt is
\* taken to be in the user's category whenever there is one.
LiquidationBonus(p, c) ==
    IF InEMode(p, c) THEN eModeCategories[p.eMode].liquidationBonus
                     ELSE configuration[c].liquidationBonus

LiquidationDebtPrice(p, d) ==
    IF PriceSourceOf(p.eMode) # NoPriceSource THEN price[PriceSourceOf(p.eMode)]
                                              ELSE price[d]

\* _calculateAvailableCollateralToLiquidate, on plain numbers: k and m are
\* the numerator and the denominator of the price of the debt in collateral.
SplitCollateral(collateralAmount, debtAmount, bonus, feePercentage) ==
    LET bonusCollateral == collateralAmount - PercentDiv(collateralAmount, bonus)
        fee == IF feePercentage = 0 THEN 0
               ELSE PercentMul(bonusCollateral, feePercentage)
    IN  [collateral |-> collateralAmount - fee, fee |-> fee, debt |-> debtAmount]

\* Mutant: the debt is cut to what the balance is worth, the collateral is not.
AvailableCollateralUncut(k, m, debtToCover, balance, bonus, feePercentage) ==
    LET wanted == PercentMul((k * debtToCover) \div m, bonus)
        debt   == IF wanted > balance THEN PercentDiv((m * balance) \div k, bonus)
                                      ELSE debtToCover
    IN  SplitCollateral(wanted, debt, bonus, feePercentage)

AvailableCollateralToLiquidate(k, m, debtToCover, balance, bonus, feePercentage) ==
    LET wanted == PercentMul((k * debtToCover) \div m, bonus)
    IN  IF wanted > balance
        THEN SplitCollateral(balance, PercentDiv((m * balance) \div k, bonus),
                             bonus, feePercentage)
        ELSE SplitCollateral(wanted, debtToCover, bonus, feePercentage)

\* What a liquidation takes from position p: collateral for the liquidator,
\* the fee for the treasury, and the debt that is repaid.
Liquidated(p, c, d, debtToCover) ==
    AvailableCollateralToLiquidate(
        LiquidationDebtPrice(p, d) * configuration[c].unit,
        PriceFor(p, c) * configuration[d].unit,
        DebtToLiquidate(p, d, debtToCover),
        p.aToken[c],
        LiquidationBonus(p, c),
        configuration[c].liquidationProtocolFee)

\* The fee is sent after the collateral; one unit less may be left by then.
PayFee(balances, u, fee, index) ==
    LET wanted == RayDiv(fee, index)
        paid   == IF wanted > balances[u]
                  THEN RayDiv(RayMul(balances[u], index), index) ELSE wanted
    IN  IF fee = 0 THEN balances ELSE MoveBalance(balances, u, Treasury, paid)

\* _burnDebtTokens: variable debt first, stable debt for the rest.
BurnDebtTokens(u, d, debt) ==
    LET variable == VariableDebtOf(d, u)
        burnt    == IF variable < debt THEN variable ELSE debt
        scaled   == RayDiv(burnt, variableBorrowIndex[d])
    IN  /\ scaled <= variableDebt[d][u]
        /\ debt <= variable \/ variable # 0 => scaled # 0
        /\ debt - burnt <= stableDebt[d][u]
        /\ variableDebt' = [variableDebt EXCEPT ![d][u] = @ - scaled]
        /\ stableDebt' = [stableDebt EXCEPT ![d][u] = @ - (debt - burnt)]

LiquidationCall(liquidator, u, c, d, debtToCover, receiveAToken) ==
    LET p == Position(u)
        taken == Liquidated(p, c, d, debtToCover)
        scaled == RayDiv(taken.collateral, liquidityIndex[c])
        seized == IF receiveAToken
                  THEN MoveBalance(aTokenBalance[c], u, liquidator, scaled)
                  ELSE [aTokenBalance[c] EXCEPT ![u] = @ - scaled]
        \* The flags of u are cleared before the isolated debt is updated.
        cleared == IF taken.collateral + taken.fee = p.aToken[c]
                   THEN [collateral EXCEPT ![u] = @ \ {c}] ELSE collateral
        enables == /\ receiveAToken /\ BalanceOf(c, liquidator) = 0
                   /\ ValidateAutomaticUseAsCollateral(
                        cleared[liquidator], c,
                        liquidator \in IsolatedCollateralSuppliers)
        funds  == [wallet EXCEPT ![c][liquidator] =
                      IF receiveAToken THEN @ ELSE @ + taken.collateral]
        pooled == [liquidity EXCEPT ![c] =
                      IF receiveAToken THEN @ ELSE @ - taken.collateral]
    IN  /\ ValidateLiquidationCall(u, c, d)
        /\ scaled <= aTokenBalance[c][u]
        /\ receiveAToken \/ (scaled # 0 /\ taken.collateral <= liquidity[c])
        /\ taken.debt <= funds[d][liquidator]
        /\ BurnDebtTokens(u, d, taken.debt)
        /\ borrowing' = IF taken.debt = p.debt[d]
                        THEN [borrowing EXCEPT ![u] = @ \ {d}] ELSE borrowing
        /\ collateral' = IF enables
                         THEN [cleared EXCEPT ![liquidator] = @ \cup {c}]
                         ELSE cleared
        /\ isolationModeTotalDebt' =
             UpdateIsolatedDebtIfIsolated(cleared[u], d, taken.debt)
        /\ aTokenBalance' = [aTokenBalance EXCEPT ![c] =
                               PayFee(seized, u, taken.fee, liquidityIndex[c])]
        /\ wallet' = [funds EXCEPT ![d][liquidator] = @ - taken.debt]
        /\ liquidity' = [pooled EXCEPT ![d] = @ + taken.debt]
        /\ UNCHANGED <<borrowAllowance, usersEModeCategory, indices, oracles,
                       listing>>

-----------------------------------------------------------------------------
(* EModeLogic and PoolLogic                                                *)

\* Mutant: the debts of the user are not looked at.
ValidateSetAnyUserEMode(u, category) ==
    category # 0 => eModeCategories[category].liquidationThreshold # 0

ValidateSetUserEMode(u, category) ==
    /\ category # 0 => eModeCategories[category].liquidationThreshold # 0
    /\ category # 0 => \A a \in borrowing[u] :
                          configuration[a].eModeCategory = category

\* Mutant: health is checked with the category that is left.
SetUserEModeCheckedBefore(u, category) ==
    /\ ValidateSetUserEMode(u, category)
    /\ usersEModeCategory[u] # 0 => Healthy(Position(u))
    /\ usersEModeCategory' = [usersEModeCategory EXCEPT ![u] = category]
    /\ UNCHANGED <<tokens, collateral, borrowing, isolationModeTotalDebt,
                   underlying, indices, oracles, listing>>

\* Health is checked only when a category is left, not when one is entered
\* from "no category".
SetUserEMode(u, category) ==
    /\ ValidateSetUserEMode(u, category)
    /\ usersEModeCategory[u] # 0 =>
         Healthy([Position(u) EXCEPT !.eMode = category])
    /\ usersEModeCategory' = [usersEModeCategory EXCEPT ![u] = category]
    /\ UNCHANGED <<tokens, collateral, borrowing, isolationModeTotalDebt,
                   underlying, indices, oracles, listing>>

\* PoolLogic.executeMintToTreasury for one asset.
MintToTreasury(a) ==
    LET i == liquidityIndex[a]
        scaled == RayDiv(RayMul(accruedToTreasury[a], i), i)
    IN  /\ configuration[a].active
        /\ accruedToTreasury[a] # 0
        /\ accruedToTreasury' = [accruedToTreasury EXCEPT ![a] = 0]
        /\ aTokenBalance' = [aTokenBalance EXCEPT ![a][Treasury] = @ + scaled]
        /\ UNCHANGED <<variableDebt, stableDebt, borrowAllowance, usersConfig,
                       isolationModeTotalDebt, underlying, liquidityIndex,
                       variableBorrowIndex, oracles, listing>>

-----------------------------------------------------------------------------
(* The environment.                                                        *)

LaterIndices(index) == {index} \cup {i \in IndexValues : i > index}

\* Time passes for one reserve.  Rates are zero without debt; the variable
\* index grows only with a variable debt, a stable debt only if there is one;
\* the treasury gets a part of the interest (_accrueToTreasury: at most 100% of
\* it, divided by an index of one ray or more), so nothing when there is none,
\* and nothing while the operations, which all call updateState, are disabled.
Accrue(a) ==
    /\ TotalDebt(a) # 0
    /\ \E i \in LaterIndices(liquidityIndex[a]),
          j \in LaterIndices(variableBorrowIndex[a]),
          S \in SUBSET {u \in Users : stableDebt[a][u] \in 1 .. MaxStableDebt - 1},
          t \in TreasuryAccruals :
         /\ j # variableBorrowIndex[a] => SumFunction(variableDebt[a]) # 0
         /\ liquidityIndex' = [liquidityIndex EXCEPT ![a] = i]
         /\ variableBorrowIndex' = [variableBorrowIndex EXCEPT ![a] = j]
         /\ stableDebt' = [stableDebt EXCEPT ![a] =
                             [u \in Users |-> IF u \in S THEN @[u] + 1 ELSE @[u]]]
         /\ UNCHANGED variableDebt
         /\ t <= TotalDebt(a)' - TotalDebt(a) /\ (t # 0 => configuration[a].active)
         /\ accruedToTreasury' = [accruedToTreasury EXCEPT ![a] = @ + t]
    /\ UNCHANGED <<aTokenBalance, borrowAllowance, usersConfig,
                   isolationModeTotalDebt, underlying, oracles, listing>>

\* The oracle reports another price for an asset or a category's source.
SetPrice(s, newPrice) ==
    /\ price' = [price EXCEPT ![s] = newPrice]
    /\ UNCHANGED <<tokens, usersConfig, isolationModeTotalDebt, underlying,
                   indices, sentinelUp, listing>>

\* The sequencer goes down, or is up again for longer than the grace period.
SetSentinel ==
    /\ SentinelMoves
    /\ sentinelUp' = ~sentinelUp
    /\ UNCHANGED <<tokens, usersConfig, isolationModeTotalDebt, underlying,
                   indices, price, listing>>

-----------------------------------------------------------------------------

SupplySteps ==
    \E u \in Users, a \in Assets :
        \/ \E v \in Recipients[u] \ {ATokenAddress}, n \in Amounts :
             Supply(u, v, a, n) \/ Transfer(u, v, a, n)
        \/ \E to \in Recipients[u], n \in Amounts \cup {MaxUint} :
             Withdraw(u, a, n, to)
        \/ \E b \in BOOLEAN : SetUserUseReserveAsCollateral(u, a, b)

BorrowSteps ==
    \E u \in Users, a \in Assets, mode \in RateModes :
        \/ \E v \in Users :
             \/ \E n \in Amounts : Borrow(v, u, a, n, mode)
             \/ \E n \in Amounts \cup {MaxUint} : Repay(v, u, a, n, mode)
        \/ \E n \in Amounts \cup {MaxUint} : RepayWithATokens(u, a, n, mode)
        \/ SwapBorrowRateMode(u, a, mode)

LiquidationSteps ==
    \E l, u \in Users, c, d \in Assets, n \in Amounts \cup {MaxUint}, b \in BOOLEAN :
        LiquidationCall(l, u, c, d, n, b)

EnvironmentSteps ==
    \/ \E a \in Assets : Accrue(a)
    \/ \E s \in Assets \cup PriceSources : \E q \in Prices[s] : SetPrice(s, q)
    \/ SetSentinel

Next ==
    \/ SupplySteps
    \/ BorrowSteps
    \/ \E d \in Delegations :
         ApproveDelegation(d.delegator, d.delegatee, d.asset, d.mode, d.amount)
    \/ LiquidationSteps
    \/ \E u \in Users, k \in Categories \cup {0} : SetUserEMode(u, k)
    \/ \E a \in Assets : MintToTreasury(a)
    \/ EnvironmentSteps

Spec == Init /\ [][Next]_vars

-----------------------------------------------------------------------------
(* Safety.                                                                 *)

\* Whoever owes something, in either mode and however the debt was rounded,
\* has the borrowing bit of that asset set: calculateUserAccountData skips
\* reserves without it, so a debt without the bit would never count against
\* the health factor (repay and liquidationCall clear the bit).
DebtImpliesBorrowingFlag ==
    \A a \in Assets, u \in Users :
        variableDebt[a][u] # 0 \/ stableDebt[a][u] # 0 => a \in borrowing[u]

SiloedAlone(u, a) ==
    /\ configuration[a].siloedBorrowing
    /\ variableDebt[a][u] # 0 \/ stableDebt[a][u] # 0
    => borrowing[u] = {a}

\* A user who owes a siloed asset owes nothing else, as long as no asset becomes
\* siloed later: although validateBorrow looks at the siloed state only when a
\* single bit is set, and although bits can be left without a debt.
SiloedBorrowingExclusive == \A u \in Users, a \in Assets : SiloedAlone(u, a)

\* An isolated asset used as collateral is the only collateral, whichever
\* path sets the bit: supply, transfer, liquidation or the user's own call.
IsolatedCollateralExclusive ==
    \A u \in Users : \A a \in collateral[u] :
        configuration[a].debtCeiling # 0 => collateral[u] = {a}

\* In eMode every borrowed asset is of the user's category, which
\* liquidationCall takes for granted when it prices the debt.
EModeBorrowsConsistent ==
    \A u \in Users : \A a \in borrowing[u] :
        usersEModeCategory[u] # 0 =>
            configuration[a].eModeCategory = usersEModeCategory[u]

\* The debt counted against an isolated asset stays within its ceiling, and
\* nothing is counted against other assets.
DebtCeilingRespected ==
    \A a \in Assets : isolationModeTotalDebt[a] <= configuration[a].debtCeiling

\* As long as both indices are one ray every aToken is backed: the underlying in
\* the aToken and the outstanding debt, with the interest of the stable loans,
\* pay for all balances and for what the treasury has not been minted yet.
ATokensBacked ==
    \A a \in Assets : liquidityIndex[a] = RAY /\ variableBorrowIndex[a] = RAY =>
        ScaledTotalSupply(a) + accruedToTreasury[a] <= liquidity[a] + TotalDebt(a)

\* Whatever a liquidator asks to cover, the call takes neither more debt than
\* that, nor more collateral than the user has, nor more of it than the debt
\* paid is worth with the bonus, up to the rounding of one debt unit.
LiquidationWithinBonus ==
    \A u \in Users, c, d \in Assets, n \in Amounts \cup {MaxUint} :
        ValidateLiquidationCall(u, c, d) =>
            LET p      == Position(u)
                taken  == Liquidated(p, c, d, n)
                seized == taken.collateral + taken.fee
                k == LiquidationDebtPrice(p, d) * configuration[c].unit
                m == PriceFor(p, c) * configuration[d].unit
            IN  /\ taken.debt <= n
                /\ taken.debt <= DebtOf(d, u)
                /\ seized <= BalanceOf(c, u)
                /\ 2 * m * PERCENTAGE_FACTOR * seized
                     <= (2 * taken.debt + 1) * k * LiquidationBonus(p, c)
                          + 2 * k * PERCENTAGE_FACTOR + m * PERCENTAGE_FACTOR

\* A healthy position becomes liquidatable only through the market (prices,
\* interest), by entering an eMode category, which is not checked, or in a step
\* in which the worth of its collateral rises, whatever the threshold of what it
\* receives: the average liquidation threshold is rounded down, so a little more
\* collateral with a lower one can lower the health factor.
\* Whatever takes collateral away or adds debt leaves the position healthy.
HealthyUnlessMarketMoves ==
    [][\A u \in Users :
         Healthy(Position(u)) /\ ~Healthy(Position(u))' =>
             \/ price' # price
             \/ \E a \in Assets : Accrue(a)
             \/ usersEModeCategory[u] = 0 /\ usersEModeCategory'[u] # 0
             \/ TotalCollateralInBase(Position(u))' > TotalCollateralInBase(Position(u))]_vars

\* "updated the isolated debt whenever a position collateralized by an isolated
\* asset is repaid or liquidated" (IsolationModeLogic.sol): when the debt of
\* an isolated user falls by a unit of the ceiling or more, so does the debt
\* counted against the collateral.
IsolatedDebtUpdatedOnRepayOrLiquidation ==
    [][\A u \in Users, c, d \in Assets :
         /\ IsolatedBy(collateral[u], c)
         /\ DebtOf(d, u) >= DebtOf(d, u)' + configuration[d].debtCeilingUnit
         => isolationModeTotalDebt'[c] < isolationModeTotalDebt[c]
            \/ isolationModeTotalDebt[c] = 0]_vars
=============================================================================
