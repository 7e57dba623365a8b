---------------------------- MODULE Calculations ----------------------------
(***************************************************************************)
(* What the test suites expect of an operation, computed from what they    *)
(* read before it: test-suites/helpers/utils/calculations.ts.              *)
(*                                                                         *)
(* A second account of the arithmetic of ReserveLogic and of the tokens,   *)
(* written by other hands.  ReserveData and UserReserveData are records    *)
(* with the fields of the interfaces, before, or before and user, the ones *)
(* read before the transaction; e is the expected one.  The parameters of  *)
(* the market's configuration are those of the rate strategy, and          *)
(* marketStableRate its base stable rate.                                  *)
(***************************************************************************)
EXTENDS BigNumberMath, InterestRates

CONSTANT MAX_UINT_AMOUNT

Max0(n) == IF n > 0 THEN n ELSE 0

-----------------------------------------------------------------------------
(* Interest. *)

calcLinearInterest(rate, currentTimestamp, lastUpdateTimestamp) ==
    div(rate * (currentTimestamp - lastUpdateTimestamp), SECONDS_PER_YEAR) + RAY

calcCompoundedInterest(rate, currentTimestamp, lastUpdateTimestamp) ==
    LET elapsed        == currentTimestamp - lastUpdateTimestamp
        expMinusTwo    == Max0(elapsed - 2)
        basePowerTwo   == div(rayMul(rate, rate), SECONDS_PER_YEAR * SECONDS_PER_YEAR)
        basePowerThree == div(rayMul(basePowerTwo, rate), SECONDS_PER_YEAR)
    IN  IF elapsed = 0 THEN RAY
        ELSE RAY + div(rate * elapsed, SECONDS_PER_YEAR)
                 + div(elapsed * (elapsed - 1) * basePowerTwo, 2)
                 + div(elapsed * (elapsed - 1) * expMinusTwo * basePowerThree, 6)

calcExpectedReserveNormalizedIncome(data, currentTimestamp) ==
    IF data.liquidityRate = 0 THEN data.liquidityIndex
    ELSE rayMul(calcLinearInterest(data.liquidityRate, currentTimestamp, data.lastUpdateTimestamp),
                data.liquidityIndex)

calcExpectedReserveNormalizedDebt(rate, index, lastUpdateTimestamp, currentTimestamp) ==
    IF rate = 0 THEN index
    ELSE rayMul(calcCompoundedInterest(rate, currentTimestamp, lastUpdateTimestamp), index)

\* The contract asks for the rate, the suites for the share of what is lent out.
calcExpectedLiquidityIndex(data, timestamp) ==
    IF data.supplyUsageRatio = 0 THEN data.liquidityIndex
    ELSE rayMul(calcLinearInterest(data.liquidityRate, timestamp, data.lastUpdateTimestamp),
                data.liquidityIndex)

calcExpectedVariableBorrowIndex(data, timestamp) ==
    IF data.totalVariableDebt = 0 THEN data.variableBorrowIndex
    ELSE rayMul(calcCompoundedInterest(data.variableBorrowRate, timestamp, data.lastUpdateTimestamp),
                data.variableBorrowIndex)

-----------------------------------------------------------------------------
(* Balances and average rates. *)

calcExpectedScaledATokenBalance(user, index, amountAdded, amountTaken) ==
    user.scaledATokenBalance + rayDiv(amountAdded, index) - rayDiv(amountTaken, index)

calcExpectedATokenBalance(data, user, currentTimestamp) ==
    rayMul(user.scaledATokenBalance, calcExpectedReserveNormalizedIncome(data, currentTimestamp))

calcExpectedVariableDebtTokenBalance(data, user, currentTimestamp) ==
    rayMul(user.scaledVariableDebt,
           calcExpectedReserveNormalizedDebt(data.variableBorrowRate, data.variableBorrowIndex,
                                             data.lastUpdateTimestamp, currentTimestamp))

calcExpectedStableDebtTokenBalance(principal, rate, lastUpdated, currentTimestamp) ==
    IF rate = 0 \/ currentTimestamp = lastUpdated \/ lastUpdated = 0 THEN principal
    ELSE rayMul(principal, calcCompoundedInterest(rate, currentTimestamp, lastUpdated))

UserStableDebt(user, timestamp) ==
    calcExpectedStableDebtTokenBalance(user.principalStableDebt, user.stableBorrowRate,
                                       user.stableRateLastUpdated, timestamp)

calcExpectedTotalStableDebt(principal, avgRate, lastUpdateTimestamp, currentTimestamp) ==
    rayMul(calcCompoundedInterest(avgRate, currentTimestamp, lastUpdateTimestamp), principal)

TotalStableDebtAt(data, timestamp) ==
    calcExpectedTotalStableDebt(data.principalStableDebt, data.averageStableBorrowRate,
                                data.totalStableDebtLastUpdated, timestamp)

calcExpectedTotalVariableDebt(data, index) == rayMul(data.scaledVariableDebt, index)

\* Without the roundings of the contract, which takes the product and the quotient
\* in rays.
calcExpectedAverageStableBorrowRate(avgRate, totalStableDebt, amountChanged, rate) ==
    IF totalStableDebt + amountChanged = 0 THEN 0
    ELSE div(avgRate * totalStableDebt + rate * amountChanged, totalStableDebt + amountChanged)

\* The total is taken as if it were in rays, and the amount is converted.
calcExpectedAverageStableBorrowRateRebalance(avgRate, totalStableDebt, amountChanged, rate) ==
    LET totalBorrowedStable == totalStableDebt + wadToRay(amountChanged)
    IN  IF totalBorrowedStable = 0 THEN 0
        ELSE rayDiv(rayMul(avgRate, totalStableDebt) + rayMul(rate, wadToRay(amountChanged)),
                    totalBorrowedStable)

calcExpectedUserStableRate(balanceBefore, rateBefore, amount, rateNew) ==
    div(balanceBefore * rateBefore + amount * rateNew, balanceBefore + amount)

-----------------------------------------------------------------------------
(* Rates. *)

\* [borrowUsageRatio, supplyUsageRatio], of which the second is asserted not to
\* exceed the first.
calcExpectedUsageRatios(totalStableDebt, totalVariableDebt, availableLiquidity, totalLiquidity) ==
    LET totalDebt == totalStableDebt + totalVariableDebt
    IN  IF totalDebt = 0 THEN <<0, 0>>
        ELSE <<rayDiv(totalDebt, availableLiquidity + totalDebt),
               rayDiv(totalDebt, totalLiquidity + totalDebt)>>

calcExpectedOverallBorrowRate(totalStableDebt, totalVariableDebt, variableRate, avgStableRate) ==
    IF totalStableDebt + totalVariableDebt = 0 THEN 0
    ELSE rayDiv(rayMul(wadToRay(totalVariableDebt), variableRate)
                  + rayMul(wadToRay(totalStableDebt), avgStableRate),
                wadToRay(totalStableDebt + totalVariableDebt))

\* A rate on a slope: both branches of the usage ratio.
ExpectedSlope(slope1, slope2, borrowUsageRatio) ==
    IF borrowUsageRatio > OPTIMAL_USAGE_RATIO
    THEN slope1 + rayMul(slope2, rayDiv(borrowUsageRatio - OPTIMAL_USAGE_RATIO,
                                        RAY - OPTIMAL_USAGE_RATIO))
    ELSE rayDiv(rayMul(slope1, borrowUsageRatio), OPTIMAL_USAGE_RATIO)

ExpectedStableExcess(totalStableDebt, totalDebt) ==
    LET ratio == IF totalStableDebt > 0 THEN rayDiv(totalStableDebt, totalDebt) ELSE 0
    IN  IF ratio > OPTIMAL_STABLE_TO_TOTAL_DEBT_RATIO
        THEN rayMul(stableRateExcessOffset,
                    rayDiv(ratio - OPTIMAL_STABLE_TO_TOTAL_DEBT_RATIO,
                           RAY - OPTIMAL_STABLE_TO_TOTAL_DEBT_RATIO))
        ELSE 0

calcExpectedInterestRates(totalStableDebt, totalVariableDebt, avgStableRate, availableLiquidity, totalLiquidity) ==
    LET usage == calcExpectedUsageRatios(totalStableDebt, totalVariableDebt,
                                         availableLiquidity, totalLiquidity)
        variableRate == baseVariableBorrowRate
                          + ExpectedSlope(variableRateSlope1, variableRateSlope2, usage[1])
    IN  [liquidity |->
           percentMul(rayMul(calcExpectedOverallBorrowRate(totalStableDebt, totalVariableDebt,
                                                           variableRate, avgStableRate),
                             usage[2]),
                      PERCENTAGE_FACTOR - reserveFactor),
         stable |-> getBaseStableBorrowRate
                      + ExpectedSlope(stableRateSlope1, stableRateSlope2, usage[1])
                      + ExpectedStableExcess(totalStableDebt, totalStableDebt + totalVariableDebt),
         variable |-> variableRate]

-----------------------------------------------------------------------------
(* The steps of every expected ReserveData. *)

calcExpectedAccrueToTreasury(before, e) ==
    LET cumulatedStableInterest ==
            calcCompoundedInterest(before.averageStableBorrowRate, before.lastUpdateTimestamp,
                                   before.totalStableDebtLastUpdated)
        accrued == rayMul(e.scaledVariableDebt, e.variableBorrowIndex) + e.totalStableDebt
                     - rayMul(before.scaledVariableDebt, before.variableBorrowIndex)
                     - rayMul(before.principalStableDebt, cumulatedStableInterest)
        amountToMint == percentMul(accrued, reserveFactor)
    IN  before.accruedToTreasuryScaled
          + (IF amountToMint > 0 THEN rayDiv(amountToMint, e.liquidityIndex) ELSE 0)

updateState(before, txTimestamp) ==
    LET index == calcExpectedVariableBorrowIndex(before, txTimestamp)
        e == [before EXCEPT
                !.liquidityIndex = calcExpectedLiquidityIndex(before, txTimestamp),
                !.variableBorrowIndex = index,
                !.totalStableDebt = TotalStableDebtAt(before, txTimestamp),
                !.totalVariableDebt = calcExpectedTotalVariableDebt(before, index)]
    IN  [e EXCEPT !.accruedToTreasuryScaled = calcExpectedAccrueToTreasury(before, e)]

updateLiquidity(e, liquidityAdded, liquidityTaken) ==
    [e EXCEPT !.availableLiquidity = @ + liquidityAdded - liquidityTaken]

updateTotalLiquidityAndUsageRatio(e) ==
    LET totalLiquidity == e.availableLiquidity + e.unbacked
        usage == calcExpectedUsageRatios(e.totalStableDebt, e.totalVariableDebt,
                                         e.availableLiquidity, totalLiquidity)
    IN  [e EXCEPT !.totalLiquidity = totalLiquidity,
                  !.borrowUsageRatio = usage[1], !.supplyUsageRatio = usage[2]]

WithExpectedRates(e) ==
    LET rates == calcExpectedInterestRates(e.totalStableDebt, e.totalVariableDebt,
                                           e.averageStableBorrowRate, e.availableLiquidity,
                                           e.availableLiquidity + e.unbacked)
    IN  [e EXCEPT !.liquidityRate = rates.liquidity, !.stableBorrowRate = rates.stable,
                  !.variableBorrowRate = rates.variable]

Expected(e) == updateTotalLiquidityAndUsageRatio(WithExpectedRates(e))

-----------------------------------------------------------------------------
(* Supplying and withdrawing. *)

calcExpectedReserveDataAfterDeposit(amount, before, txTimestamp) ==
    Expected(updateLiquidity(updateState(before, txTimestamp), amount, 0))

\* The last assignment to principalStableDebt is the one of the variable debt.
calcExpectedUserDataAfterDeposit(amount, before, after, user, txTimestamp) ==
    LET variableDebt == calcExpectedVariableDebtTokenBalance(before, user, txTimestamp)
    IN  [user EXCEPT
           !.currentStableDebt = UserStableDebt(user, txTimestamp),
           !.currentVariableDebt = variableDebt,
           !.principalStableDebt = variableDebt,
           !.liquidityRate = after.liquidityRate,
           !.scaledATokenBalance =
               calcExpectedScaledATokenBalance(user, after.liquidityIndex, amount, 0),
           !.currentATokenBalance = calcExpectedATokenBalance(before, user, txTimestamp) + amount,
           !.usageAsCollateralEnabled = @ \/ user.currentATokenBalance = 0,
           !.walletBalance = @ - amount]

calcExpectedReserveDataAfterMintUnbacked(amount, before, txTimestamp) ==
    LET e == updateState(before, txTimestamp)
    IN  Expected([e EXCEPT
          !.unbacked = @ + amount,
          !.averageStableBorrowRate =
              calcExpectedAverageStableBorrowRate(before.averageStableBorrowRate,
                                                  before.totalStableDebt, 0,
                                                  before.stableBorrowRate)])

ExpectedCumulatedIndex(liquidityIndex, totalLiquidity, amount) ==
    rayMul(rayDiv(wadToRay(amount), wadToRay(totalLiquidity)) + RAY, liquidityIndex)

calcExpectedReserveDataAfterBackUnbacked(scaledATokenSupply, amount, fee, bridgeProtocolFee, before, txTimestamp) ==
    LET e                 == updateState(before, txTimestamp)
        backingAmount     == IF amount < before.unbacked THEN amount ELSE before.unbacked
        premiumToProtocol == percentMul(fee, bridgeProtocolFee)
        index == ExpectedCumulatedIndex(e.liquidityIndex,
                                        rayMul(scaledATokenSupply, e.liquidityIndex)
                                          + rayMul(e.accruedToTreasuryScaled, e.liquidityIndex),
                                        fee - premiumToProtocol)
    IN  Expected([updateLiquidity(e, backingAmount + fee, 0) EXCEPT
          !.liquidityIndex = index,
          !.accruedToTreasuryScaled = @ + rayDiv(premiumToProtocol, index),
          !.unbacked = @ - backingAmount,
          !.averageStableBorrowRate =
              calcExpectedAverageStableBorrowRate(before.averageStableBorrowRate,
                                                  before.totalStableDebt, 0,
                                                  before.stableBorrowRate)])

ExpectedWithdrawal(amount, before, user, txTimestamp) ==
    IF amount = MAX_UINT_AMOUNT THEN calcExpectedATokenBalance(before, user, txTimestamp)
    ELSE amount

calcExpectedReserveDataAfterWithdraw(amount, before, user, txTimestamp) ==
    Expected(updateLiquidity(updateState(before, txTimestamp), 0,
                             ExpectedWithdrawal(amount, before, user, txTimestamp)))

calcExpectedUserDataAfterWithdraw(amount, before, after, user, txTimestamp) ==
    LET withdrawn == ExpectedWithdrawal(amount, before, user, txTimestamp)
        left      == calcExpectedATokenBalance(before, user, txTimestamp) - withdrawn
    IN  [user EXCEPT
           !.scaledATokenBalance =
               calcExpectedScaledATokenBalance(user, after.liquidityIndex, 0, withdrawn),
           !.currentATokenBalance = left,
           !.currentStableDebt = UserStableDebt(user, txTimestamp),
           !.currentVariableDebt = calcExpectedVariableDebtTokenBalance(before, user, txTimestamp),
           !.liquidityRate = after.liquidityRate,
           !.usageAsCollateralEnabled = user.currentATokenBalance = 0 \/ (@ /\ left # 0),
           !.walletBalance = @ + withdrawn]

-----------------------------------------------------------------------------
(* Borrowing and repaying.  currentTimestamp is later than txTimestamp when the *)
(* test travels in time after the borrow.                                       *)

\* The debts of the reserve at the end of the transaction, and the rates of those.
ReserveDataAfterBorrowTx(amount, mode, before, txTimestamp) ==
    LET e     == updateLiquidity(updateState(before, txTimestamp), 0, amount)
        total == TotalStableDebtAt(before, txTimestamp)
        scaled == before.scaledVariableDebt + rayDiv(amount, e.variableBorrowIndex)
    IN  WithExpectedRates(
          IF mode = "stable"
          THEN [e EXCEPT
                  !.averageStableBorrowRate =
                      calcExpectedAverageStableBorrowRate(before.averageStableBorrowRate, total,
                                                          amount, before.stableBorrowRate),
                  !.principalStableDebt = total + amount,
                  !.totalStableDebt = total + amount]
          ELSE [e EXCEPT
                  !.totalStableDebt =
                      calcExpectedStableDebtTokenBalance(before.principalStableDebt,
                                                         before.averageStableBorrowRate,
                                                         before.totalStableDebtLastUpdated,
                                                         txTimestamp),
                  !.scaledVariableDebt = scaled,
                  !.totalVariableDebt = rayMul(scaled, e.variableBorrowIndex)])

\* ... and what they have grown to.
calcExpectedReserveDataAfterBorrow(amount, mode, before, txTimestamp, currentTimestamp) ==
    LET e == ReserveDataAfterBorrowTx(amount, mode, before, txTimestamp)
    IN  updateTotalLiquidityAndUsageRatio(
          [e EXCEPT
             !.lastUpdateTimestamp = txTimestamp,
             !.totalStableDebt =
                 IF mode = "stable"
                 THEN calcExpectedTotalStableDebt(e.principalStableDebt, e.averageStableBorrowRate,
                                                  txTimestamp, currentTimestamp)
                 ELSE TotalStableDebtAt(before, currentTimestamp),
             !.totalVariableDebt =
                 rayMul(e.scaledVariableDebt,
                        calcExpectedReserveNormalizedDebt(e.variableBorrowRate,
                                                          e.variableBorrowIndex, txTimestamp,
                                                          currentTimestamp))])

\* The scaled debt of the user is computed from the one of the whole reserve.
calcExpectedUserDataAfterBorrow(amount, mode, before, after, user, txTimestamp, currentTimestamp) ==
    LET debtUntilTx == UserStableDebt(user, txTimestamp)
        borrowed ==
            IF mode = "stable"
            THEN [user EXCEPT
                    !.principalStableDebt = debtUntilTx + amount,
                    !.stableRateLastUpdated = txTimestamp,
                    !.stableBorrowRate =
                        calcExpectedUserStableRate(debtUntilTx, user.stableBorrowRate, amount,
                                                   before.stableBorrowRate)]
            ELSE [user EXCEPT
                    !.scaledVariableDebt =
                        before.scaledVariableDebt + rayDiv(amount, after.variableBorrowIndex)]
    IN  [borrowed EXCEPT
           !.currentStableDebt = UserStableDebt(borrowed, currentTimestamp),
           !.currentVariableDebt =
               calcExpectedVariableDebtTokenBalance(after, borrowed, currentTimestamp),
           !.liquidityRate = after.liquidityRate,
           !.currentATokenBalance = calcExpectedATokenBalance(after, user, currentTimestamp),
           !.walletBalance = @ + amount]

ExpectedDebt(mode, before, user, timestamp) ==
    IF mode = "stable" THEN UserStableDebt(user, timestamp)
    ELSE calcExpectedVariableDebtTokenBalance(before, user, timestamp)

\* An amount beyond the debt is not capped, as a comment says that it should be.
ExpectedRepayment(amount, mode, before, user, timestamp) ==
    IF amount = MAX_UINT_AMOUNT THEN ExpectedDebt(mode, before, user, timestamp) ELSE amount

\* The stable total and its average rate without amount at rate; both are zero
\* when either would be negative.
StableDebtRepaid(e, avgRate, total, amount, rate) ==
    LET left    == total - amount
        average == calcExpectedAverageStableBorrowRate(avgRate, total, -amount, rate)
        cleared == left < 0 \/ average < 0
    IN  [e EXCEPT !.principalStableDebt = IF cleared THEN 0 ELSE left,
                  !.totalStableDebt = IF cleared THEN 0 ELSE left,
                  !.averageStableBorrowRate = IF cleared THEN 0 ELSE average]

\* The variable debt with the amount added, or taken.
VariableDebtChanged(e, added, taken) ==
    LET scaled == e.scaledVariableDebt + rayDiv(added, e.variableBorrowIndex)
                    - rayDiv(taken, e.variableBorrowIndex)
    IN  [e EXCEPT !.scaledVariableDebt = scaled,
                  !.totalVariableDebt = rayMul(scaled, e.variableBorrowIndex)]

calcExpectedReserveDataAfterRepay(amount, mode, before, user, txTimestamp) ==
    LET repaid == ExpectedRepayment(amount, mode, before, user, txTimestamp)
        e      == updateLiquidity(updateState(before, txTimestamp), repaid, 0)
    IN  Expected(IF mode = "stable"
                 THEN StableDebtRepaid(e, before.averageStableBorrowRate,
                                       TotalStableDebtAt(before, txTimestamp), repaid,
                                       user.stableBorrowRate)
                 ELSE VariableDebtChanged(e, 0, repaid))

\* In the variable branch the principal of the stable debt and the current stable
\* debt change places.
calcExpectedUserDataAfterRepay(amount, mode, before, after, user, samePayer, txTimestamp, currentTimestamp) ==
    LET stableDebt == UserStableDebt(user, currentTimestamp)
        repaid     == ExpectedRepayment(amount, mode, before, user, currentTimestamp)
        scaled     == user.scaledVariableDebt - rayDiv(repaid, after.variableBorrowIndex)
        e == [user EXCEPT
                !.liquidityRate = after.liquidityRate,
                !.currentATokenBalance = calcExpectedATokenBalance(before, user, txTimestamp),
                !.walletBalance = IF samePayer THEN @ - repaid ELSE @]
    IN  IF mode = "stable"
        THEN [e EXCEPT
                !.currentVariableDebt =
                    calcExpectedVariableDebtTokenBalance(before, user, currentTimestamp),
                !.principalStableDebt = stableDebt - repaid,
                !.currentStableDebt = stableDebt - repaid,
                !.stableBorrowRate = IF stableDebt = repaid THEN 0 ELSE @,
                !.stableRateLastUpdated = IF stableDebt = repaid THEN 0 ELSE txTimestamp]
        ELSE [e EXCEPT
                !.currentStableDebt = user.principalStableDebt,
                !.principalStableDebt = stableDebt,
                !.scaledVariableDebt = scaled,
                !.currentVariableDebt = rayMul(scaled, after.variableBorrowIndex)]

calcExpectedUserDataAfterSetUseAsCollateral(useAsCollateral, user) ==
    [user EXCEPT !.usageAsCollateralEnabled = useAsCollateral]

-----------------------------------------------------------------------------
(* Swapping and rebalancing. *)

\* To stable, the average is weighted with the total that was read.
calcExpectedReserveDataAfterSwapRateMode(before, user, mode, txTimestamp) ==
    LET e    == updateState(before, txTimestamp)
        debt == ExpectedDebt(mode, before, user, txTimestamp)
        total == IF mode = "stable" THEN e.totalStableDebt - debt ELSE e.totalStableDebt + debt
        average ==
            IF mode = "stable"
            THEN calcExpectedAverageStableBorrowRate(before.averageStableBorrowRate,
                                                     e.totalStableDebt, -debt,
                                                     user.stableBorrowRate)
            ELSE calcExpectedAverageStableBorrowRate(before.averageStableBorrowRate,
                                                     before.totalStableDebt, debt,
                                                     before.stableBorrowRate)
        swapped == IF mode = "stable" THEN VariableDebtChanged(e, debt, 0)
                   ELSE VariableDebtChanged(e, 0, debt)
    IN  Expected([swapped EXCEPT !.principalStableDebt = total, !.totalStableDebt = total,
                                 !.averageStableBorrowRate = average])

\* To stable, the debt is added to the stable debt that was read.
calcExpectedUserDataAfterSwapRateMode(before, after, user, mode, txTimestamp) ==
    LET stableDebt   == UserStableDebt(user, txTimestamp)
        variableDebt == calcExpectedVariableDebtTokenBalance(before, user, txTimestamp)
        scaled       == user.scaledVariableDebt + rayDiv(stableDebt, after.variableBorrowIndex)
        e == [user EXCEPT
                !.currentATokenBalance = calcExpectedATokenBalance(before, user, txTimestamp),
                !.liquidityRate = after.liquidityRate]
    IN  IF mode = "stable"
        THEN [e EXCEPT
                !.currentStableDebt = 0, !.principalStableDebt = 0, !.stableBorrowRate = 0,
                !.scaledVariableDebt = scaled,
                !.currentVariableDebt = rayMul(scaled, after.variableBorrowIndex),
                !.stableRateLastUpdated = 0]
        ELSE [e EXCEPT
                !.principalStableDebt = user.currentStableDebt + variableDebt,
                !.currentStableDebt = user.currentStableDebt + variableDebt,
                !.stableBorrowRate =
                    calcExpectedUserStableRate(stableDebt, user.stableBorrowRate, variableDebt,
                                               before.stableBorrowRate),
                !.stableRateLastUpdated = txTimestamp,
                !.currentVariableDebt = 0, !.scaledVariableDebt = 0]

\* The debt is taken from the average at the old rate, and added at the new.
calcExpectedReserveDataAfterStableRateRebalance(before, user, txTimestamp) ==
    LET e     == updateState(before, txTimestamp)
        debt  == UserStableDebt(user, txTimestamp)
        total == TotalStableDebtAt(before, txTimestamp)
        avgRateBefore ==
            calcExpectedAverageStableBorrowRateRebalance(before.averageStableBorrowRate, total,
                                                         -debt, user.stableBorrowRate)
    IN  Expected([e EXCEPT
          !.principalStableDebt = total, !.totalStableDebt = total,
          !.averageStableBorrowRate =
              calcExpectedAverageStableBorrowRateRebalance(avgRateBefore, total - debt, debt,
                                                           before.stableBorrowRate)])

\* The rate of the user is the average of the reserve.
calcExpectedUserDataAfterStableRateRebalance(before, after, user, txTimestamp) ==
    [user EXCEPT
       !.currentStableDebt = UserStableDebt(user, txTimestamp),
       !.principalStableDebt = UserStableDebt(user, txTimestamp),
       !.currentVariableDebt = calcExpectedVariableDebtTokenBalance(before, user, txTimestamp),
       !.stableRateLastUpdated = txTimestamp,
       !.stableBorrowRate = after.averageStableBorrowRate,
       !.liquidityRate = after.liquidityRate,
       !.currentATokenBalance = calcExpectedATokenBalance(before, user, txTimestamp)]
=============================================================================
