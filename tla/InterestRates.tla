--------------------------- MODULE InterestRates ----------------------------
(***************************************************************************)
(* The rates of a reserve as functions of how much of it is lent out:      *)
(* pool/DefaultReserveInterestRateStrategy.sol.                            *)
(***************************************************************************)
EXTENDS MathUtils

CONSTANTS
    OPTIMAL_USAGE_RATIO, OPTIMAL_STABLE_TO_TOTAL_DEBT_RATIO,
    baseVariableBorrowRate, variableRateSlope1, variableRateSlope2,
    stableRateSlope1, stableRateSlope2,
    baseStableRateOffset, stableRateExcessOffset,
    reserveFactor

\* The constructor checks the ratios against RAY only.  A market sets the optimal
\* usage ratio above zero, by which the rates divide.
ASSUME StrategyParameters ==
    /\ OPTIMAL_USAGE_RATIO \in 1 .. RAY
    /\ OPTIMAL_STABLE_TO_TOTAL_DEBT_RATIO \in 0 .. RAY
    /\ \A parameter \in {baseVariableBorrowRate, variableRateSlope1, variableRateSlope2,
                         stableRateSlope1, stableRateSlope2,
                         baseStableRateOffset, stableRateExcessOffset} : parameter \in Nat
    /\ reserveFactor \in 0 .. PERCENTAGE_FACTOR

MAX_EXCESS_USAGE_RATIO == RAY - OPTIMAL_USAGE_RATIO
MAX_EXCESS_STABLE_TO_TOTAL_DEBT_RATIO == RAY - OPTIMAL_STABLE_TO_TOTAL_DEBT_RATIO

getBaseStableBorrowRate == variableRateSlope1 + baseStableRateOffset

\* What a slope adds to a rate: up to the optimal usage ratio all of slope1, and
\* beyond it slope2, each in proportion.
SlopedRate(slope1, slope2, usageRatio) ==
    IF usageRatio > OPTIMAL_USAGE_RATIO
    THEN slope1 + RayMul(slope2, RayDiv(usageRatio - OPTIMAL_USAGE_RATIO, MAX_EXCESS_USAGE_RATIO))
    ELSE RayDiv(RayMul(slope1, usageRatio), OPTIMAL_USAGE_RATIO)

\* A surcharge on stable loans when too much of the debt is stable.
StableRateExcess(stableToTotalDebtRatio) ==
    IF stableToTotalDebtRatio > OPTIMAL_STABLE_TO_TOTAL_DEBT_RATIO
    THEN RayMul(stableRateExcessOffset,
                RayDiv(stableToTotalDebtRatio - OPTIMAL_STABLE_TO_TOTAL_DEBT_RATIO,
                       MAX_EXCESS_STABLE_TO_TOTAL_DEBT_RATIO))
    ELSE 0

\* The average of the two rates, weighted by the debts.
OverallBorrowRate(totalStableDebt, totalVariableDebt, variableRate, avgStableRate) ==
    LET totalDebt == totalStableDebt + totalVariableDebt
    IN  IF totalDebt = 0 THEN 0
        ELSE RayDiv(RayMul(WadToRay(totalVariableDebt), variableRate)
                      + RayMul(WadToRay(totalStableDebt), avgStableRate),
                    WadToRay(totalDebt))

\* The share of x in y, which is zero when there is no debt.
Share(x, y) == IF x = 0 THEN 0 ELSE RayDiv(x, y)

\* What is lent out, of what can be borrowed, and of what earns interest.
BorrowUsageRatio(debt, available) == Share(debt, available + debt)
SupplyUsageRatio(debt, available, unbacked) == Share(debt, available + debt + unbacked)

\* A wrong rate: the unbacked tokens take no share of the interest.
LiquidityRateOfBorrows(overallBorrowRate, debt, available, unbacked) ==
    PercentMul(RayMul(overallBorrowRate, BorrowUsageRatio(debt, available)),
               PERCENTAGE_FACTOR - reserveFactor)

\* A wrong rate: the suppliers earn the treasury's share too.
LiquidityRateGross(overallBorrowRate, debt, available, unbacked) ==
    RayMul(overallBorrowRate, SupplyUsageRatio(debt, available, unbacked))

\* The borrowers' interest, less the treasury's share, over all that is supplied.
LiquidityRate(overallBorrowRate, debt, available, unbacked) ==
    PercentMul(RayMul(overallBorrowRate, SupplyUsageRatio(debt, available, unbacked)),
               PERCENTAGE_FACTOR - reserveFactor)

\* calculateInterestRates; available is the balance of the aToken after what the
\* operation adds and takes.  Without debt it is not looked at.
calculateInterestRates(stableDebt, variableDebt, avgStableRate, available, unbacked) ==
    LET debt  == stableDebt + variableDebt
        usage == BorrowUsageRatio(debt, available)
        variableRate ==
            baseVariableBorrowRate + SlopedRate(variableRateSlope1, variableRateSlope2, usage)
    IN  [liquidity |-> LiquidityRate(OverallBorrowRate(stableDebt, variableDebt, variableRate,
                                                       avgStableRate),
                                     debt, available, unbacked),
         stable |-> getBaseStableBorrowRate + SlopedRate(stableRateSlope1, stableRateSlope2, usage)
                      + StableRateExcess(Share(stableDebt, debt)),
         variable |-> variableRate]
=============================================================================
