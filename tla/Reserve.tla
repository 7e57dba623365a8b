------------------------------ MODULE Reserve -------------------------------
(***************************************************************************)
(* The money of one reserve: its indices and rates, the aToken and the two *)
(* debt tokens, the underlying the aToken holds.  ReserveLogic with the    *)
(* handlers of SupplyLogic, BorrowLogic, BridgeLogic and FlashLoanLogic.   *)
(*                                                                         *)
(* Module Pool decides whether a position may be opened or closed, over    *)
(* all reserves, and takes the indices as given.  This module computes     *)
(* them, and takes for granted that the users have enough collateral in    *)
(* other reserves.  The flags of the configuration are set: active, not    *)
(* frozen or paused, borrowing at both rates enabled, LTV above zero, no   *)
(* supply and borrow caps.                                                 *)
(***************************************************************************)
EXTENDS StableDebtToken, InterestRates, SequencesExt

CONSTANTS
    Treasury,                                    \* owner of minted fees
    MAX,                                         \* type(uint256).max as an amount
    MaxStableRateBorrowSizePercent,              \* of the available liquidity
    RebalanceUpLiquidityRateThreshold,           \* REBALANCE_UP_LIQUIDITY_RATE_THRESHOLD
    FlashLoanPremiumTotal, FlashLoanPremiumToProtocol,
    FlashBorrowers,                              \* of the role FLASH_BORROWER
    BridgeProtocolFee, UnbackedMintCap,
    InitialWallet,                               \* bound: underlying of each user
    MaxLoans,                                    \* bound: flash loans at a time
    MaxRounding                                  \* bound: scaled units lost to rounding

ASSUME ReserveParameters ==
    /\ Treasury \notin Borrowers /\ MAX \notin Nat
    /\ {MaxStableRateBorrowSizePercent, RebalanceUpLiquidityRateThreshold,
        FlashLoanPremiumTotal, FlashLoanPremiumToProtocol, BridgeProtocolFee}
         \subseteq 0 .. PERCENTAGE_FACTOR
    /\ FlashBorrowers \subseteq Borrowers
    /\ UnbackedMintCap \in Nat /\ InitialWallet \in Nat /\ MaxRounding \in Nat
    /\ MaxLoans \in Nat

\* A sum over the holders of a token needs them to be finitely many.
ASSUME BorrowersAreFinite == IsFiniteSet(Borrowers)

Accounts == Borrowers \cup {Treasury}
RateModes == {"stable", "variable"}
Loans == [receiver : Borrowers, amount : Nat, premium : Nat]

VARIABLES
    reserve,            \* DataTypes.ReserveData
    aToken,             \* the scaled balances of the suppliers
    variableDebt,       \* the scaled balances of the variable debt token
    available,          \* underlying that the aToken holds
    wallet,             \* underlying of each user
    usedAsCollateral,   \* users for whom the reserve is collateral
    borrowAllowance,    \* [mode][delegator][delegatee]
    loans               \* the flash loans whose receivers are being called

reserveVars == <<now, stable, reserve, aToken, variableDebt, available, wallet,
                 usedAsCollateral, borrowAllowance, loans>>

Reserves == [liquidityIndex : Nat, variableBorrowIndex : Nat, liquidityRate : Nat,
             stableBorrowRate : Nat, variableBorrowRate : Nat, lastUpdateTimestamp : Nat,
             accruedToTreasury : Nat, unbacked : Nat]

\* A token whose balances grow with an index: the scaled balance, and the index of
\* the last operation of the holder (_userState[u].additionalData).
ScaledTokens == [scaled : [Accounts -> Nat], index : [Accounts -> Nat]]

ReserveInit ==
    /\ StableInit
    /\ reserve = [liquidityIndex |-> RAY, variableBorrowIndex |-> RAY, liquidityRate |-> 0,
                  stableBorrowRate |-> 0, variableBorrowRate |-> 0, lastUpdateTimestamp |-> 0,
                  accruedToTreasury |-> 0, unbacked |-> 0]
    /\ aToken = [scaled |-> [a \in Accounts |-> 0], index |-> [a \in Accounts |-> 0]]
    /\ variableDebt = aToken
    /\ available = 0
    /\ wallet = [u \in Borrowers |-> InitialWallet]
    /\ usedAsCollateral = {}
    /\ borrowAllowance = [m \in RateModes |-> [u \in Borrowers |-> [v \in Borrowers |-> 0]]]
    /\ loans = <<>>

-----------------------------------------------------------------------------
(* Scaled balances. *)

ScaledTotal(t) == SumFunction(t.scaled)

WithScaled(t, a, scaled, index) ==
    [scaled |-> [t.scaled EXCEPT ![a] = scaled], index |-> [t.index EXCEPT ![a] = index]]

\* _mintScaled
ScaledMint(t, a, amount, index) == WithScaled(t, a, t.scaled[a] + RayDiv(amount, index), index)

\* _burnScaled; the subtraction is checked.
CanBurn(t, a, amount, index) == RayDiv(amount, index) \in 1 .. t.scaled[a]
ScaledBurn(t, a, amount, index) == WithScaled(t, a, t.scaled[a] - RayDiv(amount, index), index)

-----------------------------------------------------------------------------
(* Indices. *)

Elapsed == now - reserve.lastUpdateTimestamp

getNormalizedIncome == RayMul(LinearInterest(reserve.liquidityRate, Elapsed), reserve.liquidityIndex)

getNormalizedDebt ==
    RayMul(CompoundedInterest(reserve.variableBorrowRate, Elapsed), reserve.variableBorrowIndex)

BalanceOf(u) == RayMul(aToken.scaled[u], getNormalizedIncome)
VariableDebtOf(u) == RayMul(variableDebt.scaled[u], getNormalizedDebt)
ATokenTotalSupply == RayMul(ScaledTotal(aToken), getNormalizedIncome)
VariableTotalSupply == RayMul(ScaledTotal(variableDebt), getNormalizedDebt)

\* A wrong update: the income is stored only while somebody owes variable debt.
NextLiquidityIndexWithDebt ==
    IF ScaledTotal(variableDebt) = 0 THEN reserve.liquidityIndex ELSE getNormalizedIncome

\* _updateIndexes: one index moves with the income, the other with the debt.
NextLiquidityIndex == IF reserve.liquidityRate = 0 THEN reserve.liquidityIndex
                      ELSE getNormalizedIncome

\* A wrong update: the index starts anew when nothing is owed.
NextVariableBorrowIndexAnew == IF ScaledTotal(variableDebt) = 0 THEN RAY ELSE getNormalizedDebt
NextVariableBorrowIndex == IF ScaledTotal(variableDebt) = 0 THEN reserve.variableBorrowIndex
                           ELSE getNormalizedDebt

PrevTotalDebt ==
    RayMul(ScaledTotal(variableDebt), reserve.variableBorrowIndex)
      + RayMul(stable.totalSupply,
               CompoundedInterest(stable.avgStableRate,
                                  reserve.lastUpdateTimestamp - stable.totalSupplyTimestamp))

\* A wrong accrual: the stable debt of now is taken without its interest.
CurrTotalDebtOfPrincipal ==
    RayMul(ScaledTotal(variableDebt), NextVariableBorrowIndex) + stable.totalSupply

CurrTotalDebt == RayMul(ScaledTotal(variableDebt), NextVariableBorrowIndex)
                   + StableTotalSupply(stable)

\* The reserve factor's share of the interest since the last update goes to the
\* treasury, as scaled tokens that are minted later.
updateState ==
    IF Elapsed = 0 THEN reserve
    ELSE [reserve EXCEPT
            !.liquidityIndex = NextLiquidityIndex,
            !.variableBorrowIndex = NextVariableBorrowIndex,
            !.accruedToTreasury =
                @ + RayDiv(PercentMul(CurrTotalDebt - PrevTotalDebt, reserveFactor),
                           NextLiquidityIndex),
            !.lastUpdateTimestamp = now]

\* The next rates, of the debts and the liquidity that the operation leaves.
RatesUpdated(r, totalStableDebt, avgStableRate, scaledVariableDebt, liquidity) ==
    LET rates == calculateInterestRates(totalStableDebt,
                                        RayMul(scaledVariableDebt, r.variableBorrowIndex),
                                        avgStableRate, liquidity, r.unbacked)
    IN  [r EXCEPT !.liquidityRate = rates.liquidity, !.stableBorrowRate = rates.stable,
                  !.variableBorrowRate = rates.variable]

\* An operation that leaves the debts as they are, and the next liquidity.
updateInterestRates(r, liquidity) ==
    RatesUpdated(r, StableTotalSupply(stable), stable.avgStableRate, ScaledTotal(variableDebt),
                 liquidity)

\* ... that mints or rebalances stable debt, or mints or burns variable debt: the
\* totals are those of the tokens afterwards.
updateInterestRatesOfDebts(r, nextStable, nextVariable, liquidity) ==
    RatesUpdated(r, StableTotalSupply(nextStable), nextStable.avgStableRate,
                 ScaledTotal(nextVariable), liquidity)

\* A wrong update: the average rate is the one of before the burn.
updateInterestRatesOfOldAverage(r, nextStable, amount, nextVariable, liquidity) ==
    RatesUpdated(r, BurnReturns(stable, amount), stable.avgStableRate,
                 ScaledTotal(nextVariable), liquidity)

\* ... that burns stable debt: the total is the one that burn returns.
updateInterestRatesOfBurn(r, nextStable, amount, nextVariable, liquidity) ==
    RatesUpdated(r, BurnReturns(stable, amount), nextStable.avgStableRate,
                 ScaledTotal(nextVariable), liquidity)

\* A fixed income, spread over all suppliers and the treasury.
cumulateToLiquidityIndex(r, amount) ==
    LET totalLiquidity == RayMul(ScaledTotal(aToken), r.liquidityIndex)
                            + RayMul(r.accruedToTreasury, r.liquidityIndex)
    IN  RayMul(RayDiv(WadToRay(amount), WadToRay(totalLiquidity)) + RAY, r.liquidityIndex)

-----------------------------------------------------------------------------
(* Handlers. *)

Paid(u, amount) ==
    /\ wallet[u] >= amount
    /\ wallet' = [wallet EXCEPT ![u] = @ - amount]
    /\ available' = available + amount

PaidOut(u, amount) ==
    /\ available >= amount
    /\ wallet' = [wallet EXCEPT ![u] = @ + amount]
    /\ available' = available - amount

\* A wrong mint: the first aTokens are not collateral.
MintATokensOnly(u, amount, index) ==
    /\ RayDiv(amount, index) # 0
    /\ aToken' = ScaledMint(aToken, u, amount, index)
    /\ UNCHANGED usedAsCollateral

\* mint of aTokens; the first ones make the reserve collateral of their owner.
MintATokens(u, amount, index) ==
    /\ RayDiv(amount, index) # 0
    /\ aToken' = ScaledMint(aToken, u, amount, index)
    /\ usedAsCollateral' =
         IF aToken.scaled[u] = 0 THEN usedAsCollateral \cup {u} ELSE usedAsCollateral

Supply(u, onBehalfOf, amount) ==
    LET r == updateState
    IN  /\ Paid(u, amount)
        /\ MintATokens(onBehalfOf, amount, r.liquidityIndex)
        /\ reserve' = updateInterestRates(r, available')
        /\ UNCHANGED <<now, stable, variableDebt, borrowAllowance, loans>>

\* The amount that stands for all of a balance, or of a debt.
Amount(amount, all) == IF amount = MAX THEN all ELSE amount

Withdraw(u, to, amount) ==
    LET r           == updateState
        userBalance == RayMul(aToken.scaled[u], r.liquidityIndex)
        withdrawn   == Amount(amount, userBalance)
    IN  /\ withdrawn \in 1 .. userBalance
        /\ CanBurn(aToken, u, withdrawn, r.liquidityIndex)
        /\ aToken' = ScaledBurn(aToken, u, withdrawn, r.liquidityIndex)
        /\ PaidOut(to, withdrawn)
        /\ usedAsCollateral' =
             IF withdrawn = userBalance THEN usedAsCollateral \ {u} ELSE usedAsCollateral
        /\ reserve' = updateInterestRates(r, available')
        /\ UNCHANGED <<now, stable, variableDebt, borrowAllowance, loans>>

\* A stable loan must not be secured by more of the same asset than it borrows, and
\* is a part of what is available.
ValidateStableBorrow(onBehalfOf, amount) ==
    /\ onBehalfOf \in usedAsCollateral => amount > BalanceOf(onBehalfOf)
    /\ amount <= PercentMul(available, MaxStableRateBorrowSizePercent)

\* A wrong allowance: it is looked at and not spent.
SpendAllowanceNever(u, onBehalfOf, mode, amount) ==
    /\ u # onBehalfOf => borrowAllowance[mode][onBehalfOf][u] >= amount
    /\ UNCHANGED borrowAllowance

\* The debt token spends the allowance when somebody else borrows.
SpendAllowance(u, onBehalfOf, mode, amount) ==
    IF u = onBehalfOf THEN UNCHANGED borrowAllowance
    ELSE /\ borrowAllowance[mode][onBehalfOf][u] >= amount
         /\ borrowAllowance' = [borrowAllowance EXCEPT ![mode][onBehalfOf][u] = @ - amount]

Borrow(u, onBehalfOf, amount, mode) ==
    LET r == updateState
    IN  /\ SpendAllowance(u, onBehalfOf, mode, amount)
        /\ PaidOut(u, amount)
        /\ \/ /\ mode = "stable"
              /\ ValidateStableBorrow(onBehalfOf, amount)
              /\ stable' = Minted(stable, onBehalfOf, amount, reserve.stableBorrowRate)
              /\ UNCHANGED variableDebt
           \/ /\ mode = "variable"
              /\ RayDiv(amount, r.variableBorrowIndex) # 0
              /\ variableDebt' = ScaledMint(variableDebt, onBehalfOf, amount, r.variableBorrowIndex)
              /\ UNCHANGED stable
        /\ reserve' = updateInterestRatesOfDebts(r, stable', variableDebt', available')
        /\ UNCHANGED <<now, aToken, usedAsCollateral, loans>>

DebtOf(u, mode, index) ==
    IF mode = "stable" THEN StableBalanceOf(stable, u) ELSE RayMul(variableDebt.scaled[u], index)

\* Burns the debt and takes the new rates with the liquidity it is given.
BurnDebt(r, onBehalfOf, mode, amount, liquidity) ==
    \/ /\ mode = "stable"
       /\ stable' = Burnt(stable, onBehalfOf, amount)
       /\ reserve' = updateInterestRatesOfBurn(r, stable', amount, variableDebt, liquidity)
       /\ UNCHANGED variableDebt
    \/ /\ mode = "variable"
       /\ CanBurn(variableDebt, onBehalfOf, amount, r.variableBorrowIndex)
       /\ variableDebt' = ScaledBurn(variableDebt, onBehalfOf, amount, r.variableBorrowIndex)
       /\ reserve' = updateInterestRatesOfDebts(r, stable, variableDebt', liquidity)
       /\ UNCHANGED stable

\* A wrong minimum: more can be given than is asked for.
LeastUncapped(x, y) == x
Least(x, y) == IF x <= y THEN x ELSE y

Repay(u, onBehalfOf, amount, mode) ==
    LET r       == updateState
        debt    == DebtOf(onBehalfOf, mode, r.variableBorrowIndex)
        payback == IF amount = MAX THEN debt ELSE Least(amount, debt)
    IN  /\ debt # 0
        /\ amount = MAX => u = onBehalfOf
        /\ Paid(u, payback)
        /\ BurnDebt(r, onBehalfOf, mode, payback, available')
        /\ UNCHANGED <<now, aToken, usedAsCollateral, borrowAllowance, loans>>

\* repayWithATokens: nothing is transferred, and a position that is used up by it
\* stays collateral.
RepayWithATokens(u, amount, mode) ==
    LET r       == updateState
        debt    == DebtOf(u, mode, r.variableBorrowIndex)
        payback == Least(Amount(amount, RayMul(aToken.scaled[u], r.liquidityIndex)), debt)
    IN  /\ debt # 0
        /\ payback # 0
        /\ BurnDebt(r, u, mode, payback, available)
        /\ CanBurn(aToken, u, payback, r.liquidityIndex)
        /\ aToken' = ScaledBurn(aToken, u, payback, r.liquidityIndex)
        /\ UNCHANGED <<now, available, wallet, usedAsCollateral, borrowAllowance, loans>>

SwapBorrowRateMode(u, mode) ==
    LET r     == updateState
        index == r.variableBorrowIndex
        debt  == DebtOf(u, mode, index)
    IN  /\ debt # 0
        /\ \/ /\ mode = "stable"
              /\ RayDiv(debt, index) # 0
              /\ stable' = Burnt(stable, u, debt)
              /\ variableDebt' = ScaledMint(variableDebt, u, debt, index)
              /\ reserve' = updateInterestRatesOfBurn(r, stable', debt, variableDebt', available)
           \/ /\ mode = "variable"
              /\ u \in usedAsCollateral =>
                   StableBalanceOf(stable, u) + debt > RayMul(aToken.scaled[u], r.liquidityIndex)
              /\ CanBurn(variableDebt, u, debt, index)
              /\ variableDebt' = ScaledBurn(variableDebt, u, debt, index)
              /\ stable' = Minted(stable, u, debt, reserve.stableBorrowRate)
              /\ reserve' = updateInterestRatesOfDebts(r, stable', variableDebt', available)
        /\ UNCHANGED <<now, aToken, available, wallet, usedAsCollateral, borrowAllowance, loans>>

\* What suppliers would earn if all the debt were variable.
LiquidityRateVariableDebtOnly(r) ==
    calculateInterestRates(0, StableTotalSupply(stable)
                                + RayMul(ScaledTotal(variableDebt), r.variableBorrowIndex),
                           0, available, r.unbacked).liquidity

\* Anybody may move a loan to the current stable rate when the suppliers earn too
\* little by the stable loans.
RebalanceStableBorrowRate(u) ==
    LET r == updateState
    IN  /\ StableBalanceOf(stable, u) # 0
        /\ reserve.liquidityRate <= PercentMul(LiquidityRateVariableDebtOnly(r),
                                               RebalanceUpLiquidityRateThreshold)
        /\ stable' = Rebalanced(stable, u, reserve.stableBorrowRate)
        /\ reserve' = updateInterestRatesOfDebts(r, stable', variableDebt, available)
        /\ UNCHANGED <<now, aToken, variableDebt, available, wallet, usedAsCollateral,
                       borrowAllowance, loans>>

SetUserUseReserveAsCollateral(u, useAsCollateral) ==
    /\ BalanceOf(u) # 0
    /\ usedAsCollateral' =
         IF useAsCollateral THEN usedAsCollateral \cup {u} ELSE usedAsCollateral \ {u}
    /\ UNCHANGED <<now, stable, reserve, aToken, variableDebt, available, wallet,
                   borrowAllowance, loans>>

\* A transfer of aTokens, of a scaled amount that may round to zero.
Transfer(u, v, amount) ==
    LET index  == getNormalizedIncome
        scaled == RayDiv(amount, index)
        sent   == WithScaled(aToken, u, aToken.scaled[u] - scaled, index)
    IN  /\ scaled <= aToken.scaled[u]
        /\ aToken' = WithScaled(sent, v, sent.scaled[v] + scaled, index)
        /\ usedAsCollateral' =
             IF u = v THEN usedAsCollateral
             ELSE (usedAsCollateral \ (IF amount = BalanceOf(u) THEN {u} ELSE {}))
                    \cup (IF BalanceOf(v) = 0 THEN {v} ELSE {})
        /\ UNCHANGED <<now, stable, reserve, variableDebt, available, wallet, borrowAllowance, loans>>

ApproveDelegation(u, v, mode, amount) ==
    /\ borrowAllowance' = [borrowAllowance EXCEPT ![mode][u][v] = amount]
    /\ UNCHANGED <<now, stable, reserve, aToken, variableDebt, available, wallet,
                   usedAsCollateral, loans>>

\* The treasury's tokens, at the current index; nothing else is updated.
MintToTreasury ==
    LET amount == RayMul(reserve.accruedToTreasury, getNormalizedIncome)
    IN  /\ reserve.accruedToTreasury # 0
        /\ reserve' = [reserve EXCEPT !.accruedToTreasury = 0]
        /\ aToken' = ScaledMint(aToken, Treasury, amount, getNormalizedIncome)
        /\ UNCHANGED <<now, stable, variableDebt, available, wallet, usedAsCollateral,
                       borrowAllowance, loans>>

-----------------------------------------------------------------------------
(* Bridges and flash loans. *)

\* A bridge mints aTokens whose underlying it brings later.
MintUnbacked(onBehalfOf, amount) ==
    LET r    == updateState
        next == [r EXCEPT !.unbacked = @ + amount]
    IN  /\ next.unbacked <= UnbackedMintCap
        /\ MintATokens(onBehalfOf, amount, r.liquidityIndex)
        /\ reserve' = updateInterestRates(next, available)
        /\ UNCHANGED <<now, stable, variableDebt, available, wallet, borrowAllowance, loans>>

\* An income for the suppliers and, of a part, for the treasury: what a bridge and
\* the receiver of a flash loan pay on top.
Premium(r, premium, protocolShare) ==
    LET toProtocol == PercentMul(premium, protocolShare)
        index      == cumulateToLiquidityIndex(r, premium - toProtocol)
    IN  [r EXCEPT !.liquidityIndex = index,
                  !.accruedToTreasury = @ + RayDiv(toProtocol, index)]

\* The suppliers' tokens: cumulateToLiquidityIndex divides by their worth.
HasSuppliers(r) == RayMul(ScaledTotal(aToken), r.liquidityIndex)
                     + RayMul(r.accruedToTreasury, r.liquidityIndex) # 0

BackUnbacked(bridge, amount, fee) ==
    LET r       == updateState
        backing == Least(amount, r.unbacked)
        next    == [Premium(r, fee, BridgeProtocolFee) EXCEPT !.unbacked = @ - backing]
    IN  /\ HasSuppliers(r)
        /\ Paid(bridge, backing + fee)
        /\ reserve' = updateInterestRates(next, available')
        /\ UNCHANGED <<now, stable, aToken, variableDebt, usedAsCollateral, borrowAllowance, loans>>

\* The receiver gets the underlying, and is called.  What it does in the call are
\* operations at the same time, other flash loans among them.  An authorised borrower
\* of flashLoan, not of flashLoanSimple, pays no premium.  A receiver that never pays
\* back is a transaction that reverts, to the state that it began in.
FlashLoan(receiver, amount, premium) ==
    /\ Len(loans) < MaxLoans
    /\ \/ premium = PercentMul(amount, FlashLoanPremiumTotal)
       \/ premium = 0 /\ receiver \in FlashBorrowers
    /\ PaidOut(receiver, amount)
    /\ loans' = Append(loans, [receiver |-> receiver, amount |-> amount, premium |-> premium])
    /\ UNCHANGED <<now, stable, reserve, aToken, variableDebt, usedAsCollateral, borrowAllowance>>

\* _handleFlashLoanRepayment.  The loans of one call, which may name the same asset
\* twice, are settled in their order, those of calls within calls from the last.
FlashLoanRepayment(i) ==
    LET r    == updateState
        owed == loans[i].amount + loans[i].premium
    IN  /\ HasSuppliers(r)
        /\ Paid(loans[i].receiver, owed)
        /\ reserve' = updateInterestRates(Premium(r, loans[i].premium, FlashLoanPremiumToProtocol),
                                          available')
        /\ loans' = RemoveAt(loans, i)
        /\ UNCHANGED <<now, stable, aToken, variableDebt, usedAsCollateral, borrowAllowance>>

\* What the receivers hold.
LoansOut == SumFunction([i \in DOMAIN loans |-> loans[i].amount])

\* Time passes between transactions, not within one.
NextBlock ==
    /\ loans = <<>>
    /\ Tick
    /\ UNCHANGED <<reserve, aToken, variableDebt, available, wallet, usedAsCollateral,
                   borrowAllowance, loans>>

-----------------------------------------------------------------------------

SupplySteps ==
    \E u, v \in Borrowers :
        \/ Withdraw(u, v, MAX)
        \/ \E n \in Amounts : Supply(u, v, n) \/ Withdraw(u, v, n) \/ Transfer(u, v, n)
CollateralSteps == \E u \in Borrowers, b \in BOOLEAN : SetUserUseReserveAsCollateral(u, b)
BorrowSteps ==
    \E u, v \in Borrowers, mode \in RateModes : \E n \in Amounts :
        \/ Borrow(u, v, n, mode) \/ ApproveDelegation(u, v, mode, n)
RepaySteps ==
    \E u \in Borrowers, mode \in RateModes :
        \/ SwapBorrowRateMode(u, mode)
        \/ \E n \in Amounts \cup {MAX} :
             \/ RepayWithATokens(u, n, mode)
             \/ \E v \in Borrowers : Repay(u, v, n, mode)
RebalanceSteps == \E u \in Borrowers : RebalanceStableBorrowRate(u)
BridgeSteps ==
    \E u \in Borrowers, n \in Amounts :
        \/ MintUnbacked(u, n)
        \/ \E fee \in Amounts \cup {0} : BackUnbacked(u, n, fee)
FlashSteps ==
    \/ \E i \in {1, Len(loans)} \cap DOMAIN loans : FlashLoanRepayment(i)
    \/ \E u \in Borrowers, n \in Amounts :
         \E premium \in {0, PercentMul(n, FlashLoanPremiumTotal)} : FlashLoan(u, n, premium)

ReserveNext ==
    \/ SupplySteps \/ CollateralSteps \/ BorrowSteps \/ RepaySteps \/ RebalanceSteps
    \/ MintToTreasury \/ BridgeSteps \/ FlashSteps \/ NextBlock

ReserveSpec == ReserveInit /\ [][ReserveNext]_reserveVars

-----------------------------------------------------------------------------
\* Type invariant: no subtraction of the code underflows on the way.
ReserveTypeOK ==
    /\ StableTypeOK
    /\ reserve \in Reserves
    /\ aToken \in ScaledTokens /\ variableDebt \in ScaledTokens
    /\ available \in Nat
    /\ wallet \in [Borrowers -> Nat]
    /\ usedAsCollateral \subseteq Borrowers
    /\ borrowAllowance \in [RateModes -> [Borrowers -> [Borrowers -> Nat]]]
    /\ loans \in Seq(Loans)

\* The suppliers' claim, and the treasury's, grows at the rate of the last update,
\* and the debts at theirs: claims are covered by what is there, lent out to a
\* receiver, promised by a bridge, or owed.  A rounding is of scaled units, so it
\* weighs what the index makes of it.
Solvent ==
    ATokenTotalSupply + RayMul(reserve.accruedToTreasury, getNormalizedIncome)
      <= available + LoansOut + reserve.unbacked + SumOfStableDebts(stable)
           + VariableTotalSupply + RayMul(MaxRounding, getNormalizedIncome)

\* A supplier's tokens never lose worth: neither when time passes, nor when an
\* operation stores the index, or takes a new rate from it, or adds a premium.
IncomeNeverFalls == [][getNormalizedIncome' >= getNormalizedIncome]_reserveVars

\* What the code subtracts without a look: the debt of the last update, put
\* together from two tokens and three moments, does not exceed the debt of now,
\* else _accrueToTreasury would make the whole reserve revert; and the index of
\* a holder's last operation is not ahead of the next one, else mint, burn and
\* transfer would make the holder's.
AccrualNeverUnderflows ==
    /\ stable.totalSupplyTimestamp <= reserve.lastUpdateTimestamp
    /\ PrevTotalDebt <= CurrTotalDebt
    /\ \A a \in Accounts : /\ aToken.index[a] <= NextLiquidityIndex
                           /\ variableDebt.index[a] <= NextVariableBorrowIndex

\* Whoever withdraws or repays all of a balance is left with no scaled unit of it,
\* and is not refused because the balance rounds to no scaled unit.
FullExit ==
    \A a \in Accounts :
        /\ aToken.scaled[a] = RayDiv(RayMul(aToken.scaled[a], NextLiquidityIndex), NextLiquidityIndex)
        /\ variableDebt.scaled[a] =
             RayDiv(RayMul(variableDebt.scaled[a], NextVariableBorrowIndex), NextVariableBorrowIndex)

\* The rates after an operation are those of the debts and the liquidity that it
\* leaves, although they were taken before its transfers.
RatesAreCurrent ==
    loans = <<>> /\ Elapsed = 0 /\ ScaledTotal(aToken) # 0 =>
        reserve = updateInterestRates(reserve, available)
=============================================================================
