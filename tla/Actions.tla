------------------------------ MODULE Actions -------------------------------
(***************************************************************************)
(* The actions of the test suites: test-suites/helpers/actions.ts.         *)
(*                                                                         *)
(* An action reads the reserve and the user, sends a transaction, which is *)
(* mined in a later block, reads again, and compares what it finds with    *)
(* what module Calculations expects of the first reading.  The chain is    *)
(* module Reserve.                                                         *)
(***************************************************************************)
EXTENDS Reserve

CONSTANTS
    DepositAmounts,   \* bound: amounts of a deposit; those of the others are Amounts
    Tolerance         \* 3 in almostEqualOrEqual

VARIABLES
    pc,           \* where the action is: idle, send, mined, compare, assert, failed
    call,         \* the arguments of the action
    reserveDataBefore, userDataBefore, borrowAllowanceBefore,
    aTokenSupplyBefore,
    txTimestamp,
    expectedReserveData, expectedUserData

Calc == INSTANCE Calculations WITH MAX_UINT_AMOUNT <- MAX

readings == <<call, reserveDataBefore, userDataBefore, borrowAllowanceBefore,
              aTokenSupplyBefore>>
expectations == <<expectedReserveData, expectedUserData>>

actionVars == <<pc, readings, txTimestamp, expectations>>

-----------------------------------------------------------------------------
(* What the helpers read. *)

getReserveData ==
    LET totalStableDebt   == StableTotalSupply(stable)
        totalVariableDebt == VariableTotalSupply
        usage == Calc!calcExpectedUsageRatios(totalStableDebt, totalVariableDebt, available,
                                              available + reserve.unbacked)
    IN  [liquidityIndex |-> reserve.liquidityIndex,
         variableBorrowIndex |-> reserve.variableBorrowIndex,
         liquidityRate |-> reserve.liquidityRate,
         stableBorrowRate |-> reserve.stableBorrowRate,
         variableBorrowRate |-> reserve.variableBorrowRate,
         lastUpdateTimestamp |-> reserve.lastUpdateTimestamp,
         accruedToTreasuryScaled |-> reserve.accruedToTreasury,
         unbacked |-> reserve.unbacked,
         availableLiquidity |-> available,
         totalLiquidity |-> available + reserve.unbacked,
         totalStableDebt |-> totalStableDebt,
         totalVariableDebt |-> totalVariableDebt,
         borrowUsageRatio |-> usage[1], supplyUsageRatio |-> usage[2],
         principalStableDebt |-> stable.totalSupply,
         averageStableBorrowRate |-> stable.avgStableRate,
         totalStableDebtLastUpdated |-> stable.totalSupplyTimestamp,
         scaledVariableDebt |-> ScaledTotal(variableDebt)]

\* The position of one user, and the wallet of the same or of another.
getUserData(user, sender) ==
    [scaledATokenBalance |-> aToken.scaled[user],
     currentATokenBalance |-> BalanceOf(user),
     currentStableDebt |-> StableBalanceOf(stable, user),
     currentVariableDebt |-> VariableDebtOf(user),
     principalStableDebt |-> stable.principal[user],
     scaledVariableDebt |-> variableDebt.scaled[user],
     stableBorrowRate |-> stable.rate[user],
     liquidityRate |-> reserve.liquidityRate,
     usageAsCollateralEnabled |-> user \in usedAsCollateral,
     stableRateLastUpdated |-> stable.timestamp[user],
     walletBalance |-> wallet[sender]]

\* repay reads the wallet of the debtor, whoever pays.
WalletRead(c) == IF c.op = "repay" THEN c.onBehalfOf ELSE c.user

-----------------------------------------------------------------------------
(* What is expected. *)

calcExpectedReserveData ==
    LET before == reserveDataBefore
        op     == call.op
    IN  CASE op = "deposit" ->
               Calc!calcExpectedReserveDataAfterDeposit(call.amount, before, txTimestamp)
          [] op = "withdraw" ->
               Calc!calcExpectedReserveDataAfterWithdraw(call.amount, before, userDataBefore,
                                                         txTimestamp)
          [] op = "borrow" ->
               Calc!calcExpectedReserveDataAfterBorrow(call.amount, call.mode, before, txTimestamp,
                                                       now)
          [] op = "repay" ->
               Calc!calcExpectedReserveDataAfterRepay(call.amount, call.mode, before,
                                                      userDataBefore, txTimestamp)
          [] op = "swapBorrowRateMode" ->
               Calc!calcExpectedReserveDataAfterSwapRateMode(before, userDataBefore, call.mode,
                                                             txTimestamp)
          [] op = "rebalanceStableBorrowRate" ->
               Calc!calcExpectedReserveDataAfterStableRateRebalance(before, userDataBefore,
                                                                    txTimestamp)
          [] op = "mintUnbacked" ->
               Calc!calcExpectedReserveDataAfterMintUnbacked(call.amount, before, txTimestamp)
          [] op = "backUnbacked" ->
               Calc!calcExpectedReserveDataAfterBackUnbacked(aTokenSupplyBefore, call.amount,
                                                             call.fee, BridgeProtocolFee, before,
                                                             txTimestamp)
          [] OTHER -> getReserveData   \* not compared

calcExpectedUserData(after) ==
    LET before == reserveDataBefore
        user   == userDataBefore
        op     == call.op
    IN  CASE op = "deposit" ->
               Calc!calcExpectedUserDataAfterDeposit(call.amount, before, after, user, txTimestamp)
          [] op = "withdraw" ->
               Calc!calcExpectedUserDataAfterWithdraw(call.amount, before, after, user, txTimestamp)
          [] op = "borrow" ->
               Calc!calcExpectedUserDataAfterBorrow(call.amount, call.mode, before, after, user,
                                                    txTimestamp, now)
          [] op = "repay" ->
               Calc!calcExpectedUserDataAfterRepay(call.amount, call.mode, before, after, user,
                                                   call.user = call.onBehalfOf, txTimestamp, now)
          [] op = "setUseAsCollateral" ->
               Calc!calcExpectedUserDataAfterSetUseAsCollateral(call.amount = 1, user)
          [] op = "swapBorrowRateMode" ->
               Calc!calcExpectedUserDataAfterSwapRateMode(before, after, user, call.mode,
                                                          txTimestamp)
          [] op = "rebalanceStableBorrowRate" ->
               Calc!calcExpectedUserDataAfterStableRateRebalance(before, after, user, txTimestamp)
          [] OTHER -> getUserData(call.onBehalfOf, WalletRead(call))   \* not compared

-----------------------------------------------------------------------------
(* An action. *)

Call(op, user, onBehalfOf, amount, mode, fee) ==
    [op |-> op, user |-> user, onBehalfOf |-> onBehalfOf, amount |-> amount, mode |-> mode,
     fee |-> fee]

\* The stories give amounts, or -1 for all.
Calls ==
    LET Amounts0 == Amounts \cup {MAX}
    IN  UNION {
           {Call("deposit", u, v, n, "variable", 0) :
              u \in Borrowers, v \in Borrowers, n \in DepositAmounts},
           {Call("withdraw", u, u, n, "variable", 0) : u \in Borrowers, n \in Amounts0},
           {Call("delegateBorrowAllowance", u, v, n, m, 0) :
              u \in Borrowers, v \in Borrowers, n \in Amounts, m \in RateModes},
           {Call("borrow", u, v, n, m, 0) :
              u \in Borrowers, v \in Borrowers, n \in Amounts, m \in RateModes},
           {Call("repay", u, v, n, m, 0) :
              u \in Borrowers, v \in Borrowers, n \in Amounts0, m \in RateModes},
           {Call("setUseAsCollateral", u, u, n, "variable", 0) : u \in Borrowers, n \in {0, 1}},
           {Call("swapBorrowRateMode", u, u, 0, m, 0) : u \in Borrowers, m \in RateModes},
           {Call("rebalanceStableBorrowRate", u, v, 0, "stable", 0) : u \in Borrowers, v \in Borrowers},
           {Call("mintUnbacked", u, u, n, "variable", 0) : u \in Borrowers, n \in Amounts},
           {Call("backUnbacked", u, u, n, "variable", fee) :
              u \in Borrowers, n \in Amounts, fee \in Amounts}}

NoCall == Call("none", Treasury, Treasury, 0, "variable", 0)

ActionsInit ==
    /\ ReserveInit
    /\ pc = "idle"
    /\ call = NoCall /\ reserveDataBefore = <<>> /\ userDataBefore = <<>>
    /\ borrowAllowanceBefore = 0 /\ aTokenSupplyBefore = 0 /\ txTimestamp = 0
    /\ expectedReserveData = <<>> /\ expectedUserData = <<>>

\* getContractsData, before the transaction.
Read(c) ==
    /\ pc = "idle"
    /\ pc' = "send"
    /\ call' = c
    /\ reserveDataBefore' = getReserveData
    /\ userDataBefore' = getUserData(c.onBehalfOf, WalletRead(c))
    /\ borrowAllowanceBefore' =
         IF c.op = "borrow" THEN borrowAllowance[c.mode][c.onBehalfOf][c.user] ELSE 0
    /\ aTokenSupplyBefore' = ScaledTotal(aToken)
    /\ UNCHANGED <<reserveVars, txTimestamp, expectations>>

\* A transaction is mined in a block of its own, at a later second.  repay travels
\* in time before it.
Mine ==
    /\ \/ pc = "send"
       \/ pc = "mined" /\ call.op = "repay"
    /\ NextBlock
    /\ pc' = "mined"
    /\ txTimestamp' = now'
    /\ UNCHANGED <<readings, expectations>>

deposit == call.op = "deposit" /\ Supply(call.user, call.onBehalfOf, call.amount)
withdraw == call.op = "withdraw" /\ Withdraw(call.user, call.user, call.amount)
delegateBorrowAllowance ==
    /\ call.op = "delegateBorrowAllowance"
    /\ ApproveDelegation(call.user, call.onBehalfOf, call.mode, call.amount)
borrow == call.op = "borrow" /\ Borrow(call.user, call.onBehalfOf, call.amount, call.mode)
repay == call.op = "repay" /\ Repay(call.user, call.onBehalfOf, call.amount, call.mode)
setUseAsCollateral ==
    /\ call.op = "setUseAsCollateral"
    /\ SetUserUseReserveAsCollateral(call.user, call.amount = 1)
swapBorrowRateMode ==
    call.op = "swapBorrowRateMode" /\ SwapBorrowRateMode(call.user, call.mode)
rebalanceStableBorrowRate ==
    call.op = "rebalanceStableBorrowRate" /\ RebalanceStableBorrowRate(call.onBehalfOf)
mintUnbacked == call.op = "mintUnbacked" /\ MintUnbacked(call.user, call.amount)
backUnbacked == call.op = "backUnbacked" /\ BackUnbacked(call.user, call.amount, call.fee)

Transaction ==
    \/ deposit \/ withdraw \/ delegateBorrowAllowance \/ borrow \/ repay
    \/ setUseAsCollateral \/ swapBorrowRateMode \/ rebalanceStableBorrowRate
    \/ mintUnbacked \/ backUnbacked

Execute ==
    /\ pc = "mined"
    /\ Transaction
    /\ pc' = "compare"
    /\ UNCHANGED <<readings, txTimestamp, expectations>>

\* waitForTx throws, and the suite ends (bail).
Reverted ==
    /\ pc = "mined"
    /\ ~ ENABLED Transaction
    /\ pc' = "failed"
    /\ UNCHANGED <<reserveVars, readings, txTimestamp, expectations>>

\* borrow travels in time after the transaction.
Travel ==
    /\ pc = "compare" /\ call.op = "borrow"
    /\ NextBlock
    /\ UNCHANGED actionVars

\* What is read afterwards stands beside what is expected.
Calculate ==
    /\ pc = "compare"
    /\ pc' = "assert"
    /\ expectedReserveData' = calcExpectedReserveData
    /\ expectedUserData' = calcExpectedUserData(expectedReserveData')
    /\ UNCHANGED <<reserveVars, readings, txTimestamp>>

\* The comparison has no effect of its own, and the next action is awaited after it;
\* the variables of the function are gone.
Compare ==
    /\ pc = "assert"
    /\ pc' = "idle"
    /\ call' = NoCall /\ reserveDataBefore' = <<>> /\ userDataBefore' = <<>>
    /\ borrowAllowanceBefore' = 0 /\ aTokenSupplyBefore' = 0 /\ txTimestamp' = 0
    /\ expectedReserveData' = <<>> /\ expectedUserData' = <<>>
    /\ UNCHANGED reserveVars

ActionsNext ==
    \/ \E c \in Calls : Read(c)
    \/ Mine \/ Execute \/ Reverted \/ Travel \/ Calculate \/ Compare

ActionsSpec == ActionsInit /\ [][ActionsNext]_<<reserveVars, actionVars>>

-----------------------------------------------------------------------------
(* The comparison. *)

almostEqual(x, y) == x - y \in -Tolerance .. Tolerance

\* The keys for which almostEqualOrEqual fails; accessory data is not compared.
ReserveKeysWrong ==
    {key \in DOMAIN getReserveData \ {"lastUpdateTimestamp", "totalStableDebtLastUpdated"} :
        ~ almostEqual(expectedReserveData[key], getReserveData[key])}

UserKeysWrong ==
    LET actual == getUserData(call.onBehalfOf, WalletRead(call))
    IN  {key \in DOMAIN actual :
           IF key = "usageAsCollateralEnabled" THEN expectedUserData[key] # actual[key]
           ELSE ~ almostEqual(expectedUserData[key], actual[key])}

AllowanceAsExpected ==
    LET allowance == borrowAllowance[call.mode][call.onBehalfOf][call.user]
    IN  call.op = "borrow" /\ call.user # call.onBehalfOf =>
            allowance = borrowAllowanceBefore - call.amount

-----------------------------------------------------------------------------
(* What the calculations do not cover. *)

\* More than the debt is not repaid; nor is one loan of several rebalanced, or debt
\* swapped to stable beside other stable debt.
ReserveCalculable ==
    /\ call.op = "repay" =>
         \/ call.amount = MAX
         \/ call.amount <= Calc!ExpectedDebt(call.mode, reserveDataBefore, userDataBefore,
                                            txTimestamp)
    /\ call.op = "rebalanceStableBorrowRate" =>
         userDataBefore.principalStableDebt = reserveDataBefore.principalStableDebt
    /\ call.op = "swapBorrowRateMode" /\ call.mode = "variable" =>
         reserveDataBefore.principalStableDebt = 0

\* Nor does a user deposit who has debts, or borrow at the variable rate beside
\* another, or repay variable debt beside stable debt, or choose collateral
\* while interest runs.
UserCalculable ==
    LET user == userDataBefore
    IN  /\ ReserveCalculable
        /\ call.op = "deposit" => user.principalStableDebt = 0 /\ user.scaledVariableDebt = 0
        /\ call.op = "setUseAsCollateral" => reserveDataBefore.borrowUsageRatio = 0
        /\ call.mode = "variable" =>
             /\ call.op = "borrow" =>
                  user.scaledVariableDebt = reserveDataBefore.scaledVariableDebt
             /\ call.op = "repay" => user.principalStableDebt = 0

-----------------------------------------------------------------------------
\* The reserve is what the suites work out from the reading before the action: the
\* contracts and the calculations, which differ in how they group, round and cache,
\* agree along whole stories, so that no rounding of one step is off in the next.
ReserveDataAsExpected ==
    pc = "assert" /\ ReserveCalculable => ReserveKeysWrong = {}

\* So is the position of the user, in all that the suites read of it.
UserDataAsExpected ==
    pc = "assert" /\ UserCalculable => UserKeysWrong = {} /\ AllowanceAsExpected

\* What expectEqual asserts after a deposit, whatever was done before.
DepositAsExpected == pc = "assert" /\ call.op = "deposit" => UserKeysWrong = {}
=============================================================================
