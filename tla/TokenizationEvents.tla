------------------------- MODULE TokenizationEvents -------------------------
(***************************************************************************)
(* The events of the tokens, and what the test suites expect of them:      *)
(* the tokens of protocol/tokenization, and                                *)
(* test-suites/helpers/utils/tokenization-events.ts.                       *)
(*                                                                         *)
(* Interest is not transferred by anybody.  A token shows it in the events *)
(* of the next operation of the holder, so that who adds up the events     *)
(* knows the balances.  The chain is module Reserve.                       *)
(***************************************************************************)
EXTENDS Reserve, BigNumberMath, SequencesExt

CONSTANTS ZERO_ADDRESS, aTokenAddress

\* Nobody holds a token with the address zero.
ASSUME ZeroIsNobody == ZERO_ADDRESS \notin Borrowers

Tokens == {"aToken", "variableDebtToken", "stableDebtToken"}

VARIABLES
    reading,     \* whether the transactions are sent by helpers, which read the receipts
    helper,      \* the arguments of the helper that sent the last transaction
    before,      \* the tokens before it
    log,         \* the events of the transaction
    fromEvents   \* [token][holder]: what the events add up to

eventVars == <<reading, helper, before, log, fromEvents>>

Calc == INSTANCE Calculations WITH MAX_UINT_AMOUNT <- MAX

Event(token, name, args) == [token |-> token, name |-> name, args |-> args]

-----------------------------------------------------------------------------
(* What the contracts emit; t is the token before. *)

BalanceIncrease(t, a, index) == RayMul(t.scaled[a], index) - RayMul(t.scaled[a], t.index[a])

MintEvents(token, caller, a, amount, increase, index) ==
    <<Event(token, "Transfer", <<ZERO_ADDRESS, a, amount>>),
      Event(token, "Mint", <<caller, a, amount, increase, index>>)>>

\* A wrong mint: the index is the one of the holder's last operation.
ScaledMintEventsOfOldIndex(token, t, caller, a, amount, index) ==
    LET increase == BalanceIncrease(t, a, index)
    IN  MintEvents(token, caller, a, amount + increase, increase, t.index[a])

ScaledMintEvents(token, t, caller, a, amount, index) ==
    LET increase == BalanceIncrease(t, a, index)
    IN  MintEvents(token, caller, a, amount + increase, increase, index)

\* A burn of less than the interest is a mint.
ScaledBurnEvents(token, t, a, target, amount, index) ==
    LET increase == BalanceIncrease(t, a, index)
    IN  IF increase > amount
        THEN MintEvents(token, a, a, increase - amount, increase, index)
        ELSE <<Event(token, "Transfer", <<a, ZERO_ADDRESS, amount - increase>>),
               Event(token, "Burn", <<a, target, amount - increase, increase, index>>)>>

InterestEvents(caller, a, increase, index) ==
    IF increase > 0 THEN MintEvents("aToken", caller, a, increase, increase, index) ELSE <<>>

\* A wrong transfer: the recipient's interest is minted also to oneself.
TransferEventsToSelfTwice(caller, u, v, amount, index) ==
    InterestEvents(caller, u, BalanceIncrease(aToken, u, index), index)
      \o InterestEvents(caller, v, BalanceIncrease(aToken, v, index), index)
      \o <<Event("aToken", "Transfer", <<u, v, amount>>),
           Event("aToken", "BalanceTransfer", <<u, v, RayDiv(amount, index), index>>)>>

TransferEvents(caller, u, v, amount, index) ==
    InterestEvents(caller, u, BalanceIncrease(aToken, u, index), index)
      \o (IF u # v THEN InterestEvents(caller, v, BalanceIncrease(aToken, v, index), index)
          ELSE <<>>)
      \o <<Event("aToken", "Transfer", <<u, v, amount>>),
           Event("aToken", "BalanceTransfer", <<u, v, RayDiv(amount, index), index>>)>>

StableMintEvents(caller, a, amount, balance, increase, next) ==
    <<Event("stableDebtToken", "Transfer", <<ZERO_ADDRESS, a, amount>>),
      Event("stableDebtToken", "Mint", <<caller, a, amount, balance, increase, next.rate[a],
                                         next.avgStableRate, next.totalSupply>>)>>

\* t is the token before, next the one after.
StableBorrowEvents(t, caller, a, amount, next) ==
    LET balance  == StableBalanceOf(t, a)
        increase == balance - t.principal[a]
    IN  StableMintEvents(caller, a, amount + increase, balance, increase, next)

\* The total is the one that burn returns.
StableBurnEvents(a, amount, next) ==
    LET balance  == StableBalanceOf(stable, a)
        increase == balance - stable.principal[a]
        supply   == BurnReturns(stable, amount)
    IN  IF increase > amount
        THEN StableMintEvents(a, a, increase - amount, balance, increase,
                              [next EXCEPT !.rate = stable.rate, !.totalSupply = supply])
        ELSE <<Event("stableDebtToken", "Transfer", <<a, ZERO_ADDRESS, amount - increase>>),
               Event("stableDebtToken", "Burn", <<a, amount - increase, balance, increase,
                                                  next.avgStableRate, supply>>)>>

Paying(u, v, amount) == <<Event("underlying", "Transfer", <<u, v, amount>>)>>

-----------------------------------------------------------------------------
(* A helper sends a transaction, whose logs are in the receipt. *)

Helper(name, user, onBehalfOf, to, amount) ==
    [name |-> name, user |-> user, onBehalfOf |-> onBehalfOf, to |-> to, amount |-> amount]

\* updateBalances: what an event of a token is for a holder.  A Transfer to or from
\* nobody only repeats a Mint or a Burn.
Gain(token, event, a) ==
    LET args == event.args
        Part(n, condition) == IF condition THEN n ELSE 0
    IN  CASE event.token # token -> 0
          [] event.token = token /\ event.name = "Transfer" ->
               Part(args[3], ZERO_ADDRESS \notin {args[1], args[2]} /\ a = args[2])
                 - Part(args[3], ZERO_ADDRESS \notin {args[1], args[2]} /\ a = args[1])
          [] event.token = token /\ event.name = "Mint" -> Part(args[3], a = args[2])
          [] event.token = token /\ event.name = "Burn" ->
               - Part(IF token = "stableDebtToken" THEN args[2] ELSE args[3], a = args[1])
          [] OTHER -> 0

Gains(token, events, a) == SumFunction([i \in DOMAIN events |-> Gain(token, events[i], a)])

Applied(events) ==
    fromEvents' = [token \in Tokens |-> [a \in Borrowers |->
                      fromEvents[token][a] + Gains(token, events, a)]]

NoHelper == Helper("none", Treasury, Treasury, Treasury, 0)

\* A transaction of which nobody reads the receipt.
Unread(events) ==
    /\ helper' = NoHelper
    /\ log' = <<>>
    /\ UNCHANGED <<reading, before>>
    /\ Applied(events)

Receipt(h, events) ==
    \/ ~ reading /\ Unread(events)
    \/ /\ reading
       /\ helper' = h
       /\ before' = [aToken |-> aToken, variableDebt |-> variableDebt, stable |-> stable]
       /\ log' = events
       /\ Applied(events)
       /\ UNCHANGED reading

EventsInit ==
    /\ ReserveInit
    /\ reading \in BOOLEAN
    /\ helper = NoHelper
    /\ before = [aToken |-> aToken, variableDebt |-> variableDebt, stable |-> stable]
    /\ log = <<>>
    /\ fromEvents = [token \in Tokens |-> [a \in Borrowers |-> 0]]

EmitSupply(u, v, n) ==
    /\ Supply(u, v, n)
    /\ Receipt(Helper("supply", u, v, v, n),
               Paying(u, aTokenAddress, n)
                 \o ScaledMintEvents("aToken", aToken, u, v, n, updateState.liquidityIndex))

EmitWithdraw(u, to, n) ==
    /\ Withdraw(u, to, n)
    /\ Receipt(Helper("withdraw", u, u, to, n),
               ScaledBurnEvents("aToken", aToken, u, to, n, updateState.liquidityIndex)
                 \o Paying(aTokenAddress, to, n))

\* transfer and, when the caller is another, transferFrom.
EmitTransfer(caller, u, v, n) ==
    /\ Transfer(u, v, n)
    /\ Receipt(Helper("transferFrom", caller, u, v, n),
               TransferEvents(caller, u, v, n, getNormalizedIncome))

EmitVariableBorrow(u, v, n) ==
    /\ Borrow(u, v, n, "variable")
    /\ Receipt(Helper("variableBorrow", u, v, u, n),
               ScaledMintEvents("variableDebtToken", variableDebt, u, v, n,
                                updateState.variableBorrowIndex)
                 \o Paying(aTokenAddress, u, n))

\* More than the debt is not repaid: no helper is called with such an amount.
EmitRepayVariable(u, v, n) ==
    /\ n <= RayMul(variableDebt.scaled[v], updateState.variableBorrowIndex)
    /\ Repay(u, v, n, "variable")
    /\ Receipt(Helper("repayVariableBorrow", u, v, u, n),
               ScaledBurnEvents("variableDebtToken", variableDebt, v, ZERO_ADDRESS, n,
                                updateState.variableBorrowIndex)
                 \o Paying(u, aTokenAddress, n))

EmitStableBorrow(u, v, n) ==
    /\ Borrow(u, v, n, "stable")
    /\ Receipt(Helper("stableBorrow", u, v, u, n),
               StableBorrowEvents(stable, u, v, n, Minted(stable, v, n, reserve.stableBorrowRate))
                 \o Paying(aTokenAddress, u, n))

EmitRepayStable(u, v, n) ==
    /\ n <= StableBalanceOf(stable, v)
    /\ Repay(u, v, n, "stable")
    /\ Receipt(Helper("repayStableBorrow", u, v, u, n),
               StableBurnEvents(v, n, Burnt(stable, v, n)) \o Paying(u, aTokenAddress, n))

EmitWithdrawAll(u, to) ==
    LET index == updateState.liquidityIndex
    IN  /\ Withdraw(u, to, MAX)
        /\ Unread(ScaledBurnEvents("aToken", aToken, u, to, RayMul(aToken.scaled[u], index), index))

DebtBurnEvents(u, mode, amount) ==
    IF mode = "stable" THEN StableBurnEvents(u, amount, Burnt(stable, u, amount))
    ELSE ScaledBurnEvents("variableDebtToken", variableDebt, u, ZERO_ADDRESS, amount,
                          updateState.variableBorrowIndex)

DebtNow(u, mode) == DebtOf(u, mode, updateState.variableBorrowIndex)

EmitRepayAll(u, v, n, mode) ==
    /\ n # MAX => n > DebtNow(v, mode)
    /\ Repay(u, v, n, mode)
    /\ Unread(DebtBurnEvents(v, mode, DebtNow(v, mode)))

EmitRepayWithATokens(u, n, mode) ==
    LET index   == updateState.liquidityIndex
        payback == Least(Amount(n, RayMul(aToken.scaled[u], index)), DebtNow(u, mode))
    IN  /\ RepayWithATokens(u, n, mode)
        /\ Unread(DebtBurnEvents(u, mode, payback)
                    \o ScaledBurnEvents("aToken", aToken, u, aTokenAddress, payback, index))

EmitSwap(u, mode) ==
    LET debt == DebtNow(u, mode)
    IN  /\ SwapBorrowRateMode(u, mode)
        /\ Unread(DebtBurnEvents(u, mode, debt) \o
                   IF mode = "stable"
                   THEN ScaledMintEvents("variableDebtToken", variableDebt, u, u, debt,
                                         updateState.variableBorrowIndex)
                   ELSE StableBorrowEvents(stable, u, u, debt, stable'))

EmitRebalance(u) ==
    LET debt  == StableBalanceOf(stable, u)
        burnt == Burnt(stable, u, debt)
    IN  /\ RebalanceStableBorrowRate(u)
        /\ Unread(StableBurnEvents(u, debt, burnt) \o StableBorrowEvents(burnt, u, u, debt, stable'))

EmitMintUnbacked(u, n) ==
    /\ MintUnbacked(u, n)
    /\ Unread(ScaledMintEvents("aToken", aToken, u, u, n, updateState.liquidityIndex))

-----------------------------------------------------------------------------

EmitSupplySteps(S) ==
    \E u, v \in Borrowers, n \in S :
        \/ EmitSupply(u, v, n) \/ EmitWithdraw(u, v, n)
        \/ \E w \in Borrowers : EmitTransfer(w, u, v, n)
EmitBorrowSteps(S) ==
    \E u, v \in Borrowers, n \in S : EmitVariableBorrow(u, v, n) \/ EmitStableBorrow(u, v, n)
\* The allowance of oneself is never read.
EmitApproveSteps(S) ==
    \E u \in Borrowers, n \in S, m \in RateModes : \E v \in Borrowers \ {u} :
        ApproveDelegation(u, v, m, n) /\ Unread(<<>>)
EmitRepaySteps(S) ==
    \E u, v \in Borrowers, n \in S : EmitRepayVariable(u, v, n) \/ EmitRepayStable(u, v, n)
EmitRepayAllSteps(S) ==
    \E u, v \in Borrowers, n \in S \cup {MAX}, m \in RateModes : EmitRepayAll(u, v, n, m)
EmitWithdrawAllSteps == \E u, v \in Borrowers : EmitWithdrawAll(u, v)
EmitSwapSteps(S) ==
    \E u \in Borrowers, m \in RateModes :
        EmitSwap(u, m) \/ \E n \in S \cup {MAX} : EmitRepayWithATokens(u, n, m)
EmitRebalanceSteps == \E u \in Borrowers : EmitRebalance(u)
EmitBridgeSteps(S) ==
    \E u \in Borrowers, n \in S :
        \/ EmitMintUnbacked(u, n)
        \/ \E fee \in S \cup {0} : BackUnbacked(u, n, fee) /\ Unread(<<>>)

\* Operations of which no user's token tells anything.
Silent(step) == step /\ Unread(<<>>)

EventsNext ==
    \/ /\ now > 0   \* no block has the timestamp 0
       /\ \/ EmitSupplySteps(Amounts) \/ EmitBorrowSteps(Amounts) \/ EmitApproveSteps(Amounts)
          \/ EmitRepaySteps(Amounts)
          \/ EmitRepayAllSteps(Amounts) \/ EmitWithdrawAllSteps \/ EmitSwapSteps(Amounts)
          \/ EmitRebalanceSteps \/ EmitBridgeSteps(Amounts)
          \/ Silent(CollateralSteps) \/ Silent(MintToTreasury) \/ Silent(FlashSteps)
    \/ Silent(NextBlock)

EventsSpec == EventsInit /\ [][EventsNext]_<<reserveVars, eventVars>>

-----------------------------------------------------------------------------
(* What the helpers expect: the events are worked out from the indices     *)
(* before, and from what the contracts say after the transaction.          *)

getBalanceIncrease(scaledBalance, indexBefore, indexAfter) ==
    rayMul(scaledBalance, indexAfter) - rayMul(scaledBalance, indexBefore)

\* A transfer of a token, or of interest from nobody, and what it is for: the
\* caller, the holder, the amount and what follows.
MintMatch(token, args) ==
    {Event(token, "Transfer", <<ZERO_ADDRESS, args[2], args[3]>>), Event(token, "Mint", args)}

supply ==
    LET indexAfter      == getNormalizedIncome
        scaledBalance   == aToken.scaled[helper.onBehalfOf] - rayDiv(helper.amount, indexAfter)
        balanceIncrease == getBalanceIncrease(scaledBalance, before.aToken.index[helper.onBehalfOf],
                                              indexAfter)
    IN  {Event("underlying", "Transfer", <<helper.user, aTokenAddress, helper.amount>>)}
          \cup MintMatch("aToken", <<helper.user, helper.onBehalfOf, helper.amount + balanceIncrease,
                                 balanceIncrease, indexAfter>>)

withdraw ==
    LET indexAfter      == getNormalizedIncome
        scaledBalance   == aToken.scaled[helper.user] + rayDiv(helper.amount, indexAfter)
        balanceIncrease == getBalanceIncrease(scaledBalance, before.aToken.index[helper.user],
                                              indexAfter)
        burnt           == helper.amount - balanceIncrease
    IN  {Event("underlying", "Transfer", <<aTokenAddress, helper.to, helper.amount>>)}
          \cup IF burnt < 0
               THEN MintMatch("aToken", <<helper.user, helper.user, -burnt, balanceIncrease, indexAfter>>)
               ELSE {Event("aToken", "Transfer", <<helper.user, ZERO_ADDRESS, burnt>>),
                     Event("aToken", "Burn", <<helper.user, helper.to, burnt, balanceIncrease,
                                               indexAfter>>)}

\* transfer is the case of a user who sends its own tokens.
transferFrom ==
    LET indexAfter == getNormalizedIncome
        origin     == helper.onBehalfOf
        to         == helper.to
        added      == rayDiv(helper.amount, indexAfter)
        delta      == IF origin = to THEN 0 ELSE added
        fromBalanceIncrease == getBalanceIncrease(aToken.scaled[origin] + delta,
                                                  before.aToken.index[origin], indexAfter)
        toBalanceIncrease   == getBalanceIncrease(aToken.scaled[to] - delta,
                                                  before.aToken.index[to], indexAfter)
        Interest(a, n) == MintMatch("aToken", <<helper.user, a, n, n, indexAfter>>)
    IN  {Event("aToken", "Transfer", <<origin, to, helper.amount>>),
         Event("aToken", "BalanceTransfer", <<origin, to, added, indexAfter>>)}
          \cup (IF fromBalanceIncrease > 0 THEN Interest(origin, fromBalanceIncrease) ELSE {})
          \cup (IF origin # to /\ toBalanceIncrease > 0 THEN Interest(to, toBalanceIncrease) ELSE {})

variableBorrow ==
    LET indexAfter      == getNormalizedDebt
        scaledBalance   == variableDebt.scaled[helper.onBehalfOf] - rayDiv(helper.amount, indexAfter)
        balanceIncrease == getBalanceIncrease(
                               scaledBalance, before.variableDebt.index[helper.onBehalfOf], indexAfter)
    IN  {Event("underlying", "Transfer", <<aTokenAddress, helper.user, helper.amount>>)}
          \cup MintMatch("variableDebtToken",
                         <<helper.user, helper.onBehalfOf, helper.amount + balanceIncrease,
                           balanceIncrease, indexAfter>>)

repayVariableBorrow ==
    LET indexAfter      == getNormalizedDebt
        debtor          == helper.onBehalfOf
        scaledBalance   == variableDebt.scaled[debtor] + rayDiv(helper.amount, indexAfter)
        balanceIncrease == getBalanceIncrease(scaledBalance, before.variableDebt.index[debtor],
                                              indexAfter)
        burnt           == helper.amount - balanceIncrease
    IN  {Event("underlying", "Transfer", <<helper.user, aTokenAddress, helper.amount>>)}
          \cup IF burnt < 0
               THEN MintMatch("variableDebtToken", <<debtor, debtor, -burnt, balanceIncrease, indexAfter>>)
               ELSE {Event("variableDebtToken", "Transfer", <<debtor, ZERO_ADDRESS, burnt>>),
                     Event("variableDebtToken", "Burn", <<debtor, ZERO_ADDRESS, burnt,
                                                          balanceIncrease, indexAfter>>)}

\* The debt at the time of the transaction, by the calculations of the suites.
newPrincipalBalance ==
    LET debtor == helper.onBehalfOf
    IN  Calc!calcExpectedStableDebtTokenBalance(
            before.stable.principal[debtor], before.stable.rate[debtor],
            before.stable.timestamp[debtor], now)

stableBorrow ==
    LET debtor          == helper.onBehalfOf
        balanceIncrease == newPrincipalBalance - before.stable.principal[debtor]
    IN  {Event("underlying", "Transfer", <<aTokenAddress, helper.user, helper.amount>>)}
          \cup MintMatch("stableDebtToken",
                         <<helper.user, debtor, helper.amount + balanceIncrease,
                           newPrincipalBalance, balanceIncrease, stable.rate[debtor],
                           stable.avgStableRate, stable.totalSupply>>)

repayStableBorrow ==
    LET debtor          == helper.onBehalfOf
        balanceIncrease == newPrincipalBalance - before.stable.principal[debtor]
        burnt           == helper.amount - balanceIncrease
    IN  {Event("underlying", "Transfer", <<helper.user, aTokenAddress, helper.amount>>)}
          \cup IF burnt < 0
               THEN MintMatch("stableDebtToken",
                              <<debtor, debtor, -burnt, newPrincipalBalance, balanceIncrease,
                                stable.rate[debtor], stable.avgStableRate, stable.totalSupply>>)
               ELSE {Event("stableDebtToken", "Transfer", <<debtor, ZERO_ADDRESS, burnt>>),
                     Event("stableDebtToken", "Burn", <<debtor, burnt, newPrincipalBalance,
                                                        balanceIncrease, stable.avgStableRate,
                                                        stable.totalSupply>>)}

expectedEvents ==
    CASE helper.name = "supply" -> supply
      [] helper.name = "withdraw" -> withdraw
      [] helper.name = "transferFrom" -> transferFrom
      [] helper.name = "variableBorrow" -> variableBorrow
      [] helper.name = "repayVariableBorrow" -> repayVariableBorrow
      [] helper.name = "stableBorrow" -> stableBorrow
      [] helper.name = "repayStableBorrow" -> repayStableBorrow
      [] OTHER -> {}

\* One of the logs of the receipt is of the contract, the name and the arguments.
matchEvent(event) == \E i \in DOMAIN log : log[i] = event

\* The clamps of burn set the total to zero although a little of it is left.
TotalDropped == helper.name = "repayStableBorrow" /\ stable.totalSupply = 0

-----------------------------------------------------------------------------
\* Every event that the suites work out from the readings before and after a
\* transaction is one that the contracts emit, at the same amount, interest, index,
\* rate and total; but for a burn that drops the rest of the total, of which the
\* event tells the total of before.
EventsAsExpected == ~ TotalDropped => \A event \in expectedEvents : matchEvent(event)

\* By how much the events of a holder are off its balance of the last operation.
Off(token, u) ==
    fromEvents[token][u] - CASE token = "aToken" -> RayMul(aToken.scaled[u], aToken.index[u])
                             [] token = "variableDebtToken" ->
                                  RayMul(variableDebt.scaled[u], variableDebt.index[u])
                             [] token = "stableDebtToken" -> stable.principal[u]

\* Half of a scaled unit at the index, and the halves of two balances.
Rounding(index) == (index + 2 * RAY) \div (2 * RAY)

\* Who adds up the events of a holder knows its balance of the last operation, up
\* to one rounding for each operation, and a stable debt exactly: however many
\* balances an operation moves, no interest is told twice, or to nobody, or left out.
BalancesFromEvents ==
    [][\A u \in Borrowers :
          LET Drift(token) == Off(token, u)' - Off(token, u)
              AtMost(n)    == -n .. n
          IN  /\ Drift("aToken") \in AtMost(Rounding(aToken'.index[u]))
              /\ Drift("variableDebtToken") \in AtMost(Rounding(variableDebt'.index[u]))
              /\ Drift("stableDebtToken") = 0]_<<reserveVars, eventVars>>
=============================================================================
