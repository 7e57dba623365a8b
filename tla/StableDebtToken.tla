-------------------------- MODULE StableDebtToken ---------------------------
(***************************************************************************)
(* The stable debt token of one reserve: tokenization/StableDebtToken.sol. *)
(*                                                                         *)
(* Every borrower has a rate of its own.  The total is not the sum of the  *)
(* debts but a second account, which grows at an average rate.             *)
(*                                                                         *)
(* The contract's state is one record, so that an operation of the Pool    *)
(* that burns and mints in one transaction composes the two operators, and *)
(* module Reserve can embed the token.                                     *)
(***************************************************************************)
EXTENDS MathUtils, Functions, FiniteSets

CONSTANTS
    Borrowers,
    Amounts, StableRates,   \* bounds: amounts borrowed or repaid, and rates
    MaxStableBalance,       \* bound: a borrower's debt when it borrows more
    MaxTime                 \* bound: the last block timestamp

ASSUME StableBounds ==
    /\ Amounts \subseteq Nat \ {0} /\ StableRates \subseteq Nat
    /\ MaxStableBalance \in Nat /\ MaxTime \in Nat

\* WAD_RAY_RATIO is a whole number.
ASSUME WadRayRatioIsExact == RAY % WAD = 0

VARIABLES
    now,     \* block.timestamp
    stable   \* the state of the token

StableTokens ==
    [principal : [Borrowers -> Nat],       \* _userState[u].balance
     rate : [Borrowers -> Nat],            \* _userState[u].additionalData
     timestamp : [Borrowers -> Nat],       \* _timestamps[u], 0 without a debt
     totalSupply : Nat,                    \* _totalSupply
     avgStableRate : Nat,                  \* _avgStableRate
     totalSupplyTimestamp : Nat]           \* _totalSupplyTimestamp

NoStableDebt ==
    [principal |-> [u \in Borrowers |-> 0], rate |-> [u \in Borrowers |-> 0],
     timestamp |-> [u \in Borrowers |-> 0], totalSupply |-> 0,
     avgStableRate |-> 0, totalSupplyTimestamp |-> 0]

StableBalanceOf(t, u) ==
    IF t.principal[u] = 0 THEN 0
    ELSE RayMul(t.principal[u], CompoundedInterest(t.rate[u], now - t.timestamp[u]))

StableTotalSupply(t) ==
    IF t.totalSupply = 0 THEN 0
    ELSE RayMul(t.totalSupply,
                CompoundedInterest(t.avgStableRate, now - t.totalSupplyTimestamp))

SumOfStableDebts(t) == SumFunction([u \in Borrowers |-> StableBalanceOf(t, u)])

\* The rate of two loans together, each weighted by its amount.
WeightedRate(rate1, amount1, rate2, amount2) ==
    RayDiv(RayMul(rate1, WadToRay(amount1)) + RayMul(rate2, WadToRay(amount2)),
           WadToRay(amount1 + amount2))

\* The token after an operation of u: what it wrote for u, and for the total.
Written(t, u, principal, rate, timestamp, totalSupply, avgStableRate) ==
    [principal |-> [t.principal EXCEPT ![u] = principal],
     rate |-> [t.rate EXCEPT ![u] = rate],
     timestamp |-> [t.timestamp EXCEPT ![u] = timestamp],
     totalSupply |-> totalSupply, avgStableRate |-> avgStableRate,
     totalSupplyTimestamp |-> now]

\* A wrong mint: the interest of the user goes on from the last operation.
MintedWithoutTimestamp(t, u, amount, rate) ==
    LET balance == StableBalanceOf(t, u)
        supply  == StableTotalSupply(t)
    IN  Written(t, u, balance + amount, WeightedRate(t.rate[u], balance, rate, amount),
                t.timestamp[u], supply + amount,
                WeightedRate(t.avgStableRate, supply, rate, amount))

\* mint: the interest since the last operation becomes principal.
Minted(t, u, amount, rate) ==
    LET balance == StableBalanceOf(t, u)
        supply  == StableTotalSupply(t)
    IN  Written(t, u, balance + amount, WeightedRate(t.rate[u], balance, rate, amount), now,
                supply + amount, WeightedRate(t.avgStableRate, supply, rate, amount))

\* The part of the average rate that is left when u repays amount.
RemainingWeight(t, u, amount) ==
    RayMul(t.avgStableRate, WadToRay(StableTotalSupply(t)))
      - RayMul(t.rate[u], WadToRay(amount))

\* The repayment exceeds the total, or what it takes with it exceeds the average.
Cleared(t, u, amount) ==
    StableTotalSupply(t) <= amount \/ RemainingWeight(t, u, amount) <= 0

\* A wrong burn: the total is trusted to cover the repayment.
BurntUnclamped(t, u, amount) ==
    LET balance == StableBalanceOf(t, u)
        left    == StableTotalSupply(t) - amount
        all     == amount = balance
    IN  Written(t, u, balance - amount, IF all THEN 0 ELSE t.rate[u], IF all THEN 0 ELSE now,
                left, IF Cleared(t, u, amount) THEN 0
                      ELSE RayDiv(RemainingWeight(t, u, amount), WadToRay(left)))

\* burn: total and average rate are then set to zero.
Burnt(t, u, amount) ==
    LET balance == StableBalanceOf(t, u)
        left    == StableTotalSupply(t) - amount
        all     == amount = balance
        cleared == Cleared(t, u, amount)
    IN  Written(t, u, balance - amount, IF all THEN 0 ELSE t.rate[u], IF all THEN 0 ELSE now,
                IF cleared THEN 0 ELSE left,
                IF cleared THEN 0
                ELSE RayDiv(RemainingWeight(t, u, amount), WadToRay(left)))

\* The total that burn returns, which is the one of before the second clamp.
BurnReturns(t, amount) ==
    LET supply == StableTotalSupply(t)
    IN  IF supply <= amount THEN 0 ELSE supply - amount

\* A wrong rebalancing: the interest of the user stays at the old rate.
RebalancedOfPrincipal(t, u, rate) ==
    Minted(Burnt(t, u, t.principal[u]), u, t.principal[u], rate)

\* executeRebalanceStableBorrowRate: repay all of it and borrow it again.
Rebalanced(t, u, rate) ==
    Minted(Burnt(t, u, StableBalanceOf(t, u)), u, StableBalanceOf(t, u), rate)

-----------------------------------------------------------------------------

StableInit == now = 0 /\ stable = NoStableDebt

Mint(u, amount, rate) ==
    /\ StableBalanceOf(stable, u) + amount <= MaxStableBalance
    /\ stable' = Minted(stable, u, amount, rate)
    /\ UNCHANGED now

\* The Pool never burns more than the balance of the user, or nothing.
Burn(u, amount) ==
    /\ amount \in 1 .. StableBalanceOf(stable, u)
    /\ stable' = Burnt(stable, u, amount)
    /\ UNCHANGED now

\* Anybody may ask for it.  The condition on the reserve's liquidity rate is left
\* open; without a debt, the mint would divide by zero.
Rebalance(u, rate) ==
    /\ StableBalanceOf(stable, u) # 0
    /\ stable' = Rebalanced(stable, u, rate)
    /\ UNCHANGED now

Tick == now < MaxTime /\ now' = now + 1 /\ UNCHANGED stable

StableNext ==
    \/ \E u \in Borrowers, rate \in StableRates :
         \/ Rebalance(u, rate)
         \/ \E n \in Amounts : Mint(u, n, rate)
    \/ \E u \in Borrowers : \E n \in Amounts \cup {StableBalanceOf(stable, u)} : Burn(u, n)
    \/ Tick

StableSpec == StableInit /\ [][StableNext]_<<now, stable>>

-----------------------------------------------------------------------------
\* Type invariant.  The total is a natural number after every burn: the two
\* clamps of burn, and nothing else, keep its subtractions from underflowing,
\* so that a borrower can always repay although the total has drifted from the
\* sum of the debts.
StableTypeOK == now \in 0 .. MaxTime /\ stable \in StableTokens

\* A rebalance, which repays a debt and borrows it again, changes the rate of
\* the user and leaves what every borrower owes as it is.
RebalanceKeepsDebts ==
    [][\A u \in Borrowers, rate \in StableRates : Rebalance(u, rate) =>
          \A v \in Borrowers : StableBalanceOf(stable, v)' = StableBalanceOf(stable, v)]_<<now, stable>>

\* What burn returns is "The total stable debt", as IStableDebtToken says of
\* it, which BorrowLogic puts into the next interest rates.
BurnReturnsTotalSupply ==
    \A u \in Borrowers : \A n \in Amounts \cup {StableBalanceOf(stable, u)} :
        n \in 1 .. StableBalanceOf(stable, u) =>
            BurnReturns(stable, n) = StableTotalSupply(Burnt(stable, u, n))
=============================================================================
