------------------------------- MODULE MCPool -------------------------------
(***************************************************************************)
(* Small instances of module Pool for TLC, one of which is chosen in the   *)
(* initial state.  All of them use up to three reserves and two users: an  *)
(* LP with the asset to be borrowed, who is also the liquidator, and a     *)
(* borrower with collateral.  Percentages are in tenths                    *)
(* (PERCENTAGE_FACTOR = 10), health factors in hundredths.                 *)
(***************************************************************************)
EXTENDS Pool, TLC

CONSTANTS eth, usd, dai, fx, borrower, lp

\* A collateral and borrowable asset; the instances override some fields.
PlainReserve ==
    [ltv |-> 5, liquidationThreshold |-> 7, liquidationBonus |-> 11,
     liquidationProtocolFee |-> 0, unit |-> 1, debtCeilingUnit |-> 1,
     active |-> TRUE, frozen |-> FALSE, paused |-> FALSE,
     borrowingEnabled |-> TRUE, stableRateBorrowingEnabled |-> FALSE,
     borrowableInIsolation |-> FALSE, siloedBorrowing |-> FALSE,
     eModeCategory |-> 0,
     borrowCap |-> 0, supplyCap |-> 0, debtCeiling |-> 0]

NoReserve == [PlainReserve EXCEPT !.active = FALSE]

\* A category that was never configured: no user can enter it.
NoCategories ==
    [k \in Categories |-> [ltv |-> 0, liquidationThreshold |-> 0, liquidationBonus |-> 11,
                           priceSource |-> NoPriceSource]]

UnitPrices == [s \in Assets \cup PriceSources |-> 1]

\* The borrower holds eth, the lp usd.
TwoWallets(n, m) ==
    [a \in Assets |-> [u \in Users |->
        IF a = eth /\ u = borrower THEN n
        ELSE IF a = usd /\ u = lp THEN m ELSE 0]]

\* Who supplies for and sends to whom.
AnyRecipient == [u \in Users |-> Users \cup {ATokenAddress}]
UsersOnly == [u \in Users |-> Users]
LpToBorrower == [u \in Users |-> IF u = lp THEN Users ELSE {u}]

\* Credit delegation: the lp may borrow one usd on behalf of the borrower.
BorrowerDelegates ==
    {[delegator |-> borrower, delegatee |-> lp, asset |-> usd,
      mode |-> "VARIABLE", amount |-> 1]}

FixedPrices == [s \in Assets \cup PriceSources |-> {}]

\* Isolation: eth is isolated collateral with a debt ceiling of 1, the same
\* as 2 units of usd, which can be borrowed against it.
IsolationConfiguration ==
    (eth :> [PlainReserve EXCEPT !.debtCeiling = 1, !.borrowingEnabled = FALSE]) @@
    (usd :> [PlainReserve EXCEPT !.borrowableInIsolation = TRUE,
                                 !.debtCeilingUnit = 2]) @@
    (dai :> NoReserve)
IsolationWallet == TwoWallets(1, 2)
EthWorth4 == [s \in Assets \cup PriceSources |-> IF s = eth THEN 4 ELSE 1]
EthFalls == [s \in Assets \cup PriceSources |-> IF s = eth THEN {2, 4} ELSE {}]

\* Market: one eth, falling from 20 to 7, as collateral; one usd, worth 10,
\* to borrow; one dai, worth 1, that dilutes a position of eth.
MarketConfiguration ==
    (eth :> [PlainReserve EXCEPT !.borrowingEnabled = FALSE]) @@
    (usd :> [PlainReserve EXCEPT !.ltv = 0, !.liquidationThreshold = 0]) @@
    (dai :> [PlainReserve EXCEPT !.ltv = 3, !.liquidationThreshold = 6,
                                 !.borrowingEnabled = FALSE])
MarketWallet ==
    [a \in Assets |-> [u \in Users |-> IF (a = eth) = (u = borrower) THEN 1 ELSE 0]]
MarketPrice == (eth :> 20) @@ (usd :> 10) @@ UnitPrices
MarketPrices == (eth :> {7, 14, 20}) @@ FixedPrices

\* Liquidation: enough units for the rounding of bonus and fee to show; the
\* treasury gets half of the bonus, a usd has two units.
LiquidationConfiguration ==
    (eth :> [PlainReserve EXCEPT !.liquidationProtocolFee = 5,
                                 !.liquidationBonus = 15,
                                 !.liquidationThreshold = 6,
                                 !.borrowingEnabled = FALSE]) @@
    (usd :> [PlainReserve EXCEPT !.unit = 2, !.ltv = 0, !.liquidationThreshold = 0]) @@
    (dai :> NoReserve)
LiquidationWallet == TwoWallets(3, 3)
LiquidationPrice == (eth :> 2) @@ (usd :> 2) @@ UnitPrices
LiquidationPrices == (eth :> {1, 2}) @@ FixedPrices

\* Efficiency mode: usd and dai are of category 1, priced by its own source,
\* eth is not; dai is siloed, and the sequencer can be down.  One unit is
\* borrowed of any, against another; the caps stop loops of both.
EModeConfiguration ==
    (eth :> [PlainReserve EXCEPT !.supplyCap = 1]) @@
    (usd :> [PlainReserve EXCEPT !.eModeCategory = 1, !.supplyCap = 1]) @@
    (dai :> [PlainReserve EXCEPT !.eModeCategory = 1, !.siloedBorrowing = TRUE,
                                 !.ltv = 0, !.liquidationThreshold = 0,
                                 !.supplyCap = 1])
EModeCategory1 ==
    1 :> [ltv |-> 8, liquidationThreshold |-> 9, liquidationBonus |-> 11,
          priceSource |-> fx]
EModeWallet ==
    [a \in Assets |-> [u \in Users |-> IF (a = eth) = (u = borrower) THEN 1 ELSE 0]]
EModePrice == (eth :> 8) @@ (usd :> 2) @@ (dai :> 2) @@ (fx :> 2)
EModePrices == (eth :> {1, 8}) @@ (fx :> {2, 6}) @@ FixedPrices

-----------------------------------------------------------------------------

VARIABLE instance

\* bounds: what the users and the environment of an instance do.
MovesWith(amounts, recipients, delegations, prices, sentinelMoves) ==
    [amounts |-> amounts, recipients |-> recipients, delegations |-> delegations,
     prices |-> prices, sentinelMoves |-> sentinelMoves]

Instances ==
    [isolation   |-> MovesWith({1, 2}, AnyRecipient, {}, EthFalls, FALSE),
     market      |-> MovesWith({1}, UsersOnly, BorrowerDelegates, MarketPrices, FALSE),
     liquidation |-> MovesWith({1, 2}, LpToBorrower, {}, LiquidationPrices, FALSE),
     emode       |-> MovesWith({1}, LpToBorrower, {}, EModePrices, TRUE)]

Isolation == INSTANCE PoolStorage WITH
    InitConfiguration <- IsolationConfiguration, InitEModeCategories <- NoCategories,
    InitPrice <- EthWorth4, InitWallet <- IsolationWallet
Market == INSTANCE PoolStorage WITH
    InitConfiguration <- MarketConfiguration, InitEModeCategories <- NoCategories,
    InitPrice <- MarketPrice, InitWallet <- MarketWallet
Liquidation == INSTANCE PoolStorage WITH
    InitConfiguration <- LiquidationConfiguration, InitEModeCategories <- NoCategories,
    InitPrice <- LiquidationPrice, InitWallet <- LiquidationWallet
EMode == INSTANCE PoolStorage WITH
    InitConfiguration <- EModeConfiguration, InitEModeCategories <- EModeCategory1,
    InitPrice <- EModePrice, InitWallet <- EModeWallet

MCInit ==
    \/ instance = "isolation" /\ Isolation!Init
    \/ instance = "market" /\ Market!Init
    \/ instance = "liquidation" /\ Liquidation!Init
    \/ instance = "emode" /\ EMode!Init

\* Next of Pool within the bounds of the instance, and without interest.
UserSteps(b) ==
    \E u \in Users, a \in Assets :
        \/ \E v \in b.recipients[u] \ {ATokenAddress}, n \in b.amounts :
             Supply(u, v, a, n) \/ Transfer(u, v, a, n)
        \/ \E to \in b.recipients[u], n \in b.amounts \cup {MaxUint} : Withdraw(u, a, n, to)
        \/ \E use \in BOOLEAN : SetUserUseReserveAsCollateral(u, a, use)
        \/ \E v \in Users, n \in b.amounts : Borrow(v, u, a, n, "VARIABLE")
        \/ \E v \in Users, n \in b.amounts \cup {MaxUint} : Repay(v, u, a, n, "VARIABLE")
        \/ \E n \in b.amounts \cup {MaxUint} : RepayWithATokens(u, a, n, "VARIABLE")
        \/ \E l \in Users, c \in Assets, n \in b.amounts \cup {MaxUint}, r \in BOOLEAN :
             LiquidationCall(l, u, c, a, n, r)

OtherSteps(b) ==
    \/ \E d \in b.delegations :
         ApproveDelegation(d.delegator, d.delegatee, d.asset, d.mode, d.amount)
    \/ \E u \in Users, k \in Categories \cup {0} : SetUserEMode(u, k)
    \/ \E s \in Assets \cup PriceSources : \E q \in b.prices[s] : SetPrice(s, q)
    \/ b.sentinelMoves /\ SetSentinel

MCNext ==
    /\ UserSteps(Instances[instance]) \/ OtherSteps(Instances[instance])
    /\ UNCHANGED instance

MCSpec == MCInit /\ [][MCNext]_<<vars, instance>>
=============================================================================
