------------------------- MODULE MCPoolConfigurator -------------------------
(***************************************************************************)
(* Instances of PoolConfigurator: two reserves, weth with id 0 and usdc    *)
(* with id 1, an asset that is not listed, and two users with one unit of  *)
(* each.  The scope of a behaviour is the part of the system that moves:   *)
(* the interest of one reserve, or one group of the admin's calls.         *)
(***************************************************************************)
EXTENDS PoolConfigurator, TLC

CONSTANTS weth, usdc, dai, alice, bob

\* usdc at both rates, also against isolated collateral.
ListedConfiguration ==
    LET plain == [ltv |-> 9, liquidationThreshold |-> 9, liquidationBonus |-> 11,
                  liquidationProtocolFee |-> 0, unit |-> 1, debtCeilingUnit |-> 1,
                  active |-> TRUE, frozen |-> FALSE, paused |-> FALSE,
                  borrowingEnabled |-> TRUE, stableRateBorrowingEnabled |-> FALSE,
                  borrowableInIsolation |-> FALSE, siloedBorrowing |-> FALSE,
                  eModeCategory |-> 0,
                  borrowCap |-> 3, supplyCap |-> 3, debtCeiling |-> 0]
    IN  [r \in Assets |-> IF r = 0 THEN plain
                          ELSE [plain EXCEPT !.stableRateBorrowingEnabled = TRUE,
                                             !.borrowableInIsolation = TRUE]]
OneOfEach == [r \in Assets |-> [u \in Users |-> 1]]
PriceOne == [a \in Assets |-> 1]
NewCategories ==
    [k \in Categories |-> [ltv |-> 0, liquidationThreshold |-> 0, liquidationBonus |-> 11,
                           priceSource |-> NoPriceSource]]
WethAndUsdc == <<weth, usdc>>
UnderlyingPriceOne == [a \in Underlyings |-> 1]
OwnAccount == [u \in Users |-> {u}]
FixedPrices == [a \in Assets |-> {}]

VARIABLES
    scope,
    calls       \* how many calls the admin has made

\* bounds: who acts, the reserves used, the rate modes, the calls of the admin.
Scope(part, users, assets, modes, maxCalls) ==
    [part |-> part, users |-> users, assets |-> assets, modes |-> modes,
     calls |-> maxCalls]

Scopes ==
    {Scope("interest", Users, {1}, {"VARIABLE"}, 0),
     Scope("rates", Users, {1}, RateModes, 0),
     Scope("switches", Users, {1}, {"VARIABLE"}, 2),
     Scope("risk", Users, {1}, {"VARIABLE"}, 3)}
    \cup UNION {{Scope("listing", {u}, Assets, {"VARIABLE"}, 4),
                 Scope("ceilings", {u}, Assets, {"VARIABLE"}, 3),
                 Scope("drift", {u}, Assets, RateModes, 1),
                 Scope("siloed", {u}, Assets, RateModes, 3)} : u \in Users}

MCInit ==
    /\ ConfiguratorInit
    /\ scope \in Scopes
    /\ calls = 0

UserSteps(s) ==
    \E u \in s.users, a \in s.assets :
        \/ \E n \in Amounts : Supply(u, u, a, n)
        \/ \E v \in s.users, n \in Amounts : Transfer(u, v, a, n)
        \/ \E n \in Amounts \cup {MaxUint} :
             \/ Withdraw(u, a, n, u)
             \/ s.part \in {"listing", "drift"} /\ Withdraw(u, a, n, ATokenAddress)
        \/ \E k \in Categories \cup {0} : s.part = "risk" /\ SetUserEMode(u, k)
        \/ \E use \in BOOLEAN : SetUserUseReserveAsCollateral(u, a, use)
        \/ \E mode \in s.modes :
             \/ \E n \in Amounts : Borrow(u, u, a, n, mode)
             \/ \E v \in s.users, n \in Amounts \cup {MaxUint} :
                  /\ s.part = "rates" => v = u
                  /\ Repay(v, u, a, n, mode)
             \/ \E n \in Amounts \cup {MaxUint} : RepayWithATokens(u, a, n, mode)
             \/ SwapBorrowRateMode(u, a, mode)

\* bounds: the treasury has a part of the interest, or, where debts are to drift from
\* their total and the reserve is dropped, nothing; with debts at both rates,
\* everyone repays his own debts and liquidations are of one unit and in aTokens.
InterestSteps(s) ==
    \/ /\ s.part = "drift"
       /\ \E a \in s.assets : Accrue(a) /\ UNCHANGED <<liquidityIndex, accruedToTreasury>>
    \/ /\ s.part \in {"interest", "rates"}
       /\ \E a \in s.assets :
         \/ Accrue(a) /\ accruedToTreasury' # accruedToTreasury
         \/ MintToTreasury(a)
         \/ \E l, u \in s.users, n \in Amounts \cup {MaxUint}, r \in BOOLEAN :
              /\ s.part = "rates" => n # MaxUint /\ r
              /\ LiquidationCall(l, u, a, a, n, r)

ListingSteps ==
    \/ \E asset \in Underlyings : InitReserve(asset) \/ DropReserve(asset)
    \/ \E r \in Assets, active \in BOOLEAN : SetReserveActive(r, active)

CeilingSteps ==
    \/ \E r \in Assets, ceiling \in 0 .. 2 : SetDebtCeiling(r, ceiling)
    \/ \E r \in Assets, b \in BOOLEAN : SetBorrowableInIsolation(r, b)

SiloedSteps ==
    \/ \E r \in Assets, b \in BOOLEAN :
         \/ SetSiloedBorrowing(r, b)
         \/ SetReserveBorrowing(r, b)
         \/ SetReserveStableRateBorrowing(r, b)

SwitchSteps ==
    \/ \E r \in Assets, b \in BOOLEAN : SetReserveFreeze(r, b) \/ SetReservePause(r, b)
    \/ \E b \in BOOLEAN : SetPoolPause(b)
    \/ \E r \in Assets, n \in {0, 1} :
         SetBorrowCap(r, n) \/ SetSupplyCap(r, n) \/ SetLiquidationProtocolFee(r, n)

RiskSteps ==
    \/ \E r \in Assets, ltv \in {0, 5}, threshold \in {0, 5}, bonus \in {0, 11} :
         ConfigureReserveAsCollateral(r, ltv, threshold, bonus)
    \/ \E k \in Categories :
         \/ SetEModeCategory(k, [ltv |-> 9, liquidationThreshold |-> 9,
                                 liquidationBonus |-> 11, priceSource |-> NoPriceSource])
         \/ \E r \in Assets, j \in {0, k} : SetAssetEModeCategory(r, j)

DriftSteps ==
    \/ \E asset \in Underlyings : InitReserve(asset) \/ DropReserve(asset)
    \/ \E r \in Assets, b \in BOOLEAN : SetSiloedBorrowing(r, b)

BoundedAdminSteps(s) ==
    \/ s.part = "drift" /\ DriftSteps
    \/ s.part = "listing" /\ ListingSteps
    \/ s.part = "ceilings" /\ CeilingSteps
    \/ s.part = "siloed" /\ SiloedSteps
    \/ s.part = "switches" /\ SwitchSteps
    \/ s.part = "risk" /\ RiskSteps

MCNext ==
    /\ UNCHANGED scope
    /\ \/ /\ UserSteps(scope) \/ InterestSteps(scope)
          /\ StableTotalsFollow
          /\ UNCHANGED <<listings, calls>>
       \/ /\ calls < scope.calls /\ BoundedAdminSteps(scope)
          /\ calls' = calls + 1
          /\ UNCHANGED stableTotalIsZero

MCSpec == MCInit /\ [][MCNext]_<<configuratorVars, scope, calls>>

Symmetry == Permutations(Users)
=============================================================================
