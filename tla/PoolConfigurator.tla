-------------------------- MODULE PoolConfigurator --------------------------
(***************************************************************************)
(* Listing, dropping and configuring reserves while users hold positions:  *)
(* PoolConfigurator with the parts of PoolLogic, ReserveLogic and Pool it  *)
(* calls.  Each action is one call of an admin; which role may make it is  *)
(* left out, as every role is trusted with its own calls.                  *)
(*                                                                         *)
(* The bits of a user's configuration are positions in _reservesList, so   *)
(* here the Assets of module Pool are these positions, the reserve ids;    *)
(* the state Pool keeps per asset is that of the asset listed at the id.   *)
(* What users hold of an asset that is not listed is kept in `holdings`.   *)
(*                                                                         *)
(* The checks of the configurator read the total that a stable debt token  *)
(* stores, which is not the sum of its debts (module StableDebtToken).  Of *)
(* it, whether it is zero is all that they ask.                            *)
(***************************************************************************)
EXTENDS Pool, Sequences

CONSTANTS
    Underlyings,        \* the assets that may be listed
    NoUnderlying,       \* address(0)
    OraclePrice,        \* what the oracle reports for them
    InitReserves        \* the underlyings listed at first, by their ids

ASSUME ReserveIds ==
    /\ Assets # {} /\ IsFiniteSet(Assets)
    /\ Assets = 0 .. Cardinality(Assets) - 1    \* MAX_NUMBER_RESERVES of them
    /\ NoUnderlying \notin Underlyings
    /\ OraclePrice \in [Underlyings -> Nat \ {0}]

VARIABLES
    reservesList,       \* [Assets -> Underlyings or NoUnderlying]
    reservesCount,      \* ids in use, dropped ones included
    reserveId,          \* [Underlyings -> Assets]: 0 also when not listed
    initialized,        \* the underlyings with an aToken
    holdings,           \* wallets of the underlyings that are not listed
    stableTotalIsZero   \* the ids whose stable debt token has _totalSupply 0

listings == <<reservesList, reservesCount, reserveId, initialized, holdings>>

\* What an id without a reserve reads as: the mapping's zero value.
EmptyConfiguration ==
    [ltv |-> 0, liquidationThreshold |-> 0, liquidationBonus |-> 0,
     liquidationProtocolFee |-> 0, unit |-> 1, debtCeilingUnit |-> 1,
     active |-> FALSE, frozen |-> FALSE, paused |-> FALSE,
     borrowingEnabled |-> FALSE, stableRateBorrowingEnabled |-> FALSE,
     borrowableInIsolation |-> FALSE, siloedBorrowing |-> FALSE,
     eModeCategory |-> 0,
     borrowCap |-> 0, supplyCap |-> 0, debtCeiling |-> 0]

NothingHeld == [u \in Users |-> 0]

ASSUME InitialReserves ==
    /\ InitReserves \in Seq(Underlyings) /\ Len(InitReserves) <= Cardinality(Assets)
    /\ \A i, j \in DOMAIN InitReserves : InitReserves[i] = InitReserves[j] => i = j
    /\ \A r \in Assets :
         r >= Len(InitReserves) => InitConfiguration[r] = EmptyConfiguration

ListingTypeOK ==
    /\ reservesList \in [Assets -> Underlyings \cup {NoUnderlying}]
    /\ reservesCount \in Nat
    /\ reserveId \in [Underlyings -> Assets]
    /\ initialized \subseteq Underlyings
    /\ holdings \in [Underlyings -> [Users -> Nat]]
    /\ stableTotalIsZero \subseteq Assets

ConfiguratorInit ==
    /\ Init
    /\ reservesList = [r \in Assets |-> IF r < Len(InitReserves) THEN InitReserves[r + 1]
                                       ELSE NoUnderlying]
    /\ reservesCount = Len(InitReserves)
    /\ reserveId = [a \in Underlyings |->
          IF \E r \in Assets : reservesList[r] = a
          THEN CHOOSE r \in Assets : reservesList[r] = a ELSE 0]
    /\ initialized = {a \in Underlyings : \E r \in Assets : reservesList[r] = a}
    /\ holdings = [a \in Underlyings |-> NothingHeld]
    /\ stableTotalIsZero = Assets

-----------------------------------------------------------------------------
(* StableDebtToken._totalSupply, under the operations of the users         *)

\* mint adds to the total, so that it is not zero.  burn may set it to zero while
\* others, or the borrower itself, still owe: total and average rate drift from the
\* debts, and which repayments exceed them is left open.  For the same reason
\* something may be left of it when nobody owes.  Interest on nothing is nothing.
StableTotalsFollow ==
    LET Minted(r) == \E u \in Users : stableDebt'[r][u] > stableDebt[r][u]
        Burnt(r)  == \E u \in Users : stableDebt'[r][u] < stableDebt[r][u]
    IN  IF \E r \in Assets : Accrue(r) THEN UNCHANGED stableTotalIsZero
        ELSE \E cleared \in SUBSET {r \in Assets : Burnt(r)} :
               stableTotalIsZero' =
                 (stableTotalIsZero \ {r \in Assets : Minted(r)}) \cup cleared

-----------------------------------------------------------------------------
(* initReserves and dropReserve                                            *)

IsListed(asset) == reserveId[asset] # 0 \/ reservesList[0] = asset

\* The first id that a dropped reserve has left, or a new one.
FreeIds == {i \in Assets : i <= reservesCount /\ reservesList[i] = NoUnderlying}

\* ConfiguratorLogic.executeInitReserve for one asset, with the tokens it
\* deploys: PoolLogic.executeInitReserve, ReserveLogic.init, and a
\* configuration that is active and nothing else.
InitReserve(asset) ==
    /\ asset \notin initialized
    /\ ~IsListed(asset)
    /\ \E i \in FreeIds :
         /\ \A j \in FreeIds : i <= j
         /\ reservesList' = [reservesList EXCEPT ![i] = asset]
         /\ reserveId' = [reserveId EXCEPT ![asset] = i]
         /\ reservesCount' = IF i = reservesCount THEN reservesCount + 1 ELSE reservesCount
         /\ configuration' =
              [configuration EXCEPT ![i] = [EmptyConfiguration EXCEPT !.active = TRUE]]
         /\ price' = [price EXCEPT ![i] = OraclePrice[asset]]
         /\ wallet' = [wallet EXCEPT ![i] = holdings[asset]]
    /\ initialized' = initialized \cup {asset}
    /\ holdings' = [holdings EXCEPT ![asset] = NothingHeld]
    /\ UNCHANGED <<tokens, usersConfig, isolationModeTotalDebt, liquidity, indices,
                   sentinelUp, eModeCategories>>

\* Mutant: debts are not looked at, as no debt seems to outlive the supply.
ValidateDropReserveOfSupply(r) ==
    ScaledTotalSupply(r) = 0 /\ accruedToTreasury[r] = 0

\* The three tokens report no supply and the treasury has no claim.
ValidateDropReserve(r) ==
    /\ r \in stableTotalIsZero
    /\ SumFunction(variableDebt[r]) = 0
    /\ ScaledTotalSupply(r) = 0 /\ accruedToTreasury[r] = 0

\* The storage of the reserve is deleted and with it the way to its tokens, the
\* bits of the users are not.  Underlying that nobody claims stays in the old
\* aToken, and stable debts that its total does not show in the old debt token.
DeleteReserve(asset, r) ==
    /\ reserveId' = [reserveId EXCEPT ![asset] = 0]
    /\ initialized' = initialized \ {asset}
    /\ configuration' = [configuration EXCEPT ![r] = EmptyConfiguration]
    /\ isolationModeTotalDebt' = [isolationModeTotalDebt EXCEPT ![r] = 0]
    /\ liquidityIndex' = [liquidityIndex EXCEPT ![r] = RAY]
    /\ variableBorrowIndex' = [variableBorrowIndex EXCEPT ![r] = RAY]
    /\ borrowAllowance' = [borrowAllowance EXCEPT ![r] =
                              [m \in RateModes |-> [u \in Users |-> NothingHeld]]]
    /\ liquidity' = [liquidity EXCEPT ![r] = 0]
    /\ stableDebt' = [stableDebt EXCEPT ![r] = NothingHeld]
    /\ wallet' = [wallet EXCEPT ![r] = NothingHeld]
    /\ holdings' = [holdings EXCEPT ![asset] = wallet[r]]
    /\ UNCHANGED <<reservesCount, aTokenBalance, variableDebt, usersConfig,
                   accruedToTreasury, oracles, eModeCategories>>

\* Mutant: the id is read after the storage of the reserve is deleted.
DropReserveByDeletedId(asset) ==
    LET r == reserveId[asset]
    IN  /\ IsListed(asset)
        /\ ValidateDropReserve(r)
        /\ reservesList' = [reservesList EXCEPT ![0] = NoUnderlying]
        /\ DeleteReserve(asset, r)

\* PoolLogic.executeDropReserve.
DropReserve(asset) ==
    LET r == reserveId[asset]
    IN  /\ IsListed(asset)
        /\ ValidateDropReserve(r)
        /\ reservesList' = [reservesList EXCEPT ![r] = NoUnderlying]
        /\ DeleteReserve(asset, r)

-----------------------------------------------------------------------------
(* The setters: read the configuration of a reserve, check, write it back. *)

NoSuppliers(r) ==
    RayMul(ScaledTotalSupply(r), liquidityIndex[r]) = 0 /\ accruedToTreasury[r] = 0

\* Mutant: the stable debt is left out of the total.
NoVariableBorrowers(r) == SumFunction(variableDebt[r]) = 0

\* getTotalDebt: the totals that the two debt tokens report.
NoBorrowers(r) ==
    /\ r \in stableTotalIsZero
    /\ RayMul(SumFunction(variableDebt[r]), variableBorrowIndex[r]) = 0

\* Pool.setConfiguration accepts listed reserves only.
SetConfiguration(r, config) ==
    /\ reservesList[r] # NoUnderlying
    /\ configuration' = [configuration EXCEPT ![r] = config]
    /\ UNCHANGED <<tokens, usersConfig, underlying, indices, oracles, eModeCategories,
                   listings>>

Configure(r, config) ==
    SetConfiguration(r, config) /\ UNCHANGED isolationModeTotalDebt

SetReserveActive(r, active) ==
    /\ ~active => NoSuppliers(r)
    /\ Configure(r, [configuration[r] EXCEPT !.active = active])

SetReserveFreeze(r, freeze) == Configure(r, [configuration[r] EXCEPT !.frozen = freeze])

SetReservePause(r, paused) == Configure(r, [configuration[r] EXCEPT !.paused = paused])

\* Every reserve that is listed, in one transaction.
SetPoolPause(paused) ==
    /\ configuration' = [r \in Assets |->
          IF reservesList[r] = NoUnderlying THEN configuration[r]
          ELSE [configuration[r] EXCEPT !.paused = paused]]
    /\ UNCHANGED <<tokens, usersConfig, isolationModeTotalDebt, underlying, indices,
                   oracles, eModeCategories, listings>>

SetReserveBorrowing(r, enabled) ==
    /\ ~enabled => ~configuration[r].stableRateBorrowingEnabled
    /\ Configure(r, [configuration[r] EXCEPT !.borrowingEnabled = enabled])

SetReserveStableRateBorrowing(r, enabled) ==
    /\ enabled => configuration[r].borrowingEnabled
    /\ Configure(r, [configuration[r] EXCEPT !.stableRateBorrowingEnabled = enabled])

SetBorrowableInIsolation(r, borrowable) ==
    Configure(r, [configuration[r] EXCEPT !.borrowableInIsolation = borrowable])

SetBorrowCap(r, cap) == Configure(r, [configuration[r] EXCEPT !.borrowCap = cap])

SetSupplyCap(r, cap) == Configure(r, [configuration[r] EXCEPT !.supplyCap = cap])

SetLiquidationProtocolFee(r, fee) ==
    /\ fee <= PERCENTAGE_FACTOR
    /\ Configure(r, [configuration[r] EXCEPT !.liquidationProtocolFee = fee])

\* A threshold of zero takes the reserve out of use as collateral.
ConfigureReserveAsCollateral(r, ltv, threshold, bonus) ==
    /\ ltv <= threshold
    /\ threshold # 0 => /\ bonus > PERCENTAGE_FACTOR
                        /\ PercentMul(threshold, bonus) <= PERCENTAGE_FACTOR
    /\ threshold = 0 => bonus = 0 /\ NoSuppliers(r)
    /\ Configure(r, [configuration[r] EXCEPT !.ltv = ltv,
                                             !.liquidationThreshold = threshold,
                                             !.liquidationBonus = bonus])

\* Mutant: the count stays when the ceiling is taken away.
ResetNothing(r, ceiling) == isolationModeTotalDebt

\* resetIsolationModeTotalDebt, called when the ceiling is taken away.
ResetIsolationModeTotalDebt(r, ceiling) ==
    [isolationModeTotalDebt EXCEPT ![r] = IF ceiling = 0 THEN 0 ELSE @]

\* A ceiling is introduced only while nobody supplies the asset.
SetDebtCeiling(r, ceiling) ==
    /\ configuration[r].debtCeiling = 0 => NoSuppliers(r)
    /\ SetConfiguration(r, [configuration[r] EXCEPT !.debtCeiling = ceiling])
    /\ isolationModeTotalDebt' = ResetIsolationModeTotalDebt(r, ceiling)

SetSiloedBorrowing(r, siloed) ==
    /\ siloed => NoBorrowers(r)
    /\ Configure(r, [configuration[r] EXCEPT !.siloedBorrowing = siloed])

\* The parameters of a category are above those of the reserves in it.
SetEModeCategory(k, category) ==
    /\ category.ltv # 0 /\ category.ltv <= category.liquidationThreshold
    /\ category.liquidationBonus > PERCENTAGE_FACTOR
    /\ PercentMul(category.liquidationThreshold, category.liquidationBonus)
         <= PERCENTAGE_FACTOR
    /\ \A r \in Assets :
         reservesList[r] # NoUnderlying /\ configuration[r].eModeCategory = k =>
            /\ category.ltv > configuration[r].ltv
            /\ category.liquidationThreshold > configuration[r].liquidationThreshold
    /\ eModeCategories' = [eModeCategories EXCEPT ![k] = category]
    /\ UNCHANGED <<tokens, usersConfig, isolationModeTotalDebt, underlying, indices,
                   oracles, configuration, listings>>

SetAssetEModeCategory(r, k) ==
    /\ k # 0 => eModeCategories[k].liquidationThreshold
                  > configuration[r].liquidationThreshold
    /\ Configure(r, [configuration[r] EXCEPT !.eModeCategory = k])

-----------------------------------------------------------------------------

AdminSteps ==
    \/ \E asset \in Underlyings : InitReserve(asset) \/ DropReserve(asset)
    \/ \E r \in Assets, b \in BOOLEAN :
         \/ SetReserveActive(r, b) \/ SetReserveFreeze(r, b) \/ SetReservePause(r, b)
         \/ SetReserveBorrowing(r, b) \/ SetReserveStableRateBorrowing(r, b)
         \/ SetBorrowableInIsolation(r, b) \/ SetSiloedBorrowing(r, b)
    \/ \E b \in BOOLEAN : SetPoolPause(b)
    \/ \E r \in Assets, n \in Nat :
         \/ SetBorrowCap(r, n) \/ SetSupplyCap(r, n)
         \/ SetLiquidationProtocolFee(r, n) \/ SetDebtCeiling(r, n)
    \/ \E r \in Assets, ltv, threshold, bonus \in Nat :
         ConfigureReserveAsCollateral(r, ltv, threshold, bonus)
    \/ \E k \in Categories :
          \E category \in [ltv : Nat, liquidationThreshold : Nat, liquidationBonus : Nat,
                          priceSource : Assets \cup PriceSources \cup {NoPriceSource}] :
             SetEModeCategory(k, category)
    \/ \E r \in Assets, k \in Categories \cup {0} : SetAssetEModeCategory(r, k)

ConfiguratorNext ==
    \/ AdminSteps /\ UNCHANGED stableTotalIsZero
    \/ Next /\ UNCHANGED listings /\ StableTotalsFollow

configuratorVars == <<vars, listings, stableTotalIsZero>>

ConfiguratorSpec == ConfiguratorInit /\ [][ConfiguratorNext]_configuratorVars

-----------------------------------------------------------------------------
(* Safety.                                                                 *)

\* The list, the ids and the tokens tell of the same reserves, although the id
\* of the first one is also that of every asset that is not listed, and ids
\* are used again: each listed asset is found under its own id, once, and
\* there is nothing beyond the count.
ListingConsistent ==
    /\ \A asset \in Underlyings :
         IF asset \in initialized THEN reservesList[reserveId[asset]] = asset
         ELSE reserveId[asset] = 0 /\ \A r \in Assets : reservesList[r] # asset
    /\ \A r \in Assets :
         reservesList[r] # NoUnderlying =>
            r < reservesCount /\ reserveId[reservesList[r]] = r

\* Nobody's claims and no variable debts are left in a reserve that is gone, and no
\* claim in one that is switched off.  Debts can be left without supply: withdrawing
\* to the aToken itself burns aTokens and moves nothing.  (Stable debts that the
\* total of their token does not show are lost with the token.)
ClaimsInReserves ==
    \A r \in Assets :
        /\ ScaledTotalSupply(r) # 0 \/ accruedToTreasury[r] # 0 => configuration[r].active
        /\ SumFunction(variableDebt[r]) # 0 => reservesList[r] # NoUnderlying

\* A user comes to owe a siloed asset beside another one in no way but this: the
\* asset is made siloed while the user owes it at the stable rate, and the total
\* that _checkNoBorrowers reads is zero all the same.  However debts are borrowed,
\* repaid and swapped from then on, and however bits outlive debts and reserves,
\* nobody else does.
SiloedBorrowingKept ==
    [][\A u \in Users, a \in Assets :
         SiloedAlone(u, a) /\ ~SiloedAlone(u, a)' =>
             /\ ~configuration[a].siloedBorrowing
             /\ stableDebt[a][u] # 0 /\ a \in stableTotalIsZero]_configuratorVars

\* Debt is counted only against an asset with a ceiling: whatever ceilings an
\* asset has had and whoever owed under them, a new one starts from zero.
CountedUnderACeiling ==
    \A r \in Assets :
        isolationModeTotalDebt[r] # 0 => configuration[r].debtCeiling # 0
=============================================================================
