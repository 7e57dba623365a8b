----------------------- MODULE PoolConfigurator_proofs -----------------------
(***************************************************************************)
(* The safety invariants of PoolConfigurator: those of the listing, and    *)
(* those of Pool that hold however the admin configures the reserves.      *)
(*                                                                         *)
(* They need one another.  That nothing is claimed in a reserve which is   *)
(* gone follows from the guards of dropReserve and setReserveActive only   *)
(* because an id without a reserve reads as a configuration that is not    *)
(* active, so that no operation of the users gets through to it.           *)
(***************************************************************************)
EXTENDS PoolConfigurator, Pool_proofs

\* The storage of a dropped reserve is deleted.
UnlistedIsEmpty ==
    \A r \in Assets : reservesList[r] = NoUnderlying => configuration[r] = EmptyConfiguration

IInv ==
    /\ TypeOK /\ ListingTypeOK
    /\ Covered
    /\ DebtImpliesBorrowingFlag
    /\ ListingConsistent /\ UnlistedIsEmpty
    /\ ClaimsInReserves /\ CountedUnderACeiling

-----------------------------------------------------------------------------
(* What the setters write.                                                 *)

\* What an unlisted id reads as is a configuration, and so is that of a new reserve.
LEMMA EmptyConfigurationType ==
    /\ EmptyConfiguration \in ReserveConfigurations
    /\ [EmptyConfiguration EXCEPT !.active = TRUE] \in ReserveConfigurations
<1>1. PERCENTAGE_FACTOR \in Nat
  BY ScalesAreEven
<1>2. EmptyConfiguration \in ReserveConfigurations
  BY <1>1 DEF EmptyConfiguration, ReserveConfigurations, ReserveConfigurationMap
<1> HIDE DEF EmptyConfiguration
<1>3. [EmptyConfiguration EXCEPT !.active = TRUE] \in ReserveConfigurations
  BY <1>2 DEF ReserveConfigurations, ReserveConfigurationMap
<1> QED
  BY <1>2, <1>3

\* The fields of a configuration that the invariants look at.
SameUse(c, d) ==
    /\ d.active = c.active
    /\ d.siloedBorrowing = c.siloedBorrowing
    /\ d.debtCeiling = c.debtCeiling

\* Setting a flag leaves a configuration, with the same activity, silo and ceiling.
LEMMA FlagsWritten ==
    ASSUME NEW c \in ReserveConfigurations, NEW b \in BOOLEAN
    PROVE  /\ [c EXCEPT !.frozen = b] \in ReserveConfigurations
           /\ SameUse(c, [c EXCEPT !.frozen = b])
           /\ [c EXCEPT !.paused = b] \in ReserveConfigurations
           /\ SameUse(c, [c EXCEPT !.paused = b])
           /\ [c EXCEPT !.borrowingEnabled = b] \in ReserveConfigurations
           /\ SameUse(c, [c EXCEPT !.borrowingEnabled = b])
           /\ [c EXCEPT !.stableRateBorrowingEnabled = b] \in ReserveConfigurations
           /\ SameUse(c, [c EXCEPT !.stableRateBorrowingEnabled = b])
           /\ [c EXCEPT !.borrowableInIsolation = b] \in ReserveConfigurations
           /\ SameUse(c, [c EXCEPT !.borrowableInIsolation = b])
  BY DEF ReserveConfigurations, ReserveConfigurationMap, SameUse

\* So does setting a cap or the protocol fee.
LEMMA NumbersWritten ==
    ASSUME NEW c \in ReserveConfigurations, NEW n \in Nat
    PROVE  /\ [c EXCEPT !.borrowCap = n] \in ReserveConfigurations
           /\ SameUse(c, [c EXCEPT !.borrowCap = n])
           /\ [c EXCEPT !.supplyCap = n] \in ReserveConfigurations
           /\ SameUse(c, [c EXCEPT !.supplyCap = n])
           /\ n <= PERCENTAGE_FACTOR =>
                /\ [c EXCEPT !.liquidationProtocolFee = n] \in ReserveConfigurations
                /\ SameUse(c, [c EXCEPT !.liquidationProtocolFee = n])
           /\ n \in Categories \cup {0} =>
                /\ [c EXCEPT !.eModeCategory = n] \in ReserveConfigurations
                /\ SameUse(c, [c EXCEPT !.eModeCategory = n])
  BY DEF ReserveConfigurations, ReserveConfigurationMap, SameUse

\* So do the collateral parameters.
LEMMA CollateralWritten ==
    ASSUME NEW c \in ReserveConfigurations, NEW ltv \in Nat, NEW threshold \in Nat,
           NEW bonus \in Nat, ltv <= threshold,
           threshold # 0 => bonus > PERCENTAGE_FACTOR
    PROVE  LET d == [c EXCEPT !.ltv = ltv, !.liquidationThreshold = threshold,
                              !.liquidationBonus = bonus]
           IN  d \in ReserveConfigurations /\ SameUse(c, d)
  BY DEF ReserveConfigurations, ReserveConfigurationMap, SameUse

\* A new ceiling changes neither activity nor silo.
LEMMA CeilingWritten ==
    ASSUME NEW c \in ReserveConfigurations, NEW n \in Nat
    PROVE  /\ [c EXCEPT !.debtCeiling = n] \in ReserveConfigurations
           /\ [c EXCEPT !.debtCeiling = n].active = c.active
           /\ [c EXCEPT !.debtCeiling = n].siloedBorrowing = c.siloedBorrowing
           /\ [c EXCEPT !.debtCeiling = n].debtCeiling = n
  BY DEF ReserveConfigurations, ReserveConfigurationMap

-----------------------------------------------------------------------------
(* What a setter changes of a reserve, whichever it is.                    *)

Rewritten(r) ==
    LET c == configuration[r]
        d == configuration'[r]
    IN  /\ reservesList[r] = NoUnderlying => d = c
        /\ c.active /\ ~d.active => NoSuppliers(r)
        /\ ~c.siloedBorrowing /\ d.siloedBorrowing => NoBorrowers(r)
        /\ \/ /\ isolationModeTotalDebt'[r] = isolationModeTotalDebt[r]
              /\ d.debtCeiling = c.debtCeiling
           \/ isolationModeTotalDebt'[r] # 0 => d.debtCeiling # 0

Reconfiguration ==
    /\ UNCHANGED <<tokens, usersConfig, underlying, indices, oracles, listings>>
    /\ configuration' \in [Assets -> ReserveConfigurations]
    /\ eModeCategories' \in [Categories -> EModeCategories]
    /\ isolationModeTotalDebt' \in [Assets -> Nat]
    /\ \A r \in Assets : Rewritten(r)

\* A setter of one reserve, given what it writes.
LEMMA ConfigureReconfigures ==
    ASSUME TypeOK, NEW r \in Assets, NEW d \in ReserveConfigurations, Configure(r, d),
           configuration[r].active /\ ~d.active => NoSuppliers(r),
           ~configuration[r].siloedBorrowing /\ d.siloedBorrowing => NoBorrowers(r),
           d.debtCeiling = configuration[r].debtCeiling
    PROVE  Reconfiguration
<1>1. /\ configuration \in [Assets -> ReserveConfigurations]
      /\ eModeCategories \in [Categories -> EModeCategories]
      /\ isolationModeTotalDebt \in [Assets -> Nat]
  BY DEF TypeOK
<1>2. /\ reservesList[r] # NoUnderlying
      /\ configuration' = [configuration EXCEPT ![r] = d]
      /\ UNCHANGED <<tokens, usersConfig, underlying, indices, oracles, eModeCategories,
                     listings, isolationModeTotalDebt>>
  BY DEF Configure, SetConfiguration
<1>3. ASSUME NEW x \in Assets PROVE Rewritten(x)
  <2>1. configuration'[x] = IF x = r THEN d ELSE configuration[x]
    BY <1>1, <1>2
  <2> QED
    BY <1>2, <2>1 DEF Rewritten
<1> QED
  BY <1>1, <1>2, <1>3 DEF Reconfiguration

\* A write that keeps activity, silo and ceiling is a reconfiguration.
LEMMA SameUseReconfigures ==
    ASSUME TypeOK, NEW r \in Assets, NEW d \in ReserveConfigurations, Configure(r, d),
           SameUse(configuration[r], d)
    PROVE  Reconfiguration
  BY ConfigureReconfigures DEF SameUse

\* Each setter of a flag.
LEMMA SettersOfOneReconfigure ==
    ASSUME TypeOK, NEW r \in Assets, NEW b \in BOOLEAN,
           \/ SetReserveActive(r, b) \/ SetReserveFreeze(r, b) \/ SetReservePause(r, b)
           \/ SetReserveBorrowing(r, b) \/ SetReserveStableRateBorrowing(r, b)
           \/ SetBorrowableInIsolation(r, b) \/ SetSiloedBorrowing(r, b)
    PROVE  Reconfiguration
<1>1. configuration[r] \in ReserveConfigurations
  BY DEF TypeOK
<1>2. CASE SetReserveActive(r, b)
  <2> DEFINE d == [configuration[r] EXCEPT !.active = b]
  <2>1. /\ d \in ReserveConfigurations /\ d.debtCeiling = configuration[r].debtCeiling
        /\ d.active = b
        /\ d.siloedBorrowing = configuration[r].siloedBorrowing
    BY <1>1 DEF ReserveConfigurations, ReserveConfigurationMap
  <2>2. Configure(r, d) /\ (~b => NoSuppliers(r))
    BY <1>2 DEF SetReserveActive
  <2> HIDE DEF d
  <2> QED
    BY <2>1, <2>2, ConfigureReconfigures
<1>3. CASE SetSiloedBorrowing(r, b)
  <2> DEFINE d == [configuration[r] EXCEPT !.siloedBorrowing = b]
  <2>1. /\ d \in ReserveConfigurations /\ d.debtCeiling = configuration[r].debtCeiling
        /\ d.active = configuration[r].active
        /\ d.siloedBorrowing = b
    BY <1>1 DEF ReserveConfigurations, ReserveConfigurationMap
  <2>2. Configure(r, d) /\ (b => NoBorrowers(r))
    BY <1>3 DEF SetSiloedBorrowing
  <2> HIDE DEF d
  <2> QED
    BY <2>1, <2>2, ConfigureReconfigures
<1>4. CASE SetReserveFreeze(r, b)
  BY <1>1, <1>4, FlagsWritten, SameUseReconfigures DEF SetReserveFreeze
<1>5. CASE SetReservePause(r, b)
  BY <1>1, <1>5, FlagsWritten, SameUseReconfigures DEF SetReservePause
<1>6. CASE SetReserveBorrowing(r, b)
  BY <1>1, <1>6, FlagsWritten, SameUseReconfigures DEF SetReserveBorrowing
<1>7. CASE SetReserveStableRateBorrowing(r, b)
  BY <1>1, <1>7, FlagsWritten, SameUseReconfigures DEF SetReserveStableRateBorrowing
<1>8. CASE SetBorrowableInIsolation(r, b)
  BY <1>1, <1>8, FlagsWritten, SameUseReconfigures DEF SetBorrowableInIsolation
<1> QED
  BY <1>2, <1>3, <1>4, <1>5, <1>6, <1>7, <1>8

\* Each setter of a number.
LEMMA NumberSettersReconfigure ==
    ASSUME TypeOK, NEW r \in Assets, NEW n \in Nat,
           \/ SetBorrowCap(r, n) \/ SetSupplyCap(r, n)
           \/ SetLiquidationProtocolFee(r, n) \/ SetDebtCeiling(r, n)
           \/ n \in Categories \cup {0} /\ SetAssetEModeCategory(r, n)
    PROVE  Reconfiguration
<1>1. configuration[r] \in ReserveConfigurations
  BY DEF TypeOK
<1>2. CASE SetBorrowCap(r, n)
  BY <1>1, <1>2, NumbersWritten, SameUseReconfigures DEF SetBorrowCap
<1>3. CASE SetSupplyCap(r, n)
  BY <1>1, <1>3, NumbersWritten, SameUseReconfigures DEF SetSupplyCap
<1>4. CASE SetLiquidationProtocolFee(r, n)
  BY <1>1, <1>4, NumbersWritten, SameUseReconfigures DEF SetLiquidationProtocolFee
<1>5. CASE n \in Categories \cup {0} /\ SetAssetEModeCategory(r, n)
  BY <1>1, <1>5, NumbersWritten, SameUseReconfigures DEF SetAssetEModeCategory
<1>6. CASE SetDebtCeiling(r, n)
  <2> DEFINE d == [configuration[r] EXCEPT !.debtCeiling = n]
  <2>1. /\ configuration \in [Assets -> ReserveConfigurations]
        /\ eModeCategories \in [Categories -> EModeCategories]
        /\ isolationModeTotalDebt \in [Assets -> Nat]
    BY DEF TypeOK
  <2>2. /\ d \in ReserveConfigurations /\ d.active = configuration[r].active
        /\ d.siloedBorrowing = configuration[r].siloedBorrowing /\ d.debtCeiling = n
    BY <1>1, CeilingWritten
  <2>3. /\ reservesList[r] # NoUnderlying
        /\ configuration' = [configuration EXCEPT ![r] = d]
        /\ isolationModeTotalDebt' = [isolationModeTotalDebt EXCEPT ![r] =
                                        IF n = 0 THEN 0 ELSE @]
        /\ UNCHANGED <<tokens, usersConfig, underlying, indices, oracles, eModeCategories,
                       listings>>
    BY <1>6 DEF SetDebtCeiling, SetConfiguration, ResetIsolationModeTotalDebt
  <2> HIDE DEF d
  <2>4. ASSUME NEW x \in Assets PROVE Rewritten(x)
    <3>1. /\ configuration'[x] = IF x = r THEN d ELSE configuration[x]
          /\ isolationModeTotalDebt'[x] = IF x = r /\ n = 0 THEN 0
                                          ELSE isolationModeTotalDebt[x]
      BY <2>1, <2>3
    <3> QED
      BY <2>2, <2>3, <3>1 DEF Rewritten
  <2>5. isolationModeTotalDebt' \in [Assets -> Nat]
    BY <2>1, <2>3
  <2> QED
    BY <2>1, <2>2, <2>3, <2>4, <2>5 DEF Reconfiguration
<1> QED
  BY <1>2, <1>3, <1>4, <1>5, <1>6

\* The setter of the collateral parameters.
LEMMA CollateralSetterReconfigures ==
    ASSUME TypeOK, NEW r \in Assets, NEW ltv \in Nat, NEW threshold \in Nat,
           NEW bonus \in Nat, ConfigureReserveAsCollateral(r, ltv, threshold, bonus)
    PROVE  Reconfiguration
<1>1. configuration[r] \in ReserveConfigurations
  BY DEF TypeOK
<1> QED
  BY <1>1, CollateralWritten, SameUseReconfigures DEF ConfigureReserveAsCollateral

\* The pause of all reserves.
LEMMA PoolPauseReconfigures ==
    ASSUME TypeOK, NEW b \in BOOLEAN, SetPoolPause(b)
    PROVE  Reconfiguration
<1>1. /\ configuration \in [Assets -> ReserveConfigurations]
      /\ eModeCategories \in [Categories -> EModeCategories]
      /\ isolationModeTotalDebt \in [Assets -> Nat]
  BY DEF TypeOK
<1>2. /\ configuration' = [r \in Assets |->
           IF reservesList[r] = NoUnderlying THEN configuration[r]
           ELSE [configuration[r] EXCEPT !.paused = b]]
      /\ UNCHANGED <<tokens, usersConfig, isolationModeTotalDebt, underlying, indices,
                     oracles, eModeCategories, listings>>
  BY DEF SetPoolPause
<1>3. ASSUME NEW x \in Assets
      PROVE  configuration'[x] \in ReserveConfigurations /\ Rewritten(x)
  <2>1. configuration[x] \in ReserveConfigurations
    BY <1>1
  <2>2. SameUse(configuration[x], configuration'[x])
    BY <1>2, <2>1, FlagsWritten DEF SameUse
  <2> QED
    BY <1>2, <2>1, <2>2, FlagsWritten DEF SameUse, Rewritten
<1> QED
  BY <1>1, <1>2, <1>3 DEF Reconfiguration

\* The setter of a category.
LEMMA CategorySetterReconfigures ==
    ASSUME TypeOK, NEW k \in Categories,
           NEW category \in [ltv : Nat, liquidationThreshold : Nat, liquidationBonus : Nat,
                             priceSource : Assets \cup PriceSources \cup {NoPriceSource}],
           SetEModeCategory(k, category)
    PROVE  Reconfiguration
<1>1. /\ configuration \in [Assets -> ReserveConfigurations]
      /\ eModeCategories \in [Categories -> EModeCategories]
      /\ isolationModeTotalDebt \in [Assets -> Nat]
  BY DEF TypeOK
<1>2. /\ category \in EModeCategories
      /\ eModeCategories' = [eModeCategories EXCEPT ![k] = category]
      /\ UNCHANGED <<tokens, usersConfig, isolationModeTotalDebt, underlying, indices,
                     oracles, configuration, listings>>
  BY DEF SetEModeCategory, EModeCategories
<1>3. \A r \in Assets : Rewritten(r)
  BY <1>2 DEF Rewritten
<1> QED
  BY <1>1, <1>2, <1>3 DEF Reconfiguration

-----------------------------------------------------------------------------
(* What the admin's calls keep.                                            *)

\* Without a total of either kind only a stable debt can be left.
LEMMA NoBorrowersNoDebts ==
    ASSUME TypeOK, NEW r \in Assets, NoBorrowers(r), NEW u \in Users
    PROVE  r \in stableTotalIsZero /\ variableDebt[r][u] = 0
<1>1. /\ variableDebt[r] \in [Users -> Nat]
      /\ variableBorrowIndex[r] \in Nat /\ variableBorrowIndex[r] >= RAY
  BY IndexFacts DEF TypeOK
<1> DEFINE v == SumFunction(variableDebt[r])
           w == RayMul(v, variableBorrowIndex[r])
<1>2. v \in Nat
  BY SheetTypes
<1>3. w \in Nat /\ w >= v
  BY <1>1, <1>2, RayMulType, RayMulGrows
<1>4. r \in stableTotalIsZero /\ w = 0
  BY DEF NoBorrowers
<1> HIDE DEF v, w
<1>5. v = 0
  BY <1>2, <1>3, <1>4
<1>6. variableDebt[r][u] <= v
  BY <1>1, UsersAreFinite, TotalBounds DEF v
<1>7. variableDebt[r][u] \in Nat
  BY <1>1
<1> QED
  BY <1>4, <1>5, <1>6, <1>7

\* Nor is anything supplied when the supply is zero with its interest.
LEMMA NoSuppliersNoClaims ==
    ASSUME TypeOK, NEW r \in Assets, NoSuppliers(r)
    PROVE  ScaledTotalSupply(r) = 0 /\ accruedToTreasury[r] = 0
<1>1. /\ ScaledTotalSupply(r) \in Nat
      /\ liquidityIndex[r] \in Nat /\ liquidityIndex[r] >= RAY
  BY SheetTypes, IndexFacts DEF ScaledTotalSupply
<1>2. RayMul(ScaledTotalSupply(r), liquidityIndex[r]) >= ScaledTotalSupply(r)
  BY <1>1, RayMulGrows
<1> QED
  BY <1>1, <1>2 DEF NoSuppliers

\* No reconfiguration disturbs the invariant.
LEMMA ReconfigurationKeeps ==
    ASSUME IInv, Reconfiguration, UNCHANGED stableTotalIsZero
    PROVE  IInv'
<1>1. /\ UNCHANGED <<tokens, usersConfig, underlying, indices, oracles, listings>>
      /\ \A r \in Assets : Rewritten(r)
      /\ TypeOK
  BY DEF Reconfiguration, IInv
<1>2. TypeOK' /\ ListingTypeOK'
  <2>1. UNCHANGED listings => ListingTypeOK'
    BY DEF IInv, ListingTypeOK, listings
  <2>2. TypeOK'
    BY <1>1 DEF Reconfiguration, TypeOK, tokens, usersConfig, underlying, indices, oracles
  <2> QED
    BY <1>1, <2>1, <2>2
<1>3. UNCHANGED <<aTokenBalance, stableDebt, variableDebt, accruedToTreasury, liquidity,
                  liquidityIndex, variableBorrowIndex, borrowing,
                  reservesList, reservesCount, reserveId, initialized>>
  BY <1>1 DEF tokens, usersConfig, underlying, indices, listings
<1>4. Covered' /\ DebtImpliesBorrowingFlag' /\ ListingConsistent'
  BY <1>3 DEF IInv, Covered, Claims, Means, Owed, DebtImpliesBorrowingFlag, ListingConsistent
<1>6. UnlistedIsEmpty'
  BY <1>1, <1>3 DEF IInv, UnlistedIsEmpty, Rewritten
<1>7. ClaimsInReserves'
  <2> SUFFICES ASSUME NEW r \in Assets
               PROVE  /\ ScaledTotalSupply(r) # 0 \/ accruedToTreasury[r] # 0
                            => configuration'[r].active
                      /\ SumFunction(variableDebt[r]) # 0 => reservesList[r] # NoUnderlying
    BY <1>3 DEF ClaimsInReserves, ScaledTotalSupply
  <2> QED
    BY <1>1, NoSuppliersNoClaims DEF IInv, ClaimsInReserves, Rewritten
<1>8. CountedUnderACeiling'
  BY <1>1 DEF IInv, CountedUnderACeiling, Rewritten
<1> QED
  BY <1>2, <1>4, <1>6, <1>7, <1>8 DEF IInv

\* An id that is free has nothing left of the reserve that had it.
LEMMA InitReserveKeeps ==
    ASSUME IInv, NEW asset \in Underlyings, InitReserve(asset), UNCHANGED stableTotalIsZero
    PROVE  IInv'
<1>1. PICK i \in FreeIds :
        /\ reservesList' = [reservesList EXCEPT ![i] = asset]
        /\ reserveId' = [reserveId EXCEPT ![asset] = i]
        /\ reservesCount' = IF i = reservesCount THEN reservesCount + 1 ELSE reservesCount
        /\ configuration' =
             [configuration EXCEPT ![i] = [EmptyConfiguration EXCEPT !.active = TRUE]]
        /\ price' = [price EXCEPT ![i] = OraclePrice[asset]]
        /\ wallet' = [wallet EXCEPT ![i] = holdings[asset]]
  BY Zenon DEF InitReserve
<1>2. /\ asset \notin initialized
      /\ initialized' = initialized \cup {asset}
      /\ holdings' = [holdings EXCEPT ![asset] = NothingHeld]
      /\ UNCHANGED <<tokens, usersConfig, isolationModeTotalDebt, liquidity, indices,
                     sentinelUp, eModeCategories>>
  BY Zenon DEF InitReserve
<1>3. /\ i \in Assets /\ i <= reservesCount /\ reservesList[i] = NoUnderlying
      /\ asset # NoUnderlying
  BY ReserveIds DEF FreeIds
<1>4. TypeOK /\ ListingTypeOK
  BY DEF IInv
<1>5. Assets \subseteq Nat
  BY ReserveIds, FS_CardinalityType
<1>6. TypeOK'
  <2>1. configuration' \in [Assets -> ReserveConfigurations]
    BY <1>1, <1>3, <1>4, EmptyConfigurationType DEF TypeOK
  <2>2. price' \in [Assets \cup PriceSources -> Nat \ {0}]
    BY <1>1, <1>3, <1>4, ReserveIds DEF TypeOK
  <2>3. wallet' \in [Assets -> [Users -> Nat]]
    BY <1>1, <1>3, <1>4 DEF TypeOK, ListingTypeOK
  <2> QED
    BY <1>2, <1>4, <2>1, <2>2, <2>3 DEF TypeOK, tokens, usersConfig, indices
<1>7. ListingTypeOK'
  <2>1. NothingHeld \in [Users -> Nat]
    BY DEF NothingHeld
  <2> QED
    BY <1>1, <1>2, <1>3, <1>4, <2>1 DEF ListingTypeOK
<1>8. UNCHANGED <<aTokenBalance, stableDebt, variableDebt, accruedToTreasury, liquidity,
                  liquidityIndex, variableBorrowIndex, borrowing, isolationModeTotalDebt>>
  BY <1>2 DEF tokens, usersConfig, indices
<1>9. Covered' /\ DebtImpliesBorrowingFlag'
  BY <1>8 DEF IInv, Covered, Claims, Means, Owed, DebtImpliesBorrowingFlag
<1>10. \A x \in Assets : x # i => /\ configuration'[x] = configuration[x]
                                  /\ reservesList'[x] = reservesList[x]
  BY <1>1, <1>4 DEF TypeOK, ListingTypeOK
<1>11. configuration[i] = EmptyConfiguration
  BY <1>3 DEF IInv, UnlistedIsEmpty
<1>12. /\ configuration'[i].active /\ ~configuration'[i].siloedBorrowing
       /\ reservesList'[i] = asset
       /\ configuration[i].debtCeiling = 0
  BY <1>1, <1>3, <1>4, <1>11 DEF TypeOK, ListingTypeOK, EmptyConfiguration
<1>14. UnlistedIsEmpty'
  BY <1>3, <1>10, <1>12 DEF IInv, UnlistedIsEmpty
<1>15. ClaimsInReserves'
  BY <1>3, <1>8, <1>10, <1>12 DEF IInv, ClaimsInReserves, ScaledTotalSupply
<1>16. CountedUnderACeiling'
  BY <1>8, <1>10, <1>12 DEF IInv, CountedUnderACeiling
<1>17. ListingConsistent'
  <2>1. ListingConsistent /\ reservesCount \in Nat
    BY <1>4 DEF IInv, ListingTypeOK
  <2>2. /\ reserveId'[asset] = i
        /\ \A b \in Underlyings : b # asset => reserveId'[b] = reserveId[b]
    BY <1>1, <1>3, <1>4 DEF ListingTypeOK
  <2>3. ASSUME NEW b \in Underlyings
        PROVE  IF b \in initialized' THEN reservesList'[reserveId'[b]] = b
               ELSE reserveId'[b] = 0 /\ \A r \in Assets : reservesList'[r] # b
    <3>1. CASE b = asset
      BY <1>2, <1>12, <2>2, <3>1
    <3>2. CASE b # asset /\ b \in initialized
      <4>1. reservesList[reserveId[b]] = b /\ b # NoUnderlying /\ reserveId[b] \in Assets
        BY <1>4, <2>1, <3>2, ReserveIds DEF ListingConsistent, ListingTypeOK
      <4> QED
        BY <1>2, <1>3, <1>10, <2>2, <3>2, <4>1
    <3>3. CASE b # asset /\ b \notin initialized
      <4>1. reserveId[b] = 0 /\ \A r \in Assets : reservesList[r] # b
        BY <2>1, <3>3 DEF ListingConsistent
      <4> QED
        BY <1>2, <1>10, <1>12, <2>2, <3>3, <4>1
    <3> QED
      BY <3>1, <3>2, <3>3
  <2>4. ASSUME NEW r \in Assets, reservesList'[r] # NoUnderlying
        PROVE  r < reservesCount' /\ reserveId'[reservesList'[r]] = r
    <3>1. r \in Nat /\ i \in Nat
      BY <1>3, <1>5
    <3>2. CASE r = i
      BY <1>1, <1>3, <1>12, <2>1, <2>2, <3>1, <3>2
    <3>3. CASE r # i
      <4>1. r < reservesCount /\ reserveId[reservesList[r]] = r /\ reservesList[r] \in Underlyings
        BY <1>4, <1>10, <2>1, <2>4, <3>3 DEF ListingConsistent, ListingTypeOK
      <4>2. reservesList[r] # asset
        BY <1>2, <2>1 DEF ListingConsistent
      <4>3. r < reservesCount'
        BY <1>1, <2>1, <3>1, <4>1
      <4> QED
        BY <1>10, <2>2, <3>3, <4>1, <4>2, <4>3
    <3> QED
      BY <3>2, <3>3
  <2> QED
    BY <2>3, <2>4 DEF ListingConsistent
<1> QED
  BY <1>6, <1>7, <1>9, <1>14, <1>15, <1>16, <1>17 DEF IInv

\* A reserve is dropped under the id it is listed at, without a claim in it, and
\* with it go the debts of its stable debt token.
LEMMA DropReserveKeeps ==
    ASSUME IInv, NEW asset \in Underlyings, DropReserve(asset), UNCHANGED stableTotalIsZero
    PROVE  IInv'
<1> DEFINE r == reserveId[asset]
<1>1. /\ IsListed(asset) /\ ValidateDropReserve(r) /\ DeleteReserve(asset, r)
      /\ reservesList' = [reservesList EXCEPT ![r] = NoUnderlying]
  BY Zenon DEF DropReserve
<1>2. TypeOK /\ ListingTypeOK /\ ListingConsistent
  BY DEF IInv
<1>3. r \in Assets /\ asset \in initialized /\ reservesList[r] = asset
  BY <1>1, <1>2, Zenon DEF IsListed, ListingConsistent, ListingTypeOK
<1>4. /\ SumFunction(variableDebt[r]) = 0
      /\ ScaledTotalSupply(r) = 0 /\ accruedToTreasury[r] = 0
  BY <1>1 DEF ValidateDropReserve
<1>5. /\ reserveId' = [reserveId EXCEPT ![asset] = 0]
      /\ initialized' = initialized \ {asset}
      /\ configuration' = [configuration EXCEPT ![r] = EmptyConfiguration]
      /\ isolationModeTotalDebt' = [isolationModeTotalDebt EXCEPT ![r] = 0]
      /\ liquidityIndex' = [liquidityIndex EXCEPT ![r] = RAY]
      /\ variableBorrowIndex' = [variableBorrowIndex EXCEPT ![r] = RAY]
      /\ borrowAllowance' = [borrowAllowance EXCEPT ![r] =
                                [m \in RateModes |-> [u \in Users |-> NothingHeld]]]
      /\ liquidity' = [liquidity EXCEPT ![r] = 0]
      /\ stableDebt' = [stableDebt EXCEPT ![r] = NothingHeld]
      /\ wallet' = [wallet EXCEPT ![r] = NothingHeld]
      /\ holdings' = [holdings EXCEPT ![asset] = wallet[r]]
      /\ UNCHANGED <<reservesCount, aTokenBalance, variableDebt, usersConfig,
                     accruedToTreasury, oracles, eModeCategories>>
  BY <1>1 DEF DeleteReserve
<1> HIDE DEF r
<1>6. NothingHeld \in [Users -> Nat]
  BY DEF NothingHeld
<1>7. TypeOK'
  <2>1. RAY \in Indices
    BY ScalesAreEven DEF Indices
  <2> HIDE DEF Indices
  <2>2. /\ configuration' \in [Assets -> ReserveConfigurations]
        /\ isolationModeTotalDebt' \in [Assets -> Nat]
        /\ liquidity' \in [Assets -> Nat]
        /\ wallet' \in [Assets -> [Users -> Nat]]
        /\ stableDebt' \in [Assets -> [Users -> Nat]]
        /\ liquidityIndex' \in [Assets -> Indices]
        /\ variableBorrowIndex' \in [Assets -> Indices]
    BY <1>2, <1>3, <1>5, <1>6, <2>1, EmptyConfigurationType DEF TypeOK
  <2>3. borrowAllowance' \in [Assets -> [RateModes -> [Users -> [Users -> Nat]]]]
    <3> DEFINE none == [m \in RateModes |-> [u \in Users |-> NothingHeld]]
    <3>1. none \in [RateModes -> [Users -> [Users -> Nat]]]
      BY <1>6
    <3> HIDE DEF none
    <3> QED
      BY <1>2, <1>5, <3>1 DEF TypeOK, none
  <2> QED
    BY <1>2, <1>5, <2>2, <2>3 DEF TypeOK, usersConfig, oracles
<1>8. ListingTypeOK'
  <2>1. 0 \in Assets /\ wallet[r] \in [Users -> Nat]
    <3>1. Cardinality(Assets) \in Nat /\ r \in 0 .. Cardinality(Assets) - 1
      BY <1>3, ReserveIds, FS_CardinalityType
    <3>2. 0 \in 0 .. Cardinality(Assets) - 1
      BY <3>1
    <3> QED
      BY <1>2, <1>3, <3>2, ReserveIds DEF TypeOK
  <2> QED
    BY <1>1, <1>2, <1>3, <1>5, <2>1 DEF ListingTypeOK, r
<1>9. \A x \in Assets : x # r =>
         /\ configuration'[x] = configuration[x] /\ reservesList'[x] = reservesList[x]
         /\ isolationModeTotalDebt'[x] = isolationModeTotalDebt[x]
         /\ liquidityIndex'[x] = liquidityIndex[x]
         /\ variableBorrowIndex'[x] = variableBorrowIndex[x]
         /\ liquidity'[x] = liquidity[x] /\ stableDebt'[x] = stableDebt[x]
  BY <1>1, <1>2, <1>5 DEF TypeOK, ListingTypeOK, r
<1>10. /\ configuration'[r] = EmptyConfiguration /\ reservesList'[r] = NoUnderlying
       /\ isolationModeTotalDebt'[r] = 0 /\ liquidity'[r] = 0
       /\ variableBorrowIndex'[r] = RAY /\ stableDebt'[r] = NothingHeld
  BY <1>1, <1>2, <1>3, <1>5 DEF TypeOK, ListingTypeOK, r
<1>11. Covered'
  <2> SUFFICES ASSUME NEW x \in Assets, liquidityIndex'[x] = RAY, variableBorrowIndex'[x] = RAY
               PROVE  Claims(x)' <= Means(x)'
    BY DEF Covered
  <2>1. CASE x = r
    <3>1. SumFunction(stableDebt'[r]) = 0
      BY <1>10, UsersAreFinite, TotalOfZeros DEF NothingHeld
    <3> QED
      BY <1>4, <1>5, <1>10, <2>1, <3>1 DEF Claims, Means, Owed, ScaledTotalSupply
  <2>2. CASE x # r
    BY <1>5, <1>9, <2>2 DEF IInv, Covered, Claims, Means, Owed
  <2> QED
    BY <2>1, <2>2
<1>12. DebtImpliesBorrowingFlag'
  BY <1>5, <1>9, <1>10 DEF IInv, DebtImpliesBorrowingFlag, usersConfig, NothingHeld
<1>14. UnlistedIsEmpty'
  BY <1>9, <1>10 DEF IInv, UnlistedIsEmpty
<1>15. ClaimsInReserves'
  <2>1. UNCHANGED <<aTokenBalance, variableDebt, accruedToTreasury>> /\ ClaimsInReserves
    BY <1>5 DEF IInv
  <2> SUFFICES ASSUME NEW x \in Assets
               PROVE  /\ ScaledTotalSupply(x) # 0 \/ accruedToTreasury[x] # 0
                            => configuration'[x].active
                      /\ SumFunction(variableDebt[x]) # 0 => reservesList'[x] # NoUnderlying
    BY <2>1 DEF ClaimsInReserves, ScaledTotalSupply
  <2>2. CASE x = r
    BY <1>4, <2>2
  <2>3. CASE x # r
    BY <1>9, <2>1, <2>3 DEF ClaimsInReserves
  <2> QED
    BY <2>2, <2>3
<1>16. CountedUnderACeiling'
  BY <1>9, <1>10 DEF IInv, CountedUnderACeiling
<1>17. ListingConsistent'
  <2>1. reservesCount' = reservesCount
    BY <1>5
  <2>2. /\ reserveId'[asset] = 0
        /\ \A b \in Underlyings : b # asset => reserveId'[b] = reserveId[b]
    BY <1>2, <1>5 DEF ListingTypeOK
  <2>3. ASSUME NEW b \in Underlyings
        PROVE  IF b \in initialized' THEN reservesList'[reserveId'[b]] = b
               ELSE reserveId'[b] = 0 /\ \A x \in Assets : reservesList'[x] # b
    <3>1. CASE b = asset
      <4>1. ASSUME NEW x \in Assets, reservesList'[x] = asset PROVE FALSE
        <5>1. x # r /\ reservesList[x] = asset /\ asset # NoUnderlying
          BY <1>9, <1>10, <4>1, ReserveIds
        <5>2. reserveId[asset] = x
          BY <1>2, <5>1 DEF ListingConsistent
        <5> QED
          BY <5>1, <5>2 DEF r
      <4> QED
        BY <1>5, <2>2, <3>1, <4>1
    <3>2. CASE b # asset /\ b \in initialized
      <4>1. reservesList[reserveId[b]] = b /\ reserveId[b] \in Assets
        BY <1>2, <3>2 DEF ListingConsistent, ListingTypeOK
      <4>2. reserveId[b] # r
        BY <1>3, <3>2, <4>1
      <4> QED
        BY <1>5, <1>9, <2>2, <3>2, <4>1, <4>2
    <3>3. CASE b # asset /\ b \notin initialized
      <4>1. reserveId[b] = 0 /\ (\A x \in Assets : reservesList[x] # b) /\ b # NoUnderlying
        BY <1>2, <3>3, ReserveIds DEF ListingConsistent
      <4> QED
        BY <1>5, <1>9, <1>10, <2>2, <3>3, <4>1
    <3> QED
      BY <3>1, <3>2, <3>3
  <2>4. ASSUME NEW x \in Assets, reservesList'[x] # NoUnderlying
        PROVE  x < reservesCount' /\ reserveId'[reservesList'[x]] = x
    <3>1. x # r /\ reservesList'[x] = reservesList[x]
      BY <1>9, <1>10, <2>4
    <3>2. x < reservesCount /\ reserveId[reservesList[x]] = x /\ reservesList[x] \in Underlyings
      BY <1>2, <2>4, <3>1 DEF ListingConsistent, ListingTypeOK
    <3>3. reservesList[x] # asset
      BY <3>1, <3>2 DEF r
    <3> QED
      BY <2>1, <2>2, <3>1, <3>2, <3>3
  <2> QED
    BY <2>3, <2>4 DEF ListingConsistent
<1> QED
  BY <1>7, <1>8, <1>11, <1>12, <1>14, <1>15, <1>16, <1>17 DEF IInv

\* A call of an admin lists, drops or reconfigures.
LEMMA AdminCases ==
    ASSUME TypeOK, AdminSteps
    PROVE  \/ \E asset \in Underlyings : InitReserve(asset) \/ DropReserve(asset)
           \/ Reconfiguration
<1>2. CASE \E r \in Assets, b \in BOOLEAN :
             \/ SetReserveActive(r, b) \/ SetReserveFreeze(r, b) \/ SetReservePause(r, b)
             \/ SetReserveBorrowing(r, b) \/ SetReserveStableRateBorrowing(r, b)
             \/ SetBorrowableInIsolation(r, b) \/ SetSiloedBorrowing(r, b)
  BY <1>2, SettersOfOneReconfigure
<1>3. CASE \E b \in BOOLEAN : SetPoolPause(b)
  BY <1>3, PoolPauseReconfigures
<1>4. CASE \E r \in Assets, n \in Nat :
             \/ SetBorrowCap(r, n) \/ SetSupplyCap(r, n)
             \/ SetLiquidationProtocolFee(r, n) \/ SetDebtCeiling(r, n)
  BY <1>4, NumberSettersReconfigure
<1>5. CASE \E r \in Assets, ltv, threshold, bonus \in Nat :
             ConfigureReserveAsCollateral(r, ltv, threshold, bonus)
  BY <1>5, CollateralSetterReconfigures
<1>6. CASE \E k \in Categories :
             \E category \in [ltv : Nat, liquidationThreshold : Nat, liquidationBonus : Nat,
                              priceSource : Assets \cup PriceSources \cup {NoPriceSource}] :
                SetEModeCategory(k, category)
  BY <1>6, CategorySetterReconfigures
<1>7. CASE \E r \in Assets, k \in Categories \cup {0} : SetAssetEModeCategory(r, k)
  <2>1. Categories \cup {0} \subseteq Nat
    BY InitialValues
  <2> QED
    BY <1>7, <2>1, NumberSettersReconfigure
<1> QED
  BY <1>2, <1>3, <1>4, <1>5, <1>6, <1>7 DEF AdminSteps

\* No call of an admin disturbs the invariant.
LEMMA AdminKeeps ==
    ASSUME IInv, AdminSteps, UNCHANGED stableTotalIsZero
    PROVE  IInv'
<1>1. TypeOK
  BY DEF IInv
<1> QED
  BY <1>1, AdminCases, InitReserveKeeps, DropReserveKeeps, ReconfigurationKeeps

-----------------------------------------------------------------------------
(* What the users' calls keep.                                             *)

\* The claims and the variable debts of a reserve that is not active stay.
SheetStep(x) ==
    \/ configuration[x].active
    \/ /\ ScaledTotalSupply(x)' = ScaledTotalSupply(x)
       /\ accruedToTreasury'[x] = accruedToTreasury[x]
       /\ SumFunction(variableDebt'[x]) = SumFunction(variableDebt[x])

SameSheet(x) ==
    /\ aTokenBalance'[x] = aTokenBalance[x]
    /\ accruedToTreasury'[x] = accruedToTreasury[x]
    /\ variableDebt'[x] = variableDebt[x]

\* A reserve that an operation does not touch.
LEMMA SameSheetSteps ==
    ASSUME NEW x, SameSheet(x) PROVE SheetStep(x)
  BY DEF SameSheet, SheetStep, ScaledTotalSupply

\* What any operation of the users can do to the sums of one reserve.
LEMMA SheetSteps ==
    ASSUME TypeOK, [Next]_vars, NEW x \in Assets
    PROVE  SheetStep(x)
<1>0. /\ aTokenBalance \in [Assets -> [Accounts -> Nat]]
      /\ variableDebt \in [Assets -> [Users -> Nat]]
      /\ accruedToTreasury \in [Assets -> Nat]
      /\ liquidityIndex \in [Assets -> Indices]
  BY DEF TypeOK
<1>1. ASSUME NEW u \in Users, NEW v \in Users, NEW a \in Assets, NEW n \in Amounts,
             Supply(u, v, a, n)
      PROVE  SheetStep(x)
  <2>1. x # a => SameSheet(x)
    BY <1>0, <1>1 DEF Supply, SameSheet, indices
  <2> QED
    BY <1>1, <2>1, SameSheetSteps DEF Supply, ValidateSupply, Usable, SheetStep
<1>2. ASSUME NEW u \in Users, NEW a \in Assets, NEW n \in Amounts \cup {MaxUint},
             NEW to \in Recipients[u], Withdraw(u, a, n, to)
      PROVE  SheetStep(x)
  <2>1. x # a => SameSheet(x)
    BY <1>0, <1>2 DEF Withdraw, SameSheet, indices
  <2> QED
    BY <1>2, <2>1, SameSheetSteps DEF Withdraw, Usable, SheetStep
<1>3. ASSUME NEW u \in Users, NEW v \in Users, NEW a \in Assets, NEW n \in Amounts,
             Transfer(u, v, a, n)
      PROVE  SheetStep(x)
  <2> DEFINE scaled == RayDiv(n, liquidityIndex[a])
  <2>1. scaled \in Nat /\ u \in Accounts /\ v \in Accounts
    BY Bounds, IndexFacts, RayDivType, UsersAreAccounts
  <2>2. /\ scaled <= aTokenBalance[a][u]
        /\ aTokenBalance' = [aTokenBalance EXCEPT ![a] = MoveBalance(@, u, v, scaled)]
        /\ UNCHANGED <<variableDebt, accruedToTreasury>>
    BY <1>3 DEF Transfer, indices
  <2> HIDE DEF scaled
  <2>3. SumFunction(MoveBalance(aTokenBalance[a], u, v, scaled)) = SumFunction(aTokenBalance[a])
    <3>1. aTokenBalance[a] \in [Accounts -> Nat]
      BY <1>0
    <3> QED
      BY <2>1, <2>2, <3>1, AccountsAreFinite, MovedTotal
  <2>4. SumFunction(aTokenBalance'[x]) = SumFunction(aTokenBalance[x])
    BY <1>0, <2>2, <2>3
  <2> QED
    BY <2>2, <2>4 DEF SheetStep, ScaledTotalSupply
<1>4. ASSUME NEW v \in Users, NEW u \in Users, NEW a \in Assets, NEW n \in Amounts,
             NEW mode \in RateModes, Borrow(v, u, a, n, mode)
      PROVE  SheetStep(x)
  <2>1. x # a => SameSheet(x)
    <3>1. PICK p :
            variableDebt' = [variableDebt EXCEPT ![a][u] = p] \/ variableDebt' = variableDebt
      BY <1>4 DEF Borrow
    <3> QED
      BY <1>0, <1>4, <3>1 DEF Borrow, SameSheet, indices
  <2> QED
    BY <1>4, <2>1, SameSheetSteps DEF Borrow, ValidateBorrow, Usable, SheetStep
<1>5. ASSUME NEW u \in Users, NEW a \in Assets, NEW n \in Amounts \cup {MaxUint},
             NEW mode \in RateModes,
             (\E v \in Users : Repay(v, u, a, n, mode)) \/ RepayWithATokens(u, a, n, mode)
      PROVE  SheetStep(x)
  <2>1. /\ Usable(a)
        /\ UNCHANGED accruedToTreasury
        /\ \/ aTokenBalance' = aTokenBalance
           \/ \E q : aTokenBalance' = [aTokenBalance EXCEPT ![a][u] = q]
    BY <1>5 DEF Repay, RepayWithATokens, ValidateRepay, indices
  <2>2. PICK payback : RepayDebt(u, a, payback, mode)
    BY <1>5 DEF Repay, RepayWithATokens
  <2>3. x # a => SameSheet(x)
    BY <1>0, <2>1, <2>2 DEF RepayDebt, SameSheet
  <2> QED
    BY <2>1, <2>3, SameSheetSteps DEF Usable, SheetStep
<1>6. ASSUME NEW u \in Users, NEW a \in Assets, NEW mode \in RateModes,
             SwapBorrowRateMode(u, a, mode)
      PROVE  SheetStep(x)
  <2>1. x # a => SameSheet(x)
    <3>1. PICK p : variableDebt' = [variableDebt EXCEPT ![a][u] = p]
      BY <1>6 DEF SwapBorrowRateMode
    <3> QED
      BY <1>0, <1>6, <3>1 DEF SwapBorrowRateMode, SameSheet, indices
  <2> QED
    BY <1>6, <2>1, SameSheetSteps DEF SwapBorrowRateMode, ValidateSwapRateMode, Usable, SheetStep
<1>7. ASSUME NEW l \in Users, NEW u \in Users, NEW c \in Assets, NEW d \in Assets,
             NEW n \in Amounts \cup {MaxUint}, NEW b \in BOOLEAN, LiquidationCall(l, u, c, d, n, b)
      PROVE  SheetStep(x)
  <2>1. /\ Usable(c) /\ Usable(d)
        /\ \E p : aTokenBalance' = [aTokenBalance EXCEPT ![c] = p]
        /\ \E p : variableDebt' = [variableDebt EXCEPT ![d][u] = p]
        /\ UNCHANGED accruedToTreasury
    BY <1>7 DEF LiquidationCall, ValidateLiquidationCall, BurnDebtTokens, indices
  <2>2. x # c /\ x # d => SameSheet(x)
    BY <1>0, <2>1 DEF SameSheet
  <2> QED
    BY <2>1, <2>2, SameSheetSteps DEF Usable, SheetStep
<1>8. ASSUME NEW a \in Assets, MintToTreasury(a)
      PROVE  SheetStep(x)
  <2>1. x # a => SameSheet(x)
    BY <1>0, <1>8 DEF MintToTreasury, SameSheet
  <2> QED
    BY <1>8, <2>1, SameSheetSteps DEF MintToTreasury, SheetStep
<1>9. ASSUME NEW a \in Assets, Accrue(a)
      PROVE  SheetStep(x)
  <2>1. PICK t :
          /\ UNCHANGED variableDebt
          /\ t # 0 => configuration[a].active
          /\ accruedToTreasury' = [accruedToTreasury EXCEPT ![a] = @ + t]
    BY <1>9, Zenon DEF Accrue
  <2>2. UNCHANGED aTokenBalance
    BY <1>9, Zenon DEF Accrue
  <2>3. x # a => SameSheet(x)
    BY <1>0, <2>1, <2>2 DEF SameSheet
  <2>4. t = 0 => accruedToTreasury'[a] = accruedToTreasury[a]
    BY <1>0, <2>1
  <2> QED
    BY <2>1, <2>2, <2>3, <2>4, SameSheetSteps DEF SheetStep, ScaledTotalSupply
<1>10. UNCHANGED <<aTokenBalance, accruedToTreasury, variableDebt>> => SheetStep(x)
  BY SameSheetSteps DEF SameSheet
<1>11. CASE SupplySteps
  BY <1>1, <1>2, <1>3, <1>10, <1>11, SupplyRecipients
     DEF SupplySteps, SetUserUseReserveAsCollateral, tokens, indices
<1>12. CASE BorrowSteps
  BY <1>4, <1>5, <1>6, <1>12 DEF BorrowSteps
<1>13. CASE LiquidationSteps
  BY <1>7, <1>13 DEF LiquidationSteps
<1>14. CASE EnvironmentSteps
  BY <1>9, <1>10, <1>14 DEF EnvironmentSteps, SetPrice, SetSentinel, tokens, indices
<1>15. CASE \/ \E d \in Delegations :
                 ApproveDelegation(d.delegator, d.delegatee, d.asset, d.mode, d.amount)
            \/ \E u \in Users, k \in Categories \cup {0} : SetUserEMode(u, k)
            \/ UNCHANGED vars
  BY <1>10, <1>15 DEF ApproveDelegation, SetUserEMode, vars, tokens, indices
<1> QED
  BY <1>8, <1>11, <1>12, <1>13, <1>14, <1>15 DEF Next

\* No operation of the users disturbs the invariant.
LEMMA UsersKeep ==
    ASSUME IInv, [Next]_vars, UNCHANGED listings, stableTotalIsZero' \subseteq Assets
    PROVE  IInv'
<1>1. TypeOK /\ DebtImpliesBorrowingFlag /\ Covered
  BY DEF IInv
<1>2. TypeOK' /\ DebtImpliesBorrowingFlag' /\ Covered'
  BY <1>1, NextType, NextKeepsFlag, NextKeepsCover
<1>3. configuration' = configuration
  BY ListingConstant
<1>4. ListingTypeOK' /\ ListingConsistent' /\ UnlistedIsEmpty'
  BY <1>3 DEF IInv, ListingTypeOK, ListingConsistent, UnlistedIsEmpty, listings
<1>5. ClaimsInReserves'
  <2> SUFFICES ASSUME NEW x \in Assets
               PROVE  /\ ScaledTotalSupply(x)' # 0 \/ accruedToTreasury'[x] # 0
                            => configuration[x].active
                      /\ SumFunction(variableDebt'[x]) # 0 => reservesList[x] # NoUnderlying
    BY <1>3 DEF ClaimsInReserves, listings
  <2>1. configuration[x].active => reservesList[x] # NoUnderlying
    BY DEF IInv, UnlistedIsEmpty, EmptyConfiguration
  <2>2. SheetStep(x)
    BY <1>1, SheetSteps
  <2> QED
    BY <2>1, <2>2 DEF IInv, ClaimsInReserves, SheetStep
<1>6. CountedUnderACeiling'
  <2> SUFFICES ASSUME NEW c \in Assets, isolationModeTotalDebt'[c] # 0
               PROVE  configuration[c].debtCeiling # 0
    BY <1>3 DEF CountedUnderACeiling
  <2>1. CounterChange(c)
    BY <1>1, CounterSteps
  <2>2. /\ isolationModeTotalDebt[c] \in Nat /\ isolationModeTotalDebt'[c] \in Nat
        /\ configuration[c].debtCeiling \in Nat
    BY <1>1, <1>2, ConfigurationTypes DEF TypeOK
  <2> QED
    BY <2>1, <2>2 DEF CounterChange, IInv, CountedUnderACeiling
<1> QED
  BY <1>2, <1>4, <1>5, <1>6 DEF IInv

\* The invariant holds at first.
LEMMA InitKept ==
    ASSUME ConfiguratorInit
    PROVE  IInv
<1>1. Init /\ TypeOK /\ Covered
  BY InitType, InitCovered DEF ConfiguratorInit
<1>2. DebtImpliesBorrowingFlag /\ CountedUnderACeiling
  BY <1>1 DEF Init, DebtImpliesBorrowingFlag, CountedUnderACeiling
<1> DEFINE N == Len(InitReserves)
<1>3. /\ Assets \subseteq Nat /\ N \in Nat
      /\ \A r \in Assets : r < N => r + 1 \in DOMAIN InitReserves
      /\ DOMAIN InitReserves = 1 .. N
      /\ \A k \in 1 .. N : InitReserves[k] \in Underlyings
  BY ReserveIds, InitialReserves, FS_CardinalityType
<1>4. /\ reservesList = [r \in Assets |-> IF r < N THEN InitReserves[r + 1] ELSE NoUnderlying]
      /\ reservesCount = N
      /\ reserveId = [a \in Underlyings |->
            IF \E r \in Assets : reservesList[r] = a
            THEN CHOOSE r \in Assets : reservesList[r] = a ELSE 0]
      /\ initialized = {a \in Underlyings : \E r \in Assets : reservesList[r] = a}
      /\ holdings = [a \in Underlyings |-> NothingHeld]
      /\ stableTotalIsZero = Assets
  BY DEF ConfiguratorInit
<1> HIDE DEF N
<1>5. 0 \in Assets
  <2>1. Cardinality(Assets) \in Nat /\ Cardinality(Assets) # 0
    BY ReserveIds, FS_CardinalityType, FS_EmptySet
  <2> QED
    BY <2>1, ReserveIds
<1>6. ASSUME NEW a \in Underlyings
      PROVE  IF \E r \in Assets : reservesList[r] = a
             THEN reserveId[a] \in Assets /\ reservesList[reserveId[a]] = a
             ELSE reserveId[a] = 0
  BY <1>4, Zenon
<1>7. ASSUME NEW r \in Assets, reservesList[r] # NoUnderlying
      PROVE  /\ r < N /\ reservesList[r] \in Underlyings
             /\ reservesList[r] = InitReserves[r + 1]
  BY <1>3, <1>4, <1>7
<1>8. ListingTypeOK
  <2>1. reserveId \in [Underlyings -> Assets]
    BY <1>4, <1>5, <1>6
  <2>2. reservesList \in [Assets -> Underlyings \cup {NoUnderlying}]
    BY <1>4, <1>7
  <2> QED
    BY <1>3, <1>4, <2>1, <2>2 DEF ListingTypeOK, NothingHeld
<1>9. ListingConsistent
  <2>1. ASSUME NEW r \in Assets, reservesList[r] # NoUnderlying
        PROVE  r < reservesCount /\ reserveId[reservesList[r]] = r
    <3> DEFINE q == reserveId[reservesList[r]]
    <3>1. q \in Assets /\ reservesList[q] = reservesList[r]
      BY <1>6, <1>7, <2>1
    <3>2. /\ r < N /\ q < N /\ InitReserves[q + 1] = InitReserves[r + 1]
      BY <1>7, <2>1, <3>1
    <3> HIDE DEF q
    <3>3. q + 1 = r + 1
      BY <1>3, <3>1, <3>2, InitialReserves
    <3>4. q \in Nat /\ r \in Nat
      BY <1>3, <3>1
    <3>5. q = r
      BY <3>3, <3>4, SMT
    <3>6. reservesCount = N
      BY <1>4
    <3> QED
      BY <3>2, <3>5, <3>6 DEF q
  <2> QED
    BY <1>4, <1>6, <2>1 DEF ListingConsistent
<1>10. UnlistedIsEmpty
  <2> SUFFICES ASSUME NEW r \in Assets, reservesList[r] = NoUnderlying
               PROVE  configuration[r] = EmptyConfiguration
    BY DEF UnlistedIsEmpty
  <2>1. ~(r < N)
    BY <1>3, <1>4, ReserveIds
  <2>2. r >= N
    BY <1>3, <2>1
  <2> QED
    BY <1>1, <2>2, InitialReserves DEF Init, N
<1>11. ClaimsInReserves
  <2> SUFFICES ASSUME NEW x \in Assets
               PROVE  /\ ScaledTotalSupply(x) = 0 /\ accruedToTreasury[x] = 0
                      /\ SumFunction(variableDebt[x]) = 0
    BY DEF ClaimsInReserves
  <2>1. /\ aTokenBalance[x] = [u \in Accounts |-> 0] /\ accruedToTreasury[x] = 0
        /\ variableDebt[x] = [u \in Users |-> 0]
    BY <1>1 DEF Init
  <2>2. SumFunction(aTokenBalance[x]) = 0 /\ SumFunction(variableDebt[x]) = 0
    BY <2>1, AccountsAreFinite, UsersAreFinite, TotalOfZeros
  <2> QED
    BY <2>1, <2>2 DEF ScaledTotalSupply
<1> QED
  BY <1>1, <1>2, <1>8, <1>9, <1>10, <1>11 DEF IInv

\* The stored totals stay those of ids.
LEMMA TotalsType ==
    ASSUME ListingTypeOK, StableTotalsFollow
    PROVE  stableTotalIsZero' \subseteq Assets
  BY DEF ListingTypeOK, StableTotalsFollow

\* The invariant holds throughout.
LEMMA ConfiguratorInductive == ConfiguratorSpec => []IInv
<1>1. ConfiguratorInit => IInv
  BY InitKept
<1>2. IInv /\ [ConfiguratorNext]_configuratorVars => IInv'
  <2> SUFFICES ASSUME IInv, [ConfiguratorNext]_configuratorVars PROVE IInv'
    OBVIOUS
  <2>0. ListingTypeOK
    BY DEF IInv
  <2>1. CASE AdminSteps /\ UNCHANGED stableTotalIsZero
    BY <2>1, AdminKeeps
  <2>2. CASE Next /\ UNCHANGED listings /\ StableTotalsFollow
    BY <2>0, <2>2, TotalsType, UsersKeep
  <2>3. CASE UNCHANGED configuratorVars
    BY <2>0, <2>3, UsersKeep DEF configuratorVars, ListingTypeOK
  <2> QED
    BY <2>1, <2>2, <2>3 DEF ConfiguratorNext
<1> QED
  BY <1>1, <1>2, PTL DEF ConfiguratorSpec

-----------------------------------------------------------------------------
(* Siloed debts.                                                           *)

\* Whoever owes a siloed asset and nothing else keeps to it, unless the asset is
\* made siloed over a stable debt that the stored total does not show.
SiloedKept(u, a) ==
    SiloedAlone(u, a) /\ ~SiloedAlone(u, a)' =>
        /\ ~configuration[a].siloedBorrowing
        /\ stableDebt[a][u] # 0 /\ a \in stableTotalIsZero

\* An admin's call changes no debt and no bit but those of a reserve that is gone,
\* and makes an asset siloed only when there is no total.
LEMMA AdminKeepsSiloed ==
    ASSUME IInv, AdminSteps, NEW u \in Users, NEW a \in Assets
    PROVE  SiloedKept(u, a)
<1>0. TypeOK
  BY DEF IInv
<1>1. CASE Reconfiguration
  <2>1. /\ UNCHANGED <<variableDebt, stableDebt, borrowing>> /\ Rewritten(a)
        /\ stableDebt[a][u] \in Nat
    BY <1>0, <1>1 DEF Reconfiguration, tokens, usersConfig, TypeOK
  <2> SUFFICES ASSUME SiloedAlone(u, a), ~SiloedAlone(u, a)'
               PROVE  /\ ~configuration[a].siloedBorrowing
                      /\ stableDebt[a][u] # 0 /\ a \in stableTotalIsZero
    BY DEF SiloedKept
  <2>2. /\ ~configuration[a].siloedBorrowing /\ configuration'[a].siloedBorrowing
        /\ variableDebt[a][u] # 0 \/ stableDebt[a][u] # 0
    BY <2>1 DEF SiloedAlone
  <2>3. NoBorrowers(a)
    BY <2>1, <2>2 DEF Rewritten
  <2> QED
    BY <1>0, <2>2, <2>3, NoBorrowersNoDebts
<1>2. ASSUME NEW asset \in Underlyings, InitReserve(asset) PROVE SiloedKept(u, a)
  <2>1. PICK i \in FreeIds :
          configuration' =
             [configuration EXCEPT ![i] = [EmptyConfiguration EXCEPT !.active = TRUE]]
    BY <1>2, Zenon DEF InitReserve
  <2>2. UNCHANGED <<variableDebt, stableDebt, borrowing>>
    BY <1>2, Zenon DEF InitReserve, tokens, usersConfig
  <2>3. configuration'[a].siloedBorrowing => configuration[a].siloedBorrowing
    BY <1>0, <2>1 DEF TypeOK, EmptyConfiguration
  <2> QED
    BY <2>2, <2>3 DEF SiloedKept, SiloedAlone
<1>3. ASSUME NEW asset \in Underlyings, DropReserve(asset) PROVE SiloedKept(u, a)
  <2> DEFINE r == reserveId[asset]
  <2>1. /\ configuration' = [configuration EXCEPT ![r] = EmptyConfiguration]
        /\ stableDebt' = [stableDebt EXCEPT ![r] = NothingHeld]
        /\ UNCHANGED <<variableDebt, borrowing>>
    BY <1>3, Zenon DEF DropReserve, DeleteReserve, usersConfig
  <2> HIDE DEF r
  <2>2. CASE a = r
    BY <1>0, <2>1, <2>2 DEF TypeOK, EmptyConfiguration, SiloedKept, SiloedAlone
  <2>3. CASE a # r
    BY <1>0, <2>1, <2>3 DEF TypeOK, SiloedKept, SiloedAlone
  <2> QED
    BY <2>2, <2>3
<1> QED
  BY <1>0, <1>1, <1>2, <1>3, AdminCases

-----------------------------------------------------------------------------

\* However reserves are listed, dropped and listed again at the ids of others,
\* the list, the ids and the tokens tell of the same reserves, and every
\* variable keeps its type through the admin's calls too.
THEOREM ListingKept ==
    ConfiguratorSpec => [](TypeOK /\ ListingTypeOK /\ ListingConsistent)
  BY ConfiguratorInductive, PTL DEF IInv

\* A reserve is dropped, or switched off, only when nobody is left with a
\* claim, whatever the rounding of an index hides, and dropped only when nobody
\* owes it at the variable rate; and a transfer, which is not refused in a
\* reserve that is switched off, brings none back.
THEOREM NothingLeftBehind == ConfiguratorSpec => []ClaimsInReserves
  BY ConfiguratorInductive, PTL DEF IInv

\* Ceilings come and go, and debt is never counted without one.
THEOREM CountsStartFromZero == ConfiguratorSpec => []CountedUnderACeiling
  BY ConfiguratorInductive, PTL DEF IInv

\* What module Pool promises of debts holds under the admin's calls too: bits of
\* users that outlive a debt, or a reserve, hide no debt and admit none beside a
\* siloed one.  The one way to owe both is that _checkNoBorrowers reads a stable
\* total of zero while the user owes the asset that becomes siloed.
THEOREM DebtsKeptInOrder ==
    ConfiguratorSpec => []DebtImpliesBorrowingFlag /\ SiloedBorrowingKept
<1> DEFINE Kept == \A u \in Users, a \in Assets : SiloedKept(u, a)
<1>1. IInv => DebtImpliesBorrowingFlag
  BY DEF IInv
<1>2. IInv /\ [ConfiguratorNext]_configuratorVars => [Kept]_configuratorVars
  <2> SUFFICES ASSUME IInv, ConfiguratorNext, NEW u \in Users, NEW a \in Assets
               PROVE  SiloedKept(u, a)
    OBVIOUS
  <2>1. CASE AdminSteps
    BY <2>1, AdminKeepsSiloed
  <2>2. CASE Next
    <3>1. SiloedAlone(u, a) => SiloedAlone(u, a)'
      BY <2>2, NextKeepsSiloed DEF IInv
    <3> QED
      BY <3>1 DEF SiloedKept
  <2> QED
    BY <2>1, <2>2 DEF ConfiguratorNext
<1>3. [][Kept]_configuratorVars <=> SiloedBorrowingKept
  BY DEF SiloedKept, SiloedBorrowingKept
<1> QED
  BY <1>1, <1>2, <1>3, ConfiguratorInductive, PTL DEF ConfiguratorSpec

\* So does the backing of the aTokens, over the lifetimes of the reserves that
\* have an id one after the other.
THEOREM BackedThroughout == ConfiguratorSpec => []ATokensBacked
<1>1. IInv => ATokensBacked
  BY CoveredIsBacked DEF IInv
<1> QED
  BY <1>1, ConfiguratorInductive, PTL
=============================================================================
