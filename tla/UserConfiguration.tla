------------------------- MODULE UserConfiguration --------------------------
(***************************************************************************)
(* The configuration of a user as the word the Pool stores, two bits for   *)
(* each reserve id, and every question the logic libraries ask of it:      *)
(* UserConfiguration.sol.  Module Pool works with the sets of assets that  *)
(* the word stands for; here the word is shown to stand for them.          *)
(***************************************************************************)
EXTENDS EVMWord

CONSTANTS
    ReserveIndices,   \* the indices the calls pass
    reservesById,     \* from ids to assets, _reservesList of the Pool
    debtCeiling,      \* of each asset
    siloedBorrowing   \* of each asset

VARIABLE userData

MAX_RESERVES_COUNT == 128

ASSUME IndicesAssumption ==
    /\ ReserveIndices \subseteq Nat
    /\ DOMAIN reservesById = ReserveIndices \cap 0 .. MAX_RESERVES_COUNT - 1
    /\ \A id \in DOMAIN reservesById :
           /\ debtCeiling[reservesById[id]] \in Nat
           /\ siloedBorrowing[reservesById[id]] \in BOOLEAN

BORROWING_MASK == {b \in WordBits : b % 2 = 0}     \* 0x5555...
COLLATERAL_MASK == {b \in WordBits : b % 2 = 1}    \* 0xAAAA...

Put(bit, flag) == IF flag THEN Or(userData, bit) ELSE And(userData, Not(bit))

setBorrowing(reserveIndex, borrowing) ==
    /\ reserveIndex < MAX_RESERVES_COUNT
    /\ userData' = Put(Shl(2 * reserveIndex, {0}), borrowing)

\* Mutant: the bits of a reserve are taken to be apart by one more.
setUsingAsCollateralBeside(reserveIndex, usingAsCollateral) ==
    /\ reserveIndex < MAX_RESERVES_COUNT
    /\ userData' = Put(Shl(2 * reserveIndex + 2, {0}), usingAsCollateral)

setUsingAsCollateral(reserveIndex, usingAsCollateral) ==
    /\ reserveIndex < MAX_RESERVES_COUNT
    /\ userData' = Put(Shl(2 * reserveIndex + 1, {0}), usingAsCollateral)

\* The questions about one reserve.
isUsingAsCollateralOrBorrowing(id) == And(Shr(2 * id, userData), {0, 1}) # Zero
isBorrowing(id) == And(Shr(2 * id, userData), {0}) # Zero
isUsingAsCollateral(id) == And(Shr(2 * id + 1, userData), {0}) # Zero

\* The questions about all of them: a word with a single one bit has none in
\* common with the word before it.
PowerOfTwo(w) == w # Zero /\ And(w, MinusOne(w)) = Zero
isUsingAsCollateralOne == PowerOfTwo(And(userData, COLLATERAL_MASK))
isUsingAsCollateralAny == And(userData, COLLATERAL_MASK) # Zero
isBorrowingOne == PowerOfTwo(And(userData, BORROWING_MASK))
isBorrowingAny == And(userData, BORROWING_MASK) # Zero
isEmpty == userData = Zero

\* Mutant: the shift before the first test of the loop is not counted out.
FirstAssetIdFromOne(mask) ==
    LET bitmapData == And(userData, mask)
        firstAssetPosition == And(bitmapData, Not(MinusOne(bitmapData)))
    IN  Cardinality({n \in 0 .. 128 : Shr(2 * n, firstAssetPosition) # Zero})

\* The loop counts the shifts by two before the word is zero, and zero stays.
_getFirstAssetIdByMask(mask) ==
    LET bitmapData == And(userData, mask)
        firstAssetPosition == And(bitmapData, Not(MinusOne(bitmapData)))
    IN  Cardinality({n \in 1 .. 128 : Shr(2 * n, firstAssetPosition) # Zero})

\* <<in isolation mode, the asset, its ceiling>>; there is no asset 0.
getIsolationModeState ==
    LET asset == reservesById[_getFirstAssetIdByMask(COLLATERAL_MASK)]
    IN  IF isUsingAsCollateralOne /\ debtCeiling[asset] # 0
        THEN <<TRUE, asset, debtCeiling[asset]>> ELSE <<FALSE, 0, 0>>

getSiloedBorrowingState ==
    LET asset == reservesById[_getFirstAssetIdByMask(BORROWING_MASK)]
    IN  IF isBorrowingOne /\ siloedBorrowing[asset]
        THEN <<TRUE, asset>> ELSE <<FALSE, 0>>

UserConfigurationInit == userData = Zero

UserConfigurationNext == \E id \in ReserveIndices, flag \in BOOLEAN :
    setBorrowing(id, flag) \/ setUsingAsCollateral(id, flag)

UserConfigurationSpec ==
    UserConfigurationInit /\ [][UserConfigurationNext]_userData

-----------------------------------------------------------------------------
ValidIds == DOMAIN reservesById

\* Type invariant: two bits for each reserve, and no other.
UserConfigurationTypeOK ==
    userData \subseteq {2 * id : id \in ValidIds} \cup {2 * id + 1 : id \in ValidIds}

Borrowed == {id \in ValidIds : isBorrowing(id)}
Collateral == {id \in ValidIds : isUsingAsCollateral(id)}

SetsOfReserves == INSTANCE UserFlags
    WITH ReserveIds <- ValidIds, borrowed <- Borrowed, collateral <- Collateral

\* Setting and clearing the flags of a reserve in the word is doing so in two
\* sets of reserves: no other reserve and not the other flag of the same one
\* is touched, up to the last pair of bits.
ImplementsFlags ==
    /\ SetsOfReserves!Spec
    /\ [][\A id \in ValidIds, flag \in BOOLEAN :
              /\ setBorrowing(id, flag) => SetsOfReserves!SetBorrowing(id, flag)
              /\ setUsingAsCollateral(id, flag) =>
                     SetsOfReserves!SetUsingAsCollateral(id, flag)]_userData

\* What the loans are validated by, asked with masks, decrements and shifts of
\* the whole word, is what the two sets say: above all, a user is in isolation
\* mode, or in siloed borrowing, exactly if the only reserve in the set is
\* such an asset, and it is that asset.
QuestionsOfTheSets ==
    /\ \A id \in ValidIds :
           isUsingAsCollateralOrBorrowing(id) <=> id \in Borrowed \cup Collateral
    /\ isUsingAsCollateralOne <=> Cardinality(Collateral) = 1
    /\ isBorrowingOne <=> Cardinality(Borrowed) = 1
    /\ isUsingAsCollateralAny <=> Collateral # {}
    /\ isBorrowingAny <=> Borrowed # {}
    /\ isEmpty <=> Collateral \cup Borrowed = {}
    /\ getIsolationModeState[1] <=>
           \E id \in ValidIds : /\ Collateral = {id}
                                /\ debtCeiling[reservesById[id]] > 0
                                /\ getIsolationModeState[2] = reservesById[id]
    /\ getSiloedBorrowingState[1] <=>
           \E id \in ValidIds : /\ Borrowed = {id}
                                /\ siloedBorrowing[reservesById[id]]
                                /\ getSiloedBorrowingState[2] = reservesById[id]
=============================================================================
