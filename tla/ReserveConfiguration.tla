------------------------ MODULE ReserveConfiguration ------------------------
(***************************************************************************)
(* The configuration of a reserve as the word the Pool stores:             *)
(* ReserveConfiguration.sol.  For each parameter the library writes down   *)
(* by hand a mask, a first bit and a largest value, and each setter and    *)
(* getter uses its own three; the other modules work with the record that  *)
(* the word stands for.                                                    *)
(***************************************************************************)
EXTENDS EVMWord

CONSTANTS
    Values,   \* the values the configurator passes
    MaxSet    \* bound on the parameters that are not zero at a time

VARIABLE reserveData

ASSUME ValuesAssumption == Values \subseteq Word /\ Zero \in Values /\ MaxSet \in Nat

\* The bits that are zero in the masks, as the hexadecimal constants have them.
Hole == [
    Ltv                  |-> 0 .. 15,
    LiquidationThreshold |-> 16 .. 31,
    LiquidationBonus     |-> 32 .. 47,
    Decimals             |-> 48 .. 55,
    Active               |-> {56},
    Frozen               |-> {57},
    BorrowingEnabled     |-> {58},
    StableRateBorrowingEnabled |-> {59},
    Paused               |-> {60},
    BorrowableInIsolation |-> {61},
    SiloedBorrowing      |-> {62},
    FlashLoanEnabled     |-> {63},
    ReserveFactor        |-> 64 .. 79,
    BorrowCap            |-> 80 .. 115,
    SupplyCap            |-> 116 .. 151,
    LiquidationProtocolFee |-> 152 .. 167,
    EModeCategory        |-> 168 .. 175,
    UnbackedMintCap      |-> 176 .. 211,
    DebtCeiling          |-> 212 .. 251 ]

START_BIT_POSITION == [
    Ltv |-> 0, LiquidationThreshold |-> 16, LiquidationBonus |-> 32,
    Decimals |-> 48, Active |-> 56, Frozen |-> 57, BorrowingEnabled |-> 58,
    StableRateBorrowingEnabled |-> 59, Paused |-> 60,
    BorrowableInIsolation |-> 61, SiloedBorrowing |-> 62,
    FlashLoanEnabled |-> 63, ReserveFactor |-> 64, BorrowCap |-> 80,
    SupplyCap |-> 116, LiquidationProtocolFee |-> 152, EModeCategory |-> 168,
    UnbackedMintCap |-> 176, DebtCeiling |-> 212 ]

\* 65535, 255, 68719476735, 1099511627775; flags are passed as booleans.
MAX_VALID == [
    Ltv |-> Ones(16), LiquidationThreshold |-> Ones(16),
    LiquidationBonus |-> Ones(16), Decimals |-> Ones(8), ReserveFactor |-> Ones(16),
    BorrowCap |-> Ones(36), SupplyCap |-> Ones(36),
    LiquidationProtocolFee |-> Ones(16), EModeCategory |-> Ones(8),
    UnbackedMintCap |-> Ones(36), DebtCeiling |-> Ones(40) ]

Parameters == DOMAIN Hole
Flags == Parameters \ DOMAIN MAX_VALID
MASK == [p \in Parameters |-> Not(Hole[p])]
OutsideMask == [p \in Parameters |-> Not(MASK[p])]

\* What the require of a setter, or its argument of type bool, lets through.
Valid(p, v) == IF p \in Flags THEN v \in {Zero, {0}} ELSE AtMost(v, MAX_VALID[p])

\* Mutant: the require is forgotten.
setUnchecked(p, v) == reserveData' = Or(And(reserveData, MASK[p]), Shl(START_BIT_POSITION[p], v))

set(p, v) ==
    /\ Valid(p, v)
    /\ reserveData' = Or(And(reserveData, MASK[p]), Shl(START_BIT_POSITION[p], v))

\* Mutant: what lies above the field is read with it.
getUnmasked(p) ==
    IF p \in Flags THEN BoolWord(Shr(START_BIT_POSITION[p], reserveData) # Zero)
    ELSE Shr(START_BIT_POSITION[p], reserveData)

\* A flag is read as true if any bit of its hole is one.
get(p) ==
    LET masked == And(reserveData, OutsideMask[p])
    IN  IF p \in Flags THEN BoolWord(masked # Zero)
        ELSE Shr(START_BIT_POSITION[p], masked)

ReserveConfigurationInit == reserveData = Zero

Bounded(p) == Cardinality({q \in Parameters \ {p} : get(q) # Zero}) < MaxSet

ReserveConfigurationNext == \E p \in Parameters : Bounded(p) /\ \E v \in Values : set(p, v)

ReserveConfigurationSpec ==
    ReserveConfigurationInit /\ [][ReserveConfigurationNext]_reserveData

-----------------------------------------------------------------------------
\* Type invariant: bits 252 to 255 are unused.
ReserveConfigurationTypeOK == reserveData \subseteq 0 .. 251

Record == INSTANCE ReserveParameters
    WITH Value <- Values, Default <- Zero, InRange <- Valid,
         value <- [p \in Parameters |-> get(p)]

\* Setting a parameter in the word sets it in the record and touches no other:
\* what is read back is what was last written, whatever lies beside it, and no
\* value can reach the bits of a neighbour, whichever way masks, first bits
\* and largest values were written down.
ImplementsRecord == Record!Spec
=============================================================================
