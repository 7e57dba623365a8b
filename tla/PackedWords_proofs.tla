------------------------- MODULE PackedWords_proofs --------------------------
(***************************************************************************)
(* The words in which the Pool stores the configurations of users and of   *)
(* reserves say what two sets and a record would say, for any ids, values  *)
(* and assets: every bit has one meaning, and the questions that are asked *)
(* of a whole word, by decrements and shifts, are answered right.  And the *)
(* packed calls of a rollup arrive as they were asked for, whatever the    *)
(* clients ask for that their arguments' types hold.                       *)
(***************************************************************************)
EXTENDS PackedWords, FiniteSetTheorems, NaturalsInduction, WellFoundedInduction,
        TLAPS

-----------------------------------------------------------------------------
(* Words.                                                                  *)

\* A word that is not zero has a lowest bit.
LEMMA LowestBit ==
    ASSUME NEW w \in Word, w # Zero
    PROVE  \E b \in w : \A c \in w : b <= c
<1> DEFINE R == OpToRel(<, Nat)
<1>1. IsWellFoundedOn(R, Nat)
  BY NatLessThanWellFounded, Zenon
<1>2. \A m, n \in Nat : <<m, n>> \in R <=> m < n
  BY DEF OpToRel
<1>3. w \subseteq Nat /\ w # {}
  BY DEF Word, WordBits, Zero
<1> HIDE DEF R
<1>4. PICK b \in w : \A c \in w : ~ (<<c, b>> \in R)
  BY <1>1, <1>3, WFMin
<1>5. ASSUME NEW c \in w PROVE b <= c
  <2>1. c \in Nat /\ b \in Nat /\ ~ (c < b)
    BY <1>2, <1>3, <1>4
  <2> QED
    BY <2>1
<1> QED
  BY <1>5

\* The word before one that is not zero has all its bits but the lowest.
LEMMA BitsBefore ==
    ASSUME NEW w \in Word, w # Zero
    PROVE  \E b \in w : /\ And(w, MinusOne(w)) = w \ {b}
                        /\ MinusOne(w) = (w \ {b}) \cup (0 .. b - 1)
<1> DEFINE Lowest == CHOOSE b \in w : \A c \in w : b <= c
<1>1. Lowest \in w /\ \A c \in w : Lowest <= c
  BY LowestBit
<1>2. MinusOne(w) = (w \ {Lowest}) \cup (0 .. Lowest - 1)
  BY DEF MinusOne, Ones
<1>3. w \subseteq Int
  BY DEF Word, WordBits
<1> HIDE DEF Lowest
<1>4. w \cap MinusOne(w) = w \ {Lowest}
  BY <1>1, <1>2, <1>3
<1> QED
  BY <1>1, <1>2, <1>4 DEF And

\* Having no bit in common with the word before is having a single one.
LEMMA PowersOfTwo ==
    ASSUME NEW w \in Word PROVE PowerOfTwo(w) <=> \E b : w = {b}
<1>1. CASE w = Zero
  BY <1>1 DEF PowerOfTwo, Zero
<1>2. CASE w # Zero
  <2>1. PICK b \in w : And(w, MinusOne(w)) = w \ {b}
    BY <1>2, BitsBefore
  <2> QED
    BY <1>2, <2>1 DEF PowerOfTwo, Zero
<1> QED
  BY <1>1, <1>2

\* Shifted to the right by n, a word has the bit zero if it had the bit n.
LEMMA BitShifted ==
    ASSUME NEW w \in Word, NEW n \in Nat
    PROVE  /\ 0 \in Shr(n, w) <=> n \in w
           /\ 1 \in Shr(n, w) <=> n + 1 \in w
<1>1. w \subseteq Int
  BY DEF Word, WordBits
<1> QED
  BY <1>1 DEF Shr

\* A single bit, shifted to the left.
LEMMA BitAt == ASSUME NEW n \in WordBits PROVE Shl(n, {0}) = {n}
  BY DEF Shl, WordBits

-----------------------------------------------------------------------------
(* The configuration of a user.                                            *)

\* Ids that are valid are small numbers.
LEMMA IdsAreSmall ==
    /\ ValidIds \subseteq 0 .. 127
    /\ \A id \in ReserveIndices : id < MAX_RESERVES_COUNT => id \in ValidIds
  BY IndicesAssumption DEF ValidIds, MAX_RESERVES_COUNT

SetsAreBits ==
    /\ userData \in Word
    /\ Borrowed = {id \in ValidIds : 2 * id \in userData}
    /\ Collateral = {id \in ValidIds : 2 * id + 1 \in userData}

\* The sets of reserves are the bits of a word of the right type,
LEMMA BitsOfReserves == UserConfigurationTypeOK => SetsAreBits
<1> SUFFICES ASSUME UserConfigurationTypeOK PROVE SetsAreBits
  OBVIOUS
<1>1. userData \in Word
  BY IdsAreSmall DEF UserConfigurationTypeOK, Word, WordBits
<1>2. ASSUME NEW id \in ValidIds
      PROVE  /\ isBorrowing(id) <=> 2 * id \in userData
             /\ isUsingAsCollateral(id) <=> 2 * id + 1 \in userData
  <2>1. 2 * id \in Nat /\ 2 * id + 1 \in Nat
    BY IdsAreSmall
  <2>2. /\ 0 \in Shr(2 * id, userData) <=> 2 * id \in userData
        /\ 0 \in Shr(2 * id + 1, userData) <=> 2 * id + 1 \in userData
    BY <1>1, <2>1, BitShifted
  <2> QED
    BY <2>2 DEF isBorrowing, isUsingAsCollateral, And, Zero
<1> QED
  BY <1>1, <1>2 DEF SetsAreBits, Borrowed, Collateral

\* ... before a step and after it.
LEMMA BitsStay == UserConfigurationTypeOK' => SetsAreBits'
  BY BitsOfReserves, PTL

\* A setter writes one bit.
LEMMA BitWritten ==
    ASSUME userData \in Word, NEW n \in WordBits, NEW flag,
           userData' = Put(Shl(n, {0}), flag)
    PROVE  userData' = IF flag THEN userData \cup {n} ELSE userData \ {n}
  BY BitAt DEF Put, Or, And, Not, Word

\* It is the flag of the reserve in the set that the setter is named for.
LEMMA FlagWritten ==
    ASSUME UserConfigurationTypeOK, NEW id \in ReserveIndices, NEW flag \in BOOLEAN
    PROVE  /\ setBorrowing(id, flag) =>
                 /\ id \in ValidIds /\ UserConfigurationTypeOK'
                 /\ SetsOfReserves!SetBorrowing(id, flag)
           /\ setUsingAsCollateral(id, flag) =>
                 /\ id \in ValidIds /\ UserConfigurationTypeOK'
                 /\ SetsOfReserves!SetUsingAsCollateral(id, flag)
<1>1. ASSUME setBorrowing(id, flag)
      PROVE  /\ id \in ValidIds /\ UserConfigurationTypeOK'
             /\ SetsOfReserves!SetBorrowing(id, flag)
  <2>1. id \in ValidIds /\ id \in 0 .. 127
    BY <1>1, IdsAreSmall DEF setBorrowing
  <2>2. 2 * id \in WordBits
    BY <2>1 DEF WordBits
  <2>3. userData' = IF flag THEN userData \cup {2 * id} ELSE userData \ {2 * id}
    BY <1>1, <2>2, BitsOfReserves, BitWritten DEF SetsAreBits, setBorrowing
  <2>4. UserConfigurationTypeOK'
    BY <2>1, <2>3 DEF UserConfigurationTypeOK, ValidIds
  <2>5. /\ Borrowed' = {i \in ValidIds : 2 * i \in userData'}
        /\ Collateral' = {i \in ValidIds : 2 * i + 1 \in userData'}
    BY <2>4, BitsStay DEF SetsAreBits, ValidIds
  <2>6. \A i \in ValidIds : /\ 2 * i \in userData' <=> IF i = id THEN flag ELSE 2 * i \in userData
                            /\ 2 * i + 1 \in userData' <=> 2 * i + 1 \in userData
    BY <2>1, <2>3, IdsAreSmall
  <2> QED
    BY <2>1, <2>4, <2>5, <2>6, BitsOfReserves DEF SetsAreBits, SetsOfReserves!SetBorrowing
<1>2. ASSUME setUsingAsCollateral(id, flag)
      PROVE  /\ id \in ValidIds /\ UserConfigurationTypeOK'
             /\ SetsOfReserves!SetUsingAsCollateral(id, flag)
  <2>1. id \in ValidIds /\ id \in 0 .. 127
    BY <1>2, IdsAreSmall DEF setUsingAsCollateral
  <2>2. 2 * id + 1 \in WordBits
    BY <2>1 DEF WordBits
  <2>3. userData' = IF flag THEN userData \cup {2 * id + 1} ELSE userData \ {2 * id + 1}
    BY <1>2, <2>2, BitsOfReserves, BitWritten DEF SetsAreBits, setUsingAsCollateral
  <2>4. UserConfigurationTypeOK'
    BY <2>1, <2>3 DEF UserConfigurationTypeOK, ValidIds
  <2>5. /\ Borrowed' = {i \in ValidIds : 2 * i \in userData'}
        /\ Collateral' = {i \in ValidIds : 2 * i + 1 \in userData'}
    BY <2>4, BitsStay DEF SetsAreBits, ValidIds
  <2>6. \A i \in ValidIds : /\ 2 * i + 1 \in userData' <=> IF i = id THEN flag ELSE 2 * i + 1 \in userData
                            /\ 2 * i \in userData' <=> 2 * i \in userData
    BY <2>1, <2>3, IdsAreSmall
  <2> QED
    BY <2>1, <2>4, <2>5, <2>6, BitsOfReserves DEF SetsAreBits, SetsOfReserves!SetUsingAsCollateral
<1> QED
  BY <1>1, <1>2

\* The word, and the two sets that it stands for.
LEMMA FlagsInductive ==
    /\ UserConfigurationInit => UserConfigurationTypeOK /\ SetsOfReserves!Init
    /\ UserConfigurationTypeOK /\ [UserConfigurationNext]_userData =>
         /\ UserConfigurationTypeOK'
         /\ [SetsOfReserves!Next]_<<Borrowed, Collateral>>
<1>1. ASSUME UserConfigurationInit PROVE UserConfigurationTypeOK /\ SetsOfReserves!Init
  <2>1. UserConfigurationTypeOK
    BY <1>1 DEF UserConfigurationInit, UserConfigurationTypeOK, Zero
  <2> QED
    BY <1>1, <2>1, BitsOfReserves
       DEF UserConfigurationInit, SetsAreBits, SetsOfReserves!Init, Zero
<1>2. ASSUME UserConfigurationTypeOK, [UserConfigurationNext]_userData
      PROVE  /\ UserConfigurationTypeOK'
             /\ [SetsOfReserves!Next]_<<Borrowed, Collateral>>
  <2>1. ASSUME NEW id \in ReserveIndices, NEW flag \in BOOLEAN,
               setBorrowing(id, flag) \/ setUsingAsCollateral(id, flag)
        PROVE  UserConfigurationTypeOK' /\ SetsOfReserves!Next
    BY <1>2, <2>1, FlagWritten DEF SetsOfReserves!Next
  <2>2. CASE UNCHANGED userData
    BY <1>2, <2>2 DEF UserConfigurationTypeOK, ValidIds, Borrowed, Collateral,
       isBorrowing, isUsingAsCollateral
  <2> QED
    BY <1>2, <2>1, <2>2 DEF UserConfigurationNext
<1> QED
  BY <1>1, <1>2

\* Two bits for each valid id, and no other, are ever in use
\* (UserConfigurationTypeOK of module UserConfiguration).
LEMMA UserWordTyped == UserConfigurationSpec => []UserConfigurationTypeOK
  BY FlagsInductive, PTL DEF UserConfigurationSpec

\* The word implements two sets of reserves: setting and clearing a flag touches
\* neither another reserve nor the other flag of the same one (ImplementsFlags of
\* module UserConfiguration).
THEOREM WordIsTwoSets == UserConfigurationSpec => ImplementsFlags
<1> DEFINE Faithful == \A id \in ValidIds, flag \in BOOLEAN :
              /\ setBorrowing(id, flag) => SetsOfReserves!SetBorrowing(id, flag)
              /\ setUsingAsCollateral(id, flag) =>
                     SetsOfReserves!SetUsingAsCollateral(id, flag)
<1>1. UserConfigurationTypeOK => [Faithful]_userData
  <2> SUFFICES ASSUME UserConfigurationTypeOK, NEW id \in ValidIds, NEW flag \in BOOLEAN
               PROVE  /\ setBorrowing(id, flag) => SetsOfReserves!SetBorrowing(id, flag)
                      /\ setUsingAsCollateral(id, flag) =>
                             SetsOfReserves!SetUsingAsCollateral(id, flag)
    OBVIOUS
  <2>1. id \in ReserveIndices
    BY IndicesAssumption DEF ValidIds
  <2> QED
    BY <2>1, FlagWritten
<1>2. UserConfigurationSpec => [][Faithful]_userData
  <2> HIDE DEF Faithful
  <2> QED
    BY <1>1, UserWordTyped, PTL
<1>3. UserConfigurationSpec => SetsOfReserves!Spec
  BY FlagsInductive, UserWordTyped, PTL DEF UserConfigurationSpec, SetsOfReserves!Spec
<1> QED
  BY <1>2, <1>3, PTL DEF ImplementsFlags

-----------------------------------------------------------------------------
(* The questions that are asked of the whole word of a user.               *)

\* The bits of one kind, with the reserves whose flags they are: those at
\* 2 * id + 0 for the loans, and at 2 * id + 1 for the collateral.
LEMMA OneKind ==
    ASSUME UserConfigurationTypeOK, NEW k \in {0, 1}, NEW mask,
           mask = {b \in WordBits : b % 2 = k}
    PROVE  LET S == {id \in ValidIds : 2 * id + k \in userData}
               w == And(userData, mask)
           IN  /\ w \in Word /\ w = {2 * id + k : id \in S}
               /\ S \subseteq 0 .. 127 /\ IsFiniteSet(S)
               /\ PowerOfTwo(w) <=> \E id \in ValidIds : S = {id}
               /\ PowerOfTwo(w) <=> Cardinality(S) = 1
               /\ w # Zero <=> S # {}
<1> DEFINE S == {id \in ValidIds : 2 * id + k \in userData}
           w == And(userData, mask)
<1>1. userData \in Word /\ w \in Word
  BY BitsOfReserves DEF SetsAreBits, And, Word
<1>2. S \subseteq 0 .. 127 /\ IsFiniteSet(S)
  <2>1. S \subseteq 0 .. 127
    BY IdsAreSmall
  <2>2. IsFiniteSet(0 .. 127)
    <3>1. 0 \in Int /\ 127 \in Int
      OBVIOUS
    <3> QED
      BY <3>1, FS_Interval, Zenon
  <2> HIDE DEF S
  <2> QED
    BY <2>1, <2>2, FS_Subset
<1>3. ASSUME NEW b
      PROVE  b \in w <=> \E id \in S : b = 2 * id + k
  <2>1. ASSUME b \in w PROVE \E id \in S : b = 2 * id + k
    <3>1. b \in userData /\ b \in WordBits /\ b % 2 = k
      BY <2>1 DEF And
    <3>2. PICK id \in ValidIds : b = 2 * id \/ b = 2 * id + 1
      BY <3>1 DEF UserConfigurationTypeOK
    <3>3. b = 2 * id + k
      BY <3>1, <3>2, IdsAreSmall
    <3> QED
      BY <3>1, <3>2, <3>3
  <2>2. ASSUME NEW id \in S PROVE 2 * id + k \in w
    <3>1. id \in 0 .. 127 /\ 2 * id + k \in userData
      BY <1>2
    <3>2. 2 * id + k \in WordBits /\ (2 * id + k) % 2 = k
      BY <3>1 DEF WordBits
    <3> QED
      BY <3>1, <3>2 DEF And
  <2> QED
    BY <2>1, <2>2
<1>4. w = {2 * id + k : id \in S}
  BY <1>3
<1>5. (\E b : w = {b}) <=> \E id \in ValidIds : S = {id}
  <2>1. ASSUME NEW b, w = {b} PROVE \E id \in ValidIds : S = {id}
    <3>1. PICK id \in S : b = 2 * id + k
      BY <1>3, <2>1
    <3>2. \A i \in S : 2 * i + k = b
      BY <1>4, <2>1
    <3>3. S = {id}
      <4>1. \A i \in S : i = id
        BY <1>2, <3>1, <3>2
      <4> QED
        BY <3>1, <4>1
    <3> QED
      BY <3>1, <3>3
  <2>2. ASSUME NEW id \in ValidIds, S = {id} PROVE w = {2 * id + k}
    BY <1>4, <2>2
  <2> QED
    BY <2>1, <2>2
<1>6. PowerOfTwo(w) <=> \E b : w = {b}
  BY <1>1, PowersOfTwo
<1>7. Cardinality(S) = 1 <=> \E id \in ValidIds : S = {id}
  <2>1. Cardinality(S) = 1 <=> \E x : S = {x}
    BY <1>2, FS_Singleton
  <2>2. \A x : S = {x} => x \in ValidIds
    OBVIOUS
  <2> QED
    BY <2>1, <2>2
<1>8. w # Zero <=> S # {}
  BY <1>4 DEF Zero
<1> QED
  BY <1>1, <1>2, <1>4, <1>5, <1>6, <1>7, <1>8

\* Of a word with a single bit of a kind, the shifts by two count up to its reserve.
LEMMA ShiftsCountTheId ==
    ASSUME NEW k \in {0, 1}, NEW mask, NEW id \in 0 .. 127,
           And(userData, mask) = {2 * id + k}
    PROVE  _getFirstAssetIdByMask(mask) = id
<1> DEFINE p == 2 * id + k
           first == And({p}, Not(MinusOne({p})))
<1>1. p \in WordBits /\ p \in Nat /\ {p} \in Word /\ {p} # Zero
  BY DEF WordBits, Word, Zero
<1>2. MinusOne({p}) = 0 .. p - 1
  <2>1. PICK b \in {p} : MinusOne({p}) = ({p} \ {b}) \cup (0 .. b - 1)
    BY <1>1, BitsBefore
  <2> QED
    BY <2>1
<1>3. first = {p}
  BY <1>1, <1>2 DEF And, Not
<1>4. {n \in 1 .. 128 : Shr(2 * n, first) # Zero} = 1 .. id
  <2>1. ASSUME NEW n \in 1 .. 128 PROVE Shr(2 * n, first) # Zero <=> n <= id
    <3>1. Shr(2 * n, first) # Zero <=> 2 * n <= p
      <4>1. {c \in first : c >= 2 * n} # {} <=> 2 * n <= p
        BY <1>1, <1>3
      <4> QED
        BY <4>1 DEF Shr, Zero
    <3> QED
      BY <3>1
  <2> HIDE DEF first
  <2> QED
    BY <2>1
<1>5. Cardinality(1 .. id) = id
  <2>1. id \in Int /\ 1 \in Int
    OBVIOUS
  <2>2. Cardinality(1 .. id) = IF 1 > id THEN 0 ELSE id - 1 + 1
    BY <2>1, FS_Interval
  <2> QED
    BY <2>2
<1> QED
  BY <1>4, <1>5 DEF _getFirstAssetIdByMask

\* What loans are validated by, asked with masks, decrements and shifts of the
\* whole word, is what the two sets say (QuestionsOfTheSets of module
\* UserConfiguration), on which the exclusivities of module Pool rest.
THEOREM WordAnswersRight == UserConfigurationSpec => []QuestionsOfTheSets
<1>1. UserConfigurationTypeOK => QuestionsOfTheSets
  <2> SUFFICES ASSUME UserConfigurationTypeOK PROVE QuestionsOfTheSets
    OBVIOUS
  <2> DEFINE loans == And(userData, BORROWING_MASK)
             pledged == And(userData, COLLATERAL_MASK)
  <2>1. /\ userData \in Word
        /\ Borrowed = {id \in ValidIds : 2 * id + 0 \in userData}
        /\ Collateral = {id \in ValidIds : 2 * id + 1 \in userData}
    <3>1. \A id \in ValidIds : 2 * id + 0 = 2 * id
      BY IdsAreSmall
    <3> QED
      BY <3>1, BitsOfReserves DEF SetsAreBits
  <2>2. /\ loans = {2 * id + 0 : id \in Borrowed}
        /\ PowerOfTwo(loans) <=> \E id \in ValidIds : Borrowed = {id}
        /\ PowerOfTwo(loans) <=> Cardinality(Borrowed) = 1
        /\ loans # Zero <=> Borrowed # {}
    BY <2>1, OneKind DEF BORROWING_MASK
  <2>3. /\ pledged = {2 * id + 1 : id \in Collateral}
        /\ PowerOfTwo(pledged) <=> \E id \in ValidIds : Collateral = {id}
        /\ PowerOfTwo(pledged) <=> Cardinality(Collateral) = 1
        /\ pledged # Zero <=> Collateral # {}
    BY <2>1, OneKind DEF COLLATERAL_MASK
  <2>4. /\ isUsingAsCollateralOne <=> Cardinality(Collateral) = 1
        /\ isBorrowingOne <=> Cardinality(Borrowed) = 1
        /\ isUsingAsCollateralAny <=> Collateral # {}
        /\ isBorrowingAny <=> Borrowed # {}
    BY <2>2, <2>3 DEF isUsingAsCollateralOne, isBorrowingOne, isUsingAsCollateralAny,
       isBorrowingAny
  <2>5. ASSUME NEW id \in ValidIds
        PROVE  isUsingAsCollateralOrBorrowing(id) <=> id \in Borrowed \cup Collateral
    <3>1. 2 * id \in Nat /\ 2 * id + 0 = 2 * id
      BY IdsAreSmall
    <3> QED
      BY <2>1, <3>1, BitShifted DEF isUsingAsCollateralOrBorrowing, And, Zero
  <2>6. isEmpty <=> Collateral \cup Borrowed = {}
    <3>1. userData = {} <=> \A id \in ValidIds : 2 * id \notin userData /\ 2 * id + 1 \notin userData
      BY DEF UserConfigurationTypeOK
    <3> QED
      BY <3>1, BitsOfReserves DEF SetsAreBits, isEmpty, Zero
  <2>7. ASSUME NEW id \in ValidIds, Collateral = {id}
        PROVE  _getFirstAssetIdByMask(COLLATERAL_MASK) = id
    <3>1. And(userData, COLLATERAL_MASK) = {2 * id + 1} /\ id \in 0 .. 127
      BY <2>3, <2>7, IdsAreSmall
    <3> QED
      BY <3>1, ShiftsCountTheId
  <2>8. ASSUME NEW id \in ValidIds, Borrowed = {id}
        PROVE  _getFirstAssetIdByMask(BORROWING_MASK) = id
    <3>1. And(userData, BORROWING_MASK) = {2 * id + 0} /\ id \in 0 .. 127
      BY <2>2, <2>8, IdsAreSmall
    <3> QED
      BY <3>1, ShiftsCountTheId
  <2>9. getIsolationModeState[1] <=>
           \E id \in ValidIds : /\ Collateral = {id}
                                /\ debtCeiling[reservesById[id]] > 0
                                /\ getIsolationModeState[2] = reservesById[id]
    <3>1. \A id \in ValidIds : debtCeiling[reservesById[id]] \in Nat
      BY IndicesAssumption DEF ValidIds
    <3>2. isUsingAsCollateralOne <=> \E id \in ValidIds : Collateral = {id}
      BY <2>3 DEF isUsingAsCollateralOne
    <3> QED
      BY <2>7, <3>1, <3>2 DEF getIsolationModeState
  <2>10. getSiloedBorrowingState[1] <=>
           \E id \in ValidIds : /\ Borrowed = {id}
                                /\ siloedBorrowing[reservesById[id]]
                                /\ getSiloedBorrowingState[2] = reservesById[id]
    <3>1. isBorrowingOne <=> \E id \in ValidIds : Borrowed = {id}
      BY <2>2 DEF isBorrowingOne
    <3> QED
      BY <2>8, <3>1 DEF getSiloedBorrowingState
  <2> QED
    BY <2>4, <2>5, <2>6, <2>9, <2>10 DEF QuestionsOfTheSets
<1> QED
  BY <1>1, UserWordTyped, PTL

-----------------------------------------------------------------------------
(* The configuration of a reserve.                                         *)

\* The widths of the fields; the code has them in its masks and largest values.
Width == [
    Ltv |-> 16, LiquidationThreshold |-> 16, LiquidationBonus |-> 16,
    Decimals |-> 8, Active |-> 1, Frozen |-> 1, BorrowingEnabled |-> 1,
    StableRateBorrowingEnabled |-> 1, Paused |-> 1,
    BorrowableInIsolation |-> 1, SiloedBorrowing |-> 1,
    FlashLoanEnabled |-> 1, ReserveFactor |-> 16, BorrowCap |-> 36,
    SupplyCap |-> 36, LiquidationProtocolFee |-> 16, EModeCategory |-> 8,
    UnbackedMintCap |-> 36, DebtCeiling |-> 40 ]

Field(first, width) == first .. first + width - 1

\* The parameters by name.
LEMMA Names ==
    /\ Flags = {"Active", "Frozen", "BorrowingEnabled", "StableRateBorrowingEnabled", "Paused",
                "BorrowableInIsolation", "SiloedBorrowing", "FlashLoanEnabled"}
    /\ Parameters = Flags \cup
         {"Ltv", "LiquidationThreshold", "LiquidationBonus", "Decimals", "ReserveFactor",
          "BorrowCap", "SupplyCap", "LiquidationProtocolFee", "EModeCategory",
          "UnbackedMintCap", "DebtCeiling"}
  BY DEF Flags, Parameters, Hole, MAX_VALID

\* Where the fields are: within the word, and no two of them overlap.
LEMMA Layout ==
    \A p \in Parameters :
        /\ START_BIT_POSITION[p] \in Nat /\ Width[p] \in Nat \ {0}
        /\ START_BIT_POSITION[p] + Width[p] <= 252
        /\ \A q \in Parameters \ {p} :
               \/ START_BIT_POSITION[p] + Width[p] <= START_BIT_POSITION[q]
               \/ START_BIT_POSITION[q] + Width[q] <= START_BIT_POSITION[p]
  BY Names DEF START_BIT_POSITION, Width

\* The masks were written down for those fields,
LEMMA HolesAreFields == \A p \in Parameters : Hole[p] = Field(START_BIT_POSITION[p], Width[p])
<1>1. /\ Hole["Ltv"] = Field(0, 16)
      /\ Hole["LiquidationThreshold"] = Field(16, 16)
      /\ Hole["LiquidationBonus"] = Field(32, 16)
      /\ Hole["Decimals"] = Field(48, 8)
      /\ Hole["ReserveFactor"] = Field(64, 16)
      /\ Hole["BorrowCap"] = Field(80, 36)
      /\ Hole["SupplyCap"] = Field(116, 36)
      /\ Hole["LiquidationProtocolFee"] = Field(152, 16)
      /\ Hole["EModeCategory"] = Field(168, 8)
      /\ Hole["UnbackedMintCap"] = Field(176, 36)
      /\ Hole["DebtCeiling"] = Field(212, 40)
  BY DEF Hole, Field
<1>2. /\ Hole["Active"] = Field(56, 1)
      /\ Hole["Frozen"] = Field(57, 1)
      /\ Hole["BorrowingEnabled"] = Field(58, 1)
      /\ Hole["StableRateBorrowingEnabled"] = Field(59, 1)
      /\ Hole["Paused"] = Field(60, 1)
      /\ Hole["BorrowableInIsolation"] = Field(61, 1)
      /\ Hole["SiloedBorrowing"] = Field(62, 1)
      /\ Hole["FlashLoanEnabled"] = Field(63, 1)
  BY DEF Hole, Field
<1> QED
  BY Names, <1>1, <1>2, SMT DEF START_BIT_POSITION, Width

\* ... and so were the largest values.
LEMMA LargestValues ==
    \A p \in Parameters : IF p \in Flags THEN Width[p] = 1 ELSE MAX_VALID[p] = Ones(Width[p])
  BY Names DEF MAX_VALID, Width

\* A value that is let through has no bit beyond the width of its field.
LEMMA ValidFits ==
    ASSUME NEW p \in Parameters, NEW v \in Values, Valid(p, v)
    PROVE  v \in Word /\ v \subseteq Ones(Width[p])
<1>1. v \in Word
  BY ValuesAssumption
<1>2. CASE p \in Flags
  <2>1. v \in {{}, {0}} /\ Width[p] = 1
    BY <1>2, LargestValues DEF Valid, Zero
  <2>2. 0 \in Ones(1)
    BY DEF Ones
  <2> QED
    BY <1>1, <2>1, <2>2
<1>3. CASE p \notin Flags
  <2>1. AtMost(v, Ones(Width[p])) /\ Width[p] \in Nat
    BY <1>3, LargestValues, Layout DEF Valid
  <2>2. ASSUME NEW c \in v PROVE c \in Ones(Width[p])
    <3>1. c \in Nat /\ \A b \in Ones(Width[p]) : b < Width[p] /\ b \in Nat
      BY <1>1, <2>1 DEF Word, WordBits, Ones
    <3> QED
      BY <2>1, <3>1 DEF AtMost, Ones
  <2> QED
    BY <1>1, <2>2
<1> QED
  BY <1>1, <1>2, <1>3

\* What a getter reads are the bits of its field.
LEMMA OwnField ==
    ASSUME NEW p \in Parameters
    PROVE  /\ Hole[p] \in Word /\ OutsideMask[p] = Hole[p]
           /\ \A b : b \in Hole[p] <=>
                         /\ b \in Nat /\ START_BIT_POSITION[p] <= b
                         /\ b < START_BIT_POSITION[p] + Width[p]
           /\ \A q \in Parameters \ {p} : Hole[p] \cap Hole[q] = {}
<1>1. ASSUME NEW q \in Parameters
      PROVE  \A b : b \in Hole[q] <=>
                         /\ b \in Nat /\ START_BIT_POSITION[q] <= b
                         /\ b < START_BIT_POSITION[q] + Width[q]
  <2>1. START_BIT_POSITION[q] \in Nat /\ Width[q] \in Nat
    BY Layout
  <2> QED
    BY <2>1, HolesAreFields DEF Field
<1>2. Hole[p] \in Word
  BY <1>1, Layout DEF Word, WordBits
<1>3. OutsideMask[p] = Hole[p]
  BY <1>2 DEF OutsideMask, MASK, Not, Word
<1>4. ASSUME NEW q \in Parameters \ {p} PROVE Hole[p] \cap Hole[q] = {}
  <2>1. /\ START_BIT_POSITION[p] \in Nat /\ Width[p] \in Nat
        /\ START_BIT_POSITION[q] \in Nat /\ Width[q] \in Nat
        /\ \/ START_BIT_POSITION[p] + Width[p] <= START_BIT_POSITION[q]
           \/ START_BIT_POSITION[q] + Width[q] <= START_BIT_POSITION[p]
    BY Layout
  <2> QED
    BY <1>1, <2>1
<1> QED
  BY <1>1, <1>2, <1>3, <1>4

\* A setter replaces the bits of its field by those of the value, in their order,
\* and leaves the other fields alone.
LEMMA FieldWritten ==
    ASSUME NEW p \in Parameters, NEW v \in Values, set(p, v)
    PROVE  /\ And(reserveData', Hole[p]) = Shl(START_BIT_POSITION[p], v)
           /\ Shr(START_BIT_POSITION[p], Shl(START_BIT_POSITION[p], v)) = v
           /\ \A q \in Parameters \ {p} :
                  And(reserveData', Hole[q]) = And(reserveData, Hole[q])
           /\ reserveData' \subseteq reserveData \cup Hole[p]
<1> DEFINE first == START_BIT_POSITION[p]
<1>1. /\ v \in Word /\ v \subseteq Ones(Width[p])
      /\ reserveData' = Or(And(reserveData, MASK[p]), Shl(first, v))
  BY ValidFits DEF set
<1>2. first \in Nat /\ Width[p] \in Nat /\ first + Width[p] <= 252
  BY Layout
<1>3. \A b \in v : b \in Nat /\ b < Width[p] /\ b + first \in WordBits /\ b + first \in Hole[p]
  <2>1. \A b \in v : b \in Nat /\ b < Width[p]
    BY <1>1, <1>2 DEF Ones
  <2>2. \A b \in v : b + first \in WordBits /\ b + first \in Nat
    BY <1>2, <2>1 DEF WordBits
  <2> QED
    BY <1>2, <2>1, <2>2, OwnField
<1>4. Shl(first, v) = {b + first : b \in v} /\ Shl(first, v) \subseteq Hole[p]
  BY <1>3 DEF Shl
<1>5. Shr(first, Shl(first, v)) = v
  <2>1. \A c : c \in Shr(first, {b + first : b \in v}) <=> c \in v
    <3> DEFINE shifted == {b + first : b \in v}
    <3> SUFFICES ASSUME NEW c PROVE (\E d \in shifted : d >= first /\ c = d - first) <=> c \in v
      BY DEF Shr
    <3>1. \A d \in shifted : d >= first /\ d - first \in v
      BY <1>2, <1>3
    <3>2. \A b \in v : b + first \in shifted /\ b + first >= first /\ b = b + first - first
      BY <1>2, <1>3
    <3> HIDE DEF shifted
    <3>3. ASSUME c \in v PROVE \E d \in shifted : d >= first /\ c = d - first
      <4>1. PICK d : d = c + first
        OBVIOUS
      <4>2. d \in shifted /\ d >= first /\ c = d - first
        BY <1>2, <1>3, <3>2, <3>3, <4>1
      <4> QED
        BY <4>2
    <3> QED
      BY <3>1, <3>3
  <2> QED
    BY <1>4, <2>1
<1> HIDE DEF first
<1>6. MASK[p] = WordBits \ Hole[p]
  BY DEF MASK, Not
<1>7. reserveData' = (reserveData \cap (WordBits \ Hole[p])) \cup Shl(first, v)
  BY <1>1, <1>6 DEF Or, And
<1>8. And(reserveData', Hole[p]) = Shl(first, v)
  BY <1>4, <1>7 DEF And
<1>9. ASSUME NEW q \in Parameters \ {p}
      PROVE  And(reserveData', Hole[q]) = And(reserveData, Hole[q])
  <2>1. Hole[q] \subseteq WordBits /\ Hole[p] \cap Hole[q] = {}
    BY OwnField DEF Word
  <2> QED
    BY <1>4, <1>7, <2>1 DEF And
<1>10. reserveData' \subseteq reserveData \cup Hole[p]
  BY <1>4, <1>7
<1> QED
  BY <1>5, <1>8, <1>9, <1>10 DEF first

\* So a step sets one parameter of the record.
LEMMA ParameterSet ==
    ASSUME NEW p \in Parameters, NEW v \in Values, set(p, v)
    PROVE  /\ get(p)' = v
           /\ \A q \in Parameters \ {p} : get(q)' = get(q)
<1>1. get(p)' = v
  <2>1. And(reserveData', OutsideMask[p]) = Shl(START_BIT_POSITION[p], v)
    BY FieldWritten, OwnField
  <2>2. CASE p \in Flags
    <3>1. v \in {Zero, {0}} /\ START_BIT_POSITION[p] \in Nat /\ START_BIT_POSITION[p] < 252
      BY <2>2, Layout DEF set, Valid
    <3>2. CASE v = Zero
      BY <2>1, <2>2, <3>2 DEF get, Shl, Zero, BoolWord
    <3>3. CASE v = {0}
      <4>1. Shl(START_BIT_POSITION[p], v) = {START_BIT_POSITION[p]}
        <5>1. START_BIT_POSITION[p] \in WordBits
          BY <3>1 DEF WordBits
        <5> QED
          BY <3>3, <5>1, BitAt
      <4> QED
        BY <2>1, <2>2, <3>3, <4>1 DEF get, Zero, BoolWord
    <3> QED
      BY <3>1, <3>2, <3>3
  <2>3. CASE p \notin Flags
    BY <2>1, <2>3, FieldWritten DEF get
  <2> QED
    BY <2>2, <2>3
<1>2. ASSUME NEW q \in Parameters \ {p} PROVE get(q)' = get(q)
  <2>1. And(reserveData', OutsideMask[q]) = And(reserveData, OutsideMask[q])
    BY FieldWritten, OwnField
  <2> QED
    BY <2>1 DEF get
<1> QED
  BY <1>1, <1>2

\* Setting a parameter in the word sets it in the record and touches no other,
\* whichever way masks, first bits and largest values were written down
\* (ImplementsRecord of module ReserveConfiguration).
THEOREM WordIsRecord == ReserveConfigurationSpec => ImplementsRecord
<1>1. ReserveConfigurationInit => Record!Init
  <2> SUFFICES ASSUME ReserveConfigurationInit, NEW p \in Parameters PROVE get(p) = Zero
    BY DEF Record!Init
  <2> QED
    BY DEF ReserveConfigurationInit, get, And, Shr, Zero, BoolWord
<1>2. [ReserveConfigurationNext]_reserveData =>
        [Record!Next]_[p \in Parameters |-> get(p)]
  <2> SUFFICES ASSUME [ReserveConfigurationNext]_reserveData
               PROVE  Record!Next \/ UNCHANGED [p \in Parameters |-> get(p)]
    OBVIOUS
  <2>1. ASSUME NEW p \in Parameters, NEW v \in Values, set(p, v) PROVE Record!Next
    <3>1. Valid(p, v) /\ get(p)' = v /\ \A q \in Parameters \ {p} : get(q)' = get(q)
      BY <2>1, ParameterSet DEF set
    <3> QED
      BY <2>1, <3>1 DEF Record!Next, Record!Set
  <2>2. CASE UNCHANGED reserveData
    BY <2>2 DEF get
  <2> QED
    BY <2>1, <2>2 DEF ReserveConfigurationNext
<1> QED
  BY <1>1, <1>2, PTL DEF ReserveConfigurationSpec, ImplementsRecord, Record!Spec

\* The bits 252 to 255 are never in use (ReserveConfigurationTypeOK of module
\* ReserveConfiguration).
THEOREM SpareBitsUnused == ReserveConfigurationSpec => []ReserveConfigurationTypeOK
<1>1. ReserveConfigurationInit => ReserveConfigurationTypeOK
  BY DEF ReserveConfigurationInit, ReserveConfigurationTypeOK, Zero
<1>2. ReserveConfigurationTypeOK /\ [ReserveConfigurationNext]_reserveData
        => ReserveConfigurationTypeOK'
  <2>1. ASSUME ReserveConfigurationTypeOK, NEW p \in Parameters, NEW v \in Values, set(p, v)
        PROVE  ReserveConfigurationTypeOK'
    <3>1. Hole[p] \subseteq 0 .. 251
      BY OwnField, Layout
    <3> QED
      BY <2>1, <3>1, FieldWritten DEF ReserveConfigurationTypeOK
  <2> QED
    BY <2>1 DEF ReserveConfigurationNext, ReserveConfigurationTypeOK
<1> QED
  BY <1>1, <1>2, PTL DEF ReserveConfigurationSpec

-----------------------------------------------------------------------------
(* The ids of assets in packed calls.                                      *)

\* The bit at one more place tells two numbers apart that agree above it.
LEMMA SameHalf ==
    ASSUME NEW p \in Nat \ {0}, NEW i \in Nat, NEW j \in Nat,
           i \div (2 * p) = j \div (2 * p), (i \div p) % 2 = (j \div p) % 2
    PROVE  i \div p = j \div p
<1>1. ASSUME NEW n \in Nat PROVE n \div p = 2 * (n \div (2 * p)) + ((n \div p) % 2)
  <2> DEFINE h == n \div (2 * p)
             q == n \div p
  <2>1. h \in Nat /\ (2 * p) * h <= n /\ n < (2 * p) * (h + 1)
    OBVIOUS
  <2>2. q \in Nat /\ p * q <= n /\ n < p * (q + 1)
    OBVIOUS
  <2> HIDE DEF h, q
  <2>3. q = 2 * (q \div 2) + (q % 2) /\ q % 2 \in {0, 1} /\ q \div 2 \in Nat
    BY <2>2
  <2>4. p * (2 * h) <= n /\ n < p * (2 * h + 2)
    BY <2>1
  <2>5. 2 * h <= q /\ q <= 2 * h + 1
    <3>1. ASSUME q < 2 * h PROVE FALSE
      BY <3>1, <2>1, <2>2, <2>4
    <3>2. ASSUME q > 2 * h + 1 PROVE FALSE
      BY <3>2, <2>1, <2>2, <2>4
    <3> QED
      BY <2>1, <2>2, <3>1, <3>2
  <2>6. q = 2 * h + (q % 2)
    BY <2>1, <2>2, <2>3, <2>5
  <2> QED
    BY <2>6 DEF h, q
<1>2. i \div p = 2 * (i \div (2 * p)) + ((i \div p) % 2)
  BY <1>1
<1>3. j \div p = 2 * (j \div (2 * p)) + ((j \div p) % 2)
  BY <1>1
<1> QED
  BY <1>2, <1>3, Zenon

\* An id is told by its word.
LEMMA WordTellsId ==
    ASSUME NEW i \in Ids, NEW j \in Ids, WordOf(i) = WordOf(j)
    PROVE  i = j
<1>1. i \in Nat /\ j \in Nat /\ i < 128 /\ j < 128
  <2>1. MaxReserves \in 1 .. 128
    BY RequestsAssumption
  <2> QED
    BY <2>1 DEF Ids
<1>2. \A b \in 0 .. 15 : (i \div PlaceValue[b + 1]) % 2 = 1 <=> (j \div PlaceValue[b + 1]) % 2 = 1
  BY DEF WordOf
<1>3. ASSUME NEW b \in 0 .. 15, PlaceValue[b + 1] \in Nat \ {0},
             i \div (2 * PlaceValue[b + 1]) = j \div (2 * PlaceValue[b + 1])
      PROVE  i \div PlaceValue[b + 1] = j \div PlaceValue[b + 1]
  <2> DEFINE p == PlaceValue[b + 1]
  <2>1. (i \div p) % 2 \in {0, 1} /\ (j \div p) % 2 \in {0, 1}
    BY <1>1, <1>3
  <2>2. (i \div p) % 2 = (j \div p) % 2
    BY <1>2, <2>1
  <2> HIDE DEF p
  <2>3. p \in Nat \ {0} /\ i \div (2 * p) = j \div (2 * p)
    BY <1>3 DEF p
  <2>4. i \div p = j \div p
    BY <1>1, <2>2, <2>3, SameHalf, Zenon
  <2> QED
    BY <2>4 DEF p
<1>4. i \div 128 = 0 /\ j \div 128 = 0
  BY <1>1
<1>5. /\ PlaceValue[7] = 64 /\ PlaceValue[6] = 32 /\ PlaceValue[5] = 16
      /\ PlaceValue[4] = 8 /\ PlaceValue[3] = 4 /\ PlaceValue[2] = 2 /\ PlaceValue[1] = 1
  BY DEF PlaceValue
<1>6. ASSUME NEW b \in 0 .. 15, NEW k \in Nat, k = b + 1, NEW p \in Nat \ {0}, PlaceValue[k] = p,
             i \div (2 * p) = j \div (2 * p)
      PROVE  i \div p = j \div p
  BY <1>3, <1>6
<1> HIDE DEF WordOf
<1>7. i \div 64 = j \div 64
  BY <1>4, <1>5, <1>6
<1>8. i \div 32 = j \div 32
  BY <1>5, <1>6, <1>7
<1>9. i \div 16 = j \div 16
  BY <1>5, <1>6, <1>8
<1>10. i \div 8 = j \div 8
  BY <1>5, <1>6, <1>9
<1>11. i \div 4 = j \div 4
  BY <1>5, <1>6, <1>10
<1>12. i \div 2 = j \div 2
  BY <1>5, <1>6, <1>11
<1>13. i \div 1 = j \div 1
  BY <1>5, <1>6, <1>12
<1> QED
  BY <1>1, <1>13

\* So the list gives back the asset of an id.
LEMMA AssetOfWord == ASSUME NEW id \in Ids PROVE AssetOf(WordOf(id)) = reservesList[id]
  BY WordTellsId DEF AssetOf

-----------------------------------------------------------------------------
(* The words of packed calls.                                              *)

\* The sum of two words without a common bit needs no carry.
LEMMA SumOfDisjoint ==
    ASSUME NEW u \in Word, NEW v \in Word, u \cap v = {} PROVE Add(u, v) = u \cup v
<1> DEFINE Carries == {b \in WordBits : \E c \in u \cap v :
                          c < b /\ (c + 1) .. (b - 1) \subseteq u \cup v}
<1>1. Add(u, v) = {b \in WordBits : (b \in u) # (b \in v)}
  <2>1. Carries = {}
    OBVIOUS
  <2>2. Add(u, v) = {b \in WordBits : (b \in u) # ((b \in v) # (b \in Carries))}
    BY DEF Add
  <2> HIDE DEF Carries
  <2> QED
    BY <2>1, <2>2
<1>2. u \subseteq WordBits /\ v \subseteq WordBits
  BY DEF Word
<1> QED
  BY <1>1, <1>2

\* The names of all the fields.
FieldNames == AssetFields \cup DOMAIN ArgumentWidth

\* There are finitely many of them.
LEMMA FieldsAreFinite == IsFiniteSet(FieldNames)
<1>1. FieldNames = {"asset", "collateralAsset", "debtAsset", "amount", "debtToCover",
                    "interestRateMode", "deadline", "referralCode", "permitV", "user",
                    "useAsCollateral", "receiveAToken"}
  BY DEF FieldNames, AssetFields, ArgumentWidth
<1>2. \A a, b, c : IsFiniteSet({a, b, c})
  <2> SUFFICES ASSUME NEW a, NEW b, NEW c PROVE IsFiniteSet({a, b, c})
    OBVIOUS
  <2>1. IsFiniteSet({a} \cup {b})
    BY FS_Singleton, FS_AddElement
  <2>2. IsFiniteSet(({a} \cup {b}) \cup {c})
    BY <2>1, FS_AddElement
  <2>3. ({a} \cup {b}) \cup {c} = {a, b, c}
    OBVIOUS
  <2> QED
    BY <2>2, <2>3
<1>3. IsFiniteSet({"asset", "collateralAsset", "debtAsset"} \cup {"amount", "debtToCover", "interestRateMode"})
  BY <1>2, FS_Union
<1>4. IsFiniteSet({"deadline", "referralCode", "permitV"} \cup {"user", "useAsCollateral", "receiveAToken"})
  BY <1>2, FS_Union
<1>5. FieldNames =
        ({"asset", "collateralAsset", "debtAsset"} \cup {"amount", "debtToCover", "interestRateMode"})
        \cup ({"deadline", "referralCode", "permitV"} \cup {"user", "useAsCollateral", "receiveAToken"})
  BY <1>1
<1> QED
  BY <1>3, <1>4, <1>5, FS_Union

Placed(call, request, at, field) == Shl(at[field], FieldWord(call, request, field))

\* A table of the sums of all sets of fields of a word.
SumStep(call, request, at, sums, s) ==
    IF s = {} THEN Zero
    ELSE Add(Placed(call, request, at, CHOOSE field \in s : TRUE),
             sums[s \ {CHOOSE field \in s : TRUE}])
SumTable(call, request, at) == CHOOSE sums :
    sums = [s \in SUBSET DOMAIN at |-> SumStep(call, request, at, sums, s)]

\* A word of a call is the last entry of its table.
LEMMA PackedIsTabled ==
    ASSUME NEW call, NEW request, NEW i \in DOMAIN EncodedAt[call]
    PROVE  Packed(call, request)[i] =
               SumTable(call, request, EncodedAt[call][i])[DOMAIN EncodedAt[call][i]]
  BY DEF Packed, MapThenFoldSet, SumTable, SumStep, Placed

\* Fields without a common bit, summed in any order, are their union.
LEMMA SumOfFields ==
    ASSUME NEW call, NEW request, NEW at, IsFiniteSet(DOMAIN at),
           \A f \in DOMAIN at : Placed(call, request, at, f) \in Word,
           \A f, g \in DOMAIN at :
               f # g => Placed(call, request, at, f) \cap Placed(call, request, at, g) = {}
    PROVE  SumTable(call, request, at)[DOMAIN at] =
               UNION {Placed(call, request, at, f) : f \in DOMAIN at}
<1> DEFINE S == DOMAIN at
           words == [f \in S |-> Placed(call, request, at, f)]
<1> DEFINE First(s) == CHOOSE field \in s : TRUE
           Step(sums, s) == SumStep(call, request, at, sums, s)
           All(s) == UNION {words[f] : f \in s}
           unions == [s \in SUBSET S |-> All(s)]
<1>a. /\ words \in [S -> Word]
      /\ \A f, g \in S : f # g => words[f] \cap words[g] = {}
      /\ \A f \in S : Placed(call, request, at, f) = words[f]
      /\ IsFiniteSet(S)
  OBVIOUS
<1> HIDE DEF words
<1>0. \A sums, s : s \in SUBSET S =>
          Step(sums, s) = IF s = {} THEN Zero ELSE Add(words[First(s)], sums[s \ {First(s)}])
  <2> SUFFICES ASSUME NEW sums, NEW s \in SUBSET S
               PROVE  Step(sums, s) =
                        IF s = {} THEN Zero ELSE Add(words[First(s)], sums[s \ {First(s)}])
    OBVIOUS
  <2>1. s # {} => First(s) \in S
    OBVIOUS
  <2> HIDE DEF First
  <2>2. s # {} => Placed(call, request, at, First(s)) = words[First(s)]
    BY <1>a, <2>1
  <2> QED
    BY <2>2 DEF SumStep, First
<1> HIDE DEF S, Step
<1>1. ASSUME NEW s \in SUBSET S PROVE Step(unions, s) = All(s)
  <2>1. CASE s = {}
    <3>1. All(s) = {}
      BY <2>1
    <3>2. Step(unions, s) = Zero
      BY <1>0, <2>1
    <3> QED
      BY <3>1, <3>2 DEF Zero
  <2>2. CASE s # {}
    <3> DEFINE f == First(s)
    <3>1. f \in s
      BY <2>2
    <3> HIDE DEF f
    <3>2. All(s) = words[f] \cup All(s \ {f}) /\ words[f] \cap All(s \ {f}) = {}
      BY <1>a, <3>1
    <3>3. words[f] \in Word /\ All(s \ {f}) \in Word
      BY <1>a, <3>1 DEF Word
    <3>4. unions[s \ {f}] = All(s \ {f})
      OBVIOUS
    <3> HIDE DEF All, unions
    <3>5. Add(words[f], unions[s \ {f}]) = All(s)
      BY <3>2, <3>3, <3>4, SumOfDisjoint
    <3> QED
      BY <1>0, <2>2, <3>5 DEF f
  <2> QED
    BY <2>1, <2>2
<1>2. unions = [s \in SUBSET S |-> Step(unions, s)]
  BY <1>1
<1> DEFINE table == SumTable(call, request, at)
<1>3. table = [s \in SUBSET S |-> Step(table, s)]
  BY <1>2 DEF SumTable, S, Step
<1> HIDE DEF table
<1>4. table[S] = All(S)
  <2> DEFINE Bad == {s \in SUBSET S : table[s] # All(s)}
  <2> SUFFICES ASSUME Bad # {} PROVE FALSE
    OBVIOUS
  <2>1. PICK s \in Bad : \A u \in Bad : ~ (u \subseteq s /\ u # s)
    <3>1. Bad \subseteq SUBSET S
      OBVIOUS
    <3> HIDE DEF Bad
    <3>2. Bad \subseteq FiniteSubsetsOf(S)
      BY <1>a, <3>1, FS_Subset DEF FiniteSubsetsOf
    <3>3. \E T \in Bad : \A U \in Bad : ~ (<<U, T>> \in StrictSubsetOrdering(S))
      BY <3>2, FS_StrictSubsetOrderingWellFounded, WFMin
    <3>4. \A U, T \in Bad : <<U, T>> \in StrictSubsetOrdering(S) <=> U \subseteq T /\ U # T
      BY <3>1 DEF StrictSubsetOrdering
    <3> QED
      BY <3>3, <3>4
  <2>2. s \in SUBSET S /\ table[s] # All(s)
    BY <2>1
  <2>3. table[s] = Step(table, s) /\ Step(unions, s) = All(s)
    BY <1>1, <1>3, <2>2
  <2>4. s # {}
    BY <1>0, <2>2, <2>3
  <2> DEFINE f == First(s)
  <2>5. f \in s /\ s \ {f} \in SUBSET S /\ s \ {f} \subseteq s /\ s \ {f} # s
    BY <2>2, <2>4
  <2>6. table[s \ {f}] = All(s \ {f})
    BY <2>1, <2>5
  <2>7. unions[s \ {f}] = All(s \ {f})
    BY <2>5
  <2>8. Step(table, s) = Add(words[f], table[s \ {f}]) /\ Step(unions, s) = Add(words[f], unions[s \ {f}])
    BY <1>0, <2>2, <2>4
  <2> HIDE DEF All, unions, f, Step, First
  <2> QED
    BY <2>2, <2>3, <2>6, <2>7, <2>8
<1> QED
  BY <1>a, <1>4 DEF table, S

\* Fields that lie within a word, and no two of which overlap.
WellLaid(at) == \A f \in DOMAIN at :
    /\ f \in FieldNames
    /\ at[f] \in Nat /\ DecodedWidth[f] \in Nat /\ at[f] + DecodedWidth[f] <= 256
    /\ \A g \in DOMAIN at \ {f} :
           at[f] + DecodedWidth[f] <= at[g] \/ at[g] + DecodedWidth[g] <= at[f]

\* All words of calls are laid out so, and in the decoder as in the encoder.
LEMMA Layouts ==
    /\ EncodedAt = DecodedAt
    /\ \A call \in Calls : \A i \in DOMAIN EncodedAt[call] : WellLaid(EncodedAt[call][i])
<1> DEFINE Laid(words) == \A i \in DOMAIN words : WellLaid(words[i])
<1>1. EncodedAt = DecodedAt
  BY DEF EncodedAt, DecodedAt
<1>a. ASSUME NEW at, WellLaid(at) PROVE Laid(<<at>>)
  BY <1>a
<1>b. ASSUME NEW at, WellLaid(at), NEW bt, WellLaid(bt) PROVE Laid(<<at, bt>>)
  <2>1. DOMAIN <<at, bt>> = {1, 2} /\ <<at, bt>>[1] = at /\ <<at, bt>>[2] = bt
    OBVIOUS
  <2> QED
    BY <1>b, <2>1
<1> HIDE DEF Laid
<1>2. Laid(EncodedAt["supply"])
  <2>1. WellLaid([asset |-> 0, amount |-> 16, referralCode |-> 144])
    BY DEF WellLaid, DecodedWidth, FieldNames, AssetFields, ArgumentWidth
  <2> QED
    BY <1>a, <2>1 DEF EncodedAt
<1>3. Laid(EncodedAt["supplyWithPermit"])
  <2>1. WellLaid([asset |-> 0, amount |-> 16, referralCode |-> 144,
                  deadline |-> 160, permitV |-> 192])
    BY DEF WellLaid, DecodedWidth, FieldNames, AssetFields, ArgumentWidth
  <2> QED
    BY <1>a, <2>1 DEF EncodedAt
<1>4. Laid(EncodedAt["withdraw"])
  <2>1. WellLaid([asset |-> 0, amount |-> 16])
    BY DEF WellLaid, DecodedWidth, FieldNames, AssetFields, ArgumentWidth
  <2> QED
    BY <1>a, <2>1 DEF EncodedAt
<1>5. Laid(EncodedAt["borrow"])
  <2>1. WellLaid([asset |-> 0, amount |-> 16, interestRateMode |-> 144, referralCode |-> 152])
    BY DEF WellLaid, DecodedWidth, FieldNames, AssetFields, ArgumentWidth
  <2> QED
    BY <1>a, <2>1 DEF EncodedAt
<1>6. Laid(EncodedAt["repay"]) /\ Laid(EncodedAt["repayWithATokens"])
  <2>1. WellLaid([asset |-> 0, amount |-> 16, interestRateMode |-> 144])
    BY DEF WellLaid, DecodedWidth, FieldNames, AssetFields, ArgumentWidth
  <2> QED
    BY <1>a, <2>1 DEF EncodedAt
<1>7. Laid(EncodedAt["repayWithPermit"])
  <2>1. WellLaid([asset |-> 0, amount |-> 16, interestRateMode |-> 144,
                  deadline |-> 152, permitV |-> 184])
    BY DEF WellLaid, DecodedWidth, FieldNames, AssetFields, ArgumentWidth
  <2> QED
    BY <1>a, <2>1 DEF EncodedAt
<1>8. Laid(EncodedAt["swapBorrowRateMode"])
  <2>1. WellLaid([asset |-> 0, interestRateMode |-> 16])
    BY DEF WellLaid, DecodedWidth, FieldNames, AssetFields, ArgumentWidth
  <2> QED
    BY <1>a, <2>1 DEF EncodedAt
<1>9. Laid(EncodedAt["rebalanceStableBorrowRate"])
  <2>1. WellLaid([asset |-> 0, user |-> 16])
    BY DEF WellLaid, DecodedWidth, FieldNames, AssetFields, ArgumentWidth
  <2> QED
    BY <1>a, <2>1 DEF EncodedAt
<1>10. Laid(EncodedAt["setUserUseReserveAsCollateral"])
  <2>1. WellLaid([asset |-> 0, useAsCollateral |-> 16])
    BY DEF WellLaid, DecodedWidth, FieldNames, AssetFields, ArgumentWidth
  <2> QED
    BY <1>a, <2>1 DEF EncodedAt
<1>11. Laid(EncodedAt["liquidationCall"])
  <2>1. WellLaid([collateralAsset |-> 0, debtAsset |-> 16, user |-> 32])
    BY DEF WellLaid, DecodedWidth, FieldNames, AssetFields, ArgumentWidth
  <2>2. WellLaid([debtToCover |-> 0, receiveAToken |-> 128])
    BY DEF WellLaid, DecodedWidth, FieldNames, AssetFields, ArgumentWidth
  <2> QED
    BY <1>b, <2>1, <2>2 DEF EncodedAt
<1>12. Calls = {"supply", "supplyWithPermit", "withdraw", "borrow", "repay", "repayWithATokens",
                "repayWithPermit", "swapBorrowRateMode", "rebalanceStableBorrowRate",
                "setUserUseReserveAsCollateral", "liquidationCall"}
  BY DEF Calls, EncodedAt
<1>13. \A call \in Calls : Laid(EncodedAt[call])
  BY <1>2, <1>3, <1>4, <1>5, <1>6, <1>7, <1>8, <1>9, <1>10, <1>11, <1>12
<1> QED
  BY <1>1, <1>13 DEF Laid

\* No field is in two words of a call.
LEMMA FieldsApart ==
    \A call \in Calls : \A i, j \in DOMAIN EncodedAt[call] :
        i # j => DOMAIN EncodedAt[call][i] \cap DOMAIN EncodedAt[call][j] = {}
<1>1. \A call \in Calls : call # "liquidationCall" => DOMAIN EncodedAt[call] = {1}
  BY DEF Calls, EncodedAt
<1>2. DOMAIN EncodedAt["liquidationCall"] = {1, 2}
  BY DEF EncodedAt
<1>3. DOMAIN EncodedAt["liquidationCall"][1] \cap DOMAIN EncodedAt["liquidationCall"][2] = {}
  BY DEF EncodedAt
<1> QED
  BY <1>1, <1>2, <1>3

\* A field of a word, taken out by shift and mask, is what was put there.
LEMMA FieldRead ==
    ASSUME NEW call, NEW request, NEW at, WellLaid(at),
           \A f \in DOMAIN at : FieldWord(call, request, f) \subseteq Ones(DecodedWidth[f]),
           NEW word, word = SumTable(call, request, at)[DOMAIN at]
    PROVE  /\ word \in Word
           /\ \A f \in DOMAIN at : And(Shr(at[f], word), Ones(DecodedWidth[f]))
                                     = FieldWord(call, request, f)
<1> DEFINE Given(f) == FieldWord(call, request, f)
           Lain(f) == Placed(call, request, at, f)
<1>1. IsFiniteSet(DOMAIN at)
  <2>1. DOMAIN at \subseteq FieldNames
    BY DEF WellLaid
  <2> QED
    BY <2>1, FieldsAreFinite, FS_Subset
<1>2. ASSUME NEW f \in DOMAIN at
      PROVE  /\ at[f] \in Nat /\ DecodedWidth[f] \in Nat /\ at[f] + DecodedWidth[f] <= 256
             /\ \A b \in Given(f) : b \in Nat /\ b < DecodedWidth[f]
  <2>1. /\ at[f] \in Nat /\ DecodedWidth[f] \in Nat /\ at[f] + DecodedWidth[f] <= 256
    BY DEF WellLaid
  <2>2. Given(f) \subseteq 0 .. DecodedWidth[f] - 1
    BY DEF Ones
  <2> QED
    BY <2>1, <2>2
<1> HIDE DEF Given
<1>3. ASSUME NEW f \in DOMAIN at
      PROVE  /\ Lain(f) = {b + at[f] : b \in Given(f)}
             /\ Lain(f) \in Word
             /\ \A c \in Lain(f) : c \in Nat /\ at[f] <= c /\ c < at[f] + DecodedWidth[f]
  <2>1. \A b \in Given(f) : /\ b + at[f] \in WordBits /\ b + at[f] \in Nat
                            /\ at[f] <= b + at[f] /\ b + at[f] < at[f] + DecodedWidth[f]
    BY <1>2 DEF WordBits
  <2>2. Lain(f) = {b + at[f] : b \in Given(f)} \cap WordBits
    BY DEF Placed, Shl, Given
  <2> HIDE DEF Lain
  <2>3. Lain(f) = {b + at[f] : b \in Given(f)}
    BY <2>1, <2>2
  <2> QED
    BY <2>1, <2>2, <2>3 DEF Word
<1>4. ASSUME NEW f \in DOMAIN at, NEW g \in DOMAIN at, f # g
      PROVE  Lain(f) \cap Lain(g) = {}
  <2>1. at[f] + DecodedWidth[f] <= at[g] \/ at[g] + DecodedWidth[g] <= at[f]
    BY <1>4 DEF WellLaid
  <2> HIDE DEF Lain
  <2> QED
    BY <1>2, <1>3, <2>1
<1>5. word = UNION {Lain(f) : f \in DOMAIN at}
  BY <1>1, <1>3, <1>4, SumOfFields
<1> HIDE DEF Lain
<1>6. word \in Word
  BY <1>3, <1>5 DEF Word
<1>7. ASSUME NEW f \in DOMAIN at
      PROVE  And(Shr(at[f], word), Ones(DecodedWidth[f])) = Given(f)
  <2> DEFINE read == And(Shr(at[f], word), Ones(DecodedWidth[f]))
  <2>1. ASSUME NEW b \in Given(f) PROVE b \in read
    <3>1. b \in Nat /\ b < DecodedWidth[f] /\ DecodedWidth[f] \in Nat /\ at[f] \in Nat
      BY <1>2
    <3>a. PICK d : d = b + at[f]
      OBVIOUS
    <3>2. d \in {c \in word : c >= at[f]} /\ b = d - at[f]
      BY <1>3, <1>5, <3>1, <3>a
    <3>3. b \in Ones(DecodedWidth[f])
      BY <3>1 DEF Ones
    <3>4. b \in Shr(at[f], word)
      BY <3>2 DEF Shr
    <3> QED
      BY <3>3, <3>4 DEF And
  <2>2. ASSUME NEW b \in read PROVE b \in Given(f)
    <3>1. b \in Nat /\ b < DecodedWidth[f] /\ at[f] \in Nat /\ DecodedWidth[f] \in Nat
      BY <1>2 DEF And, Ones
    <3>2. PICK c \in word : c >= at[f] /\ b = c - at[f]
      BY DEF And, Shr
    <3>3. PICK g \in DOMAIN at : c \in Lain(g)
      BY <1>5
    <3>4. c \in Nat /\ at[g] <= c /\ c < at[g] + DecodedWidth[g] /\ at[g] \in Nat /\ DecodedWidth[g] \in Nat
      BY <1>2, <1>3, <3>3
    <3>5. c = b + at[f]
      BY <3>1, <3>2, <3>4
    <3>6. g = f
      <4> SUFFICES ASSUME g # f PROVE FALSE
        OBVIOUS
      <4>1. at[f] + DecodedWidth[f] <= at[g] \/ at[g] + DecodedWidth[g] <= at[f]
        BY DEF WellLaid
      <4> QED
        BY <3>1, <3>2, <3>4, <3>5, <4>1
    <3>7. PICK d \in Given(f) : c = d + at[f]
      BY <1>3, <3>3, <3>6
    <3>8. d \in Nat
      BY <1>2
    <3>9. d = b
      BY <3>1, <3>5, <3>7, <3>8
    <3> QED
      BY <3>9
  <2> HIDE DEF read
  <2>3. read = Given(f)
    BY <2>1, <2>2
  <2> QED
    BY <2>3 DEF read
<1> QED
  BY <1>6, <1>7 DEF Given

-----------------------------------------------------------------------------
(* The arguments of packed calls.                                          *)

\* What a client asks for, field by field.
LEMMA AskedFor ==
    ASSUME NEW call \in Calls, NEW request \in Requests(call)
    PROVE  /\ DOMAIN request = FieldsOf(call)
           /\ \A field \in FieldsOf(call) :
                  IF field \in AssetFields THEN request[field] \in Assets
                  ELSE request[field] \subseteq Ones(ArgumentWidth[field])
           /\ \A i \in DOMAIN EncodedAt[call] : DOMAIN EncodedAt[call][i] \subseteq FieldsOf(call)
           /\ \A field \in FieldsOf(call) : field \in FieldNames
<1>1. /\ DOMAIN request = FieldsOf(call)
      /\ \A field \in FieldsOf(call) :
             IF field \in AssetFields THEN request[field] \in Assets
             ELSE request[field] \subseteq Ones(ArgumentWidth[field])
  BY RequestsAssumption, Zenon
<1>2. \A i \in DOMAIN EncodedAt[call] : DOMAIN EncodedAt[call][i] \subseteq FieldsOf(call)
  BY DEF FieldsOf
<1>3. \A field \in FieldsOf(call) : field \in FieldNames
  BY Layouts DEF FieldsOf, WellLaid
<1> QED
  BY <1>1, <1>2, <1>3, Zenon

\* An argument that the encoder lets through fits into the field the decoder
\* reads, however long its own type is.
LEMMA FieldFits ==
    ASSUME NEW call \in Calls, NEW request \in Requests(call), Fits(call, request),
           reserveId \in [Assets -> Ids], NEW field \in FieldsOf(call)
    PROVE  FieldWord(call, request, field) \subseteq Ones(DecodedWidth[field])
<1>1. /\ DOMAIN request = FieldsOf(call) /\ field \in FieldNames
      /\ IF field \in AssetFields THEN request[field] \in Assets
         ELSE request[field] \subseteq Ones(ArgumentWidth[field])
  BY AskedFor, Zenon
<1>2. CASE field \in AssetFields
  <2>1. DecodedWidth[field] = 16
    BY <1>2 DEF AssetFields, DecodedWidth
  <2>2. WordOf(reserveId[request[field]]) \subseteq 0 .. 15
    BY DEF WordOf
  <2>3. Ones(16) = 0 .. 15
    BY DEF Ones
  <2> QED
    BY <1>2, <2>1, <2>2, <2>3 DEF FieldWord
<1>3. CASE field \notin AssetFields /\ field \in DOMAIN SafeWidth
  <2>1. DecodedWidth[field] = SafeWidth[field]
    BY <1>3 DEF DecodedWidth, SafeWidth
  <2>2. Shortened(call, field, request[field]) \subseteq Ones(SafeWidth[field])
    BY <1>1, <1>3 DEF Fits
  <2> QED
    BY <1>3, <2>1, <2>2 DEF FieldWord
<1>4. CASE field \notin AssetFields /\ field \notin DOMAIN SafeWidth
  <2>1. DecodedWidth[field] = ArgumentWidth[field]
    BY <1>1, <1>4 DEF DecodedWidth, SafeWidth, ArgumentWidth, FieldNames
  <2>2. field \notin AmountFields
    BY <1>4 DEF SafeWidth, AmountFields
  <2> QED
    BY <1>1, <1>4, <2>1, <2>2 DEF FieldWord, Shortened
<1> QED
  BY <1>2, <1>3, <1>4

\* What the decoder makes of the field of an argument that is not an asset.
LEMMA Expanded ==
    ASSUME NEW call \in Calls, NEW request \in Requests(call), Fits(call, request),
           NEW field \in FieldsOf(call), field \notin AssetFields
    PROVE  (IF field \in AmountFields /\ call \in ExpandsMax
                 /\ FieldWord(call, request, field) = MaxUint128
            THEN MaxUint256 ELSE FieldWord(call, request, field))
             = Meant(call, request)[field]
<1>1. DOMAIN request = FieldsOf(call)
  BY AskedFor, Zenon
<1>2. ExpandsMax = ShortensMax
  BY DEF ExpandsMax, ShortensMax
<1>3. Meant(call, request)[field] =
        IF field \in AmountFields /\ call \in ShortensMax /\ request[field] = MaxUint128
        THEN MaxUint256 ELSE request[field]
  BY <1>1 DEF Meant
<1>4. FieldWord(call, request, field) =
        IF field \in AmountFields /\ call \in ShortensMax /\ request[field] = MaxUint256
        THEN MaxUint128 ELSE request[field]
  BY DEF FieldWord, Shortened
<1>5. MaxUint128 # MaxUint256
  <2>1. 200 \in MaxUint256 /\ 200 \notin MaxUint128
    BY DEF MaxUint128, MaxUint256, Ones
  <2> QED
    BY <2>1
<1> QED
  BY <1>2, <1>3, <1>4, <1>5

-----------------------------------------------------------------------------
(* A packed call from its encoding to its execution.                       *)

\* Ids and list agree: what is listed has the id of its place.
IdsKept == \A id \in Ids : reservesList[id] # NoAsset => reserveId[reservesList[id]] = id

\* A call on its way is one the encoder let through, and unless one of its assets
\* was dropped every field still reads as it would be encoded now.
InFlight ==
    message.status = "encoded" =>
        /\ message = [status |-> "encoded", call |-> message.call, request |-> message.request,
                      words |-> message.words, stale |-> message.stale]
        /\ message.call \in Calls /\ message.request \in Requests(message.call)
        /\ message.stale \in BOOLEAN
        /\ Fits(message.call, message.request)
        /\ DOMAIN message.words = DOMAIN EncodedAt[message.call]
        /\ \A i \in DOMAIN message.words : message.words[i] \in Word
        /\ ~ message.stale =>
               /\ AssetsOf(message.request) \subseteq Listed
               /\ \A i \in DOMAIN message.words : \A field \in DOMAIN EncodedAt[message.call][i] :
                      And(Shr(EncodedAt[message.call][i][field], message.words[i]),
                          Ones(DecodedWidth[field]))
                        = FieldWord(message.call, message.request, field)

CallsInv == L2PoolTypeOK /\ IdsKept /\ InFlight /\ ActsAsRequested

\* An asset that is listed is at its id.
LEMMA ListedAtId ==
    ASSUME reservesList \in [Ids -> Assets \cup {NoAsset}], IdsKept, NEW asset \in Listed
    PROVE  /\ asset \in Assets /\ asset # NoAsset
           /\ reserveId[asset] \in Ids /\ reservesList[reserveId[asset]] = asset
<1>1. PICK id \in Ids : reservesList[id] = asset /\ asset # NoAsset
  BY DEF Listed
<1>2. reserveId[asset] = id
  BY <1>1 DEF IdsKept
<1>3. asset \in Assets
  BY <1>1
<1> QED
  BY <1>1, <1>2, <1>3

\* The encoder: every field of the new words reads as it was put there.
LEMMA EncodeKeeps ==
    ASSUME CallsInv, NEW call \in Calls, NEW request \in Requests(call), Encode(call, request)
    PROVE  CallsInv'
<1>1. /\ message' = [status |-> "encoded", call |-> call, request |-> request,
                     words |-> Packed(call, request),
                     stale |-> ~(AssetsOf(request) \subseteq Listed)]
      /\ reservesList' = reservesList /\ reserveId' = reserveId /\ Fits(call, request)
  BY DEF Encode
<1>2. reserveId \in [Assets -> Ids]
  BY DEF CallsInv, L2PoolTypeOK
<1>3. DOMAIN Packed(call, request) = DOMAIN EncodedAt[call]
  BY DEF Packed
<1>4. ASSUME NEW i \in DOMAIN EncodedAt[call]
      PROVE  /\ Packed(call, request)[i] \in Word
             /\ \A field \in DOMAIN EncodedAt[call][i] :
                    And(Shr(EncodedAt[call][i][field], Packed(call, request)[i]),
                        Ones(DecodedWidth[field])) = FieldWord(call, request, field)
  <2>1. PICK word : word = Packed(call, request)[i]
    OBVIOUS
  <2>2. PICK at : at = EncodedAt[call][i]
    OBVIOUS
  <2>3. word = SumTable(call, request, at)[DOMAIN at]
    BY <2>1, <2>2, PackedIsTabled
  <2>4. WellLaid(at) /\ DOMAIN at \subseteq FieldsOf(call)
    BY <2>2, Layouts, AskedFor
  <2>5. \A f \in DOMAIN at : FieldWord(call, request, f) \subseteq Ones(DecodedWidth[f])
    BY <1>1, <1>2, <2>4, FieldFits
  <2>6. /\ word \in Word
        /\ \A f \in DOMAIN at : And(Shr(at[f], word), Ones(DecodedWidth[f]))
                                  = FieldWord(call, request, f)
    BY <2>3, <2>4, <2>5, FieldRead
  <2> QED
    BY <2>1, <2>2, <2>6
<1>5. PICK words : words = Packed(call, request)
  OBVIOUS
<1>6. L2PoolTypeOK'
  BY <1>1, <1>3, <1>4, <1>5 DEF CallsInv, L2PoolTypeOK
<1>7. IdsKept'
  BY <1>1 DEF CallsInv, IdsKept, Ids
<1>8. InFlight'
  <2>1. Listed' = Listed
    BY <1>1 DEF Listed
  <2>2. message' = [status |-> "encoded", call |-> call, request |-> request,
                    words |-> words, stale |-> ~(AssetsOf(request) \subseteq Listed)]
    BY <1>1, <1>5
  <2>3. /\ message'.status = "encoded" /\ message'.call = call /\ message'.request = request
        /\ message'.words = words /\ message'.stale = ~(AssetsOf(request) \subseteq Listed)
    BY <2>2
  <2>4. \A f : FieldWord(message.call, message.request, f)' = FieldWord(call, request, f)
    BY <1>1, <2>3 DEF FieldWord
  <2>5. Fits(message'.call, message'.request) /\ DOMAIN words = DOMAIN EncodedAt[call]
    BY <1>1, <1>3, <1>5, <2>3
  <2>6. \A i \in DOMAIN words :
            /\ words[i] \in Word
            /\ \A field \in DOMAIN EncodedAt[call][i] :
                   And(Shr(EncodedAt[call][i][field], words[i]), Ones(DecodedWidth[field]))
                     = FieldWord(message.call, message.request, field)'
    BY <1>4, <1>5, <2>4, <2>5
  <2>7. /\ message' = [status |-> "encoded", call |-> message'.call, request |-> message'.request,
                       words |-> message'.words, stale |-> message'.stale]
        /\ message'.call \in Calls /\ message'.request \in Requests(message'.call)
        /\ message'.stale \in BOOLEAN
        /\ ~ message'.stale => AssetsOf(message'.request) \subseteq Listed'
    BY <2>1, <2>2, <2>3
  <2> QED
    BY <2>3, <2>5, <2>6, <2>7 DEF InFlight
<1>9. ActsAsRequested'
  BY <1>1 DEF ActsAsRequested
<1> QED
  BY <1>6, <1>7, <1>8, <1>9 DEF CallsInv

\* The decoder: the ids it finds are still those of the assets that were asked for.
LEMMA ExecuteKeeps == ASSUME CallsInv, Execute PROVE CallsInv'
<1> DEFINE call == message.call
           request == message.request
           arguments == Unpacked(message.call, message.words)
<1>1. /\ message.status = "encoded"
      /\ message' = [status |-> IF NoAsset \in AssetsOf(arguments) THEN "reverted" ELSE "executed",
                     call |-> call, request |-> request, stale |-> message.stale,
                     arguments |-> arguments]
      /\ reservesList' = reservesList /\ reserveId' = reserveId
  BY DEF Execute
<1>2. /\ reservesList \in [Ids -> Assets \cup {NoAsset}] /\ reserveId \in [Assets -> Ids]
      /\ IdsKept
      /\ call \in Calls /\ request \in Requests(call) /\ Fits(call, request)
      /\ DOMAIN message.words = DOMAIN EncodedAt[call]
  BY <1>1 DEF CallsInv, L2PoolTypeOK, InFlight
<1>3. DOMAIN arguments = FieldsOf(call)
  <2>1. EncodedAt = DecodedAt
    BY Layouts
  <2> QED
    BY <1>2, <2>1 DEF Unpacked, FieldsOf
<1>4. ASSUME ~ message.stale, NEW field \in FieldsOf(call)
      PROVE  /\ arguments[field] = Meant(call, request)[field]
             /\ field \in AssetFields => arguments[field] # NoAsset
  <2>1. PICK i \in DOMAIN EncodedAt[call] : field \in DOMAIN EncodedAt[call][i]
    BY DEF FieldsOf
  <2>2. arguments[field] = FieldOf(call, DecodedAt[call][i], message.words[i], field)
    <3>1. EncodedAt = DecodedAt
      BY Layouts
    <3>2. \A j \in DOMAIN message.words : field \in DOMAIN DecodedAt[call][j] => j = i
      BY <1>2, <2>1, <3>1, FieldsApart
    <3>3. (CHOOSE j \in DOMAIN message.words : field \in DOMAIN DecodedAt[call][j]) = i
      BY <1>2, <2>1, <3>1, <3>2
    <3>4. field \in UNION {DOMAIN DecodedAt[call][j] : j \in DOMAIN message.words}
      BY <1>2, <2>1, <3>1
    <3> QED
      BY <3>3, <3>4 DEF Unpacked
  <2>3. PICK value : value = And(Shr(DecodedAt[call][i][field], message.words[i]),
                                 Ones(DecodedWidth[field]))
    OBVIOUS
  <2>4. value = FieldWord(call, request, field)
    BY <1>1, <1>2, <1>4, <2>1, <2>3, Layouts DEF CallsInv, InFlight
  <2>5. FieldOf(call, DecodedAt[call][i], message.words[i], field) =
          IF field \in AssetFields THEN AssetOf(value)
          ELSE IF field \in AmountFields /\ call \in ExpandsMax /\ value = MaxUint128
          THEN MaxUint256 ELSE value
    BY <2>3 DEF FieldOf
  <2> HIDE DEF arguments
  <2>6. CASE field \in AssetFields
    <3>1. DOMAIN request = FieldsOf(call) /\ request[field] \in Assets
      BY <1>2, <2>6, AskedFor
    <3>2. request[field] \in AssetsOf(request)
      BY <2>6, <3>1 DEF AssetsOf
    <3>3. request[field] \in Listed
      BY <1>1, <1>4, <3>2 DEF CallsInv, InFlight
    <3>4. /\ reserveId[request[field]] \in Ids
          /\ reservesList[reserveId[request[field]]] = request[field] /\ request[field] # NoAsset
      BY <1>2, <3>3, ListedAtId
    <3>5. AssetOf(value) = request[field]
      BY <2>4, <2>6, <3>4, AssetOfWord DEF FieldWord
    <3>6. Meant(call, request)[field] = request[field]
      BY <2>6, <3>1 DEF Meant, AssetFields, AmountFields
    <3> QED
      BY <2>2, <2>5, <2>6, <3>4, <3>5, <3>6
  <2>7. CASE field \notin AssetFields
    BY <1>2, <2>2, <2>4, <2>5, <2>7, Expanded
  <2> QED
    BY <2>6, <2>7
<1>5. ASSUME ~ message.stale
      PROVE  arguments = Meant(call, request) /\ NoAsset \notin AssetsOf(arguments)
  <2>1. arguments = [field \in FieldsOf(call) |-> arguments[field]]
    BY <1>3 DEF Unpacked
  <2>2. Meant(call, request) = [field \in FieldsOf(call) |-> Meant(call, request)[field]]
    BY <1>2, AskedFor DEF Meant
  <2> HIDE DEF arguments
  <2>3. arguments = Meant(call, request)
    BY <1>4, <1>5, <2>1, <2>2
  <2>4. NoAsset \notin AssetsOf(arguments)
    BY <1>3, <1>4, <1>5 DEF AssetsOf
  <2> QED
    BY <2>3, <2>4
<1> HIDE DEF arguments
<1>6. /\ message'.status \in {"executed", "reverted"} /\ message'.stale = message.stale
      /\ message'.arguments = arguments /\ message'.call = call /\ message'.request = request
      /\ ~ message.stale => message'.status = "executed"
  BY <1>1, <1>5
<1>7. L2PoolTypeOK'
  BY <1>1, <1>2, <1>6 DEF L2PoolTypeOK
<1>8. IdsKept'
  BY <1>1, <1>2 DEF IdsKept
<1>9. InFlight'
  BY <1>6 DEF InFlight
<1>10. ActsAsRequested'
  BY <1>5, <1>6 DEF ActsAsRequested
<1> QED
  BY <1>7, <1>8, <1>9, <1>10 DEF CallsInv

\* A step that gives no listed asset another id leaves the calls on their way as
\* they are, those that are not stale by then.
LEMMA InFlightKept ==
    ASSUME L2PoolTypeOK, InFlight, ActsAsRequested, NEW stays, stays \subseteq Assets,
           \A asset \in stays : reserveId'[asset] = reserveId[asset],
           \/ message' = message
           \/ message.status = "encoded" /\ \E s \in BOOLEAN :
                  message' = [message EXCEPT !.stale = @ \/ s],
           message.status = "encoded" /\ ~ message'.stale =>
               AssetsOf(message.request) \subseteq stays /\ stays \subseteq Listed'
    PROVE  InFlight' /\ ActsAsRequested'
<1>1. CASE message.status # "encoded"
  BY <1>1 DEF InFlight, ActsAsRequested
<1>2. CASE message.status = "encoded"
  <2>1. /\ message = [status |-> "encoded", call |-> message.call, request |-> message.request,
                      words |-> message.words, stale |-> message.stale]
        /\ message.stale \in BOOLEAN
    BY <1>2 DEF InFlight
  <2>2. /\ message' = [status |-> "encoded", call |-> message.call, request |-> message.request,
                       words |-> message.words, stale |-> message'.stale]
        /\ message'.stale \in BOOLEAN /\ (message.stale => message'.stale)
    <3>1. CASE message' = message
      BY <2>1, <3>1
    <3>2. ASSUME NEW s \in BOOLEAN, message' = [message EXCEPT !.stale = @ \/ s]
          PROVE  /\ message' = [status |-> "encoded", call |-> message.call, request |-> message.request,
                                words |-> message.words, stale |-> message'.stale]
                 /\ message'.stale \in BOOLEAN /\ (message.stale => message'.stale)
      BY <2>1, <3>2
    <3> QED
      BY <3>1, <3>2
  <2>3. /\ message'.status = "encoded" /\ message'.call = message.call
        /\ message'.request = message.request /\ message'.words = message.words
    BY <2>2
  <2>4. ASSUME ~ message'.stale, NEW i \in DOMAIN message.words,
               NEW field \in DOMAIN EncodedAt[message.call][i]
        PROVE  FieldWord(message.call, message.request, field)'
                 = FieldWord(message.call, message.request, field)
    <3>1. DOMAIN message.request = FieldsOf(message.call) /\ field \in FieldsOf(message.call)
      BY <1>2, <2>4, AskedFor DEF InFlight
    <3>2. field \in AssetFields => message.request[field] \in AssetsOf(message.request)
      BY <3>1 DEF AssetsOf
    <3>3. field \in AssetFields =>
              reserveId'[message.request[field]] = reserveId[message.request[field]]
      BY <1>2, <2>4, <3>2
    <3> QED
      BY <2>3, <3>3 DEF FieldWord
  <2>5. /\ message.call \in Calls /\ message.request \in Requests(message.call)
        /\ Fits(message.call, message.request)
        /\ DOMAIN message.words = DOMAIN EncodedAt[message.call]
        /\ \A i \in DOMAIN message.words : message.words[i] \in Word
        /\ ~ message'.stale =>
               \A i \in DOMAIN message.words : \A field \in DOMAIN EncodedAt[message.call][i] :
                      And(Shr(EncodedAt[message.call][i][field], message.words[i]),
                          Ones(DecodedWidth[field]))
                        = FieldWord(message.call, message.request, field)
    BY <1>2, <2>2 DEF InFlight
  <2>6. ASSUME ~ message'.stale, NEW i \in DOMAIN message'.words,
               NEW field \in DOMAIN EncodedAt[message'.call][i]
        PROVE  And(Shr(EncodedAt[message'.call][i][field], message'.words[i]),
                   Ones(DecodedWidth[field])) = FieldWord(message.call, message.request, field)'
    BY <2>3, <2>4, <2>5, <2>6
  <2>7. InFlight'
    BY <1>2, <2>2, <2>3, <2>5, <2>6 DEF InFlight
  <2>8. ActsAsRequested'
    BY <2>3 DEF ActsAsRequested
  <2> QED
    BY <2>7, <2>8
<1> QED
  BY <1>1, <1>2

\* A new reserve takes a free id, never one that a listed asset has.
LEMMA InitReserveKeeps == ASSUME CallsInv, NEW asset \in Assets, InitReserve(asset) PROVE CallsInv'
<1>1. PICK id \in Ids : /\ reservesList[id] = NoAsset /\ asset \notin Listed
                        /\ reservesList' = [reservesList EXCEPT ![id] = asset]
                        /\ reserveId' = [reserveId EXCEPT ![asset] = id]
                        /\ message' = message
  BY DEF InitReserve
<1>2. /\ reservesList \in [Ids -> Assets \cup {NoAsset}] /\ reserveId \in [Assets -> Ids]
      /\ IdsKept /\ InFlight /\ ActsAsRequested /\ L2PoolTypeOK
  BY DEF CallsInv, L2PoolTypeOK
<1>3. L2PoolTypeOK'
  BY <1>1, <1>2 DEF L2PoolTypeOK
<1>4. IdsKept'
  <2> SUFFICES ASSUME NEW j \in Ids, reservesList'[j] # NoAsset
               PROVE  reserveId'[reservesList'[j]] = j
    BY DEF IdsKept, Ids
  <2>1. CASE j = id
    BY <1>1, <1>2, <2>1
  <2>2. CASE j # id
    <3>1. reservesList'[j] = reservesList[j] /\ reservesList[j] \in Listed
      BY <1>1, <1>2, <2>2 DEF Listed
    <3>2. reservesList[j] # asset /\ reserveId[reservesList[j]] = j
      BY <1>1, <1>2, <3>1 DEF IdsKept
    <3> QED
      BY <1>1, <1>2, <3>1, <3>2
  <2> QED
    BY <2>1, <2>2
<1>5. InFlight' /\ ActsAsRequested'
  <2>1. \A b \in Listed : reserveId'[b] = reserveId[b]
    BY <1>1, <1>2
  <2>2. Listed \subseteq Assets /\ Listed \subseteq Listed'
    <3>1. Listed \subseteq Assets
      BY <1>2 DEF Listed
    <3>2. ASSUME NEW b \in Listed PROVE b \in Listed'
      <4>1. PICK j \in Ids : reservesList[j] = b /\ b # NoAsset
        BY DEF Listed
      <4>2. j # id /\ reservesList'[j] = b
        BY <1>1, <1>2, <4>1
      <4> QED
        BY <4>1, <4>2 DEF Listed, Ids
    <3> QED
      BY <3>1, <3>2
  <2>3. message.status = "encoded" /\ ~ message'.stale =>
            AssetsOf(message.request) \subseteq Listed
    BY <1>1, <1>2 DEF InFlight
  <2> QED
    BY <1>1, <1>2, <2>1, <2>2, <2>3, InFlightKept
<1> QED
  BY <1>3, <1>4, <1>5 DEF CallsInv

\* A dropped reserve makes stale what is on its way for it, and nothing else.
LEMMA DropReserveKeeps == ASSUME CallsInv, NEW asset \in Assets, DropReserve(asset) PROVE CallsInv'
<1>1. /\ asset \in Listed
      /\ reservesList' = [reservesList EXCEPT ![reserveId[asset]] = NoAsset]
      /\ reserveId' = [reserveId EXCEPT ![asset] = 0]
      /\ message' = IF message.status = "encoded"
                    THEN [message EXCEPT !.stale = @ \/ asset \in AssetsOf(message.request)]
                    ELSE message
  BY DEF DropReserve
<1>2. /\ reservesList \in [Ids -> Assets \cup {NoAsset}] /\ reserveId \in [Assets -> Ids]
      /\ IdsKept /\ InFlight /\ ActsAsRequested /\ L2PoolTypeOK /\ 0 \in Ids
  <2>1. 0 \in Ids
    <3>1. MaxReserves \in 1 .. 128
      BY RequestsAssumption
    <3> QED
      BY <3>1 DEF Ids
  <2> QED
    BY <2>1 DEF CallsInv, L2PoolTypeOK
<1>3. /\ reserveId[asset] \in Ids /\ reservesList[reserveId[asset]] = asset /\ asset # NoAsset
  BY <1>1, <1>2, ListedAtId
<1>4. IdsKept'
  <2> SUFFICES ASSUME NEW j \in Ids, reservesList'[j] # NoAsset
               PROVE  reserveId'[reservesList'[j]] = j
    BY DEF IdsKept, Ids
  <2>1. j # reserveId[asset] /\ reservesList'[j] = reservesList[j]
    BY <1>1, <1>2, <1>3
  <2>2. reserveId[reservesList[j]] = j
    BY <1>2, <2>1 DEF IdsKept
  <2>3. reservesList[j] # asset /\ reservesList[j] \in Assets
    BY <1>2, <2>1, <2>2
  <2> QED
    BY <1>1, <1>2, <2>1, <2>2, <2>3
<1>5. InFlight' /\ ActsAsRequested'
  <2> DEFINE others == Listed \ {asset}
  <2>1. \A b \in others : reserveId'[b] = reserveId[b]
    BY <1>1, <1>2
  <2>2. others \subseteq Assets
    BY <1>2 DEF Listed
  <2>3. others \subseteq Listed'
    <3> SUFFICES ASSUME NEW b \in others PROVE b \in Listed'
      OBVIOUS
    <3>1. PICK j \in Ids : reservesList[j] = b /\ b # NoAsset /\ b # asset
      BY DEF Listed
    <3>2. j # reserveId[asset] /\ reservesList'[j] = b
      BY <1>1, <1>2, <1>3, <3>1
    <3> QED
      BY <3>1, <3>2 DEF Listed, Ids
  <2>4. \/ message' = message
        \/ message.status = "encoded" /\ \E s \in BOOLEAN :
               message' = [message EXCEPT !.stale = @ \/ s]
    BY <1>1
  <2>5. ASSUME message.status = "encoded", ~ message'.stale
        PROVE  AssetsOf(message.request) \subseteq others
    <3>1. /\ message = [status |-> "encoded", call |-> message.call, request |-> message.request,
                        words |-> message.words, stale |-> message.stale]
          /\ message.stale \in BOOLEAN
          /\ ~ message.stale => AssetsOf(message.request) \subseteq Listed
      BY <1>2, <2>5 DEF InFlight
    <3>2. message' = [message EXCEPT !.stale = @ \/ asset \in AssetsOf(message.request)]
      BY <1>1, <2>5
    <3>3. ~ message.stale /\ asset \notin AssetsOf(message.request)
      BY <2>5, <3>1, <3>2
    <3> QED
      BY <3>1, <3>3
  <2> HIDE DEF others
  <2> QED
    BY <1>2, <2>1, <2>2, <2>3, <2>4, <2>5, InFlightKept
<1>6. L2PoolTypeOK'
  <2>1. reservesList' \in [Ids -> Assets \cup {NoAsset}] /\ reserveId' \in [Assets -> Ids]
    BY <1>1, <1>2
  <2>2. message'.status \in {"none", "encoded", "executed", "reverted"}
    BY <1>1, <1>2 DEF L2PoolTypeOK, InFlight
  <2>3. message'.status = "encoded" => \A i \in DOMAIN message'.words : message'.words[i] \in Word
    BY <1>5 DEF InFlight
  <2> QED
    BY <2>1, <2>2, <2>3 DEF L2PoolTypeOK, Ids
<1> QED
  BY <1>4, <1>5, <1>6 DEF CallsInv

\* So all of that holds in every state.
LEMMA CallsInvInductive == L2PoolSpec => []CallsInv
<1>1. L2PoolInit => CallsInv
  <2> SUFFICES ASSUME L2PoolInit PROVE CallsInv
    OBVIOUS
  <2>1. 0 \in Ids
    <3>1. MaxReserves \in 1 .. 128
      BY RequestsAssumption
    <3> QED
      BY <3>1 DEF Ids
  <2> QED
    BY <2>1 DEF L2PoolInit, CallsInv, L2PoolTypeOK, IdsKept, InFlight, ActsAsRequested
<1>2. CallsInv /\ [L2PoolNext]_l2Vars => CallsInv'
  <2> SUFFICES ASSUME CallsInv, [L2PoolNext]_l2Vars PROVE CallsInv'
    OBVIOUS
  <2>1. ASSUME NEW call \in Calls, NEW request \in Requests(call), Encode(call, request)
        PROVE  CallsInv'
    BY <2>1, EncodeKeeps
  <2>2. CASE Execute
    BY <2>2, ExecuteKeeps
  <2>3. ASSUME NEW asset \in Assets, InitReserve(asset) PROVE CallsInv'
    BY <2>3, InitReserveKeeps
  <2>4. ASSUME NEW asset \in Assets, DropReserve(asset) PROVE CallsInv'
    BY <2>4, DropReserveKeeps
  <2>5. CASE UNCHANGED l2Vars
    BY <2>5 DEF l2Vars, CallsInv, L2PoolTypeOK, IdsKept, InFlight, ActsAsRequested, Listed, FieldWord
  <2> QED
    BY <2>1, <2>2, <2>3, <2>4, <2>5 DEF L2PoolNext
<1> QED
  BY <1>1, <1>2, PTL DEF L2PoolSpec

\* A call that was packed for listed assets, none of which was dropped before its
\* execution, does what its client asked for, for any assets, ids and arguments
\* (ActsAsRequested of module L2Pool).
THEOREM CallsActAsRequested == L2PoolSpec => []ActsAsRequested
<1>1. CallsInv => ActsAsRequested
  BY DEF CallsInv
<1> QED
  BY <1>1, CallsInvInductive, PTL

-----------------------------------------------------------------------------
(* The words together.                                                     *)

\* A behaviour with the steps of one of them is a behaviour of each.
LEMMA EachOfThem ==
    PackedSpec => UserConfigurationSpec /\ ReserveConfigurationSpec /\ L2PoolSpec
<1>1. PackedInit => UserConfigurationInit /\ ReserveConfigurationInit /\ L2PoolInit
  BY DEF PackedInit
<1>2. [PackedNext]_wordVars => [UserConfigurationNext]_userData
  BY DEF PackedNext, wordVars
<1>3. [PackedNext]_wordVars => [ReserveConfigurationNext]_reserveData
  BY DEF PackedNext, wordVars
<1>4. [PackedNext]_wordVars => [L2PoolNext]_l2Vars
  BY DEF PackedNext, wordVars
<1> QED
  BY <1>1, <1>2, <1>3, <1>4, PTL
     DEF PackedSpec, UserConfigurationSpec, ReserveConfigurationSpec, L2PoolSpec

\* No bit is in use that stands for nothing, in either configuration, and ids stay
\* within the list (PackedTypeOK of module PackedWords).
THEOREM WordsTyped == PackedSpec => []PackedTypeOK
<1>1. CallsInv => L2PoolTypeOK
  BY DEF CallsInv
<1>2. UserConfigurationTypeOK /\ ReserveConfigurationTypeOK /\ L2PoolTypeOK => PackedTypeOK
  BY DEF PackedTypeOK
<1> QED
  BY <1>1, <1>2, EachOfThem, UserWordTyped, SpareBitsUnused, CallsInvInductive, PTL
=============================================================================
