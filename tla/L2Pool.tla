------------------------------- MODULE L2Pool -------------------------------
(***************************************************************************)
(* Calls of the pool of a rollup, packed into one or two words: a client   *)
(* asks L2Encoder for the words while an asset has some id, and L2Pool     *)
(* unpacks them with CalldataLogic when the transaction is executed, while *)
(* the configurator may have dropped and listed reserves in between.       *)
(* Encoder and decoder each write down the positions of their own.  What   *)
(* the unpacked call then does is in module Pool.                          *)
(***************************************************************************)
EXTENDS EVMWord, Folds

CONSTANTS
    Assets, NoAsset,   \* NoAsset is address zero
    MaxReserves,
    Requests(_)        \* what the clients ask for: arguments by name, for each call

VARIABLES
    reservesList,   \* from ids to assets
    reserveId,      \* reservesData[asset].id, zero for assets that are not listed
    message         \* a packed call, with the request it stands for

l2Vars == <<reservesList, reserveId, message>>

Ids == 0 .. MaxReserves - 1
PlaceValue == <<1, 2, 4, 8, 16, 32, 64, 128, 256, 512, 1024, 2048, 4096, 8192, 16384, 32768>>
WordOf(id) == {b \in 0 .. 15 : (id \div PlaceValue[b + 1]) % 2 = 1}
AssetOf(w) == IF \E id \in Ids : WordOf(id) = w
              THEN reservesList[CHOOSE id \in Ids : WordOf(id) = w] ELSE NoAsset
Listed == {reservesList[id] : id \in Ids} \ {NoAsset}

AssetFields == {"asset", "collateralAsset", "debtAsset"}
AmountFields == {"amount", "debtToCover"}

-----------------------------------------------------------------------------
(* L2Encoder.                                                              *)

\* Where the fields start in the words of each call.
EncodedAt ==
    [ supply |-> <<[asset |-> 0, amount |-> 16, referralCode |-> 144]>>,
      supplyWithPermit |-> <<[asset |-> 0, amount |-> 16, referralCode |-> 144,
                              deadline |-> 160, permitV |-> 192]>>,
      withdraw |-> <<[asset |-> 0, amount |-> 16]>>,
      borrow |-> <<[asset |-> 0, amount |-> 16, interestRateMode |-> 144,
                    referralCode |-> 152]>>,
      repay |-> <<[asset |-> 0, amount |-> 16, interestRateMode |-> 144]>>,
      repayWithPermit |-> <<[asset |-> 0, amount |-> 16, interestRateMode |-> 144,
                             deadline |-> 152, permitV |-> 184]>>,
      repayWithATokens |-> <<[asset |-> 0, amount |-> 16, interestRateMode |-> 144]>>,
      swapBorrowRateMode |-> <<[asset |-> 0, interestRateMode |-> 16]>>,
      rebalanceStableBorrowRate |-> <<[asset |-> 0, user |-> 16]>>,
      setUserUseReserveAsCollateral |-> <<[asset |-> 0, useAsCollateral |-> 16]>>,
      liquidationCall |-> <<[collateralAsset |-> 0, debtAsset |-> 16, user |-> 32],
                            [debtToCover |-> 0, receiveAToken |-> 128]>> ]

Calls == DOMAIN EncodedAt
FieldsOf(call) == UNION {DOMAIN EncodedAt[call][i] : i \in DOMAIN EncodedAt[call]}

\* The types of the arguments that are not assets: uint256, uint16, address, ...
ArgumentWidth ==
    [amount |-> 256, debtToCover |-> 256, interestRateMode |-> 256, deadline |-> 256,
     referralCode |-> 16, permitV |-> 8, user |-> 160, useAsCollateral |-> 1,
     receiveAToken |-> 1]

ASSUME RequestsAssumption ==
    /\ NoAsset \notin Assets
    /\ MaxReserves \in 1 .. 128     \* ReserveConfiguration.MAX_RESERVES_COUNT
    /\ \A call \in Calls : \A request \in Requests(call) :
           /\ DOMAIN request = FieldsOf(call)
           /\ \A field \in FieldsOf(call) :
                  IF field \in AssetFields THEN request[field] \in Assets
                  ELSE request[field] \subseteq Ones(ArgumentWidth[field])

\* The calls for which the largest number asks for everything there is.
ShortensMax ==
    {"withdraw", "repay", "repayWithPermit", "repayWithATokens", "liquidationCall"}

\* SafeCast reverts for what does not fit.
SafeWidth == [amount |-> 128, debtToCover |-> 128, interestRateMode |-> 8, deadline |-> 32]

Shortened(call, field, w) ==
    IF field \in AmountFields /\ call \in ShortensMax /\ w = MaxUint256
    THEN MaxUint128 ELSE w

\* Mutant: the arguments are cast without a check.
FitsUnchecked(call, request) == TRUE

Fits(call, request) == \A field \in DOMAIN request \cap DOMAIN SafeWidth :
    Shortened(call, field, request[field]) \subseteq Ones(SafeWidth[field])

\* Nothing tells an asset that is not listed from the one with id zero.
FieldWord(call, request, field) ==
    IF field \in AssetFields THEN WordOf(reserveId[request[field]])
    ELSE Shortened(call, field, request[field])

Packed(call, request) == [i \in DOMAIN EncodedAt[call] |->
    LET at == EncodedAt[call][i]
    IN  MapThenFoldSet(Add, Zero,
                       LAMBDA field : Shl(at[field], FieldWord(call, request, field)),
                       LAMBDA S : CHOOSE field \in S : TRUE, DOMAIN at)]

AssetsOf(request) == {request[field] : field \in DOMAIN request \cap AssetFields}

\* bound: one packed call in a behaviour.
Encode(call, request) ==
    /\ message.status = "none"
    /\ Fits(call, request)
    /\ message' = [status |-> "encoded", call |-> call, request |-> request,
                   words |-> Packed(call, request),
                   stale |-> ~(AssetsOf(request) \subseteq Listed)]
    /\ UNCHANGED <<reservesList, reserveId>>

-----------------------------------------------------------------------------
(* CalldataLogic and L2Pool.                                               *)

DecodedAt ==
    [ supply |-> <<[asset |-> 0, amount |-> 16, referralCode |-> 144]>>,
      supplyWithPermit |-> <<[asset |-> 0, amount |-> 16, referralCode |-> 144,
                              deadline |-> 160, permitV |-> 192]>>,
      withdraw |-> <<[asset |-> 0, amount |-> 16]>>,
      borrow |-> <<[asset |-> 0, amount |-> 16, interestRateMode |-> 144,
                    referralCode |-> 152]>>,
      repay |-> <<[asset |-> 0, amount |-> 16, interestRateMode |-> 144]>>,
      repayWithPermit |-> <<[asset |-> 0, amount |-> 16, interestRateMode |-> 144,
                             deadline |-> 152, permitV |-> 184]>>,
      repayWithATokens |-> <<[asset |-> 0, amount |-> 16, interestRateMode |-> 144]>>,
      swapBorrowRateMode |-> <<[asset |-> 0, interestRateMode |-> 16]>>,
      rebalanceStableBorrowRate |-> <<[asset |-> 0, user |-> 16]>>,
      setUserUseReserveAsCollateral |-> <<[asset |-> 0, useAsCollateral |-> 16]>>,
      liquidationCall |-> <<[collateralAsset |-> 0, debtAsset |-> 16, user |-> 32],
                            [debtToCover |-> 0, receiveAToken |-> 128]>> ]

\* The masks of the fields: 0xFFFF for ids, and so on.
DecodedWidth ==
    [asset |-> 16, collateralAsset |-> 16, debtAsset |-> 16, amount |-> 128,
     debtToCover |-> 128, referralCode |-> 16, interestRateMode |-> 8,
     deadline |-> 32, permitV |-> 8, user |-> 160, useAsCollateral |-> 1,
     receiveAToken |-> 1]

ExpandsMax ==
    {"withdraw", "repay", "repayWithPermit", "repayWithATokens", "liquidationCall"}

FieldOf(call, at, w, field) ==
    LET value == And(Shr(at[field], w), Ones(DecodedWidth[field]))
    IN  IF field \in AssetFields THEN AssetOf(value)
        ELSE IF field \in AmountFields /\ call \in ExpandsMax /\ value = MaxUint128
        THEN MaxUint256 ELSE value

Unpacked(call, words) ==
    LET WordWith(field) == CHOOSE i \in DOMAIN words : field \in DOMAIN DecodedAt[call][i]
    IN  [field \in UNION {DOMAIN DecodedAt[call][i] : i \in DOMAIN words} |->
            LET i == WordWith(field)
            IN  FieldOf(call, DecodedAt[call][i], words[i], field)]

\* The pool goes on with the arguments; on address zero every call reverts.
Execute ==
    /\ message.status = "encoded"
    /\ LET arguments == Unpacked(message.call, message.words)
       IN  message' = [status |-> IF NoAsset \in AssetsOf(arguments)
                                  THEN "reverted" ELSE "executed",
                       call |-> message.call, request |-> message.request,
                       stale |-> message.stale, arguments |-> arguments]
    /\ UNCHANGED <<reservesList, reserveId>>

-----------------------------------------------------------------------------
(* The configurator: PoolLogic.executeInitReserve and executeDropReserve   *)
(* as far as ids are concerned; their conditions are in PoolConfigurator.  *)

\* Mutant: the id is read after the count of reserves was raised.
InitReserveAfterCounting(asset) ==
    /\ asset \notin Listed
    /\ \E id \in Ids :
           /\ reservesList[id] = NoAsset
           /\ \A lower \in 0 .. id - 1 : reservesList[lower] # NoAsset
           /\ reservesList' = [reservesList EXCEPT ![id] = asset]
           /\ reserveId' = [reserveId EXCEPT ![asset] = id + 1]
    /\ UNCHANGED message

\* The first free id; ids that were never in use are free.
InitReserve(asset) ==
    /\ asset \notin Listed
    /\ \E id \in Ids :
           /\ reservesList[id] = NoAsset
           /\ \A lower \in 0 .. id - 1 : reservesList[lower] # NoAsset
           /\ reservesList' = [reservesList EXCEPT ![id] = asset]
           /\ reserveId' = [reserveId EXCEPT ![asset] = id]
    /\ UNCHANGED message

\* A call in flight for the asset is stale from now on.
DropReserve(asset) ==
    /\ asset \in Listed
    /\ reservesList' = [reservesList EXCEPT ![reserveId[asset]] = NoAsset]
    /\ reserveId' = [reserveId EXCEPT ![asset] = 0]
    /\ message' = IF message.status = "encoded"
                  THEN [message EXCEPT !.stale = @ \/ asset \in AssetsOf(message.request)]
                  ELSE message

L2PoolInit ==
    /\ reservesList = [id \in Ids |-> NoAsset]
    /\ reserveId = [asset \in Assets |-> 0]
    /\ message = [status |-> "none"]

L2PoolNext ==
    \/ \E call \in Calls : \E request \in Requests(call) : Encode(call, request)
    \/ Execute
    \/ \E asset \in Assets : InitReserve(asset) \/ DropReserve(asset)

L2PoolSpec == L2PoolInit /\ [][L2PoolNext]_l2Vars

-----------------------------------------------------------------------------
\* Type invariant.
L2PoolTypeOK ==
    /\ reservesList \in [Ids -> Assets \cup {NoAsset}]
    /\ reserveId \in [Assets -> Ids]
    /\ message.status \in {"none", "encoded", "executed", "reverted"}
    /\ message.status = "encoded" => \A i \in DOMAIN message.words : message.words[i] \in Word

\* For these calls uint128.max, like uint256.max, stands for everything.
Meant(call, request) == [field \in DOMAIN request |->
    IF field \in AmountFields /\ call \in ShortensMax /\ request[field] = MaxUint128
    THEN MaxUint256 ELSE request[field]]

\* A call that was packed for listed assets, none of which was dropped before
\* its execution, does what its client asked for: every argument arrives at
\* its full width beside the others, and every asset whatever else was listed
\* or dropped meanwhile; it is never taken for a call on no asset.
ActsAsRequested ==
    (message.status \in {"executed", "reverted"} /\ ~message.stale) =>
        /\ message.status = "executed"
        /\ message.arguments = Meant(message.call, message.request)
=============================================================================
