--------------------------- MODULE MCPackedWords ----------------------------
(***************************************************************************)
(* An instance of PackedWords: reserves at both ends of the word of a      *)
(* user, every setter of a reserve with values at the ends of its range,   *)
(* and all packed calls, with arguments that fit just and just not.        *)
(***************************************************************************)
EXTENDS PackedWords, TLC

CONSTANTS weth, usdc, dai, lusd, steth, zero

\* Reserves at both ends of the word of a user, and in the middle.
MCReservesById ==
    (0 :> weth) @@ (1 :> usdc) @@ (2 :> dai) @@ (64 :> lusd) @@ (127 :> steth)
MCDebtCeiling ==
    (weth :> 100) @@ (usdc :> 0) @@ (dai :> 200) @@ (lusd :> 0) @@ (steth :> 300)
MCSiloedBorrowing ==
    (weth :> TRUE) @@ (usdc :> FALSE) @@ (dai :> FALSE) @@ (lusd :> TRUE) @@ (steth :> TRUE)

\* Zero, one, the largest value of each width that is in use, which is beyond
\* the range of every narrower one, and a value beyond all of them.
MCValues == {Zero, {0}} \cup {Ones(w) : w \in {8, 16, 36, 40}} \cup {{40}}

\* Small, the largest that fits, one more than that, and everything.
Amounts == {{0, 2}, MaxUint128, {128}, MaxUint256}
Modes == {{0}, {1}, {8}}              \* stable, variable, beyond uint8
Deadlines == {Ones(32), {32}}         \* the last that fits, the first that does not
Referrals == {Ones(16)}
PermitVs == {{0, 1, 3, 4}, {2, 3, 4}} \* 27 and 28
Accounts == {Ones(160), {0, 159}}
Booleans == {Zero, {0}}

MCRequests(call) ==
    CASE call = "supply" -> [asset : Assets, amount : Amounts, referralCode : Referrals]
      [] call = "supplyWithPermit" ->
            [asset : Assets, amount : Amounts, referralCode : Referrals,
             deadline : Deadlines, permitV : PermitVs]
      [] call = "withdraw" -> [asset : Assets, amount : Amounts]
      [] call = "borrow" -> [asset : Assets, amount : Amounts, interestRateMode : Modes,
                             referralCode : Referrals]
      [] call \in {"repay", "repayWithATokens"} ->
            [asset : Assets, amount : Amounts, interestRateMode : Modes]
      [] call = "repayWithPermit" ->
            [asset : Assets, amount : Amounts, interestRateMode : Modes,
             deadline : Deadlines, permitV : PermitVs]
      [] call = "swapBorrowRateMode" -> [asset : Assets, interestRateMode : Modes]
      [] call = "rebalanceStableBorrowRate" -> [asset : Assets, user : Accounts]
      [] call = "setUserUseReserveAsCollateral" ->
            [asset : Assets, useAsCollateral : Booleans]
      [] call = "liquidationCall" ->
            [collateralAsset : Assets, debtAsset : Assets, user : Accounts,
             debtToCover : Amounts, receiveAToken : Booleans]
=============================================================================
