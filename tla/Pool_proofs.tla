----------------------------- MODULE Pool_proofs -----------------------------
(***************************************************************************)
(* The safety invariants of Pool, for all its constants.                   *)
(*                                                                         *)
(* First TypeOK: no balance, debt, wallet or counter is ever taken below   *)
(* zero.  The subtractions of the code are checked, so what has to be      *)
(* shown is that every guard (the amount is available, the scaled amount   *)
(* is no more than the scaled balance) bounds the very quantity that is    *)
(* subtracted.                                                             *)
(*                                                                         *)
(* The invariants about the user configuration and the debt ceiling follow *)
(* from one lemma each on how a step of the system can change the flags of *)
(* a user (or the counter of an asset): a case split over the operations,  *)
(* after which the operations no longer matter.                            *)
(*                                                                         *)
(* That aTokens are backed needs every operation: each has a lemma that it *)
(* keeps `Covered`, in which the sums move by what the operation moves.    *)
(*                                                                         *)
(* Health last: an operation leaves a user alone (NothingTakenFrom and     *)
(* NothingLentTo), or it is checked on the very position it leaves.        *)
(***************************************************************************)
EXTENDS Pool, Arithmetic_proofs

-----------------------------------------------------------------------------
(* The arithmetic of a liquidation (AvailableCollateralToLiquidate) for    *)
(* every price, unit, amount, balance, bonus and fee: three roundings, two *)
(* of them half up, one of them down, and an inverse computation when the  *)
(* balance is too small.                                                   *)

\* The fee comes out of the bonus: together they are what is seized.
LEMMA SplitCollateralSum ==
    ASSUME NEW amount \in Nat, NEW debt \in Nat,
           NEW bonus \in Nat, bonus > PERCENTAGE_FACTOR,
           NEW feePercentage \in Nat, feePercentage <= PERCENTAGE_FACTOR
    PROVE  LET s == SplitCollateral(amount, debt, bonus, feePercentage)
           IN  /\ s.collateral \in Nat /\ s.fee \in Nat /\ s.debt = debt
               /\ s.collateral + s.fee = amount
<1> DEFINE withoutBonus == PercentDiv(amount, bonus)
           bonusCollateral == amount - withoutBonus
           fee == IF feePercentage = 0 THEN 0
                  ELSE PercentMul(bonusCollateral, feePercentage)
<1>1. PERCENTAGE_FACTOR \in Nat \ {0}
  BY ScalesAreEven
<1>2. withoutBonus \in Nat /\ withoutBonus <= amount
  BY <1>1, PercentDivType, PercentDivShrinks
<1> HIDE DEF withoutBonus
<1>3. bonusCollateral \in Nat /\ bonusCollateral <= amount
  BY <1>2, SMT
<1> HIDE DEF bonusCollateral
<1>4. fee \in Nat /\ fee <= bonusCollateral
  <2>1. /\ PercentMul(bonusCollateral, feePercentage) \in Nat
        /\ PercentMul(bonusCollateral, feePercentage) <= bonusCollateral
    BY <1>3, PercentMulType, PercentMulShrinks
  <2>2. 0 <= bonusCollateral
    BY <1>3
  <2> QED
    BY <2>1, <2>2
<1>5. SplitCollateral(amount, debt, bonus, feePercentage) =
        [collateral |-> amount - fee, fee |-> fee, debt |-> debt]
  BY DEF SplitCollateral, fee, bonusCollateral, withoutBonus
<1> HIDE DEF fee
<1>6. amount - fee \in Nat /\ (amount - fee) + fee = amount
  BY <1>3, <1>4
<1> QED
  BY <1>4, <1>5, <1>6

\* Products keep the order of their factors.
LEMMA ProductOrder ==
    ASSUME NEW x \in Nat, NEW y \in Nat, NEW z \in Nat, x <= y
    PROVE  z * x <= z * y /\ x * z <= y * z
  BY SMT

\* A smaller product with the same factor has a smaller other factor.
LEMMA ProductOrderInverse ==
    ASSUME NEW x \in Int, NEW y \in Int, NEW z \in Nat \ {0}, z * x < z * y
    PROVE  x < y
<1>1. ASSUME y <= x PROVE z * y <= z * x
  BY <1>1, SMT
<1> QED
  BY <1>1, SMT

\* The collateral wanted for a debt, rounded down and then half up.
LEMMA WantedBounds ==
    ASSUME NEW k \in Nat \ {0}, NEW m \in Nat \ {0}, NEW d \in Nat,
           NEW bonus \in Nat
    PROVE  LET w == PercentMul((k * d) \div m, bonus)
           IN  /\ w \in Nat
               /\ 2 * PERCENTAGE_FACTOR * m * w
                    <= 2 * k * d * bonus + m * PERCENTAGE_FACTOR
<1> DEFINE f == PERCENTAGE_FACTOR
           x == (k * d) \div m
           w == PercentMul(x, bonus)
<1>1. f \in Nat \ {0} /\ f \div 2 \in Nat /\ 2 * (f \div 2) <= f
  BY ScalesAreEven, SMT
<1>2. k * d \in Nat
  BY SMT
<1>3. x \in Nat /\ m * x <= k * d
  BY <1>2, QuotientBounds
<1> HIDE DEF x
<1>4. w \in Nat /\ f * w <= x * bonus + f \div 2
  <2>1. x * bonus + f \div 2 \in Nat
    BY <1>1, <1>3, SMT
  <2> QED
    BY <1>1, <1>3, <2>1, QuotientBounds, PercentMulType DEF PercentMul
<1> HIDE DEF w
<1>5. 2 * (f * w) <= 2 * (x * bonus) + f
  BY <1>1, <1>3, <1>4, SMT
<1>6. m * (2 * (f * w)) <= m * (2 * (x * bonus) + f)
  <2>1. 2 * (f * w) \in Nat /\ 2 * (x * bonus) + f \in Nat
    BY <1>1, <1>3, <1>4, SMT
  <2> QED
    BY <1>5, <2>1, ProductOrder
<1>7. (m * x) * bonus <= (k * d) * bonus
  <2>1. m * x \in Nat
    BY <1>3, SMT
  <2> QED
    BY <1>2, <1>3, <2>1, ProductOrder
<1>8. m * (2 * (f * w)) = 2 * f * m * w
  BY <1>1, <1>4, SMT
<1>9. m * (2 * (x * bonus) + f) = 2 * ((m * x) * bonus) + m * f
  BY <1>1, <1>3, SMT
<1>10. 2 * ((k * d) * bonus) = 2 * k * d * bonus
  BY SMT
<1>11. (m * x) * bonus \in Nat /\ (k * d) * bonus \in Nat /\ m * f \in Nat
  BY <1>1, <1>3, SMT
<1> DEFINE P == (m * x) * bonus
           Q == (k * d) * bonus
           R == m * f
<1>12. P \in Nat /\ Q \in Nat /\ R \in Nat /\ P <= Q
  BY <1>7, <1>11
<1>13. 2 * f * m * w <= 2 * P + R /\ 2 * Q = 2 * k * d * bonus
  BY <1>6, <1>8, <1>9, <1>10
<1> HIDE DEF P, Q
<1>14. 2 * f * m * w <= 2 * k * d * bonus + R
  <2>1. 2 * P + R <= 2 * Q + R
    BY <1>12, SMT
  <2>2. 2 * f * m * w \in Int
    BY <1>1, <1>4, SMT
  <2> HIDE DEF R
  <2> QED
    BY <1>12, <1>13, <2>1, <2>2, SMT
<1> QED
  <2>1. w \in Nat /\ 2 * f * m * w <= 2 * k * d * bonus + m * f
    BY <1>4, <1>14
  <2> QED
    BY <2>1 DEF w, x

\* The debt paid for by the whole balance: what it is worth without the
\* bonus, rounded down and then half up.
LEMMA NeededBounds ==
    ASSUME NEW k \in Nat \ {0}, NEW m \in Nat \ {0}, NEW b \in Nat,
           NEW bonus \in Nat \ {0}
    PROVE  LET e == PercentDiv((m * b) \div k, bonus)
           IN  /\ e \in Nat
               /\ 2 * PERCENTAGE_FACTOR * m * b
                    <= (2 * e + 1) * k * bonus + 2 * k * PERCENTAGE_FACTOR
               /\ (2 * e - 1) * k * bonus <= 2 * PERCENTAGE_FACTOR * m * b
<1> DEFINE f == PERCENTAGE_FACTOR
           q == (m * b) \div k
           e == PercentDiv(q, bonus)
           g == bonus \div 2
<1>1. f \in Nat \ {0}
  BY ScalesAreEven, SMT
<1>2. q \in Nat /\ k * q <= m * b /\ m * b < k * q + k
  <2>1. m * b \in Nat
    BY SMT
  <2> QED
    BY <2>1, QuotientBounds
<1>3. g \in Nat /\ 2 * g <= bonus /\ bonus <= 2 * g + 1
  BY SMT
<1>4. /\ e \in Nat
      /\ bonus * e <= q * f + g
      /\ q * f + g < bonus * e + bonus
  <2>1. q * f + g \in Nat
    BY <1>1, <1>2, <1>3, SMT
  <2> QED
    BY <1>1, <1>2, <2>1, QuotientBounds, PercentDivType DEF PercentDiv
<1> HIDE DEF q, e, g
<1> DEFINE P == q * f
           Q == bonus * e
<1>5. P \in Nat /\ Q \in Nat /\ k * P = f * (k * q)
  BY <1>1, <1>2, <1>4, SMT
<1>6. 2 * P <= 2 * Q + bonus /\ 2 * Q <= 2 * P + bonus
  <2>1. Q <= P + g /\ P + g < Q + bonus
    BY <1>4
  <2> HIDE DEF P, Q
  <2> QED
    BY <1>3, <1>5, <2>1, SMT
<1>7. k * Q = k * bonus * e
  BY <1>4, SMT
<1> HIDE DEF P, Q
<1>8. 2 * (k * P) <= 2 * (k * Q) + k * bonus /\ 2 * (k * Q) <= 2 * (k * P) + k * bonus
  <2>1. k * (2 * P) <= k * (2 * Q + bonus) /\ k * (2 * Q) <= k * (2 * P + bonus)
    BY <1>5, <1>6, ProductOrder
  <2> QED
    BY <2>1, <1>5, SMT
<1>9. f * (k * q) <= f * (m * b) /\ f * (m * b) <= f * (k * q) + f * k
  <2>1. k * q \in Nat /\ m * b \in Nat /\ k * q + k \in Nat /\ m * b <= k * q + k
    BY <1>2, SMT
  <2>2. f * (k * q) <= f * (m * b) /\ f * (m * b) <= f * (k * q + k)
    BY <1>1, <1>2, <2>1, ProductOrder
  <2>3. f * (k * q + k) = f * (k * q) + f * k
    BY <1>1, <2>1, SMT
  <2> QED
    BY <2>2, <2>3
<1>10. /\ 2 * f * m * b = 2 * (f * (m * b))
       /\ (2 * e + 1) * k * bonus + 2 * k * f
            = 2 * (k * bonus * e) + k * bonus + 2 * (f * k)
       /\ (2 * e - 1) * k * bonus = 2 * (k * bonus * e) - k * bonus
  BY <1>1, <1>4, SMT
<1> DEFINE M == f * (m * b)
           K == k * P
           L == k * Q
           B == k * bonus
           F == f * k
<1>11. /\ M \in Nat /\ K \in Nat /\ L \in Nat /\ B \in Nat /\ F \in Nat
       /\ K <= M /\ M <= K + F
       /\ 2 * K <= 2 * L + B /\ 2 * L <= 2 * K + B
  BY <1>1, <1>5, <1>8, <1>9, SMT
<1>12. /\ 2 * f * m * b = 2 * M
       /\ (2 * e + 1) * k * bonus + 2 * k * f = 2 * L + B + 2 * F
       /\ (2 * e - 1) * k * bonus = 2 * L - B
  BY <1>7, <1>10
<1> HIDE DEF M, K, L, B, F
<1>13. 2 * M <= 2 * L + B + 2 * F /\ 2 * L - B <= 2 * M
  BY <1>11, SMT
<1>14. /\ e \in Nat
       /\ 2 * f * m * b <= (2 * e + 1) * k * bonus + 2 * k * f
       /\ (2 * e - 1) * k * bonus <= 2 * f * m * b
  BY <1>4, <1>12, <1>13
<1> QED
  BY <1>14 DEF e, q

\* When the balance is less than what is wanted for a debt, the debt that
\* the balance pays for is no more than it.
LEMMA NeededIsNoMoreThanOffered ==
    ASSUME NEW k \in Nat \ {0}, NEW m \in Nat \ {0}, NEW d \in Nat,
           NEW b \in Nat, NEW bonus \in Nat \ {0},
           PercentMul((k * d) \div m, bonus) > b
    PROVE  PercentDiv((m * b) \div k, bonus) <= d
<1> DEFINE f == PERCENTAGE_FACTOR
           w == PercentMul((k * d) \div m, bonus)
           e == PercentDiv((m * b) \div k, bonus)
<1>1. f \in Nat \ {0}
  BY ScalesAreEven, SMT
<1>2. w \in Nat /\ 2 * f * m * w <= 2 * k * d * bonus + m * f /\ b + 1 <= w
  <2>1. w \in Nat /\ 2 * f * m * w <= 2 * k * d * bonus + m * f
    BY WantedBounds
  <2>2. w > b
    OBVIOUS
  <2> HIDE DEF w
  <2> QED
    BY <2>1, <2>2
<1>3. e \in Nat /\ (2 * e - 1) * k * bonus <= 2 * f * m * b
  BY NeededBounds
<1> HIDE DEF w, e
<1> DEFINE A == f * m
           B == k * bonus
<1>4. A \in Nat \ {0} /\ B \in Nat \ {0}
  BY <1>1, SMT
<1>5. /\ 2 * f * m * w = 2 * (A * w)
      /\ 2 * f * m * b = 2 * (A * b)
      /\ m * f = A
      /\ 2 * k * d * bonus = 2 * (B * d)
      /\ (2 * e - 1) * k * bonus = 2 * (B * e) - B
  BY <1>1, <1>2, <1>3, SMT
<1>6. 2 * (A * w) <= 2 * (B * d) + A /\ 2 * (B * e) - B <= 2 * (A * b)
  BY <1>2, <1>3, <1>5
<1> HIDE DEF A, B
<1>7. A * b + A <= A * w
  <2>1. A * (b + 1) <= A * w
    BY <1>2, <1>4, ProductOrder
  <2>2. A * (b + 1) = A * b + A
    BY <1>4, SMT
  <2> QED
    BY <2>1, <2>2
<1>8. A * b \in Nat /\ A * w \in Nat /\ B * d \in Nat /\ B * e \in Nat
  BY <1>2, <1>3, <1>4, SMT
<1>9. B * e < B * d + B
  <2> DEFINE x == A * b
             y == A * w
             z == B * d
             t == B * e
  <2>1. /\ x \in Nat /\ y \in Nat /\ z \in Nat /\ t \in Nat
        /\ x + A <= y /\ 2 * y <= 2 * z + A /\ 2 * t - B <= 2 * x
    BY <1>6, <1>7, <1>8
  <2> HIDE DEF x, y, z, t
  <2>2. t < z + B
    BY <1>4, <2>1, SMT
  <2> QED
    BY <2>2 DEF z, t
<1>10. B * e < B * (d + 1)
  BY <1>4, <1>9, SMT
<1>11. e < d + 1
  BY <1>3, <1>4, <1>10, ProductOrderInverse
<1>12. e <= d
  BY <1>3, <1>11
<1> QED
  BY <1>12 DEF e

\* What a liquidation takes, for all numbers: no more debt than the liquidator
\* asked to cover, no more collateral than the balance, no more of it than
\* the debt is worth with the bonus, up to the rounding of one unit of debt.
THEOREM AvailableCollateralBounds ==
    ASSUME NEW k \in Nat \ {0}, NEW m \in Nat \ {0}, NEW d \in Nat,
           NEW b \in Nat, NEW bonus \in Nat, bonus > PERCENTAGE_FACTOR,
           NEW feePercentage \in Nat, feePercentage <= PERCENTAGE_FACTOR
    PROVE  LET r == AvailableCollateralToLiquidate(k, m, d, b, bonus, feePercentage)
               seized == r.collateral + r.fee
           IN  /\ r.collateral \in Nat /\ r.fee \in Nat /\ r.debt \in Nat
               /\ r.debt <= d
               /\ seized <= b
               /\ 2 * m * PERCENTAGE_FACTOR * seized
                    <= (2 * r.debt + 1) * k * bonus
                         + 2 * k * PERCENTAGE_FACTOR + m * PERCENTAGE_FACTOR
<1> DEFINE f == PERCENTAGE_FACTOR
           w == PercentMul((k * d) \div m, bonus)
           e == PercentDiv((m * b) \div k, bonus)
           r == AvailableCollateralToLiquidate(k, m, d, b, bonus, feePercentage)
<1>1. f \in Nat \ {0} /\ bonus \in Nat \ {0}
  BY ScalesAreEven
<1>2. w \in Nat /\ 2 * f * m * w <= 2 * k * d * bonus + m * f
  BY WantedBounds
<1>3. /\ e \in Nat
      /\ 2 * f * m * b <= (2 * e + 1) * k * bonus + 2 * k * f
  BY <1>1, NeededBounds
<1>4. w > b => e <= d
  BY <1>1, NeededIsNoMoreThanOffered
<1>5. r = IF w > b THEN SplitCollateral(b, e, bonus, feePercentage)
                   ELSE SplitCollateral(w, d, bonus, feePercentage)
  BY DEF AvailableCollateralToLiquidate
<1> HIDE DEF w, e, r
<1>6. CASE w > b
  <2>1. /\ r.collateral \in Nat /\ r.fee \in Nat /\ r.debt = e
        /\ r.collateral + r.fee = b
    BY <1>3, <1>5, <1>6, SplitCollateralSum
  <2>2. 2 * m * f * b <= (2 * e + 1) * k * bonus + 2 * k * f + m * f
    <3>1. 2 * m * f * b = 2 * f * m * b /\ 0 <= m * f
      BY <1>1, SMT
    <3>2. /\ 2 * m * f * b \in Int /\ m * f \in Nat
          /\ (2 * e + 1) * k * bonus + 2 * k * f \in Int
      BY <1>1, <1>3, SMT
    <3> DEFINE x == 2 * m * f * b
               y == (2 * e + 1) * k * bonus + 2 * k * f
               z == m * f
    <3>3. x \in Int /\ y \in Int /\ z \in Nat /\ x <= y
      BY <1>3, <3>1, <3>2
    <3> HIDE DEF x, y, z
    <3>4. x <= y + z
      BY <3>3, SMT
    <3> QED
      BY <3>4 DEF x, y, z
  <2>3. b <= b
    OBVIOUS
  <2> QED
    BY <1>3, <1>4, <1>6, <2>1, <2>2, <2>3 DEF r
<1>7. CASE ~(w > b)
  <2>1. /\ r.collateral \in Nat /\ r.fee \in Nat /\ r.debt = d
        /\ r.collateral + r.fee = w
    BY <1>2, <1>5, <1>7, SplitCollateralSum
  <2>2. 2 * m * f * w <= (2 * d + 1) * k * bonus + 2 * k * f + m * f
    <3> DEFINE x == 2 * k * d * bonus
               y == k * bonus
               z == m * f
               t == 2 * k * f
    <3>1. x \in Nat /\ y \in Nat /\ z \in Nat /\ t \in Nat
      BY <1>1, SMT
    <3>2. /\ 2 * m * f * w = 2 * f * m * w
          /\ (2 * d + 1) * k * bonus = x + y
          /\ 2 * f * m * w \in Int
      BY <1>1, <1>2, SMT
    <3>3. 2 * f * m * w <= x + z
      BY <1>2
    <3> HIDE DEF x, y, z, t
    <3>4. 2 * f * m * w <= x + y + t + z
      BY <3>1, <3>2, <3>3, SMT
    <3> QED
      BY <3>2, <3>4 DEF z, t
  <2>3. w <= b /\ d <= d
    BY <1>2, <1>7
  <2> QED
    BY <2>1, <2>2, <2>3 DEF r
<1> QED
  BY <1>6, <1>7

-----------------------------------------------------------------------------

USE DEF Indices

-----------------------------------------------------------------------------
(* Types of the views.                                                     *)

\* Users and treasury hold aTokens.
LEMMA UsersAreAccounts == Users \subseteq Accounts /\ Treasury \in Accounts
  BY DEF Accounts

\* A recipient is a user or the aToken contract.
LEMMA SupplyRecipients ==
    \A u \in Users : Recipients[u] \ {ATokenAddress} \subseteq Users
  BY Bounds

\* Indices are at least one ray.
LEMMA IndexFacts ==
    ASSUME TypeOK, NEW a \in Assets
    PROVE  /\ liquidityIndex[a] \in Nat \ {0} /\ liquidityIndex[a] >= RAY
           /\ variableBorrowIndex[a] \in Nat \ {0} /\ variableBorrowIndex[a] >= RAY
<1>1. RAY \in Nat \ {0}
  BY ScalesAreEven
<1>2. liquidityIndex[a] \in Indices /\ variableBorrowIndex[a] \in Indices
  BY DEF TypeOK
<1> QED
  BY <1>1, <1>2, SMT

\* Displayed balances are naturals.
LEMMA BalanceOfType ==
    ASSUME TypeOK, NEW a \in Assets, NEW u \in Accounts
    PROVE  BalanceOf(a, u) \in Nat
<1>1. aTokenBalance[a][u] \in Nat
  BY DEF TypeOK
<1> QED
  BY <1>1, IndexFacts, RayMulType DEF BalanceOf

\* Displayed debts are naturals.
LEMMA DebtTypes ==
    ASSUME TypeOK, NEW a \in Assets, NEW u \in Users
    PROVE  /\ stableDebt[a][u] \in Nat /\ variableDebt[a][u] \in Nat
           /\ VariableDebtOf(a, u) \in Nat
           /\ DebtOf(a, u) \in Nat
           /\ \A mode : DebtOfMode(a, u, mode) \in Nat
<1>1. stableDebt[a][u] \in Nat /\ variableDebt[a][u] \in Nat
  BY DEF TypeOK
<1>2. VariableDebtOf(a, u) \in Nat
  BY <1>1, IndexFacts, RayMulType DEF VariableDebtOf
<1>3. DebtOf(a, u) \in Nat
  BY <1>1, <1>2 DEF DebtOf
<1> QED
  BY <1>1, <1>2, <1>3 DEF DebtOfMode

\* The parameters of a reserve.
LEMMA ConfigurationTypes ==
    ASSUME TypeOK, NEW a \in Assets
    PROVE  /\ configuration[a] \in ReserveConfigurations
           /\ configuration[a].unit \in Nat \ {0}
           /\ configuration[a].debtCeilingUnit \in Nat \ {0}
           /\ configuration[a].debtCeiling \in Nat
           /\ configuration[a].liquidationBonus \in Nat
           /\ configuration[a].liquidationProtocolFee \in Nat
           /\ configuration[a].liquidationProtocolFee <= PERCENTAGE_FACTOR
           /\ configuration[a].liquidationThreshold # 0 =>
                configuration[a].liquidationBonus > PERCENTAGE_FACTOR
<1>1. configuration[a] \in ReserveConfigurations
  BY DEF TypeOK
<1> QED
  BY <1>1 DEF ReserveConfigurations, ReserveConfigurationMap

\* The number of whole ceiling units in an amount.
LEMMA CeilingUnitsType ==
    ASSUME TypeOK, NEW a \in Assets, NEW amount \in Nat
    PROVE  amount \div configuration[a].debtCeilingUnit \in Nat
  BY ConfigurationTypes, QuotientBounds

\* The counter that a repayment leaves is a natural.
LEMMA UpdateIsolatedDebtType ==
    ASSUME TypeOK, NEW flags, NEW a \in Assets, NEW amount \in Nat
    PROVE  UpdateIsolatedDebtIfIsolated(flags, a, amount) \in [Assets -> Nat]
<1> DEFINE repaid == amount \div configuration[a].debtCeilingUnit
<1>1. repaid \in Nat
  BY CeilingUnitsType
<1> HIDE DEF repaid
<1>2. ASSUME NEW c \in Assets, ~(isolationModeTotalDebt[c] <= repaid)
      PROVE  isolationModeTotalDebt[c] - repaid \in Nat
  BY <1>1, <1>2 DEF TypeOK
<1> QED
  BY <1>1, <1>2 DEF UpdateIsolatedDebtIfIsolated, TypeOK, repaid

\* Raising or lowering one entry of a table of amounts.
LEMMA RaiseEntry ==
    ASSUME NEW S, NEW T, NEW f \in [S -> [T -> Nat]],
           NEW a \in S, NEW u \in T, NEW n \in Nat
    PROVE  [f EXCEPT ![a][u] = @ + n] \in [S -> [T -> Nat]]
  OBVIOUS

\* Lowering one entry keeps naturals.
LEMMA LowerEntry ==
    ASSUME NEW S, NEW T, NEW f \in [S -> [T -> Nat]],
           NEW a \in S, NEW u \in T, NEW n \in Nat, n <= f[a][u]
    PROVE  [f EXCEPT ![a][u] = @ - n] \in [S -> [T -> Nat]]
<1>1. f[a][u] - n \in Nat
  BY SMT
<1> QED
  BY <1>1

\* Moving a balance keeps naturals.
LEMMA MoveBalanceType ==
    ASSUME NEW S, NEW balances \in [S -> Nat], NEW from \in S, NEW to \in S,
           NEW scaled \in Nat, scaled <= balances[from]
    PROVE  MoveBalance(balances, from, to, scaled) \in [S -> Nat]
<1>1. balances[from] - scaled \in Nat
  BY SMT
<1> DEFINE once == [balances EXCEPT ![from] = @ - scaled]
<1>2. once \in [S -> Nat]
  BY <1>1
<1> HIDE DEF once
<1>3. [once EXCEPT ![to] = @ + scaled] \in [S -> Nat]
  BY <1>2
<1> QED
  BY <1>3 DEF MoveBalance, once

-----------------------------------------------------------------------------
(* The actions, one lemma each.                                            *)

\* supply keeps the types.
LEMMA SupplyType ==
    ASSUME TypeOK, NEW u \in Users, NEW v \in Users, NEW a \in Assets,
           NEW n \in Amounts, Supply(u, v, a, n)
    PROVE  TypeOK'
<1>1. n \in Nat
  BY Bounds
<1> DEFINE scaled == RayDiv(n, liquidityIndex[a])
<1>2. scaled \in Nat
  BY <1>1, IndexFacts, RayDivType
<1> HIDE DEF scaled
<1>3. n <= wallet[a][u]
  BY DEF Supply
<1>4. aTokenBalance' \in [Assets -> [Accounts -> Nat]]
  <2>1. aTokenBalance' = [aTokenBalance EXCEPT ![a][v] = @ + scaled]
    BY DEF Supply, scaled
  <2> QED
    BY <1>2, <2>1, UsersAreAccounts DEF TypeOK
<1>5. collateral' \in [Users -> SUBSET Assets]
  BY DEF Supply, TypeOK
<1>6. wallet' \in [Assets -> [Users -> Nat]]
  BY <1>1, <1>3 DEF Supply, TypeOK
<1>7. liquidity' \in [Assets -> Nat]
  BY <1>1 DEF Supply, TypeOK
<1>8. UNCHANGED <<variableDebt, stableDebt, borrowAllowance, borrowing,
                  usersEModeCategory, isolationModeTotalDebt, indices,
                  oracles, listing>>
  BY DEF Supply
<1> QED
  BY <1>4, <1>5, <1>6, <1>7, <1>8 DEF TypeOK, indices, oracles, listing

\* withdraw keeps the types.
LEMMA WithdrawType ==
    ASSUME TypeOK, NEW u \in Users, NEW a \in Assets,
           NEW n \in Amounts \cup {MaxUint}, NEW to \in Recipients[u],
           Withdraw(u, a, n, to)
    PROVE  TypeOK'
<1>1. n \in Nat
  BY Bounds, InitialValues
<1> DEFINE withdrawn == IF n = MaxUint THEN BalanceOf(a, u) ELSE n
           scaled == RayDiv(withdrawn, liquidityIndex[a])
<1>2. withdrawn \in Nat
  BY <1>1, BalanceOfType, UsersAreAccounts
<1> HIDE DEF withdrawn
<1>3. scaled \in Nat
  BY <1>2, IndexFacts, RayDivType
<1> HIDE DEF scaled
<1>4. aTokenBalance' \in [Assets -> [Accounts -> Nat]]
  <2>1. /\ scaled <= aTokenBalance[a][u]
        /\ aTokenBalance' = [aTokenBalance EXCEPT ![a][u] = @ - scaled]
    BY DEF Withdraw, withdrawn, scaled
  <2> QED
    BY <1>3, <2>1, UsersAreAccounts DEF TypeOK
<1>5. collateral' \in [Users -> SUBSET Assets]
  BY DEF Withdraw, TypeOK
<1>6. wallet' \in [Assets -> [Users -> Nat]] /\ liquidity' \in [Assets -> Nat]
  <2>1. CASE to = ATokenAddress
    BY <2>1 DEF Withdraw, TypeOK, underlying
  <2>2. CASE to # ATokenAddress
    <3>1. /\ wallet' = [wallet EXCEPT ![a][to] = @ + withdrawn]
          /\ liquidity' = [liquidity EXCEPT ![a] = @ - withdrawn]
          /\ withdrawn <= liquidity[a]
      BY <2>2 DEF Withdraw, withdrawn
    <3>2. to \in Users
      BY <2>2, Bounds
    <3> QED
      BY <1>2, <3>1, <3>2 DEF TypeOK
  <2> QED
    BY <2>1, <2>2
<1>7. UNCHANGED <<variableDebt, stableDebt, borrowAllowance, borrowing,
                  usersEModeCategory, isolationModeTotalDebt, indices,
                  oracles, listing>>
  BY DEF Withdraw
<1> QED
  BY <1>4, <1>5, <1>6, <1>7 DEF TypeOK, indices, oracles, listing

\* A transfer of aTokens keeps the types.
LEMMA TransferType ==
    ASSUME TypeOK, NEW u \in Users, NEW v \in Users, NEW a \in Assets,
           NEW n \in Amounts, Transfer(u, v, a, n)
    PROVE  TypeOK'
<1> DEFINE scaled == RayDiv(n, liquidityIndex[a])
<1>1. scaled \in Nat
  BY Bounds, IndexFacts, RayDivType
<1> HIDE DEF scaled
<1>2. aTokenBalance' \in [Assets -> [Accounts -> Nat]]
  <2>1. /\ scaled <= aTokenBalance[a][u]
        /\ aTokenBalance' = [aTokenBalance EXCEPT ![a] = MoveBalance(@, u, v, scaled)]
    BY DEF Transfer, scaled
  <2>2. aTokenBalance[a] \in [Accounts -> Nat]
    BY DEF TypeOK
  <2>3. MoveBalance(aTokenBalance[a], u, v, scaled) \in [Accounts -> Nat]
    BY <1>1, <2>1, <2>2, MoveBalanceType, UsersAreAccounts
  <2> QED
    BY <2>1, <2>3 DEF TypeOK
<1>3. collateral' \in [Users -> SUBSET Assets]
  BY DEF Transfer, TypeOK
<1>4. UNCHANGED <<variableDebt, stableDebt, borrowAllowance, borrowing,
                  usersEModeCategory, isolationModeTotalDebt, underlying,
                  indices, oracles, listing>>
  BY DEF Transfer
<1> QED
  BY <1>2, <1>3, <1>4 DEF TypeOK, underlying, indices, oracles, listing

\* setUserUseReserveAsCollateral keeps the types.
LEMMA SetUserUseReserveAsCollateralType ==
    ASSUME TypeOK, NEW u \in Users, NEW a \in Assets, NEW b \in BOOLEAN,
           SetUserUseReserveAsCollateral(u, a, b)
    PROVE  TypeOK'
<1>1. collateral' \in [Users -> SUBSET Assets]
  BY DEF SetUserUseReserveAsCollateral, TypeOK
<1>2. UNCHANGED <<tokens, borrowing, usersEModeCategory, isolationModeTotalDebt,
                  underlying, indices, oracles, listing>>
  BY DEF SetUserUseReserveAsCollateral
<1> QED
  BY <1>1, <1>2 DEF TypeOK, tokens, underlying, indices, oracles, listing

\* borrow keeps the types.
LEMMA BorrowType ==
    ASSUME TypeOK, NEW v \in Users, NEW u \in Users, NEW a \in Assets,
           NEW n \in Amounts, NEW mode \in RateModes, Borrow(v, u, a, n, mode)
    PROVE  TypeOK'
<1>1. n \in Nat
  BY Bounds
<1> DEFINE scaled == RayDiv(n, variableBorrowIndex[a])
           units == n \div configuration[a].debtCeilingUnit
<1>2. scaled \in Nat /\ units \in Nat
  BY <1>1, IndexFacts, RayDivType, CeilingUnitsType
<1>3. variableDebt' \in [Assets -> [Users -> Nat]]
  <2>1. \/ variableDebt' = variableDebt
        \/ variableDebt' = [variableDebt EXCEPT ![a][u] = @ + scaled]
    BY DEF Borrow
  <2> HIDE DEF scaled
  <2>2. variableDebt \in [Assets -> [Users -> Nat]]
    BY DEF TypeOK
  <2>3. [variableDebt EXCEPT ![a][u] = @ + scaled] \in [Assets -> [Users -> Nat]]
    BY <1>2, <2>2, RaiseEntry
  <2> QED
    BY <2>1, <2>2, <2>3
<1>4. stableDebt' \in [Assets -> [Users -> Nat]]
  <2>1. \/ stableDebt' = stableDebt
        \/ stableDebt' = [stableDebt EXCEPT ![a][u] = @ + n]
    BY DEF Borrow
  <2>2. stableDebt \in [Assets -> [Users -> Nat]]
    BY DEF TypeOK
  <2>3. [stableDebt EXCEPT ![a][u] = @ + n] \in [Assets -> [Users -> Nat]]
    BY <1>1, <2>2, RaiseEntry
  <2> QED
    BY <2>1, <2>2, <2>3
<1>5. borrowAllowance' \in [Assets -> [RateModes -> [Users -> [Users -> Nat]]]]
  <2>1. CASE v = u
    BY <2>1 DEF Borrow, TypeOK
  <2>2. CASE v # u
    <3>1. /\ n <= borrowAllowance[a][mode][u][v]
          /\ borrowAllowance' = [borrowAllowance EXCEPT ![a][mode][u][v] = @ - n]
      BY <2>2 DEF Borrow
    <3>2. borrowAllowance[a][mode][u][v] \in Nat
      BY DEF TypeOK
    <3>3. borrowAllowance[a][mode][u][v] - n \in Nat
      BY <1>1, <3>1, <3>2
    <3> QED
      BY <3>1, <3>3 DEF TypeOK
  <2> QED
    BY <2>1, <2>2
<1>6. borrowing' \in [Users -> SUBSET Assets]
  BY DEF Borrow, TypeOK
<1>7. isolationModeTotalDebt' \in [Assets -> Nat]
  <2>1. isolationModeTotalDebt' =
          [c \in Assets |-> IF IsolatedBy(collateral[u], c)
                            THEN isolationModeTotalDebt[c] + units
                            ELSE isolationModeTotalDebt[c]]
    BY DEF Borrow
  <2> HIDE DEF units
  <2> QED
    BY <1>2, <2>1 DEF TypeOK
<1>8. wallet' \in [Assets -> [Users -> Nat]] /\ liquidity' \in [Assets -> Nat]
  BY <1>1 DEF Borrow, TypeOK
<1>9. UNCHANGED <<aTokenBalance, collateral, usersEModeCategory, indices,
                  oracles, listing>>
  BY DEF Borrow
<1> QED
  BY <1>3, <1>4, <1>5, <1>6, <1>7, <1>8, <1>9
     DEF TypeOK, indices, oracles, listing

\* What repayments have in common keeps the types.
LEMMA RepayDebtType ==
    ASSUME TypeOK, NEW u \in Users, NEW a \in Assets, NEW payback \in Nat,
           NEW mode \in RateModes, payback <= DebtOfMode(a, u, mode),
           RepayDebt(u, a, payback, mode)
    PROVE  /\ variableDebt' \in [Assets -> [Users -> Nat]]
           /\ stableDebt' \in [Assets -> [Users -> Nat]]
           /\ borrowing' \in [Users -> SUBSET Assets]
           /\ isolationModeTotalDebt' \in [Assets -> Nat]
<1> DEFINE scaled == RayDiv(payback, variableBorrowIndex[a])
<1>1. scaled \in Nat
  BY IndexFacts, RayDivType
<1>2. variableDebt' \in [Assets -> [Users -> Nat]]
  <2>1. \/ variableDebt' = variableDebt
        \/ /\ scaled <= variableDebt[a][u]
           /\ variableDebt' = [variableDebt EXCEPT ![a][u] = @ - scaled]
    BY DEF RepayDebt
  <2> HIDE DEF scaled
  <2>2. variableDebt \in [Assets -> [Users -> Nat]]
    BY DEF TypeOK
  <2> QED
    BY <1>1, <2>1, <2>2, LowerEntry
<1>3. stableDebt' \in [Assets -> [Users -> Nat]]
  <2>1. \/ stableDebt' = stableDebt
        \/ /\ payback <= stableDebt[a][u]
           /\ stableDebt' = [stableDebt EXCEPT ![a][u] = @ - payback]
    BY DEF RepayDebt, DebtOfMode
  <2>2. stableDebt \in [Assets -> [Users -> Nat]]
    BY DEF TypeOK
  <2>3. payback <= stableDebt[a][u] =>
          [stableDebt EXCEPT ![a][u] = @ - payback] \in [Assets -> [Users -> Nat]]
    BY <2>2, LowerEntry
  <2> QED
    BY <2>1, <2>2, <2>3
<1>4. borrowing' \in [Users -> SUBSET Assets]
  BY DEF RepayDebt, TypeOK
<1>5. isolationModeTotalDebt' \in [Assets -> Nat]
  BY UpdateIsolatedDebtType DEF RepayDebt
<1> QED
  BY <1>2, <1>3, <1>4, <1>5

\* repay keeps the types.
LEMMA RepayType ==
    ASSUME TypeOK, NEW v \in Users, NEW u \in Users, NEW a \in Assets,
           NEW n \in Amounts \cup {MaxUint}, NEW mode \in RateModes,
           Repay(v, u, a, n, mode)
    PROVE  TypeOK'
<1> DEFINE debt == DebtOfMode(a, u, mode)
           payback == IF n < debt THEN n ELSE debt
<1>1. n \in Nat /\ debt \in Nat
  BY Bounds, InitialValues, DebtTypes
<1>2. /\ payback <= wallet[a][v]
      /\ RepayDebt(u, a, payback, mode)
      /\ wallet' = [wallet EXCEPT ![a][v] = @ - payback]
      /\ liquidity' = [liquidity EXCEPT ![a] = @ + payback]
      /\ UNCHANGED <<aTokenBalance, borrowAllowance, collateral,
                     usersEModeCategory, indices, oracles, listing>>
  BY DEF Repay
<1> HIDE DEF debt
<1>3. payback \in Nat /\ payback <= debt
  BY <1>1
<1> HIDE DEF payback
<1>4. /\ variableDebt' \in [Assets -> [Users -> Nat]]
      /\ stableDebt' \in [Assets -> [Users -> Nat]]
      /\ borrowing' \in [Users -> SUBSET Assets]
      /\ isolationModeTotalDebt' \in [Assets -> Nat]
  BY <1>2, <1>3, RepayDebtType DEF debt
<1>5. wallet' \in [Assets -> [Users -> Nat]] /\ liquidity' \in [Assets -> Nat]
  BY <1>2, <1>3 DEF TypeOK
<1> QED
  BY <1>2, <1>4, <1>5 DEF TypeOK, indices, oracles, listing

\* repayWithATokens keeps the types.
LEMMA RepayWithATokensType ==
    ASSUME TypeOK, NEW u \in Users, NEW a \in Assets,
           NEW n \in Amounts \cup {MaxUint}, NEW mode \in RateModes,
           RepayWithATokens(u, a, n, mode)
    PROVE  TypeOK'
<1> DEFINE debt == DebtOfMode(a, u, mode)
           offered == IF n = MaxUint THEN BalanceOf(a, u) ELSE n
           payback == IF offered < debt THEN offered ELSE debt
           scaled == RayDiv(payback, liquidityIndex[a])
<1>1. n \in Nat /\ debt \in Nat /\ BalanceOf(a, u) \in Nat
  BY Bounds, InitialValues, DebtTypes, BalanceOfType, UsersAreAccounts
<1>2. /\ RepayDebt(u, a, payback, mode)
      /\ scaled <= aTokenBalance[a][u]
      /\ aTokenBalance' = [aTokenBalance EXCEPT ![a][u] = @ - scaled]
      /\ UNCHANGED <<borrowAllowance, collateral, usersEModeCategory,
                     underlying, indices, oracles, listing>>
  BY DEF RepayWithATokens
<1> HIDE DEF debt
<1>3. payback \in Nat /\ payback <= debt
  BY <1>1
<1> HIDE DEF payback
<1>4. /\ variableDebt' \in [Assets -> [Users -> Nat]]
      /\ stableDebt' \in [Assets -> [Users -> Nat]]
      /\ borrowing' \in [Users -> SUBSET Assets]
      /\ isolationModeTotalDebt' \in [Assets -> Nat]
  BY <1>2, <1>3, RepayDebtType DEF debt
<1>5. aTokenBalance' \in [Assets -> [Accounts -> Nat]]
  <2>1. scaled \in Nat
    BY <1>3, IndexFacts, RayDivType
  <2> HIDE DEF scaled
  <2> QED
    BY <1>2, <2>1, UsersAreAccounts DEF TypeOK
<1> QED
  BY <1>2, <1>4, <1>5 DEF TypeOK, underlying, indices, oracles, listing

\* swapBorrowRateMode keeps the types.
LEMMA SwapBorrowRateModeType ==
    ASSUME TypeOK, NEW u \in Users, NEW a \in Assets, NEW mode \in RateModes,
           SwapBorrowRateMode(u, a, mode)
    PROVE  TypeOK'
<1> DEFINE debt == DebtOfMode(a, u, mode)
           scaled == RayDiv(debt, variableBorrowIndex[a])
<1>1. debt \in Nat /\ stableDebt[a][u] \in Nat /\ variableDebt[a][u] \in Nat
  BY DebtTypes
<1>2. scaled \in Nat
  BY <1>1, IndexFacts, RayDivType
<1>3. variableDebt' \in [Assets -> [Users -> Nat]]
  <2>1. \/ variableDebt' = [variableDebt EXCEPT ![a][u] = @ + scaled]
        \/ /\ scaled <= variableDebt[a][u]
           /\ variableDebt' = [variableDebt EXCEPT ![a][u] = @ - scaled]
    BY DEF SwapBorrowRateMode
  <2> HIDE DEF scaled
  <2>2. variableDebt \in [Assets -> [Users -> Nat]]
    BY DEF TypeOK
  <2> QED
    BY <1>2, <2>1, <2>2, RaiseEntry, LowerEntry
<1>4. stableDebt' \in [Assets -> [Users -> Nat]]
  <2>1. \/ stableDebt' = [stableDebt EXCEPT ![a][u] = @ + debt]
        \/ /\ debt = stableDebt[a][u]
           /\ stableDebt' = [stableDebt EXCEPT ![a][u] = @ - debt]
    BY DEF SwapBorrowRateMode, DebtOfMode
  <2> HIDE DEF debt
  <2>2. stableDebt \in [Assets -> [Users -> Nat]]
    BY DEF TypeOK
  <2> QED
    BY <1>1, <2>1, <2>2, RaiseEntry, LowerEntry
<1>5. UNCHANGED <<aTokenBalance, borrowAllowance, usersConfig,
                  isolationModeTotalDebt, underlying, indices, oracles,
                  listing>>
  BY DEF SwapBorrowRateMode
<1> QED
  BY <1>3, <1>4, <1>5 DEF TypeOK, usersConfig, underlying, indices, oracles, listing

\* approveDelegation keeps the types.
LEMMA ApproveDelegationType ==
    ASSUME TypeOK, NEW u \in Users, NEW v \in Users, NEW a \in Assets,
           NEW mode \in RateModes, NEW n \in Nat, ApproveDelegation(u, v, a, mode, n)
    PROVE  TypeOK'
<1>1. borrowAllowance' \in [Assets -> [RateModes -> [Users -> [Users -> Nat]]]]
  BY DEF ApproveDelegation, TypeOK
<1>2. UNCHANGED <<aTokenBalance, variableDebt, stableDebt, usersConfig,
                  isolationModeTotalDebt, underlying, indices, oracles, listing>>
  BY DEF ApproveDelegation
<1> QED
  BY <1>1, <1>2 DEF TypeOK, usersConfig, underlying, indices, oracles, listing

-----------------------------------------------------------------------------
(* Liquidations.                                                           *)

\* A position read from the storage shows displayed balances and debts.
LEMMA PositionFacts ==
    ASSUME NEW u \in Users
    PROVE  /\ Position(u).eMode = usersEModeCategory[u]
           /\ \A a \in Assets : /\ Position(u).aToken[a] = BalanceOf(a, u)
                              /\ Position(u).debt[a] = DebtOf(a, u)
  BY DEF Position

\* Prices, of categories too, are positive.
LEMMA PriceTypes ==
    ASSUME TypeOK, NEW u \in Users, NEW a \in Assets
    PROVE  /\ PriceFor(Position(u), a) \in Nat \ {0}
           /\ LiquidationDebtPrice(Position(u), a) \in Nat \ {0}
<1> DEFINE e == usersEModeCategory[u]
<1>1. \A s \in Assets \cup PriceSources : price[s] \in Nat \ {0}
  BY DEF TypeOK
<1>2. PriceSourceOf(e) # NoPriceSource => PriceSourceOf(e) \in Assets \cup PriceSources
  <2>1. e \in Categories \cup {0}
    BY DEF TypeOK
  <2>2. e # 0 => eModeCategories[e].priceSource \in Assets \cup PriceSources \cup {NoPriceSource}
    BY <2>1 DEF TypeOK, EModeCategories
  <2> QED
    BY <2>1, <2>2 DEF PriceSourceOf
<1>3. Position(u).eMode = e
  BY PositionFacts
<1> HIDE DEF e
<1> QED
  BY <1>1, <1>2, <1>3 DEF PriceFor, LiquidationDebtPrice

\* What is liquidated is at most what is offered and owed.
LEMMA DebtToLiquidateBounds ==
    ASSUME TypeOK, NEW u \in Users, NEW d \in Assets, NEW n \in Nat
    PROVE  /\ DebtToLiquidate(Position(u), d, n) \in Nat
           /\ DebtToLiquidate(Position(u), d, n) <= n
           /\ DebtToLiquidate(Position(u), d, n) <= DebtOf(d, u)
<1> DEFINE closeFactor == IF HealthFactor(Position(u)) > CloseFactorHFThreshold
                          THEN PERCENTAGE_FACTOR \div 2 ELSE PERCENTAGE_FACTOR
           most == PercentMul(DebtOf(d, u), closeFactor)
<1>1. closeFactor \in Nat /\ closeFactor <= PERCENTAGE_FACTOR
  <2>1. /\ PERCENTAGE_FACTOR \in Nat /\ PERCENTAGE_FACTOR \div 2 \in Nat
        /\ PERCENTAGE_FACTOR \div 2 <= PERCENTAGE_FACTOR
    BY ScalesAreEven, SMT
  <2> QED
    BY <2>1
<1> HIDE DEF closeFactor
<1>2. DebtOf(d, u) \in Nat
  BY DebtTypes
<1>3. most \in Nat /\ most <= DebtOf(d, u)
  BY <1>1, <1>2, PercentMulType, PercentMulShrinks
<1>4. DebtToLiquidate(Position(u), d, n) = IF n > most THEN most ELSE n
  BY PositionFacts DEF DebtToLiquidate, closeFactor
<1> HIDE DEF most
<1> QED
  BY <1>2, <1>3, <1>4

\* What the code takes from a liquidatable user, for every amount asked.
LEMMA LiquidatedBounds ==
    ASSUME TypeOK, NEW u \in Users, NEW c \in Assets, NEW d \in Assets,
           NEW n \in Nat, ValidateLiquidationCall(u, c, d)
    PROVE  LET p      == Position(u)
               taken  == Liquidated(p, c, d, n)
               seized == taken.collateral + taken.fee
               k == LiquidationDebtPrice(p, d) * configuration[c].unit
               m == PriceFor(p, c) * configuration[d].unit
           IN  /\ taken.collateral \in Nat /\ taken.fee \in Nat /\ taken.debt \in Nat
               /\ taken.debt <= n
               /\ taken.debt <= DebtOf(d, u)
               /\ seized <= BalanceOf(c, u)
               /\ 2 * m * PERCENTAGE_FACTOR * seized
                    <= (2 * taken.debt + 1) * k * LiquidationBonus(p, c)
                         + 2 * k * PERCENTAGE_FACTOR + m * PERCENTAGE_FACTOR
<1> DEFINE p == Position(u)
           k == LiquidationDebtPrice(p, d) * configuration[c].unit
           m == PriceFor(p, c) * configuration[d].unit
           debt == DebtToLiquidate(p, d, n)
           bonus == LiquidationBonus(p, c)
           feePercentage == configuration[c].liquidationProtocolFee
           taken == Liquidated(p, c, d, n)
<1>1. k \in Nat \ {0} /\ m \in Nat \ {0}
  <2>1. /\ LiquidationDebtPrice(p, d) \in Nat \ {0} /\ PriceFor(p, c) \in Nat \ {0}
        /\ configuration[c].unit \in Nat \ {0} /\ configuration[d].unit \in Nat \ {0}
    BY PriceTypes, ConfigurationTypes
  <2>2. \A x, y \in Nat \ {0} : x * y \in Nat \ {0}
    BY SMT
  <2> QED
    BY <2>1, <2>2
<1>2. debt \in Nat /\ debt <= n /\ debt <= DebtOf(d, u)
  BY DebtToLiquidateBounds
<1>3. bonus \in Nat /\ bonus > PERCENTAGE_FACTOR
  <2>1. CASE InEMode(p, c)
    <3>1. p.eMode \in Categories
      BY <2>1, PositionFacts DEF TypeOK, InEMode
    <3>2. eModeCategories[p.eMode] \in EModeCategories
      BY <3>1 DEF TypeOK
    <3> QED
      BY <2>1, <3>2 DEF LiquidationBonus, EModeCategories
  <2>2. CASE ~InEMode(p, c)
    <3>1. configuration[c].liquidationThreshold # 0
      BY DEF ValidateLiquidationCall
    <3> QED
      BY <2>2, <3>1, ConfigurationTypes DEF LiquidationBonus
  <2> QED
    BY <2>1, <2>2
<1>4. feePercentage \in Nat /\ feePercentage <= PERCENTAGE_FACTOR
  BY ConfigurationTypes
<1>5. BalanceOf(c, u) \in Nat
  BY BalanceOfType, UsersAreAccounts
<1>6. taken = AvailableCollateralToLiquidate(k, m, debt, BalanceOf(c, u), bonus, feePercentage)
  BY PositionFacts DEF Liquidated
<1> HIDE DEF k, m, debt, bonus, feePercentage, taken
<1>7. /\ taken.collateral \in Nat /\ taken.fee \in Nat /\ taken.debt \in Nat
      /\ taken.debt <= debt
      /\ taken.collateral + taken.fee <= BalanceOf(c, u)
      /\ 2 * m * PERCENTAGE_FACTOR * (taken.collateral + taken.fee)
           <= (2 * taken.debt + 1) * k * bonus
                + 2 * k * PERCENTAGE_FACTOR + m * PERCENTAGE_FACTOR
  BY <1>1, <1>2, <1>3, <1>4, <1>5, <1>6, AvailableCollateralBounds
<1>8. taken.debt <= n /\ taken.debt <= DebtOf(d, u)
  BY <1>2, <1>7, DebtTypes
<1> QED
  BY <1>7, <1>8 DEF k, m, bonus, taken

\* The clamp on the fee is exact: what is left of the scaled balance, scaled
\* up and down again, is that balance (RayDivOfRayMul), never one unit more.
LEMMA PayFeeType ==
    ASSUME NEW balances \in [Accounts -> Nat], NEW u \in Users, NEW fee \in Nat,
           NEW index \in Nat \ {0}, index >= RAY
    PROVE  PayFee(balances, u, fee, index) \in [Accounts -> Nat]
<1> DEFINE wanted == RayDiv(fee, index)
           paid == IF wanted > balances[u]
                   THEN RayDiv(RayMul(balances[u], index), index) ELSE wanted
<1>1. wanted \in Nat
  BY RayDivType
<1>2. balances[u] \in Nat
  BY UsersAreAccounts
<1>3. RayDiv(RayMul(balances[u], index), index) = balances[u]
  BY <1>2, RayDivOfRayMul
<1>4. paid \in Nat /\ paid <= balances[u]
  <2> HIDE DEF wanted
  <2> QED
    BY <1>1, <1>2, <1>3
<1>5. PayFee(balances, u, fee, index) =
        IF fee = 0 THEN balances ELSE MoveBalance(balances, u, Treasury, paid)
  BY DEF PayFee
<1> HIDE DEF paid
<1>6. MoveBalance(balances, u, Treasury, paid) \in [Accounts -> Nat]
  BY <1>4, UsersAreAccounts, MoveBalanceType
<1> QED
  BY <1>5, <1>6

\* The burn of both debts keeps the types.
LEMMA BurnDebtTokensType ==
    ASSUME TypeOK, NEW u \in Users, NEW d \in Assets, NEW debt \in Nat,
           BurnDebtTokens(u, d, debt)
    PROVE  /\ variableDebt' \in [Assets -> [Users -> Nat]]
           /\ stableDebt' \in [Assets -> [Users -> Nat]]
<1> DEFINE variable == VariableDebtOf(d, u)
           burnt == IF variable < debt THEN variable ELSE debt
           scaled == RayDiv(burnt, variableBorrowIndex[d])
           rest == debt - burnt
<1>1. variable \in Nat
  BY DebtTypes
<1>2. /\ scaled <= variableDebt[d][u]
      /\ rest <= stableDebt[d][u]
      /\ variableDebt' = [variableDebt EXCEPT ![d][u] = @ - scaled]
      /\ stableDebt' = [stableDebt EXCEPT ![d][u] = @ - rest]
  BY DEF BurnDebtTokens
<1> HIDE DEF variable
<1>3. burnt \in Nat /\ rest \in Nat
  BY <1>1
<1> HIDE DEF burnt
<1>4. scaled \in Nat
  BY <1>3, IndexFacts, RayDivType
<1> HIDE DEF scaled, rest
<1>5. /\ variableDebt \in [Assets -> [Users -> Nat]]
      /\ stableDebt \in [Assets -> [Users -> Nat]]
  BY DEF TypeOK
<1> QED
  BY <1>2, <1>3, <1>4, <1>5, LowerEntry

\* liquidationCall keeps the types.
LEMMA LiquidationCallType ==
    ASSUME TypeOK, NEW l \in Users, NEW u \in Users, NEW c \in Assets, NEW d \in Assets,
           NEW n \in Amounts \cup {MaxUint}, NEW b \in BOOLEAN,
           LiquidationCall(l, u, c, d, n, b)
    PROVE  TypeOK'
<1> DEFINE taken == Liquidated(Position(u), c, d, n)
           scaled == RayDiv(taken.collateral, liquidityIndex[c])
           seized == IF b THEN MoveBalance(aTokenBalance[c], u, l, scaled)
                     ELSE [aTokenBalance[c] EXCEPT ![u] = @ - scaled]
           cleared == IF taken.collateral + taken.fee = Position(u).aToken[c]
                      THEN [collateral EXCEPT ![u] = @ \ {c}] ELSE collateral
           funds  == [wallet EXCEPT ![c][l] = IF b THEN @ ELSE @ + taken.collateral]
           pooled == [liquidity EXCEPT ![c] = IF b THEN @ ELSE @ - taken.collateral]
<1>1. ValidateLiquidationCall(u, c, d) /\ n \in Nat
  BY Bounds, InitialValues DEF LiquidationCall
<1>2. taken.collateral \in Nat /\ taken.fee \in Nat /\ taken.debt \in Nat
  BY <1>1, LiquidatedBounds
<1>3. /\ scaled <= aTokenBalance[c][u]
      /\ b \/ taken.collateral <= liquidity[c]
      /\ taken.debt <= funds[d][l]
      /\ BurnDebtTokens(u, d, taken.debt)
      /\ \/ borrowing' = [borrowing EXCEPT ![u] = @ \ {d}]
         \/ borrowing' = borrowing
      /\ collateral' = [cleared EXCEPT ![l] = @ \cup {c}] \/ collateral' = cleared
      /\ isolationModeTotalDebt' =
           UpdateIsolatedDebtIfIsolated(cleared[u], d, taken.debt)
      /\ aTokenBalance' = [aTokenBalance EXCEPT ![c] =
                             PayFee(seized, u, taken.fee, liquidityIndex[c])]
      /\ wallet' = [funds EXCEPT ![d][l] = @ - taken.debt]
      /\ liquidity' = [pooled EXCEPT ![d] = @ + taken.debt]
      /\ UNCHANGED <<borrowAllowance, usersEModeCategory, indices, oracles, listing>>
  BY DEF LiquidationCall
<1> HIDE DEF taken
<1>4. scaled \in Nat
  BY <1>2, IndexFacts, RayDivType
<1> HIDE DEF scaled
<1>5. aTokenBalance' \in [Assets -> [Accounts -> Nat]]
  <2>1. aTokenBalance[c] \in [Accounts -> Nat]
    BY DEF TypeOK
  <2>2. seized \in [Accounts -> Nat]
    <3>1. CASE b
      BY <1>3, <1>4, <2>1, <3>1, UsersAreAccounts, MoveBalanceType
    <3>2. CASE ~b
      <4>1. aTokenBalance[c][u] - scaled \in Nat
        BY <1>3, <1>4, <2>1, UsersAreAccounts
      <4> QED
        BY <2>1, <3>2, <4>1
    <3> QED
      BY <3>1, <3>2
  <2> HIDE DEF seized
  <2>3. PayFee(seized, u, taken.fee, liquidityIndex[c]) \in [Accounts -> Nat]
    BY <1>2, <2>2, IndexFacts, PayFeeType
  <2> QED
    BY <1>3, <2>3 DEF TypeOK
<1>6. variableDebt' \in [Assets -> [Users -> Nat]] /\ stableDebt' \in [Assets -> [Users -> Nat]]
  BY <1>2, <1>3, BurnDebtTokensType
<1>7. borrowing' \in [Users -> SUBSET Assets]
  <2>1. borrowing \in [Users -> SUBSET Assets]
    BY DEF TypeOK
  <2>2. [borrowing EXCEPT ![u] = @ \ {d}] \in [Users -> SUBSET Assets]
    BY <2>1
  <2> QED
    BY <1>3, <2>1, <2>2
<1>8. collateral' \in [Users -> SUBSET Assets]
  <2>1. collateral \in [Users -> SUBSET Assets]
    BY DEF TypeOK
  <2>2. cleared \in [Users -> SUBSET Assets]
    BY <2>1
  <2> HIDE DEF cleared
  <2>3. [cleared EXCEPT ![l] = @ \cup {c}] \in [Users -> SUBSET Assets]
    BY <2>2
  <2> QED
    BY <1>3, <2>2, <2>3
<1>9. isolationModeTotalDebt' \in [Assets -> Nat]
  BY <1>2, <1>3, UpdateIsolatedDebtType
<1>10. wallet' \in [Assets -> [Users -> Nat]]
  <2>1. wallet \in [Assets -> [Users -> Nat]]
    BY DEF TypeOK
  <2>2. funds \in [Assets -> [Users -> Nat]]
    BY <1>2, <2>1
  <2> HIDE DEF funds
  <2> QED
    BY <1>2, <1>3, <2>2, LowerEntry
<1>11. liquidity' \in [Assets -> Nat]
  <2>1. liquidity \in [Assets -> Nat]
    BY DEF TypeOK
  <2>2. pooled \in [Assets -> Nat]
    <3>1. CASE b
      BY <2>1, <3>1
    <3>2. CASE ~b
      <4>1. liquidity[c] - taken.collateral \in Nat
        BY <1>2, <1>3, <2>1, <3>2
      <4> QED
        BY <2>1, <3>2, <4>1
    <3> QED
      BY <3>1, <3>2
  <2> HIDE DEF pooled
  <2> QED
    BY <1>2, <1>3, <2>2
<1> QED
  BY <1>3, <1>5, <1>6, <1>7, <1>8, <1>9, <1>10, <1>11
     DEF TypeOK, indices, oracles, listing

-----------------------------------------------------------------------------
(* eMode, the treasury and the environment.                                *)

\* setUserEMode keeps the types.
LEMMA SetUserEModeType ==
    ASSUME TypeOK, NEW u \in Users, NEW k \in Categories \cup {0}, SetUserEMode(u, k)
    PROVE  TypeOK'
<1>1. usersEModeCategory' \in [Users -> Categories \cup {0}]
  BY DEF SetUserEMode, TypeOK
<1>2. UNCHANGED <<tokens, collateral, borrowing, isolationModeTotalDebt,
                  underlying, indices, oracles, listing>>
  BY DEF SetUserEMode
<1> QED
  BY <1>1, <1>2 DEF TypeOK, tokens, underlying, indices, oracles, listing

\* mintToTreasury keeps the types.
LEMMA MintToTreasuryType ==
    ASSUME TypeOK, NEW a \in Assets, MintToTreasury(a)
    PROVE  TypeOK'
<1> DEFINE i == liquidityIndex[a]
           scaled == RayDiv(RayMul(accruedToTreasury[a], i), i)
<1>1. scaled \in Nat
  <2>1. accruedToTreasury[a] \in Nat
    BY DEF TypeOK
  <2> QED
    BY <2>1, IndexFacts, RayMulType, RayDivType
<1>2. /\ aTokenBalance' = [aTokenBalance EXCEPT ![a][Treasury] = @ + scaled]
      /\ accruedToTreasury' = [accruedToTreasury EXCEPT ![a] = 0]
      /\ UNCHANGED <<variableDebt, stableDebt, borrowAllowance, usersConfig,
                     isolationModeTotalDebt, underlying, liquidityIndex,
                     variableBorrowIndex, oracles, listing>>
  BY DEF MintToTreasury
<1> HIDE DEF scaled
<1>3. aTokenBalance' \in [Assets -> [Accounts -> Nat]]
  <2>1. aTokenBalance \in [Assets -> [Accounts -> Nat]]
    BY DEF TypeOK
  <2> QED
    BY <1>1, <1>2, <2>1, UsersAreAccounts, RaiseEntry
<1>4. accruedToTreasury' \in [Assets -> Nat]
  BY <1>2 DEF TypeOK
<1> QED
  BY <1>2, <1>3, <1>4 DEF TypeOK, usersConfig, underlying, oracles, listing

\* Interest keeps the types.
LEMMA AccrueType ==
    ASSUME TypeOK, NEW a \in Assets, Accrue(a)
    PROVE  TypeOK'
<1>1. PICK i \in LaterIndices(liquidityIndex[a]),
           j \in LaterIndices(variableBorrowIndex[a]),
           S \in SUBSET {u \in Users : stableDebt[a][u] \in 1 .. MaxStableDebt - 1},
           t \in TreasuryAccruals :
             /\ liquidityIndex' = [liquidityIndex EXCEPT ![a] = i]
             /\ variableBorrowIndex' = [variableBorrowIndex EXCEPT ![a] = j]
             /\ accruedToTreasury' = [accruedToTreasury EXCEPT ![a] = @ + t]
             /\ stableDebt' = [stableDebt EXCEPT ![a] =
                                 [u \in Users |-> IF u \in S THEN @[u] + 1 ELSE @[u]]]
             /\ UNCHANGED variableDebt
             /\ t <= TotalDebt(a)' - TotalDebt(a)
  BY Zenon DEF Accrue
<1>2. ASSUME NEW x \in Indices, NEW y \in LaterIndices(x)
      PROVE  y \in Indices
  <2>1. RAY \in Nat /\ IndexValues \subseteq Nat
    BY ScalesAreEven, Bounds
  <2>2. x \in Nat /\ x >= RAY /\ (y = x \/ (y \in Nat /\ y > x))
    BY <2>1 DEF LaterIndices
  <2> QED
    BY <2>1, <2>2
<1>3. liquidityIndex \in [Assets -> Indices] /\ variableBorrowIndex \in [Assets -> Indices]
  BY DEF TypeOK
<1>4. i \in Indices /\ j \in Indices
  BY <1>2, <1>3
<1> HIDE DEF Indices
<1>5. liquidityIndex' \in [Assets -> Indices] /\ variableBorrowIndex' \in [Assets -> Indices]
  BY <1>1, <1>3, <1>4
<1>6. accruedToTreasury' \in [Assets -> Nat]
  <2>1. t \in Nat
    BY Bounds
  <2> QED
    BY <1>1, <2>1 DEF TypeOK
<1>7. stableDebt' \in [Assets -> [Users -> Nat]]
  <2> DEFINE later == [u \in Users |-> IF u \in S THEN stableDebt[a][u] + 1
                                                  ELSE stableDebt[a][u]]
  <2>1. later \in [Users -> Nat]
    BY DebtTypes
  <2>2. stableDebt' = [stableDebt EXCEPT ![a] = later]
    BY <1>1
  <2> HIDE DEF later
  <2> QED
    BY <2>1, <2>2 DEF TypeOK
<1>8. UNCHANGED <<aTokenBalance, variableDebt, borrowAllowance, usersConfig,
                  isolationModeTotalDebt, underlying, oracles, listing>>
  BY <1>1, Zenon DEF Accrue
<1> QED
  BY <1>5, <1>6, <1>7, <1>8 DEF TypeOK, usersConfig, underlying, oracles, listing

\* A price keeps the types.
LEMMA SetPriceType ==
    ASSUME TypeOK, NEW s \in Assets \cup PriceSources, NEW q \in Prices[s], SetPrice(s, q)
    PROVE  TypeOK'
<1>1. price' \in [Assets \cup PriceSources -> Nat \ {0}]
  <2>1. q \in Nat \ {0}
    BY Bounds
  <2> QED
    BY <2>1 DEF SetPrice, TypeOK
<1>2. UNCHANGED <<tokens, usersConfig, isolationModeTotalDebt, underlying,
                  indices, sentinelUp, listing>>
  BY DEF SetPrice
<1> QED
  BY <1>1, <1>2 DEF TypeOK, tokens, usersConfig, underlying, indices, listing

\* The sentinel keeps the types.
LEMMA SetSentinelType ==
    ASSUME TypeOK, SetSentinel
    PROVE  TypeOK'
<1>1. sentinelUp' \in BOOLEAN
  BY DEF SetSentinel
<1>2. UNCHANGED <<tokens, usersConfig, isolationModeTotalDebt, underlying,
                  indices, price, listing>>
  BY DEF SetSentinel
<1> QED
  BY <1>1, <1>2 DEF TypeOK, tokens, usersConfig, underlying, indices, listing

-----------------------------------------------------------------------------

\* The types hold at first.
LEMMA InitType == Init => TypeOK
<1> SUFFICES ASSUME Init PROVE TypeOK
  OBVIOUS
<1>1. RAY \in Indices
  BY ScalesAreEven
<1> HIDE DEF Indices
<1>2. /\ aTokenBalance \in [Assets -> [Accounts -> Nat]]
      /\ variableDebt \in [Assets -> [Users -> Nat]]
      /\ stableDebt \in [Assets -> [Users -> Nat]]
      /\ borrowAllowance \in [Assets -> [RateModes -> [Users -> [Users -> Nat]]]]
  BY DEF Init
<1>3. /\ collateral \in [Users -> SUBSET Assets]
      /\ borrowing \in [Users -> SUBSET Assets]
      /\ usersEModeCategory \in [Users -> Categories \cup {0}]
      /\ isolationModeTotalDebt \in [Assets -> Nat]
      /\ liquidity \in [Assets -> Nat]
      /\ liquidityIndex \in [Assets -> Indices]
      /\ variableBorrowIndex \in [Assets -> Indices]
      /\ accruedToTreasury \in [Assets -> Nat]
  BY <1>1 DEF Init
<1>4. /\ wallet \in [Assets -> [Users -> Nat]]
      /\ price \in [Assets \cup PriceSources -> Nat \ {0}]
      /\ sentinelUp \in BOOLEAN
      /\ configuration \in [Assets -> ReserveConfigurations]
      /\ eModeCategories \in [Categories -> EModeCategories]
  BY InitialValues DEF Init
<1> QED
  BY <1>2, <1>3, <1>4 DEF TypeOK

\* Every step keeps the types.
LEMMA NextType ==
    ASSUME TypeOK, [Next]_vars
    PROVE  TypeOK'
<1>1. CASE SupplySteps
  BY <1>1, SupplyType, TransferType, WithdrawType, SetUserUseReserveAsCollateralType,
     SupplyRecipients DEF SupplySteps
<1>2. CASE BorrowSteps
  BY <1>2, BorrowType, RepayType, RepayWithATokensType, SwapBorrowRateModeType
     DEF BorrowSteps
<1>3. ASSUME NEW d \in Delegations,
             ApproveDelegation(d.delegator, d.delegatee, d.asset, d.mode, d.amount)
      PROVE  TypeOK'
  <2>1. /\ d.delegator \in Users /\ d.delegatee \in Users /\ d.asset \in Assets
        /\ d.mode \in RateModes /\ d.amount \in Nat
    BY Bounds
  <2> QED
    BY <1>3, <2>1, ApproveDelegationType
<1>4. CASE LiquidationSteps
  BY <1>4, LiquidationCallType DEF LiquidationSteps
<1>5. CASE \E u \in Users, k \in Categories \cup {0} : SetUserEMode(u, k)
  BY <1>5, SetUserEModeType
<1>6. CASE \E a \in Assets : MintToTreasury(a)
  BY <1>6, MintToTreasuryType
<1>7. CASE EnvironmentSteps
  BY <1>7, AccrueType, SetPriceType, SetSentinelType DEF EnvironmentSteps
<1>8. CASE UNCHANGED vars
  BY <1>8 DEF vars, tokens, usersConfig, underlying, indices, oracles, listing, TypeOK
<1> QED
  BY <1>1, <1>2, <1>3, <1>4, <1>5, <1>6, <1>7, <1>8 DEF Next

\* No sequence of calls, price moves and accruals drives an amount of the
\* Pool or of its tokens below zero, nor an index below one ray.
THEOREM TypeCorrect == Spec => []TypeOK
<1>1. Init => TypeOK
  BY InitType
<1>2. TypeOK /\ [Next]_vars => TypeOK'
  BY NextType
<1> QED
  BY <1>1, <1>2, PTL DEF Spec

-----------------------------------------------------------------------------
(* How steps change the flags of users.                                    *)


\* Supplying, withdrawing and transferring changes no debt and no category.
LEMMA SupplyFrame ==
    ASSUME SupplySteps
    PROVE  UNCHANGED <<variableDebt, stableDebt, borrowing, usersEModeCategory,
                       isolationModeTotalDebt, variableBorrowIndex,
                       configuration, eModeCategories>>
<1>1. ASSUME NEW u, NEW v, NEW a, NEW n, Supply(u, v, a, n)
      PROVE  UNCHANGED <<variableDebt, stableDebt, borrowing, usersEModeCategory,
                         isolationModeTotalDebt, variableBorrowIndex,
                         configuration, eModeCategories>>
  BY <1>1 DEF Supply, listing, indices
<1>2. ASSUME NEW u, NEW v, NEW a, NEW n, Transfer(u, v, a, n)
      PROVE  UNCHANGED <<variableDebt, stableDebt, borrowing, usersEModeCategory,
                         isolationModeTotalDebt, variableBorrowIndex,
                         configuration, eModeCategories>>
  BY <1>2 DEF Transfer, listing, indices
<1>3. ASSUME NEW u, NEW to, NEW a, NEW n, Withdraw(u, a, n, to)
      PROVE  UNCHANGED <<variableDebt, stableDebt, borrowing, usersEModeCategory,
                         isolationModeTotalDebt, variableBorrowIndex,
                         configuration, eModeCategories>>
  BY <1>3 DEF Withdraw, listing, indices
<1>4. ASSUME NEW u, NEW a, NEW b, SetUserUseReserveAsCollateral(u, a, b)
      PROVE  UNCHANGED <<variableDebt, stableDebt, borrowing, usersEModeCategory,
                         isolationModeTotalDebt, variableBorrowIndex,
                         configuration, eModeCategories>>
  BY <1>4 DEF SetUserUseReserveAsCollateral, tokens, listing, indices
<1> QED
  BY <1>1, <1>2, <1>3, <1>4 DEF SupplySteps

\* The listing of the reserves never changes in this module.
LEMMA ListingConstant ==
    ASSUME [Next]_vars
    PROVE  configuration' = configuration /\ eModeCategories' = eModeCategories
<1>1. CASE SupplySteps
  BY <1>1, SupplyFrame
<1>2. CASE BorrowSteps
  BY <1>2 DEF BorrowSteps, Borrow, Repay, RepayWithATokens, SwapBorrowRateMode, listing
<1>3. CASE \E d \in Delegations :
             ApproveDelegation(d.delegator, d.delegatee, d.asset, d.mode, d.amount)
  BY <1>3 DEF ApproveDelegation, listing
<1>4. CASE LiquidationSteps
  BY <1>4 DEF LiquidationSteps, LiquidationCall, listing
<1>5. CASE \E u \in Users, k \in Categories \cup {0} : SetUserEMode(u, k)
  BY <1>5 DEF SetUserEMode, listing
<1>6. CASE \E a \in Assets : MintToTreasury(a)
  BY <1>6 DEF MintToTreasury, listing
<1>7. CASE EnvironmentSteps
  BY <1>7 DEF EnvironmentSteps, Accrue, SetPrice, SetSentinel, listing
<1>8. CASE UNCHANGED vars
  BY <1>8 DEF vars, listing
<1> QED
  BY <1>1, <1>2, <1>3, <1>4, <1>5, <1>6, <1>7, <1>8 DEF Next

\* Whatever is offered for it, a repayment burns no more than the debt.
LEMMA RepaymentSteps ==
    ASSUME TypeOK, NEW u \in Users, NEW a \in Assets, NEW n \in Amounts \cup {MaxUint},
           NEW mode \in RateModes,
           (\E v \in Users : Repay(v, u, a, n, mode)) \/ RepayWithATokens(u, a, n, mode)
    PROVE  \E payback \in Nat :
             payback <= DebtOfMode(a, u, mode) /\ RepayDebt(u, a, payback, mode)
<1> DEFINE debt == DebtOfMode(a, u, mode)
           all == BalanceOf(a, u)
           offered == IF n = MaxUint THEN all ELSE n
<1>1. n \in Nat /\ debt \in Nat /\ all \in Nat
  BY Bounds, InitialValues, DebtTypes, BalanceOfType, UsersAreAccounts
<1>2. \/ RepayDebt(u, a, IF n < debt THEN n ELSE debt, mode)
      \/ RepayDebt(u, a, IF offered < debt THEN offered ELSE debt, mode)
  BY DEF Repay, RepayWithATokens
<1> HIDE DEF debt, all
<1>3. /\ offered \in Nat
      /\ (IF n < debt THEN n ELSE debt) \in Nat /\ (IF n < debt THEN n ELSE debt) <= debt
  BY <1>1
<1> HIDE DEF offered
<1>4. /\ (IF offered < debt THEN offered ELSE debt) \in Nat
      /\ (IF offered < debt THEN offered ELSE debt) <= debt
  BY <1>1, <1>3
<1> QED
  BY <1>2, <1>3, <1>4 DEF debt

-----------------------------------------------------------------------------
(* Borrowing flags and eMode.                                              *)

\* A new borrowing flag has passed validateBorrow, with the flags and the
\* category the user had.
NewBorrow(w, a) ==
    /\ ValidateSiloedBorrow(borrowing[w], a)
    /\ usersEModeCategory[w] # 0 =>
         configuration[a].eModeCategory = usersEModeCategory[w]
    /\ borrowing'[w] = borrowing[w] \cup {a}

\* In a step the flags of a user shrink, or a validated one is added.
LEMMA BorrowingSteps ==
    ASSUME TypeOK, [Next]_vars, NEW w \in Users
    PROVE  borrowing'[w] \subseteq borrowing[w] \/ \E a \in Assets : NewBorrow(w, a)
<1>0. borrowing \in [Users -> SUBSET Assets]
  BY DEF TypeOK
<1>1. CASE SupplySteps
  BY <1>1, SupplyFrame
<1>2. CASE BorrowSteps
  <2>1. ASSUME NEW v \in Users, NEW u \in Users, NEW a \in Assets, NEW n \in Amounts,
               NEW mode \in RateModes, Borrow(v, u, a, n, mode)
        PROVE  borrowing'[w] \subseteq borrowing[w] \/ NewBorrow(w, a)
    <3>1. /\ ValidateBorrow(u, a, n, mode)
          /\ borrowing' = [borrowing EXCEPT ![u] = @ \cup {a}] \/ borrowing' = borrowing
      BY <2>1 DEF Borrow
    <3> QED
      BY <1>0, <3>1 DEF NewBorrow, ValidateBorrow
  <2>2. ASSUME NEW u \in Users, NEW a \in Assets, NEW payback, NEW mode \in RateModes,
               RepayDebt(u, a, payback, mode)
        PROVE  borrowing'[w] \subseteq borrowing[w]
    BY <1>0, <2>2 DEF RepayDebt
  <2>3. ASSUME NEW u \in Users, NEW a \in Assets, NEW mode \in RateModes,
               SwapBorrowRateMode(u, a, mode)
        PROVE  borrowing'[w] \subseteq borrowing[w]
    BY <2>3 DEF SwapBorrowRateMode, usersConfig
  <2> QED
    BY <1>2, <2>1, <2>2, <2>3 DEF BorrowSteps, Repay, RepayWithATokens
<1>3. CASE \E d \in Delegations :
             ApproveDelegation(d.delegator, d.delegatee, d.asset, d.mode, d.amount)
  BY <1>3 DEF ApproveDelegation, usersConfig
<1>4. CASE LiquidationSteps
  BY <1>0, <1>4 DEF LiquidationSteps, LiquidationCall
<1>5. CASE \E u \in Users, k \in Categories \cup {0} : SetUserEMode(u, k)
  BY <1>5 DEF SetUserEMode
<1>6. CASE \E a \in Assets : MintToTreasury(a)
  BY <1>6 DEF MintToTreasury, usersConfig
<1>7. CASE EnvironmentSteps
  BY <1>7 DEF EnvironmentSteps, Accrue, SetPrice, SetSentinel, usersConfig
<1>8. CASE UNCHANGED vars
  BY <1>8 DEF vars, usersConfig
<1> QED
  BY <1>1, <1>2, <1>3, <1>4, <1>5, <1>6, <1>7, <1>8 DEF Next

\* In a step the category of a user stays, or a validated one is set while
\* the flags of the user stay.
LEMMA EModeSteps ==
    ASSUME TypeOK, [Next]_vars, NEW w \in Users
    PROVE  \/ usersEModeCategory'[w] = usersEModeCategory[w]
           \/ /\ borrowing' = borrowing
              /\ usersEModeCategory'[w] # 0 =>
                   \A a \in borrowing[w] :
                      configuration[a].eModeCategory = usersEModeCategory'[w]
<1>0. usersEModeCategory \in [Users -> Categories \cup {0}]
  BY DEF TypeOK
<1>1. CASE SupplySteps
  BY <1>1, SupplyFrame
<1>2. CASE BorrowSteps
  BY <1>2 DEF BorrowSteps, Borrow, Repay, RepayWithATokens, SwapBorrowRateMode, usersConfig
<1>3. CASE \E d \in Delegations :
             ApproveDelegation(d.delegator, d.delegatee, d.asset, d.mode, d.amount)
  BY <1>3 DEF ApproveDelegation, usersConfig
<1>4. CASE LiquidationSteps
  BY <1>4 DEF LiquidationSteps, LiquidationCall
<1>5. CASE \E u \in Users, k \in Categories \cup {0} : SetUserEMode(u, k)
  BY <1>0, <1>5 DEF SetUserEMode, ValidateSetUserEMode
<1>6. CASE \E a \in Assets : MintToTreasury(a)
  BY <1>6 DEF MintToTreasury, usersConfig
<1>7. CASE EnvironmentSteps
  BY <1>7 DEF EnvironmentSteps, Accrue, SetPrice, SetSentinel, usersConfig
<1>8. CASE UNCHANGED vars
  BY <1>8 DEF vars, usersConfig
<1> QED
  BY <1>1, <1>2, <1>3, <1>4, <1>5, <1>6, <1>7, <1>8 DEF Next

\* While the listing does not change, what a user in eMode owes is of the
\* category of the user, as liquidationCall assumes when it prices the debt.
THEOREM EModeConsistent == Spec => []EModeBorrowsConsistent
<1>1. Init => TypeOK /\ EModeBorrowsConsistent
  <2>1. Init => EModeBorrowsConsistent
    BY DEF Init, EModeBorrowsConsistent
  <2> QED
    BY <2>1, InitType
<1>2. ASSUME TypeOK, EModeBorrowsConsistent, [Next]_vars
      PROVE  EModeBorrowsConsistent'
  <2> SUFFICES ASSUME NEW w \in Users, NEW x \in borrowing'[w],
                      usersEModeCategory'[w] # 0
               PROVE  configuration'[x].eModeCategory = usersEModeCategory'[w]
    BY DEF EModeBorrowsConsistent
  <2>1. configuration' = configuration
    BY <1>2, ListingConstant
  <2>2. CASE usersEModeCategory'[w] = usersEModeCategory[w]
    <3>1. CASE x \in borrowing[w]
      BY <1>2, <2>1, <2>2, <3>1 DEF EModeBorrowsConsistent
    <3>2. CASE x \notin borrowing[w]
      <4>1. PICK a \in Assets : NewBorrow(w, a)
        BY <1>2, <3>2, BorrowingSteps
      <4> QED
        BY <2>1, <2>2, <3>2, <4>1 DEF NewBorrow
    <3> QED
      BY <3>1, <3>2
  <2>3. CASE usersEModeCategory'[w] # usersEModeCategory[w]
    BY <1>2, <2>1, <2>3, EModeSteps
  <2> QED
    BY <2>2, <2>3
<1>3. TypeOK /\ EModeBorrowsConsistent /\ [Next]_vars
        => (TypeOK /\ EModeBorrowsConsistent)'
  BY <1>2, NextType
<1> QED
  BY <1>1, <1>3, PTL DEF Spec

-----------------------------------------------------------------------------
(* Collateral flags.                                                       *)

\* A new collateral flag has passed validateUseAsCollateral with flags that
\* the user had, maybe less one that the same call has cleared.
NewCollateral(w, flags, a) ==
    /\ flags \subseteq collateral[w]
    /\ ValidateUseAsCollateral(flags, a)
    /\ collateral'[w] = flags \cup {a}

\* What a step does to the collateral flags of a user.
CollateralChange(w) ==
    \/ collateral'[w] \subseteq collateral[w]
    \/ \E a \in Assets, flags \in SUBSET Assets : NewCollateral(w, flags, a)

\* Every step changes the collateral bits of a user in one of these ways.
LEMMA CollateralSteps ==
    ASSUME TypeOK, [Next]_vars, NEW w \in Users
    PROVE  CollateralChange(w)
<1>0. collateral \in [Users -> SUBSET Assets]
  BY DEF TypeOK
<1>1. CASE SupplySteps
  <2>1. ASSUME NEW u \in Users, NEW v \in Users, NEW a \in Assets, NEW n,
               Supply(u, v, a, n)
        PROVE  CollateralChange(w)
    <3>1. \/ collateral' = collateral
          \/ /\ ValidateUseAsCollateral(collateral[v], a)
             /\ collateral' = [collateral EXCEPT ![v] = @ \cup {a}]
      BY <2>1 DEF Supply, ValidateAutomaticUseAsCollateral
    <3> QED
      BY <1>0, <3>1 DEF CollateralChange, NewCollateral
  <2>2. ASSUME NEW u \in Users, NEW v \in Users, NEW a \in Assets, NEW n,
               Transfer(u, v, a, n)
        PROVE  CollateralChange(w)
    <3>1. \/ collateral'[w] \subseteq collateral[w]
          \/ /\ ValidateUseAsCollateral(collateral[w], a)
             /\ collateral'[w] = collateral[w] \cup {a}
      BY <2>2 DEF Transfer, ValidateAutomaticUseAsCollateral
    <3> QED
      BY <1>0, <3>1 DEF CollateralChange, NewCollateral
  <2>3. ASSUME NEW u \in Users, NEW to, NEW a \in Assets, NEW n, Withdraw(u, a, n, to)
        PROVE  CollateralChange(w)
    <3>1. PICK flags : /\ flags \subseteq collateral[u]
                       /\ collateral' = [collateral EXCEPT ![u] = flags]
      <4> DEFINE flags == IF (IF n = MaxUint THEN BalanceOf(a, u) ELSE n) = BalanceOf(a, u)
                          THEN collateral[u] \ {a} ELSE collateral[u]
      <4>1. collateral' = [collateral EXCEPT ![u] = flags]
        BY <2>3 DEF Withdraw
      <4>2. flags \subseteq collateral[u]
        OBVIOUS
      <4> QED
        BY <4>1, <4>2
    <3> QED
      BY <1>0, <3>1 DEF CollateralChange
  <2>4. ASSUME NEW u \in Users, NEW a \in Assets, NEW b \in BOOLEAN,
               SetUserUseReserveAsCollateral(u, a, b)
        PROVE  CollateralChange(w)
    <3>1. CASE b
      <4>1. /\ ValidateUseAsCollateral(collateral[u], a)
            /\ collateral' = [collateral EXCEPT ![u] = collateral[u] \cup {a}]
        BY <2>4, <3>1 DEF SetUserUseReserveAsCollateral
      <4> QED
        BY <1>0, <4>1 DEF CollateralChange, NewCollateral
    <3>2. CASE ~b
      <4>1. collateral' = [collateral EXCEPT ![u] = collateral[u] \ {a}]
        BY <2>4, <3>2 DEF SetUserUseReserveAsCollateral
      <4> QED
        BY <1>0, <4>1 DEF CollateralChange
    <3> QED
      BY <3>1, <3>2
  <2> QED
    BY <1>1, <2>1, <2>2, <2>3, <2>4, SupplyRecipients DEF SupplySteps
<1>2. CASE BorrowSteps
  BY <1>2 DEF BorrowSteps, Borrow, Repay, RepayWithATokens, SwapBorrowRateMode,
              usersConfig, CollateralChange
<1>3. CASE \E d \in Delegations :
             ApproveDelegation(d.delegator, d.delegatee, d.asset, d.mode, d.amount)
  BY <1>3 DEF ApproveDelegation, usersConfig, CollateralChange
<1>4. CASE LiquidationSteps
  <2>1. ASSUME NEW l \in Users, NEW u \in Users, NEW c \in Assets, NEW d \in Assets,
               NEW n, NEW b, LiquidationCall(l, u, c, d, n, b)
        PROVE  CollateralChange(w)
    <3> DEFINE taken == Liquidated(Position(u), c, d, n)
               cleared == IF taken.collateral + taken.fee = Position(u).aToken[c]
                          THEN [collateral EXCEPT ![u] = @ \ {c}] ELSE collateral
    <3>1. \/ collateral' = cleared
          \/ /\ ValidateUseAsCollateral(cleared[l], c)
             /\ collateral' = [cleared EXCEPT ![l] = @ \cup {c}]
      BY <2>1 DEF LiquidationCall, ValidateAutomaticUseAsCollateral
    <3>2. /\ cleared \in [Users -> SUBSET Assets]
          /\ \A x \in Users : cleared[x] \subseteq collateral[x]
      BY <1>0
    <3> HIDE DEF cleared
    <3> QED
      BY <1>0, <3>1, <3>2 DEF CollateralChange, NewCollateral
  <2> QED
    BY <1>4, <2>1 DEF LiquidationSteps
<1>5. CASE \E u \in Users, k \in Categories \cup {0} : SetUserEMode(u, k)
  BY <1>5 DEF SetUserEMode, CollateralChange
<1>6. CASE \E a \in Assets : MintToTreasury(a)
  BY <1>6 DEF MintToTreasury, usersConfig, CollateralChange
<1>7. CASE EnvironmentSteps
  BY <1>7 DEF EnvironmentSteps, Accrue, SetPrice, SetSentinel, usersConfig,
              CollateralChange
<1>8. CASE UNCHANGED vars
  BY <1>8 DEF vars, usersConfig, CollateralChange
<1> QED
  BY <1>1, <1>2, <1>3, <1>4, <1>5, <1>6, <1>7, <1>8 DEF Next

\* Isolated collateral is never combined with other collateral: not by a
\* supply or a transfer from somebody else, nor by a liquidation that clears
\* one flag of the liquidator and sets another.
THEOREM IsolatedExclusive == Spec => []IsolatedCollateralExclusive
<1>1. Init => TypeOK /\ IsolatedCollateralExclusive
  <2>1. Init => IsolatedCollateralExclusive
    BY DEF Init, IsolatedCollateralExclusive
  <2> QED
    BY <2>1, InitType
<1>2. ASSUME TypeOK, IsolatedCollateralExclusive, [Next]_vars
      PROVE  IsolatedCollateralExclusive'
  <2> SUFFICES ASSUME NEW w \in Users, NEW x \in collateral'[w],
                      configuration'[x].debtCeiling # 0
               PROVE  collateral'[w] = {x}
    BY DEF IsolatedCollateralExclusive
  <2>1. configuration[x].debtCeiling # 0
    BY <1>2, ListingConstant
  <2>2. CASE collateral'[w] \subseteq collateral[w]
    BY <1>2, <2>1, <2>2 DEF IsolatedCollateralExclusive
  <2>3. ASSUME NEW a \in Assets, NEW flags \in SUBSET Assets, NewCollateral(w, flags, a)
        PROVE  collateral'[w] = {x}
    <3>1. CASE flags = {}
      BY <2>3, <3>1 DEF NewCollateral
    <3>2. CASE flags # {}
      <4>1. ~IsolationModeActive(flags) /\ configuration[a].debtCeiling = 0
        BY <2>3, <3>2 DEF NewCollateral, ValidateUseAsCollateral
      <4>2. x \in flags
        BY <2>1, <2>3, <4>1 DEF NewCollateral
      <4>3. flags = {x}
        BY <1>2, <2>1, <2>3, <4>2 DEF NewCollateral, IsolatedCollateralExclusive
      <4>4. IsolationModeActive(flags)
        BY <2>1, <4>2, <4>3 DEF IsolationModeActive, IsolatedBy
      <4> QED
        BY <4>1, <4>4
    <3> QED
      BY <3>1, <3>2
  <2> QED
    BY <1>2, <2>2, <2>3, CollateralSteps DEF CollateralChange
<1>3. TypeOK /\ IsolatedCollateralExclusive /\ [Next]_vars
        => (TypeOK /\ IsolatedCollateralExclusive)'
  BY <1>2, NextType
<1> QED
  BY <1>1, <1>3, PTL DEF Spec

-----------------------------------------------------------------------------
(* The debt ceiling.                                                       *)

\* The counter of an asset is not raised, or not above its ceiling.
CounterChange(c) ==
    \/ isolationModeTotalDebt'[c] <= isolationModeTotalDebt[c]
    \/ isolationModeTotalDebt'[c] <= configuration[c].debtCeiling

\* A repayment or liquidation never raises a counter.
LEMMA UpdateIsolatedDebtLowers ==
    ASSUME TypeOK, NEW flags, NEW a \in Assets, NEW amount \in Nat, NEW c \in Assets
    PROVE  UpdateIsolatedDebtIfIsolated(flags, a, amount)[c] <= isolationModeTotalDebt[c]
<1> DEFINE repaid == amount \div configuration[a].debtCeilingUnit
<1>1. repaid \in Nat /\ isolationModeTotalDebt[c] \in Nat
  BY CeilingUnitsType DEF TypeOK
<1> HIDE DEF repaid
<1>2. UpdateIsolatedDebtIfIsolated(flags, a, amount)[c] =
        IF ~IsolatedBy(flags, c) THEN isolationModeTotalDebt[c]
        ELSE IF isolationModeTotalDebt[c] <= repaid THEN 0
        ELSE isolationModeTotalDebt[c] - repaid
  BY DEF UpdateIsolatedDebtIfIsolated, repaid
<1> QED
  BY <1>1, <1>2

\* Every step changes a counter in one of these ways.
LEMMA CounterSteps ==
    ASSUME TypeOK, [Next]_vars, NEW c \in Assets
    PROVE  CounterChange(c)
<1>0. isolationModeTotalDebt[c] \in Nat
  BY DEF TypeOK
<1>00. isolationModeTotalDebt' = isolationModeTotalDebt => CounterChange(c)
  BY <1>0 DEF CounterChange
<1>1. CASE SupplySteps
  BY <1>1, <1>00, SupplyFrame
<1>2. CASE BorrowSteps
  <2>1. ASSUME NEW v \in Users, NEW u \in Users, NEW a \in Assets, NEW n \in Amounts,
               NEW mode \in RateModes, Borrow(v, u, a, n, mode)
        PROVE  CounterChange(c)
    <3>1. /\ ValidateIsolatedBorrow(collateral[u], a, n)
          /\ isolationModeTotalDebt'[c] =
               IF IsolatedBy(collateral[u], c)
               THEN isolationModeTotalDebt[c] + n \div configuration[a].debtCeilingUnit
               ELSE isolationModeTotalDebt[c]
      BY <2>1 DEF Borrow, ValidateBorrow
    <3>2. CASE IsolatedBy(collateral[u], c)
      BY <3>1, <3>2 DEF ValidateIsolatedBorrow, CounterChange
    <3>3. CASE ~IsolatedBy(collateral[u], c)
      BY <1>0, <3>1, <3>3 DEF CounterChange
    <3> QED
      BY <3>2, <3>3
  <2>2. ASSUME NEW u \in Users, NEW a \in Assets, NEW mode \in RateModes,
               NEW payback \in Nat, RepayDebt(u, a, payback, mode)
        PROVE  CounterChange(c)
    BY <2>2, UpdateIsolatedDebtLowers DEF RepayDebt, CounterChange
  <2>3. ASSUME NEW u \in Users, NEW a \in Assets, NEW mode \in RateModes,
               NEW n \in Amounts \cup {MaxUint},
               (\E v \in Users : Repay(v, u, a, n, mode)) \/ RepayWithATokens(u, a, n, mode)
        PROVE  CounterChange(c)
    BY <2>2, <2>3, RepaymentSteps
  <2>4. ASSUME NEW u \in Users, NEW a \in Assets, NEW mode \in RateModes,
               SwapBorrowRateMode(u, a, mode)
        PROVE  CounterChange(c)
    BY <2>4, <1>00 DEF SwapBorrowRateMode
  <2> QED
    BY <1>2, <2>1, <2>3, <2>4 DEF BorrowSteps
<1>3. CASE \E d \in Delegations :
             ApproveDelegation(d.delegator, d.delegatee, d.asset, d.mode, d.amount)
  BY <1>3, <1>00 DEF ApproveDelegation
<1>4. CASE LiquidationSteps
  <2>1. ASSUME NEW l \in Users, NEW u \in Users, NEW k \in Assets, NEW d \in Assets,
               NEW n \in Amounts \cup {MaxUint}, NEW b, LiquidationCall(l, u, k, d, n, b)
        PROVE  CounterChange(c)
    <3> DEFINE debt == Liquidated(Position(u), k, d, n).debt
    <3>1. n \in Nat /\ ValidateLiquidationCall(u, k, d)
      BY <2>1, Bounds, InitialValues DEF LiquidationCall
    <3>2. debt \in Nat
      BY <3>1, LiquidatedBounds
    <3>3. PICK flags : isolationModeTotalDebt' = UpdateIsolatedDebtIfIsolated(flags, d, debt)
      BY <2>1 DEF LiquidationCall
    <3> HIDE DEF debt
    <3> QED
      BY <3>2, <3>3, UpdateIsolatedDebtLowers DEF CounterChange
  <2> QED
    BY <1>4, <2>1 DEF LiquidationSteps
<1>5. CASE \E u \in Users, k \in Categories \cup {0} : SetUserEMode(u, k)
  BY <1>5, <1>00 DEF SetUserEMode
<1>6. CASE \E a \in Assets : MintToTreasury(a)
  BY <1>6, <1>00 DEF MintToTreasury
<1>7. CASE EnvironmentSteps
  BY <1>7, <1>00 DEF EnvironmentSteps, Accrue, SetPrice, SetSentinel
<1>8. CASE UNCHANGED vars
  BY <1>8, <1>00 DEF vars
<1> QED
  BY <1>1, <1>2, <1>3, <1>4, <1>5, <1>6, <1>7, <1>8 DEF Next

\* However repayments, liquidations and truncated units move the counters,
\* none of them exceeds the ceiling of its asset.
THEOREM DebtCeiling == Spec => []DebtCeilingRespected
<1>1. Init => TypeOK /\ DebtCeilingRespected
  <2>1. Init => DebtCeilingRespected
    <3> SUFFICES ASSUME Init, NEW a \in Assets
                 PROVE  isolationModeTotalDebt[a] <= configuration[a].debtCeiling
      BY DEF DebtCeilingRespected
    <3>1. configuration[a].debtCeiling \in Nat
      BY InitType, ConfigurationTypes
    <3> QED
      BY <3>1 DEF Init
  <2> QED
    BY <2>1, InitType
<1>2. ASSUME TypeOK, DebtCeilingRespected, [Next]_vars
      PROVE  DebtCeilingRespected'
  <2> SUFFICES ASSUME NEW a \in Assets
               PROVE  isolationModeTotalDebt'[a] <= configuration'[a].debtCeiling
    BY DEF DebtCeilingRespected
  <2>1. /\ isolationModeTotalDebt[a] \in Nat /\ isolationModeTotalDebt'[a] \in Nat
        /\ configuration[a].debtCeiling \in Nat
        /\ isolationModeTotalDebt[a] <= configuration[a].debtCeiling
    BY <1>2, NextType, ConfigurationTypes DEF TypeOK, DebtCeilingRespected
  <2>2. configuration' = configuration
    BY <1>2, ListingConstant
  <2> QED
    BY <1>2, <2>1, <2>2, CounterSteps DEF CounterChange
<1>3. TypeOK /\ DebtCeilingRespected /\ [Next]_vars => (TypeOK /\ DebtCeilingRespected)'
  BY <1>2, NextType
<1> QED
  BY <1>1, <1>3, PTL DEF Spec

-----------------------------------------------------------------------------
(* Liquidations.                                                           *)

\* The bounds on what a liquidation takes hold in every state with the right
\* types, so in every reachable one, for every amount a liquidator may pass.
THEOREM LiquidationBounded == Spec => []LiquidationWithinBonus
<1>1. TypeOK => LiquidationWithinBonus
  <2> SUFFICES ASSUME TypeOK, NEW u \in Users, NEW c \in Assets, NEW d \in Assets,
                      NEW n \in Amounts \cup {MaxUint}, ValidateLiquidationCall(u, c, d)
               PROVE  LET p      == Position(u)
                          taken  == Liquidated(p, c, d, n)
                          seized == taken.collateral + taken.fee
                          k == LiquidationDebtPrice(p, d) * configuration[c].unit
                          m == PriceFor(p, c) * configuration[d].unit
                      IN  /\ taken.debt <= n
                          /\ taken.debt <= DebtOf(d, u)
                          /\ seized <= BalanceOf(c, u)
                          /\ 2 * m * PERCENTAGE_FACTOR * seized
                               <= (2 * taken.debt + 1) * k * LiquidationBonus(p, c)
                                    + 2 * k * PERCENTAGE_FACTOR + m * PERCENTAGE_FACTOR
    BY Zenon DEF LiquidationWithinBonus
  <2>1. n \in Nat
    BY Bounds, InitialValues
  <2> QED
    BY <2>1, LiquidatedBounds
<1> QED
  BY <1>1, TypeCorrect, PTL

-----------------------------------------------------------------------------
(* Debts and borrowing flags.                                              *)

Owes(u, a) == variableDebt[a][u] # 0 \/ stableDebt[a][u] # 0

\* The scaled debt and the debt are zero together, and burning the whole
\* variable debt burns the whole scaled debt.
LEMMA ScaledDebt ==
    ASSUME TypeOK, NEW a \in Assets, NEW u \in Users
    PROVE  /\ VariableDebtOf(a, u) = 0 <=> variableDebt[a][u] = 0
           /\ RayDiv(VariableDebtOf(a, u), variableBorrowIndex[a]) = variableDebt[a][u]
<1> DEFINE v == variableDebt[a][u]
           i == variableBorrowIndex[a]
<1>1. v \in Nat /\ i \in Nat /\ i >= RAY
  BY DebtTypes, IndexFacts
<1>2. VariableDebtOf(a, u) = RayMul(v, i) /\ VariableDebtOf(a, u) \in Nat
  BY DebtTypes DEF VariableDebtOf
<1>3. v <= RayMul(v, i) /\ RayDiv(RayMul(v, i), i) = v
  BY <1>1, RayMulGrows, RayDivOfRayMul
<1>4. v = 0 => RayMul(v, i) = 0
  BY <1>1, RayMulZero
<1> HIDE DEF v, i
<1>5. RayMul(v, i) = 0 => v = 0
  BY <1>1, <1>3
<1> QED
  BY <1>2, <1>3, <1>4, <1>5 DEF v, i

\* A repayment that clears the flag has burnt both kinds of debt.
LEMMA RepayDebtKeepsFlag ==
    ASSUME TypeOK, DebtImpliesBorrowingFlag, NEW u \in Users, NEW a \in Assets,
           NEW payback \in Nat, NEW mode \in RateModes,
           payback <= DebtOfMode(a, u, mode), RepayDebt(u, a, payback, mode)
    PROVE  DebtImpliesBorrowingFlag'
<1> SUFFICES ASSUME NEW x \in Assets, NEW w \in Users, Owes(w, x)'
             PROVE  x \in borrowing'[w]
  BY DEF DebtImpliesBorrowingFlag, Owes
<1> DEFINE scaled == RayDiv(payback, variableBorrowIndex[a])
<1>0. /\ borrowing \in [Users -> SUBSET Assets]
      /\ variableDebt \in [Assets -> [Users -> Nat]]
      /\ stableDebt \in [Assets -> [Users -> Nat]]
  BY DEF TypeOK
<1>1. /\ \/ /\ mode = "STABLE"
            /\ stableDebt' = [stableDebt EXCEPT ![a][u] = @ - payback]
            /\ variableDebt' = variableDebt
         \/ /\ mode # "STABLE"
            /\ variableDebt' = [variableDebt EXCEPT ![a][u] = @ - scaled]
            /\ stableDebt' = stableDebt
      /\ borrowing' = IF DebtOf(a, u) = payback
                      THEN [borrowing EXCEPT ![u] = @ \ {a}] ELSE borrowing
  BY DEF RepayDebt, IsWholeDebt
<1>2. CASE x # a \/ w # u
  <2>1. variableDebt'[x][w] = variableDebt[x][w] /\ stableDebt'[x][w] = stableDebt[x][w]
    BY <1>0, <1>1, <1>2
  <2>2. x \in borrowing[w]
    BY <2>1 DEF Owes, DebtImpliesBorrowingFlag
  <2> QED
    BY <1>0, <1>1, <1>2, <2>2
<1>3. CASE x = a /\ w = u
  <2> DEFINE V == VariableDebtOf(a, u)
             v == variableDebt[a][u]
             s == stableDebt[a][u]
  <2>1. v \in Nat /\ s \in Nat /\ V \in Nat /\ DebtOf(a, u) = s + V
    BY DebtTypes DEF DebtOf
  <2>2. DebtOf(a, u) # payback
    <3>1. SUFFICES ASSUME DebtOf(a, u) = payback PROVE FALSE
      OBVIOUS
    <3>2. payback = s + V
      BY <2>1, <3>1
    <3>3. CASE mode = "STABLE"
      <4>1. payback <= s
        BY <3>3 DEF DebtOfMode
      <4> HIDE DEF V, v, s
      <4>2. V = 0 /\ payback = s
        BY <2>1, <3>2, <4>1
      <4>3. v = 0
        BY <4>2, ScaledDebt DEF V, v
      <4>4. stableDebt'[a][u] = s - payback /\ variableDebt'[a][u] = v
        BY <1>0, <1>1, <3>3 DEF s, v
      <4>5. s - payback = 0
        BY <2>1, <4>2
      <4> QED
        BY <1>3, <4>3, <4>4, <4>5 DEF Owes
    <3>4. CASE mode # "STABLE"
      <4>1. payback <= V
        BY <3>4 DEF DebtOfMode
      <4> HIDE DEF V, v, s
      <4>2. s = 0 /\ payback = V
        BY <2>1, <3>2, <4>1
      <4>3. scaled = v
        BY <4>2, ScaledDebt DEF V, v
      <4> HIDE DEF scaled
      <4>4. stableDebt'[a][u] = s /\ variableDebt'[a][u] = v - scaled
        BY <1>0, <1>1, <3>4 DEF s, v
      <4>5. v - scaled = 0
        BY <2>1, <4>3
      <4> QED
        BY <1>3, <4>2, <4>4, <4>5 DEF Owes
    <3> QED
      BY <3>3, <3>4
  <2>3. Owes(u, a)
    <3>1. CASE mode = "STABLE"
      <4>1. stableDebt'[a][u] = s - payback /\ variableDebt'[a][u] = v
        BY <1>0, <1>1, <3>1
      <4>2. payback <= s
        BY <3>1 DEF DebtOfMode
      <4>3. s = 0 => s - payback = 0
        <5> HIDE DEF s, V, v
        <5>1. s \in Nat /\ payback \in Nat /\ payback <= s
          BY <2>1, <4>2
        <5> QED
          BY <5>1, SMT
      <4> QED
        BY <1>3, <4>1, <4>3 DEF Owes
    <3>2. CASE mode # "STABLE"
      <4>1. scaled # 0 /\ scaled <= v
        BY <3>2 DEF RepayDebt
      <4>2. scaled \in Nat
        BY IndexFacts, RayDivType
      <4> HIDE DEF scaled
      <4>3. v # 0
        BY <2>1, <4>1, <4>2
      <4> QED
        BY <4>3 DEF Owes
    <3> QED
      BY <3>1, <3>2
  <2>4. a \in borrowing[u]
    BY <2>3 DEF Owes, DebtImpliesBorrowingFlag
  <2> QED
    BY <1>1, <1>3, <2>2, <2>4
<1> QED
  BY <1>2, <1>3

\* So has a liquidation that clears it.
LEMMA LiquidationKeepsFlag ==
    ASSUME TypeOK, DebtImpliesBorrowingFlag, NEW l \in Users, NEW u \in Users,
           NEW c \in Assets, NEW d \in Assets, NEW n \in Amounts \cup {MaxUint},
           NEW b \in BOOLEAN, LiquidationCall(l, u, c, d, n, b)
    PROVE  DebtImpliesBorrowingFlag'
<1> SUFFICES ASSUME NEW x \in Assets, NEW w \in Users, Owes(w, x)'
             PROVE  x \in borrowing'[w]
  BY DEF DebtImpliesBorrowingFlag, Owes
<1> DEFINE debt == Liquidated(Position(u), c, d, n).debt
           V == VariableDebtOf(d, u)
           burnt == IF V < debt THEN V ELSE debt
           scaled == RayDiv(burnt, variableBorrowIndex[d])
           rest == debt - burnt
<1>0. /\ borrowing \in [Users -> SUBSET Assets]
      /\ variableDebt \in [Assets -> [Users -> Nat]]
      /\ stableDebt \in [Assets -> [Users -> Nat]]
  BY DEF TypeOK
<1>1. /\ variableDebt' = [variableDebt EXCEPT ![d][u] = @ - scaled]
      /\ stableDebt' = [stableDebt EXCEPT ![d][u] = @ - rest]
      /\ borrowing' = IF debt = Position(u).debt[d]
                      THEN [borrowing EXCEPT ![u] = @ \ {d}] ELSE borrowing
      /\ ValidateLiquidationCall(u, c, d)
  BY DEF LiquidationCall, BurnDebtTokens
<1>2. CASE x # d \/ w # u
  <2>1. variableDebt'[x][w] = variableDebt[x][w] /\ stableDebt'[x][w] = stableDebt[x][w]
    BY <1>0, <1>1, <1>2
  <2>2. x \in borrowing[w]
    BY <2>1 DEF Owes, DebtImpliesBorrowingFlag
  <2> QED
    BY <1>0, <1>1, <1>2, <2>2
<1>3. CASE x = d /\ w = u
  <2> DEFINE v == variableDebt[d][u]
             s == stableDebt[d][u]
  <2>1. v \in Nat /\ s \in Nat /\ V \in Nat /\ DebtOf(d, u) = s + V
    BY DebtTypes DEF DebtOf
  <2>2. ASSUME debt = DebtOf(d, u) PROVE FALSE
    <3> HIDE DEF debt, V, s, v
    <3>1. debt = s + V
      BY <2>1, <2>2
    <3>2. burnt = V /\ rest = s
      BY <2>1, <3>1
    <3>3. scaled = v
      BY <3>2, ScaledDebt DEF V, v
    <3> HIDE DEF scaled, rest
    <3>4. variableDebt'[d][u] = v - scaled /\ stableDebt'[d][u] = s - rest
      BY <1>0, <1>1 DEF v, s
    <3>5. v - scaled = 0 /\ s - rest = 0
      BY <2>1, <3>2, <3>3
    <3> QED
      BY <1>3, <3>4, <3>5 DEF Owes
  <2>3. d \in borrowing[u]
    <3>1. DebtOf(d, u) # 0
      BY <1>1 DEF ValidateLiquidationCall
    <3>2. V # 0 \/ s # 0
      <4> HIDE DEF V, s
      <4> QED
        BY <2>1, <3>1
    <3> QED
      BY <3>2, ScaledDebt DEF DebtImpliesBorrowingFlag
  <2> QED
    BY <1>1, <1>3, <2>2, <2>3, PositionFacts
<1> QED
  BY <1>2, <1>3

\* A borrow sets the bit of the debt it adds.
LEMMA BorrowKeepsFlag ==
    ASSUME TypeOK, DebtImpliesBorrowingFlag, NEW v \in Users, NEW u \in Users,
           NEW a \in Assets, NEW n \in Amounts, NEW mode \in RateModes,
           Borrow(v, u, a, n, mode)
    PROVE  DebtImpliesBorrowingFlag'
<1> SUFFICES ASSUME NEW x \in Assets, NEW w \in Users, Owes(w, x)'
             PROVE  x \in borrowing'[w]
  BY DEF DebtImpliesBorrowingFlag, Owes
<1> DEFINE scaled == RayDiv(n, variableBorrowIndex[a])
           first == IF mode = "STABLE" THEN stableDebt[a][u] = 0
                                       ELSE variableDebt[a][u] = 0
<1>0. /\ borrowing \in [Users -> SUBSET Assets]
      /\ variableDebt \in [Assets -> [Users -> Nat]]
      /\ stableDebt \in [Assets -> [Users -> Nat]]
  BY DEF TypeOK
<1>1. /\ \/ variableDebt' = variableDebt
         \/ variableDebt' = [variableDebt EXCEPT ![a][u] = @ + scaled]
      /\ \/ stableDebt' = stableDebt
         \/ stableDebt' = [stableDebt EXCEPT ![a][u] = @ + n]
      /\ borrowing' = IF first THEN [borrowing EXCEPT ![u] = @ \cup {a}] ELSE borrowing
  BY DEF Borrow
<1>2. CASE x # a \/ w # u
  <2> HIDE DEF scaled
  <2>1. variableDebt'[x][w] = variableDebt[x][w] /\ stableDebt'[x][w] = stableDebt[x][w]
    BY <1>0, <1>1, <1>2
  <2>2. x \in borrowing[w]
    BY <2>1 DEF Owes, DebtImpliesBorrowingFlag
  <2> QED
    BY <1>0, <1>1, <1>2, <2>2
<1>3. CASE x = a /\ w = u
  <2>1. CASE first
    BY <1>0, <1>1, <1>3, <2>1
  <2>2. CASE ~first
    BY <1>1, <1>3, <2>2 DEF DebtImpliesBorrowingFlag
  <2> QED
    BY <2>1, <2>2
<1> QED
  BY <1>2, <1>3

\* A swap leaves the bit of the debt it turns into the other mode.
LEMMA SwapKeepsFlag ==
    ASSUME TypeOK, DebtImpliesBorrowingFlag, NEW u \in Users, NEW a \in Assets,
           NEW mode \in RateModes, SwapBorrowRateMode(u, a, mode)
    PROVE  DebtImpliesBorrowingFlag'
<1> SUFFICES ASSUME NEW x \in Assets, NEW w \in Users, Owes(w, x)'
             PROVE  x \in borrowing'[w]
  BY DEF DebtImpliesBorrowingFlag, Owes
<1>0. /\ variableDebt \in [Assets -> [Users -> Nat]]
      /\ stableDebt \in [Assets -> [Users -> Nat]]
      /\ borrowing' = borrowing
  BY DEF TypeOK, SwapBorrowRateMode, usersConfig
<1>1. CASE x # a \/ w # u
  <2>1. PICK p, q : /\ variableDebt' = [variableDebt EXCEPT ![a][u] = p]
                    /\ stableDebt' = [stableDebt EXCEPT ![a][u] = q]
    BY DEF SwapBorrowRateMode
  <2>2. variableDebt'[x][w] = variableDebt[x][w] /\ stableDebt'[x][w] = stableDebt[x][w]
    BY <1>0, <1>1, <2>1
  <2> QED
    BY <1>0, <2>2 DEF Owes, DebtImpliesBorrowingFlag
<1>2. CASE x = a /\ w = u
  <2>1. DebtOfMode(a, u, mode) # 0
    BY DEF SwapBorrowRateMode, ValidateSwapRateMode
  <2>2. Owes(u, a)
    BY <2>1, ScaledDebt DEF DebtOfMode, Owes
  <2> QED
    BY <1>0, <1>2, <2>2 DEF Owes, DebtImpliesBorrowingFlag
<1> QED
  BY <1>1, <1>2

\* Interest is added to debts, and makes none.
LEMMA AccrueAddsToDebts ==
    ASSUME TypeOK, NEW a \in Assets, Accrue(a), NEW x \in Assets, NEW w \in Users
    PROVE  /\ variableDebt' = variableDebt
           /\ stableDebt[x][w] = 0 => stableDebt'[x][w] = 0
<1>0. stableDebt \in [Assets -> [Users -> Nat]]
  BY DEF TypeOK
<1>1. variableDebt' = variableDebt
  BY Zenon DEF Accrue
<1>2. PICK S \in SUBSET {u \in Users : stableDebt[a][u] \in 1 .. MaxStableDebt - 1} :
        stableDebt' = [stableDebt EXCEPT ![a] =
                         [u \in Users |-> IF u \in S THEN @[u] + 1 ELSE @[u]]]
  BY Zenon DEF Accrue
<1>3. stableDebt[x][w] = 0 => stableDebt'[x][w] = 0
  <2>1. CASE x # a
    BY <1>0, <1>2, <2>1
  <2>2. CASE x = a
    <3>1. stableDebt[a][w] = 0 => w \notin S
      BY Bounds
    <3>2. stableDebt'[a][w] = IF w \in S THEN stableDebt[a][w] + 1 ELSE stableDebt[a][w]
      BY <1>0, <1>2
    <3> QED
      BY <2>2, <3>1, <3>2
  <2> QED
    BY <2>1, <2>2
<1> QED
  BY <1>1, <1>3

\* Interest accrues only on debts that exist.
LEMMA AccrueKeepsFlag ==
    ASSUME TypeOK, DebtImpliesBorrowingFlag, NEW a \in Assets, Accrue(a)
    PROVE  DebtImpliesBorrowingFlag'
<1>1. borrowing' = borrowing
  BY DEF Accrue, usersConfig
<1> QED
  BY <1>1, AccrueAddsToDebts DEF DebtImpliesBorrowingFlag

\* A step keeps the bits of whoever owes something.
LEMMA NextKeepsFlag ==
    ASSUME TypeOK, DebtImpliesBorrowingFlag, [Next]_vars
    PROVE  DebtImpliesBorrowingFlag'
<1>0. UNCHANGED <<variableDebt, stableDebt, borrowing>> => DebtImpliesBorrowingFlag'
  BY DEF DebtImpliesBorrowingFlag
<1>1. CASE SupplySteps
  BY <1>0, <1>1, SupplyFrame
<1>2. CASE BorrowSteps
  <2>1. ASSUME NEW u \in Users, NEW a \in Assets, NEW mode \in RateModes,
               NEW n \in Amounts \cup {MaxUint},
               (\E v \in Users : Repay(v, u, a, n, mode)) \/ RepayWithATokens(u, a, n, mode)
        PROVE  DebtImpliesBorrowingFlag'
    BY <2>1, RepaymentSteps, RepayDebtKeepsFlag
  <2> QED
    BY <1>2, <2>1, BorrowKeepsFlag, SwapKeepsFlag DEF BorrowSteps
<1>3. CASE \E d \in Delegations :
             ApproveDelegation(d.delegator, d.delegatee, d.asset, d.mode, d.amount)
  BY <1>0, <1>3 DEF ApproveDelegation, usersConfig
<1>4. CASE LiquidationSteps
  BY <1>4, LiquidationKeepsFlag DEF LiquidationSteps
<1>5. CASE \E u \in Users, k \in Categories \cup {0} : SetUserEMode(u, k)
  BY <1>0, <1>5 DEF SetUserEMode, tokens
<1>6. CASE \E a \in Assets : MintToTreasury(a)
  BY <1>0, <1>6 DEF MintToTreasury, usersConfig
<1>7. CASE EnvironmentSteps
  BY <1>0, <1>7, AccrueKeepsFlag
     DEF EnvironmentSteps, SetPrice, SetSentinel, tokens, usersConfig
<1>8. CASE UNCHANGED vars
  BY <1>0, <1>8 DEF vars, tokens, usersConfig
<1> QED
  BY <1>1, <1>2, <1>3, <1>4, <1>5, <1>6, <1>7, <1>8 DEF Next

\* No sequence of loans, partial repayments in either mode, rate swaps and
\* liquidations, at whatever index, leaves a debt that the health factor of
\* the borrower does not see.
THEOREM NoHiddenDebt == Spec => []DebtImpliesBorrowingFlag
<1>1. Init => TypeOK /\ DebtImpliesBorrowingFlag
  <2>1. Init => DebtImpliesBorrowingFlag
    BY DEF Init, DebtImpliesBorrowingFlag
  <2> QED
    BY <2>1, InitType
<1>2. TypeOK /\ DebtImpliesBorrowingFlag /\ [Next]_vars
        => (TypeOK /\ DebtImpliesBorrowingFlag)'
  BY NextType, NextKeepsFlag
<1> QED
  BY <1>1, <1>2, PTL DEF Spec

-----------------------------------------------------------------------------
(* Siloed debts.                                                           *)

\* Who owes an asset after a step has owed it before or borrows it.
LEMMA DebtSteps ==
    ASSUME TypeOK, [Next]_vars, NEW w \in Users, NEW x \in Assets, Owes(w, x)'
    PROVE  Owes(w, x) \/ NewBorrow(w, x)
<1>0. /\ borrowing \in [Users -> SUBSET Assets]
      /\ variableDebt \in [Assets -> [Users -> Nat]]
      /\ stableDebt \in [Assets -> [Users -> Nat]]
  BY DEF TypeOK
<1>00. UNCHANGED <<variableDebt, stableDebt>> => Owes(w, x)
  BY DEF Owes
<1>1. CASE SupplySteps
  BY <1>00, <1>1, SupplyFrame
<1>2. CASE BorrowSteps
  <2>1. ASSUME NEW v \in Users, NEW u \in Users, NEW a \in Assets, NEW n \in Amounts,
               NEW mode \in RateModes, Borrow(v, u, a, n, mode), ~Owes(w, x)
        PROVE  NewBorrow(w, x)
    <3>1. PICK p, q :
            /\ variableDebt' = [variableDebt EXCEPT ![a][u] = p] \/ variableDebt' = variableDebt
            /\ stableDebt' = [stableDebt EXCEPT ![a][u] = q] \/ stableDebt' = stableDebt
      BY <2>1 DEF Borrow
    <3>2. x = a /\ w = u
      BY <1>0, <2>1, <3>1 DEF Owes
    <3>3. borrowing' = [borrowing EXCEPT ![u] = @ \cup {a}] /\ ValidateBorrow(u, a, n, mode)
      BY <2>1, <3>2 DEF Borrow, Owes
    <3> QED
      BY <1>0, <3>2, <3>3 DEF NewBorrow, ValidateBorrow
  <2>2. ASSUME NEW u \in Users, NEW a \in Assets, NEW mode \in RateModes,
               NEW payback \in Nat, payback <= DebtOfMode(a, u, mode),
               RepayDebt(u, a, payback, mode)
        PROVE  Owes(w, x)
    <3> DEFINE scaled == RayDiv(payback, variableBorrowIndex[a])
    <3>1. scaled \in Nat
      BY IndexFacts, RayDivType
    <3>2. /\ mode = "STABLE" => /\ payback <= stableDebt[a][u]
                                /\ stableDebt' = [stableDebt EXCEPT ![a][u] = @ - payback]
                                /\ UNCHANGED variableDebt
          /\ mode # "STABLE" => /\ scaled <= variableDebt[a][u]
                                /\ variableDebt' = [variableDebt EXCEPT ![a][u] = @ - scaled]
                                /\ UNCHANGED stableDebt
      BY <2>2 DEF RepayDebt, DebtOfMode
    <3> HIDE DEF scaled
    <3> QED
      BY <1>0, <3>1, <3>2 DEF Owes
  <2>3. ASSUME NEW u \in Users, NEW a \in Assets, NEW mode \in RateModes,
               NEW n \in Amounts \cup {MaxUint},
               (\E v \in Users : Repay(v, u, a, n, mode)) \/ RepayWithATokens(u, a, n, mode)
        PROVE  Owes(w, x)
    BY <2>2, <2>3, RepaymentSteps
  <2>4. ASSUME NEW u \in Users, NEW a \in Assets, NEW mode \in RateModes,
               SwapBorrowRateMode(u, a, mode)
        PROVE  Owes(w, x)
    <3>1. PICK p, q : /\ variableDebt' = [variableDebt EXCEPT ![a][u] = p]
                      /\ stableDebt' = [stableDebt EXCEPT ![a][u] = q]
      BY <2>4 DEF SwapBorrowRateMode
    <3>2. x # a \/ w # u => Owes(w, x)
      BY <1>0, <3>1 DEF Owes
    <3>3. Owes(u, a)
      BY <2>4, ScaledDebt DEF SwapBorrowRateMode, ValidateSwapRateMode, DebtOfMode, Owes
    <3> QED
      BY <3>2, <3>3
  <2> QED
    BY <1>2, <2>1, <2>3, <2>4 DEF BorrowSteps
<1>3. CASE \E d \in Delegations :
             ApproveDelegation(d.delegator, d.delegatee, d.asset, d.mode, d.amount)
  BY <1>00, <1>3 DEF ApproveDelegation
<1>4. CASE LiquidationSteps
  <2>1. PICK l \in Users, u \in Users, c \in Assets, d \in Assets,
             n \in Amounts \cup {MaxUint}, b \in BOOLEAN : LiquidationCall(l, u, c, d, n, b)
    BY <1>4 DEF LiquidationSteps
  <2> DEFINE debt == Liquidated(Position(u), c, d, n).debt
             V == VariableDebtOf(d, u)
             burnt == IF V < debt THEN V ELSE debt
             scaled == RayDiv(burnt, variableBorrowIndex[d])
             rest == debt - burnt
  <2>2. /\ scaled <= variableDebt[d][u] /\ rest <= stableDebt[d][u]
        /\ variableDebt' = [variableDebt EXCEPT ![d][u] = @ - scaled]
        /\ stableDebt' = [stableDebt EXCEPT ![d][u] = @ - rest]
        /\ ValidateLiquidationCall(u, c, d)
    BY <2>1 DEF LiquidationCall, BurnDebtTokens
  <2>3. debt \in Nat /\ V \in Nat
    BY <2>2, LiquidatedBounds, Bounds, InitialValues, DebtTypes
  <2> HIDE DEF debt, V
  <2>4. burnt \in Nat /\ rest \in Nat
    BY <2>3
  <2> HIDE DEF burnt
  <2>5. scaled \in Nat
    BY <2>4, IndexFacts, RayDivType
  <2> HIDE DEF scaled, rest
  <2> QED
    BY <1>0, <2>2, <2>4, <2>5 DEF Owes
<1>5. CASE \E u \in Users, k \in Categories \cup {0} : SetUserEMode(u, k)
  BY <1>00, <1>5 DEF SetUserEMode, tokens
<1>6. CASE \E a \in Assets : MintToTreasury(a)
  BY <1>00, <1>6 DEF MintToTreasury
<1>7. CASE EnvironmentSteps
  <2>1. ASSUME NEW a \in Assets, Accrue(a) PROVE Owes(w, x)
    BY <2>1, AccrueAddsToDebts DEF Owes
  <2> QED
    BY <1>00, <1>7, <2>1 DEF EnvironmentSteps, SetPrice, SetSentinel, tokens
<1>8. CASE UNCHANGED vars
  BY <1>00, <1>8 DEF vars, tokens
<1> QED
  BY <1>1, <1>2, <1>3, <1>4, <1>5, <1>6, <1>7, <1>8 DEF Next

\* When several bits are set no debt is siloed, so that looking at the siloed
\* state of a single bit is enough, for any listing of reserves.  What a user
\* owes of one asset is kept whatever is owed of others.
LEMMA NextKeepsSiloed ==
    ASSUME TypeOK, DebtImpliesBorrowingFlag, [Next]_vars,
           NEW w \in Users, NEW x \in Assets, SiloedAlone(w, x)
    PROVE  SiloedAlone(w, x)'
<1> SUFFICES ASSUME Owes(w, x)', configuration[x].siloedBorrowing
             PROVE  borrowing'[w] = {x}
  BY ListingConstant DEF SiloedAlone, Owes
<1>1. x \in borrowing'[w] /\ borrowing[w] \subseteq Assets
  BY NextKeepsFlag DEF DebtImpliesBorrowingFlag, Owes, TypeOK
<1>2. CASE Owes(w, x)
  <2>1. borrowing[w] = {x} /\ SiloedBy(borrowing[w], x)
    BY <1>2 DEF SiloedAlone, SiloedBy, Owes
  <2>2. CASE borrowing'[w] \subseteq borrowing[w]
    BY <1>1, <2>1, <2>2
  <2>3. ASSUME NEW a \in Assets, NewBorrow(w, a) PROVE borrowing'[w] = {x}
    <3>1. SiloedBy(borrowing[w], a)
      BY <2>1, <2>3 DEF NewBorrow, ValidateSiloedBorrow
    <3> QED
      BY <2>1, <2>3, <3>1 DEF NewBorrow, SiloedBy
  <2> QED
    BY <2>2, <2>3, BorrowingSteps
<1>3. CASE ~Owes(w, x)
  <2>1. NewBorrow(w, x)
    BY <1>3, DebtSteps
  <2>2. borrowing[w] = {} \/ SiloedBy(borrowing[w], x)
    BY <1>1, <2>1 DEF NewBorrow, ValidateSiloedBorrow
  <2> QED
    BY <2>1, <2>2 DEF NewBorrow, SiloedBy
<1> QED
  BY <1>2, <1>3

\* However debts are made and repaid, one of a siloed asset is the only one.
THEOREM SiloedExclusive == Spec => []SiloedBorrowingExclusive
<1> DEFINE Inductive == TypeOK /\ DebtImpliesBorrowingFlag /\ SiloedBorrowingExclusive
<1>1. Init => Inductive
  BY InitType DEF Init, DebtImpliesBorrowingFlag, SiloedBorrowingExclusive, SiloedAlone
<1>2. Inductive /\ [Next]_vars => Inductive'
  <2>1. Inductive /\ [Next]_vars => SiloedBorrowingExclusive'
    BY NextKeepsSiloed DEF SiloedBorrowingExclusive
  <2> QED
    BY <2>1, NextType, NextKeepsFlag
<1> QED
  BY <1>1, <1>2, PTL DEF Spec

-----------------------------------------------------------------------------
(* The backing of the aTokens.                                             *)

\* The holders of aTokens are the users and the treasury.
LEMMA AccountsAreFinite == IsFiniteSet(Accounts)
  BY UsersAreFinite, FS_AddElement DEF Accounts

\* The two sides of the balance sheet of a reserve at indices of one ray.
Claims(a) == SumFunction(aTokenBalance[a]) + accruedToTreasury[a]
Owed(a) == SumFunction(stableDebt[a]) + SumFunction(variableDebt[a])
Means(a) == liquidity[a] + Owed(a)

Covered ==
    \A a \in Assets : liquidityIndex[a] = RAY /\ variableBorrowIndex[a] = RAY =>
        Claims(a) <= Means(a)

\* Moving a balance keeps the total, to oneself as well.
LEMMA MovedTotal ==
    ASSUME NEW T, IsFiniteSet(T), NEW balances \in [T -> Nat], NEW from \in T, NEW to \in T,
           NEW n \in Nat, n <= balances[from]
    PROVE  SumFunction(MoveBalance(balances, from, to, n)) = SumFunction(balances)
<1> DEFINE once == [balances EXCEPT ![from] = balances[from] - n]
           twice == [once EXCEPT ![to] = once[to] + n]
<1>1. balances[from] \in Nat /\ balances[from] - n \in Nat
  OBVIOUS
<1>2. /\ once \in [T -> Nat] /\ balances[from] = once[from] + n
      /\ \A x \in T \ {from} : balances[x] = once[x]
  BY <1>1
<1>3. MoveBalance(balances, from, to, n) = twice
  BY DEF MoveBalance
<1> HIDE DEF once
<1>4. once[to] \in Nat /\ once[to] + n \in Nat
  BY <1>2
<1>5. /\ twice \in [T -> Nat] /\ twice[to] = once[to] + n
      /\ \A x \in T \ {to} : twice[x] = once[x]
  BY <1>2, <1>4
<1> HIDE DEF twice
<1>6. SumFunction(balances) = SumFunction(once) + n
  BY <1>2, TotalRaised
<1>7. SumFunction(twice) = SumFunction(once) + n
  BY <1>2, <1>5, TotalRaised
<1> QED
  BY <1>3, <1>6, <1>7

\* The sums of a reserve are naturals.
LEMMA SheetTypes ==
    ASSUME TypeOK, NEW x \in Assets
    PROVE  /\ SumFunction(aTokenBalance[x]) \in Nat
           /\ SumFunction(stableDebt[x]) \in Nat
           /\ SumFunction(variableDebt[x]) \in Nat
           /\ accruedToTreasury[x] \in Nat /\ liquidity[x] \in Nat
           /\ Owed(x) \in Nat
<1>1. /\ aTokenBalance[x] \in [Accounts -> Nat]
      /\ stableDebt[x] \in [Users -> Nat] /\ variableDebt[x] \in [Users -> Nat]
      /\ accruedToTreasury[x] \in Nat /\ liquidity[x] \in Nat
  BY DEF TypeOK
<1>2. /\ DOMAIN aTokenBalance[x] = Accounts
      /\ DOMAIN stableDebt[x] = Users /\ DOMAIN variableDebt[x] = Users
  BY <1>1
<1>3. /\ SumFunctionOnSet(aTokenBalance[x], Accounts) \in Nat
      /\ SumFunctionOnSet(stableDebt[x], Users) \in Nat
      /\ SumFunctionOnSet(variableDebt[x], Users) \in Nat
  BY <1>1, AccountsAreFinite, UsersAreFinite, SumIsNat
<1> QED
  BY <1>1, <1>2, <1>3 DEF SumFunction, Owed

\* In a step that keeps the indices, only the reserves at one ray matter, and
\* at one ray a scaled amount is the amount.
LEMMA SupplyKeepsCover ==
    ASSUME TypeOK, Covered, NEW u \in Users, NEW v \in Users, NEW a \in Assets,
           NEW n \in Amounts, Supply(u, v, a, n)
    PROVE  Covered'
<1> DEFINE scaled == RayDiv(n, liquidityIndex[a])
<1>1. TypeOK' /\ n \in Nat /\ scaled \in Nat /\ v \in Accounts
  BY SupplyType, Bounds, IndexFacts, RayDivType, UsersAreAccounts
<1>2. /\ aTokenBalance' = [aTokenBalance EXCEPT ![a][v] = @ + scaled]
      /\ liquidity' = [liquidity EXCEPT ![a] = @ + n]
      /\ UNCHANGED <<variableDebt, stableDebt, accruedToTreasury, liquidityIndex,
                     variableBorrowIndex>>
  BY DEF Supply, indices
<1>3. liquidityIndex[a] = RAY => scaled = n
  BY <1>1, RayIsNeutral
<1> HIDE DEF scaled
<1> SUFFICES ASSUME NEW x \in Assets, liquidityIndex[x] = RAY, variableBorrowIndex[x] = RAY
             PROVE  Claims(x)' <= Means(x)'
  BY <1>2 DEF Covered
<1> DEFINE dx == IF x = a THEN scaled ELSE 0
<1>4. SumFunction(aTokenBalance'[x]) = SumFunction(aTokenBalance[x]) + dx
  <2>1. dx \in Nat
    BY <1>1
  <2>2. /\ aTokenBalance[x] \in [Accounts -> Nat] /\ aTokenBalance'[x] \in [Accounts -> Nat]
        /\ aTokenBalance'[x][v] = aTokenBalance[x][v] + dx
        /\ \A w \in Accounts \ {v} : aTokenBalance'[x][w] = aTokenBalance[x][w]
    BY <1>1, <1>2 DEF TypeOK
  <2> HIDE DEF dx
  <2> QED
    BY <1>1, <2>1, <2>2, AccountsAreFinite, TotalRaised
<1>5. liquidity'[x] = liquidity[x] + IF x = a THEN n ELSE 0
  BY <1>1, <1>2 DEF TypeOK
<1>6. Claims(x) <= Means(x)
  BY DEF Covered
<1> QED
  BY <1>1, <1>2, <1>3, <1>4, <1>5, <1>6, SheetTypes DEF Claims, Means, Owed

\* A withdrawal burns the claim on what it pays out.
LEMMA WithdrawKeepsCover ==
    ASSUME TypeOK, Covered, NEW u \in Users, NEW a \in Assets,
           NEW n \in Amounts \cup {MaxUint}, NEW to \in Recipients[u],
           Withdraw(u, a, n, to)
    PROVE  Covered'
<1> DEFINE withdrawn == IF n = MaxUint THEN BalanceOf(a, u) ELSE n
           scaled == RayDiv(withdrawn, liquidityIndex[a])
<1>1. TypeOK' /\ withdrawn \in Nat /\ u \in Accounts
  <2>1. n \in Nat /\ BalanceOf(a, u) \in Nat
    BY Bounds, InitialValues, BalanceOfType, UsersAreAccounts
  <2> QED
    BY <2>1, WithdrawType, UsersAreAccounts
<1>2. /\ scaled <= aTokenBalance[a][u]
      /\ aTokenBalance' = [aTokenBalance EXCEPT ![a][u] = @ - scaled]
      /\ \/ liquidity' = liquidity
         \/ liquidity' = [liquidity EXCEPT ![a] = @ - withdrawn] /\ withdrawn <= liquidity[a]
      /\ UNCHANGED <<variableDebt, stableDebt, accruedToTreasury, liquidityIndex,
                     variableBorrowIndex>>
  BY DEF Withdraw, indices, underlying
<1> HIDE DEF withdrawn
<1>3. scaled \in Nat /\ (liquidityIndex[a] = RAY => scaled = withdrawn)
  BY <1>1, RayIsNeutral, IndexFacts, RayDivType
<1> HIDE DEF scaled
<1> SUFFICES ASSUME NEW x \in Assets, liquidityIndex[x] = RAY, variableBorrowIndex[x] = RAY
             PROVE  Claims(x)' <= Means(x)'
  BY <1>2 DEF Covered
<1> DEFINE dx == IF x = a THEN scaled ELSE 0
<1>4. SumFunction(aTokenBalance[x]) = SumFunction(aTokenBalance'[x]) + dx
  <2>1. dx \in Nat
    BY <1>3
  <2>2. /\ aTokenBalance[x] \in [Accounts -> Nat] /\ aTokenBalance'[x] \in [Accounts -> Nat]
        /\ aTokenBalance[x][u] = aTokenBalance'[x][u] + dx
        /\ \A w \in Accounts \ {u} : aTokenBalance[x][w] = aTokenBalance'[x][w]
    BY <1>1, <1>2, <1>3 DEF TypeOK
  <2> HIDE DEF dx
  <2> QED
    BY <1>1, <2>1, <2>2, AccountsAreFinite, TotalRaised
<1>5. liquidity'[x] \in Nat /\ liquidity[x] <= liquidity'[x] + IF x = a THEN withdrawn ELSE 0
  BY <1>1, <1>2 DEF TypeOK
<1>6. SumFunction(aTokenBalance'[x]) \in Nat
  <2>1. aTokenBalance'[x] \in [Accounts -> Nat]
    BY <1>1 DEF TypeOK
  <2> QED
    BY <2>1, AccountsAreFinite, TotalIsNat
<1>7. Claims(x) <= Means(x)
  BY DEF Covered
<1> QED
  BY <1>1, <1>2, <1>3, <1>4, <1>5, <1>6, <1>7, SheetTypes DEF Claims, Means, Owed

\* A transfer keeps the claims.
LEMMA TransferKeepsCover ==
    ASSUME TypeOK, Covered, NEW u \in Users, NEW v \in Users, NEW a \in Assets,
           NEW n \in Amounts, Transfer(u, v, a, n)
    PROVE  Covered'
<1> DEFINE scaled == RayDiv(n, liquidityIndex[a])
<1>1. scaled \in Nat /\ u \in Accounts /\ v \in Accounts
  BY Bounds, IndexFacts, RayDivType, UsersAreAccounts
<1>2. /\ scaled <= aTokenBalance[a][u]
      /\ aTokenBalance' = [aTokenBalance EXCEPT ![a] = MoveBalance(@, u, v, scaled)]
      /\ UNCHANGED <<variableDebt, stableDebt, accruedToTreasury, liquidityIndex,
                     variableBorrowIndex, liquidity>>
  BY DEF Transfer, indices, underlying
<1> HIDE DEF scaled
<1>3. aTokenBalance \in [Assets -> [Accounts -> Nat]]
  BY DEF TypeOK
<1>4. \A x \in Assets : SumFunction(aTokenBalance'[x]) = SumFunction(aTokenBalance[x])
  <2>1. SumFunction(MoveBalance(aTokenBalance[a], u, v, scaled)) = SumFunction(aTokenBalance[a])
    BY <1>1, <1>2, <1>3, AccountsAreFinite, MovedTotal
  <2> QED
    BY <1>2, <1>3, <2>1
<1> QED
  BY <1>2, <1>4 DEF Covered, Claims, Means, Owed

\* A borrow replaces liquidity by debt.
LEMMA BorrowKeepsCover ==
    ASSUME TypeOK, Covered, NEW v \in Users, NEW u \in Users, NEW a \in Assets,
           NEW n \in Amounts, NEW mode \in RateModes, Borrow(v, u, a, n, mode)
    PROVE  Covered'
<1> DEFINE scaled == RayDiv(n, variableBorrowIndex[a])
<1>1. TypeOK' /\ n \in Nat /\ scaled \in Nat
  BY BorrowType, Bounds, IndexFacts, RayDivType
<1>2. /\ n <= liquidity[a]
      /\ IF mode = "STABLE"
         THEN /\ stableDebt' = [stableDebt EXCEPT ![a][u] = @ + n]
              /\ UNCHANGED variableDebt
         ELSE /\ variableDebt' = [variableDebt EXCEPT ![a][u] = @ + scaled]
              /\ UNCHANGED stableDebt
      /\ liquidity' = [liquidity EXCEPT ![a] = @ - n]
      /\ UNCHANGED <<aTokenBalance, accruedToTreasury, liquidityIndex, variableBorrowIndex>>
  BY DEF Borrow, indices
<1>3. variableBorrowIndex[a] = RAY => scaled = n
  BY <1>1, RayIsNeutral
<1> HIDE DEF scaled
<1> SUFFICES ASSUME NEW x \in Assets, liquidityIndex[x] = RAY, variableBorrowIndex[x] = RAY
             PROVE  Claims(x)' <= Means(x)'
  BY <1>2 DEF Covered
<1> DEFINE dx == IF x = a THEN n ELSE 0
<1>4. dx \in Nat /\ dx <= liquidity[x] /\ liquidity'[x] = liquidity[x] - dx
  BY <1>1, <1>2 DEF TypeOK
<1>5. /\ stableDebt[x] \in [Users -> Nat] /\ stableDebt'[x] \in [Users -> Nat]
      /\ variableDebt[x] \in [Users -> Nat] /\ variableDebt'[x] \in [Users -> Nat]
  BY <1>1 DEF TypeOK
<1>6. Owed(x)' = Owed(x) + dx
  <2>1. CASE mode = "STABLE"
    <3>1. /\ variableDebt'[x] = variableDebt[x]
          /\ stableDebt'[x][u] = stableDebt[x][u] + dx
          /\ \A w \in Users \ {u} : stableDebt'[x][w] = stableDebt[x][w]
      BY <1>1, <1>2, <1>5, <2>1 DEF TypeOK
    <3> HIDE DEF dx
    <3>2. SumFunction(stableDebt'[x]) = SumFunction(stableDebt[x]) + dx
      BY <1>4, <1>5, <3>1, UsersAreFinite, TotalRaised
    <3> QED
      BY <1>4, <3>1, <3>2, SheetTypes DEF Owed
  <2>2. CASE mode # "STABLE"
    <3>1. /\ stableDebt'[x] = stableDebt[x]
          /\ variableDebt'[x][u] = variableDebt[x][u] + dx
          /\ \A w \in Users \ {u} : variableDebt'[x][w] = variableDebt[x][w]
      BY <1>1, <1>2, <1>3, <1>5, <2>2 DEF TypeOK
    <3> HIDE DEF dx
    <3>2. SumFunction(variableDebt'[x]) = SumFunction(variableDebt[x]) + dx
      BY <1>4, <1>5, <3>1, UsersAreFinite, TotalRaised
    <3> QED
      BY <1>4, <3>1, <3>2, SheetTypes DEF Owed
  <2> QED
    BY <2>1, <2>2
<1>7. Claims(x) <= Means(x) /\ Claims(x)' = Claims(x)
  BY <1>2 DEF Covered, Claims
<1> HIDE DEF dx
<1> QED
  BY <1>4, <1>6, <1>7, SheetTypes DEF Means, Owed, Claims

\* A repayment, with whatever it is paid, lowers what is owed by as much.
LEMMA RepayDebtLowersOwed ==
    ASSUME TypeOK, NEW u \in Users, NEW a \in Assets, NEW payback \in Nat,
           NEW mode \in RateModes, payback <= DebtOfMode(a, u, mode),
           RepayDebt(u, a, payback, mode), NEW x \in Assets, variableBorrowIndex[x] = RAY
    PROVE  Owed(x)' \in Nat /\ Owed(x) = Owed(x)' + IF x = a THEN payback ELSE 0
<1> DEFINE scaled == RayDiv(payback, variableBorrowIndex[a])
           dx == IF x = a THEN payback ELSE 0
<1>1. scaled \in Nat /\ (x = a => scaled = payback)
  BY RayIsNeutral, IndexFacts, RayDivType
<1>2. /\ mode = "STABLE" => /\ payback <= stableDebt[a][u]
                            /\ stableDebt' = [stableDebt EXCEPT ![a][u] = @ - payback]
                            /\ UNCHANGED variableDebt
      /\ mode # "STABLE" => /\ scaled <= variableDebt[a][u]
                            /\ variableDebt' = [variableDebt EXCEPT ![a][u] = @ - scaled]
                            /\ UNCHANGED stableDebt
  BY DEF RepayDebt, DebtOfMode
<1> HIDE DEF scaled
<1>3. /\ stableDebt[x] \in [Users -> Nat] /\ stableDebt'[x] \in [Users -> Nat]
      /\ variableDebt[x] \in [Users -> Nat] /\ variableDebt'[x] \in [Users -> Nat]
  BY RepayDebtType DEF TypeOK
<1>4. dx \in Nat
  OBVIOUS
<1>5. SumFunction(stableDebt'[x]) \in Nat /\ SumFunction(variableDebt'[x]) \in Nat
  BY <1>3, UsersAreFinite, TotalIsNat
<1>6. Owed(x) = Owed(x)' + dx
  <2>1. CASE mode = "STABLE"
    <3>1. /\ variableDebt'[x] = variableDebt[x]
          /\ stableDebt[x][u] = stableDebt'[x][u] + dx
          /\ \A w \in Users \ {u} : stableDebt[x][w] = stableDebt'[x][w]
      BY <1>2, <1>3, <2>1 DEF TypeOK
    <3> HIDE DEF dx
    <3>2. SumFunction(stableDebt[x]) = SumFunction(stableDebt'[x]) + dx
      BY <1>3, <1>4, <3>1, UsersAreFinite, TotalRaised
    <3> QED
      BY <1>4, <1>5, <3>1, <3>2, SheetTypes DEF Owed
  <2>2. CASE mode # "STABLE"
    <3>1. /\ stableDebt'[x] = stableDebt[x]
          /\ variableDebt[x][u] = variableDebt'[x][u] + dx
          /\ \A w \in Users \ {u} : variableDebt[x][w] = variableDebt'[x][w]
      <4>1. variableDebt \in [Assets -> [Users -> Nat]]
        BY DEF TypeOK
      <4>2. CASE x = a
        BY <1>1, <1>2, <1>3, <2>2, <4>1, <4>2
      <4>3. CASE x # a
        BY <1>2, <1>3, <2>2, <4>1, <4>3
      <4> QED
        BY <4>2, <4>3
    <3> HIDE DEF dx
    <3>2. SumFunction(variableDebt[x]) = SumFunction(variableDebt'[x]) + dx
      BY <1>3, <1>4, <3>1, UsersAreFinite, TotalRaised
    <3> QED
      BY <1>4, <1>5, <3>1, <3>2, SheetTypes DEF Owed
  <2> QED
    BY <2>1, <2>2
<1> QED
  BY <1>5, <1>6 DEF Owed

\* A repayment replaces debt by liquidity.
LEMMA RepayKeepsCover ==
    ASSUME TypeOK, Covered, NEW v \in Users, NEW u \in Users, NEW a \in Assets,
           NEW n \in Amounts \cup {MaxUint}, NEW mode \in RateModes,
           Repay(v, u, a, n, mode)
    PROVE  Covered'
<1> DEFINE debt == DebtOfMode(a, u, mode)
           payback == IF n < debt THEN n ELSE debt
<1>1. n \in Nat /\ debt \in Nat
  BY Bounds, InitialValues, DebtTypes
<1>2. /\ RepayDebt(u, a, payback, mode)
      /\ liquidity' = [liquidity EXCEPT ![a] = @ + payback]
      /\ UNCHANGED <<aTokenBalance, accruedToTreasury, liquidityIndex, variableBorrowIndex>>
  BY DEF Repay, indices
<1> HIDE DEF debt
<1>3. payback \in Nat /\ payback <= debt
  BY <1>1
<1> HIDE DEF payback
<1> SUFFICES ASSUME NEW x \in Assets, liquidityIndex[x] = RAY, variableBorrowIndex[x] = RAY
             PROVE  Claims(x)' <= Means(x)'
  BY <1>2 DEF Covered
<1>4. Owed(x)' \in Nat /\ Owed(x) = Owed(x)' + IF x = a THEN payback ELSE 0
  BY <1>2, <1>3, RepayDebtLowersOwed DEF debt
<1>5. liquidity'[x] = liquidity[x] + IF x = a THEN payback ELSE 0
  BY <1>2, <1>3 DEF TypeOK
<1>6. Claims(x) <= Means(x) /\ Claims(x)' = Claims(x)
  BY <1>2 DEF Covered, Claims
<1> QED
  BY <1>3, <1>4, <1>5, <1>6, SheetTypes DEF Means, Claims

\* A repayment with aTokens takes a claim and a debt.
LEMMA RepayWithATokensKeepsCover ==
    ASSUME TypeOK, Covered, NEW u \in Users, NEW a \in Assets,
           NEW n \in Amounts \cup {MaxUint}, NEW mode \in RateModes,
           RepayWithATokens(u, a, n, mode)
    PROVE  Covered'
<1> DEFINE debt == DebtOfMode(a, u, mode)
           offered == IF n = MaxUint THEN BalanceOf(a, u) ELSE n
           payback == IF offered < debt THEN offered ELSE debt
           scaled == RayDiv(payback, liquidityIndex[a])
<1>1. TypeOK' /\ n \in Nat /\ debt \in Nat /\ offered \in Nat /\ u \in Accounts
  BY RepayWithATokensType, Bounds, InitialValues, DebtTypes, BalanceOfType, UsersAreAccounts
<1>2. /\ RepayDebt(u, a, payback, mode)
      /\ scaled <= aTokenBalance[a][u]
      /\ aTokenBalance' = [aTokenBalance EXCEPT ![a][u] = @ - scaled]
      /\ UNCHANGED <<liquidity, accruedToTreasury, liquidityIndex, variableBorrowIndex>>
  BY DEF RepayWithATokens, indices, underlying
<1> HIDE DEF debt, offered
<1>3. payback \in Nat /\ payback <= debt
  BY <1>1
<1> HIDE DEF payback
<1>4. scaled \in Nat /\ (liquidityIndex[a] = RAY => scaled = payback)
  BY <1>3, RayIsNeutral, IndexFacts, RayDivType
<1> HIDE DEF scaled
<1> SUFFICES ASSUME NEW x \in Assets, liquidityIndex[x] = RAY, variableBorrowIndex[x] = RAY
             PROVE  Claims(x)' <= Means(x)'
  BY <1>2 DEF Covered
<1> DEFINE dx == IF x = a THEN scaled ELSE 0
<1>5. dx \in Nat /\ Owed(x)' \in Nat /\ Owed(x) = Owed(x)' + dx
  <2>1. Owed(x)' \in Nat /\ Owed(x) = Owed(x)' + IF x = a THEN payback ELSE 0
    BY <1>2, <1>3, RepayDebtLowersOwed DEF debt
  <2> QED
    BY <1>4, <2>1
<1>6. SumFunction(aTokenBalance[x]) = SumFunction(aTokenBalance'[x]) + dx
  <2>1. /\ aTokenBalance[x] \in [Accounts -> Nat] /\ aTokenBalance'[x] \in [Accounts -> Nat]
        /\ aTokenBalance[x][u] = aTokenBalance'[x][u] + dx
        /\ \A w \in Accounts \ {u} : aTokenBalance[x][w] = aTokenBalance'[x][w]
    BY <1>1, <1>2, <1>4 DEF TypeOK
  <2> HIDE DEF dx
  <2> QED
    BY <1>1, <1>5, <2>1, AccountsAreFinite, TotalRaised
<1>7. SumFunction(aTokenBalance'[x]) \in Nat
  <2>1. aTokenBalance'[x] \in [Accounts -> Nat]
    BY <1>1 DEF TypeOK
  <2> QED
    BY <2>1, AccountsAreFinite, TotalIsNat
<1>8. Claims(x) <= Means(x)
  BY DEF Covered
<1> HIDE DEF dx
<1> QED
  BY <1>2, <1>5, <1>6, <1>7, <1>8, SheetTypes DEF Means, Claims

\* A swap keeps the debt owed.
LEMMA SwapKeepsCover ==
    ASSUME TypeOK, Covered, NEW u \in Users, NEW a \in Assets, NEW mode \in RateModes,
           SwapBorrowRateMode(u, a, mode)
    PROVE  Covered'
<1> DEFINE debt == DebtOfMode(a, u, mode)
           scaled == RayDiv(debt, variableBorrowIndex[a])
<1>1. TypeOK' /\ debt \in Nat
  BY SwapBorrowRateModeType, DebtTypes
<1>2. /\ IF mode = "STABLE"
         THEN /\ stableDebt' = [stableDebt EXCEPT ![a][u] = @ - debt]
              /\ variableDebt' = [variableDebt EXCEPT ![a][u] = @ + scaled]
         ELSE /\ scaled <= variableDebt[a][u]
              /\ variableDebt' = [variableDebt EXCEPT ![a][u] = @ - scaled]
              /\ stableDebt' = [stableDebt EXCEPT ![a][u] = @ + debt]
      /\ UNCHANGED <<aTokenBalance, liquidity, accruedToTreasury, liquidityIndex,
                     variableBorrowIndex>>
  BY DEF SwapBorrowRateMode, indices, underlying
<1>3. mode = "STABLE" => debt <= stableDebt[a][u]
  BY DebtTypes DEF DebtOfMode
<1> HIDE DEF debt
<1>4. scaled \in Nat /\ (variableBorrowIndex[a] = RAY => scaled = debt)
  BY <1>1, RayIsNeutral, IndexFacts, RayDivType
<1> HIDE DEF scaled
<1> SUFFICES ASSUME NEW x \in Assets, liquidityIndex[x] = RAY, variableBorrowIndex[x] = RAY
             PROVE  Claims(x)' <= Means(x)'
  BY <1>2 DEF Covered
<1> DEFINE dx == IF x = a THEN debt ELSE 0
<1>5. /\ stableDebt[x] \in [Users -> Nat] /\ stableDebt'[x] \in [Users -> Nat]
      /\ variableDebt[x] \in [Users -> Nat] /\ variableDebt'[x] \in [Users -> Nat]
      /\ dx \in Nat
  BY <1>1 DEF TypeOK
<1>6. stableDebt \in [Assets -> [Users -> Nat]] /\ variableDebt \in [Assets -> [Users -> Nat]]
  BY DEF TypeOK
<1>7. /\ SumFunction(stableDebt'[x]) \in Nat /\ SumFunction(variableDebt'[x]) \in Nat
      /\ SumFunction(stableDebt[x]) \in Nat /\ SumFunction(variableDebt[x]) \in Nat
  BY <1>5, UsersAreFinite, TotalIsNat
<1>8. Owed(x)' = Owed(x)
  <2>1. CASE mode = "STABLE"
    <3>1. /\ stableDebt[x][u] = stableDebt'[x][u] + dx
          /\ \A w \in Users \ {u} : stableDebt[x][w] = stableDebt'[x][w]
      BY <1>1, <1>2, <1>3, <1>5, <1>6, <2>1
    <3>2. /\ variableDebt'[x][u] = variableDebt[x][u] + dx
          /\ \A w \in Users \ {u} : variableDebt'[x][w] = variableDebt[x][w]
      BY <1>1, <1>2, <1>4, <1>5, <1>6, <2>1
    <3> HIDE DEF dx
    <3>3. SumFunction(stableDebt[x]) = SumFunction(stableDebt'[x]) + dx
      BY <1>5, <3>1, UsersAreFinite, TotalRaised
    <3>4. SumFunction(variableDebt'[x]) = SumFunction(variableDebt[x]) + dx
      BY <1>5, <3>2, UsersAreFinite, TotalRaised
    <3> QED
      BY <1>5, <1>7, <3>3, <3>4 DEF Owed
  <2>2. CASE mode # "STABLE"
    <3>1. /\ stableDebt'[x][u] = stableDebt[x][u] + dx
          /\ \A w \in Users \ {u} : stableDebt'[x][w] = stableDebt[x][w]
      BY <1>1, <1>2, <1>5, <1>6, <2>2
    <3>2. /\ variableDebt[x][u] = variableDebt'[x][u] + dx
          /\ \A w \in Users \ {u} : variableDebt[x][w] = variableDebt'[x][w]
      BY <1>1, <1>2, <1>4, <1>5, <1>6, <2>2
    <3> HIDE DEF dx
    <3>3. SumFunction(stableDebt'[x]) = SumFunction(stableDebt[x]) + dx
      BY <1>5, <3>1, UsersAreFinite, TotalRaised
    <3>4. SumFunction(variableDebt[x]) = SumFunction(variableDebt'[x]) + dx
      BY <1>5, <3>2, UsersAreFinite, TotalRaised
    <3> QED
      BY <1>5, <1>7, <3>3, <3>4 DEF Owed
  <2> QED
    BY <2>1, <2>2
<1> QED
  BY <1>2, <1>8 DEF Covered, Claims, Means

\* The share of the treasury becomes aTokens.
LEMMA MintToTreasuryKeepsCover ==
    ASSUME TypeOK, Covered, NEW a \in Assets, MintToTreasury(a)
    PROVE  Covered'
<1> DEFINE i == liquidityIndex[a]
           scaled == RayDiv(RayMul(accruedToTreasury[a], i), i)
<1>1. TypeOK' /\ Treasury \in Accounts /\ accruedToTreasury[a] \in Nat
  BY MintToTreasuryType, UsersAreAccounts DEF TypeOK
<1>2. scaled = accruedToTreasury[a]
  BY <1>1, IndexFacts, RayDivOfRayMul
<1>3. /\ accruedToTreasury' = [accruedToTreasury EXCEPT ![a] = 0]
      /\ aTokenBalance' = [aTokenBalance EXCEPT ![a][Treasury] = @ + scaled]
      /\ UNCHANGED <<liquidity, stableDebt, variableDebt, liquidityIndex, variableBorrowIndex>>
  BY DEF MintToTreasury, underlying
<1> HIDE DEF scaled
<1> SUFFICES ASSUME NEW x \in Assets PROVE Claims(x)' = Claims(x)
  BY <1>3 DEF Covered, Means, Owed
<1> DEFINE dx == IF x = a THEN scaled ELSE 0
<1>4. dx \in Nat /\ accruedToTreasury[x] = accruedToTreasury'[x] + dx
  BY <1>1, <1>2, <1>3 DEF TypeOK
<1>5. SumFunction(aTokenBalance'[x]) = SumFunction(aTokenBalance[x]) + dx
  <2>1. /\ aTokenBalance[x] \in [Accounts -> Nat] /\ aTokenBalance'[x] \in [Accounts -> Nat]
        /\ aTokenBalance'[x][Treasury] = aTokenBalance[x][Treasury] + dx
        /\ \A w \in Accounts \ {Treasury} : aTokenBalance'[x][w] = aTokenBalance[x][w]
    BY <1>1, <1>2, <1>3 DEF TypeOK
  <2> HIDE DEF dx
  <2> QED
    BY <1>1, <1>4, <2>1, AccountsAreFinite, TotalRaised
<1>6. accruedToTreasury'[x] \in Nat
  BY <1>1 DEF TypeOK
<1> HIDE DEF dx
<1> QED
  BY <1>4, <1>5, <1>6, SheetTypes DEF Claims

\* A liquidation pays the fee out of the borrower's own balance.
LEMMA PayFeeTotal ==
    ASSUME NEW balances \in [Accounts -> Nat], NEW u \in Users, NEW fee \in Nat,
           NEW index \in Nat \ {0}, index >= RAY
    PROVE  SumFunction(PayFee(balances, u, fee, index)) = SumFunction(balances)
<1> DEFINE wanted == RayDiv(fee, index)
           paid == IF wanted > balances[u]
                   THEN RayDiv(RayMul(balances[u], index), index) ELSE wanted
<1>1. wanted \in Nat /\ balances[u] \in Nat /\ u \in Accounts /\ Treasury \in Accounts
  BY RayDivType, UsersAreAccounts
<1>2. RayDiv(RayMul(balances[u], index), index) = balances[u]
  BY <1>1, RayDivOfRayMul
<1>3. paid \in Nat /\ paid <= balances[u]
  <2> HIDE DEF wanted
  <2> QED
    BY <1>1, <1>2
<1>4. PayFee(balances, u, fee, index) =
        IF fee = 0 THEN balances ELSE MoveBalance(balances, u, Treasury, paid)
  BY DEF PayFee
<1> HIDE DEF paid
<1>5. SumFunction(MoveBalance(balances, u, Treasury, paid)) = SumFunction(balances)
  BY <1>1, <1>3, AccountsAreFinite, MovedTotal
<1> QED
  BY <1>4, <1>5

\* The debt tokens of the borrower are burnt for the debt that is repaid.
LEMMA BurnDebtTokensLowersOwed ==
    ASSUME TypeOK, NEW u \in Users, NEW d \in Assets, NEW debt \in Nat,
           BurnDebtTokens(u, d, debt), NEW x \in Assets, variableBorrowIndex[x] = RAY
    PROVE  Owed(x)' \in Nat /\ Owed(x) = Owed(x)' + IF x = d THEN debt ELSE 0
<1> DEFINE variable == VariableDebtOf(d, u)
           burnt == IF variable < debt THEN variable ELSE debt
           scaled == RayDiv(burnt, variableBorrowIndex[d])
           rest == debt - burnt
           dv == IF x = d THEN scaled ELSE 0
           ds == IF x = d THEN rest ELSE 0
<1>1. variable \in Nat
  BY DebtTypes
<1>2. /\ scaled <= variableDebt[d][u]
      /\ rest <= stableDebt[d][u]
      /\ variableDebt' = [variableDebt EXCEPT ![d][u] = @ - scaled]
      /\ stableDebt' = [stableDebt EXCEPT ![d][u] = @ - rest]
  BY DEF BurnDebtTokens
<1> HIDE DEF variable
<1>3. burnt \in Nat /\ rest \in Nat /\ burnt + rest = debt
  BY <1>1
<1> HIDE DEF burnt
<1>4. scaled \in Nat /\ (x = d => scaled = burnt)
  BY <1>3, RayIsNeutral, IndexFacts, RayDivType
<1> HIDE DEF scaled, rest
<1>5. /\ stableDebt[x] \in [Users -> Nat] /\ stableDebt'[x] \in [Users -> Nat]
      /\ variableDebt[x] \in [Users -> Nat] /\ variableDebt'[x] \in [Users -> Nat]
  BY BurnDebtTokensType DEF TypeOK
<1>6. stableDebt \in [Assets -> [Users -> Nat]] /\ variableDebt \in [Assets -> [Users -> Nat]]
  BY DEF TypeOK
<1>7. dv \in Nat /\ ds \in Nat /\ dv + ds = IF x = d THEN debt ELSE 0
  BY <1>3, <1>4
<1>8. /\ stableDebt[x][u] = stableDebt'[x][u] + ds
      /\ \A w \in Users \ {u} : stableDebt[x][w] = stableDebt'[x][w]
  BY <1>2, <1>3, <1>5, <1>6
<1>9. /\ variableDebt[x][u] = variableDebt'[x][u] + dv
      /\ \A w \in Users \ {u} : variableDebt[x][w] = variableDebt'[x][w]
  BY <1>2, <1>4, <1>5, <1>6
<1> HIDE DEF dv, ds
<1>10. SumFunction(stableDebt[x]) = SumFunction(stableDebt'[x]) + ds
  BY <1>5, <1>7, <1>8, UsersAreFinite, TotalRaised
<1>11. SumFunction(variableDebt[x]) = SumFunction(variableDebt'[x]) + dv
  BY <1>5, <1>7, <1>9, UsersAreFinite, TotalRaised
<1>12. SumFunction(stableDebt'[x]) \in Nat /\ SumFunction(variableDebt'[x]) \in Nat
  BY <1>5, UsersAreFinite, TotalIsNat
<1>13. Owed(x)' \in Nat /\ Owed(x) = Owed(x)' + (dv + ds)
  BY <1>7, <1>10, <1>11, <1>12 DEF Owed
<1> QED
  BY <1>7, <1>13

\* A liquidation, in aTokens or underlying, of one reserve or of two.
LEMMA LiquidationKeepsCover ==
    ASSUME TypeOK, Covered, NEW l \in Users, NEW u \in Users, NEW c \in Assets, NEW d \in Assets,
           NEW n \in Amounts \cup {MaxUint}, NEW b \in BOOLEAN,
           LiquidationCall(l, u, c, d, n, b)
    PROVE  Covered'
<1> DEFINE taken == Liquidated(Position(u), c, d, n)
           scaled == RayDiv(taken.collateral, liquidityIndex[c])
           seized == IF b THEN MoveBalance(aTokenBalance[c], u, l, scaled)
                     ELSE [aTokenBalance[c] EXCEPT ![u] = @ - scaled]
           pooled == [liquidity EXCEPT ![c] = IF b THEN @ ELSE @ - taken.collateral]
<1>1. ValidateLiquidationCall(u, c, d) /\ n \in Nat /\ u \in Accounts /\ l \in Accounts
  BY Bounds, InitialValues, UsersAreAccounts DEF LiquidationCall
<1>2. taken.collateral \in Nat /\ taken.fee \in Nat /\ taken.debt \in Nat
  BY <1>1, LiquidatedBounds
<1>3. /\ scaled <= aTokenBalance[c][u]
      /\ b \/ taken.collateral <= liquidity[c]
      /\ BurnDebtTokens(u, d, taken.debt)
      /\ aTokenBalance' = [aTokenBalance EXCEPT ![c] =
                             PayFee(seized, u, taken.fee, liquidityIndex[c])]
      /\ liquidity' = [pooled EXCEPT ![d] = @ + taken.debt]
      /\ UNCHANGED <<accruedToTreasury, liquidityIndex, variableBorrowIndex>>
  BY DEF LiquidationCall, indices
<1> HIDE DEF taken
<1>4. scaled \in Nat /\ (liquidityIndex[c] = RAY => scaled = taken.collateral)
  BY <1>2, RayIsNeutral, IndexFacts, RayDivType
<1> HIDE DEF scaled
<1> DEFINE out == IF b THEN 0 ELSE scaled
<1>5. aTokenBalance \in [Assets -> [Accounts -> Nat]] /\ liquidity \in [Assets -> Nat]
  BY DEF TypeOK
<1>6. /\ seized \in [Accounts -> Nat]
      /\ SumFunction(aTokenBalance[c]) = SumFunction(seized) + out
  <2>1. aTokenBalance[c] \in [Accounts -> Nat] /\ SumFunction(aTokenBalance[c]) \in Nat
    BY <1>5, SheetTypes
  <2>2. CASE b
    <3>1. MoveBalance(aTokenBalance[c], u, l, scaled) \in [Accounts -> Nat]
      BY <1>1, <1>3, <1>4, <2>1, MoveBalanceType
    <3>2. SumFunction(MoveBalance(aTokenBalance[c], u, l, scaled)) = SumFunction(aTokenBalance[c])
      BY <1>1, <1>3, <1>4, <2>1, AccountsAreFinite, MovedTotal
    <3> QED
      BY <2>1, <2>2, <3>1, <3>2
  <2>3. CASE ~b
    <3>1. /\ seized \in [Accounts -> Nat]
          /\ aTokenBalance[c][u] = seized[u] + scaled
          /\ \A w \in Accounts \ {u} : aTokenBalance[c][w] = seized[w]
      BY <1>1, <1>3, <1>4, <2>1, <2>3
    <3> HIDE DEF seized
    <3>2. SumFunction(aTokenBalance[c]) = SumFunction(seized) + scaled
      BY <1>1, <1>4, <2>1, <3>1, AccountsAreFinite, TotalRaised
    <3> QED
      BY <2>3, <3>1, <3>2
  <2> QED
    BY <2>2, <2>3
<1> HIDE DEF seized
<1> SUFFICES ASSUME NEW x \in Assets, liquidityIndex[x] = RAY, variableBorrowIndex[x] = RAY
             PROVE  Claims(x)' <= Means(x)'
  BY <1>3 DEF Covered
<1>7. Owed(x)' \in Nat /\ Owed(x) = Owed(x)' + IF x = d THEN taken.debt ELSE 0
  BY <1>2, <1>3, BurnDebtTokensLowersOwed
<1>8. /\ SumFunction(aTokenBalance'[x]) \in Nat
      /\ SumFunction(aTokenBalance[x])
           = SumFunction(aTokenBalance'[x]) + IF x = c THEN out ELSE 0
  <2>1. SumFunction(PayFee(seized, u, taken.fee, liquidityIndex[c])) = SumFunction(seized)
    BY <1>2, <1>6, IndexFacts, PayFeeTotal
  <2>2. aTokenBalance'[x] = IF x = c THEN PayFee(seized, u, taken.fee, liquidityIndex[c])
                            ELSE aTokenBalance[x]
    BY <1>3, <1>5
  <2>3. SumFunction(seized) \in Nat /\ SumFunction(aTokenBalance[x]) \in Nat
    BY <1>6, AccountsAreFinite, TotalIsNat, SheetTypes
  <2> HIDE DEF out
  <2> QED
    BY <1>6, <2>1, <2>2, <2>3
<1>9. liquidity'[x] + (IF x = c THEN out ELSE 0)
        = liquidity[x] + (IF x = d THEN taken.debt ELSE 0)
  <2>1. pooled \in [Assets -> Nat] /\ (x = c => pooled[x] + out = liquidity[x])
                                   /\ (x # c => pooled[x] = liquidity[x])
    <3>1. x = c => out = IF b THEN 0 ELSE taken.collateral
      BY <1>4
    <3>2. pooled \in [Assets -> Nat]
      <4>1. ~b => liquidity[c] - taken.collateral \in Nat
        BY <1>2, <1>3, <1>5
      <4> QED
        BY <1>2, <1>5, <4>1
    <3> QED
      BY <1>2, <1>3, <1>5, <3>1, <3>2
  <2>2. liquidity'[x] = pooled[x] + IF x = d THEN taken.debt ELSE 0
    <3> HIDE DEF pooled
    <3> QED
      BY <1>2, <1>3, <2>1
  <2>3. out \in Nat /\ pooled[x] \in Nat
    BY <1>4, <2>1
  <2> HIDE DEF out, pooled
  <2> QED
    BY <1>2, <2>1, <2>2, <2>3
<1>10. out \in Nat /\ liquidity'[x] \in Nat
  <2>1. TypeOK'
    BY LiquidationCallType
  <2> QED
    BY <1>4, <2>1 DEF TypeOK
<1>11. Claims(x) <= Means(x)
  BY DEF Covered
<1> HIDE DEF out, pooled
<1> QED
  BY <1>2, <1>3, <1>7, <1>8, <1>9, <1>10, <1>11, SheetTypes DEF Means, Claims

\* Indices do not fall.
LEMMA LaterIndexGrows ==
    ASSUME NEW m \in Nat, NEW k \in LaterIndices(m) PROVE k \in Nat /\ k >= m
<1>1. IndexValues \subseteq Nat
  BY Bounds
<1> QED
  BY <1>1, SMT DEF LaterIndices

\* Interest: an index that changes leaves one ray for good, and what the
\* treasury gets of the interest of stable loans is no more than that interest.
LEMMA AccrueKeepsCover ==
    ASSUME TypeOK, Covered, NEW a \in Assets, Accrue(a)
    PROVE  Covered'
<1>1. PICK i \in LaterIndices(liquidityIndex[a]),
           j \in LaterIndices(variableBorrowIndex[a]),
           S \in SUBSET {u \in Users : stableDebt[a][u] \in 1 .. MaxStableDebt - 1},
           t \in TreasuryAccruals :
             /\ liquidityIndex' = [liquidityIndex EXCEPT ![a] = i]
             /\ variableBorrowIndex' = [variableBorrowIndex EXCEPT ![a] = j]
             /\ accruedToTreasury' = [accruedToTreasury EXCEPT ![a] = @ + t]
             /\ stableDebt' = [stableDebt EXCEPT ![a] =
                                 [u \in Users |-> IF u \in S THEN @[u] + 1 ELSE @[u]]]
             /\ UNCHANGED variableDebt
             /\ t <= TotalDebt(a)' - TotalDebt(a)
  BY Zenon DEF Accrue
<1>2. /\ UNCHANGED <<aTokenBalance, liquidity, variableDebt>>
      /\ TypeOK'
  BY <1>1, AccrueType, Zenon DEF Accrue, underlying
<1>3. t \in Nat
  BY Bounds
<1> SUFFICES ASSUME NEW x \in Assets, liquidityIndex'[x] = RAY, variableBorrowIndex'[x] = RAY
             PROVE  Claims(x)' <= Means(x)'
  BY DEF Covered
<1>4. liquidityIndex[x] = RAY /\ variableBorrowIndex[x] = RAY
  <2>1. /\ liquidityIndex[x] \in Nat /\ liquidityIndex[x] >= RAY
        /\ variableBorrowIndex[x] \in Nat /\ variableBorrowIndex[x] >= RAY
        /\ RAY \in Nat
    BY IndexFacts, ScalesAreEven
  <2>2. /\ liquidityIndex'[x] = IF x = a THEN i ELSE liquidityIndex[x]
        /\ variableBorrowIndex'[x] = IF x = a THEN j ELSE variableBorrowIndex[x]
    BY <1>1 DEF TypeOK
  <2>4. x = a => i \in Nat /\ j \in Nat /\ i >= liquidityIndex[x] /\ j >= variableBorrowIndex[x]
    BY <2>1, LaterIndexGrows
  <2> QED
    BY <2>1, <2>2, <2>4
<1>5. Claims(x) <= Means(x)
  BY <1>4 DEF Covered
<1>6. CASE x # a
  <2>1. /\ stableDebt'[x] = stableDebt[x] /\ accruedToTreasury'[x] = accruedToTreasury[x]
    BY <1>1, <1>6 DEF TypeOK
  <2> QED
    BY <1>2, <1>5, <2>1 DEF Claims, Means, Owed
<1>7. CASE x = a
  <2>1. accruedToTreasury'[x] = accruedToTreasury[x] + t
    BY <1>1, <1>7 DEF TypeOK
  <2>2. Owed(x)' \in Nat
    <3>1. stableDebt'[x] \in [Users -> Nat] /\ variableDebt'[x] \in [Users -> Nat]
      BY <1>2 DEF TypeOK
    <3>2. SumFunction(stableDebt'[x]) \in Nat /\ SumFunction(variableDebt'[x]) \in Nat
      BY <3>1, UsersAreFinite, TotalIsNat
    <3> QED
      BY <3>2 DEF Owed
  <2>3. TotalDebt(x) = Owed(x) /\ TotalDebt(x)' = Owed(x)'
    <3>1. SumFunction(variableDebt[x]) \in Nat /\ SumFunction(variableDebt'[x]) \in Nat
      BY <1>2, SheetTypes
    <3>2. /\ RayMul(SumFunction(variableDebt[x]), RAY) = SumFunction(variableDebt[x])
          /\ RayMul(SumFunction(variableDebt'[x]), RAY) = SumFunction(variableDebt'[x])
      BY <3>1, RayIsNeutral
    <3> QED
      BY <1>4, <3>2 DEF TotalDebt, Owed
  <2>4. t <= Owed(x)' - Owed(x)
    BY <1>1, <1>7, <2>3
  <2> QED
    BY <1>2, <1>3, <1>5, <2>1, <2>2, <2>4, SheetTypes DEF Claims, Means
<1> QED
  BY <1>6, <1>7

\* Nothing is claimed at first.
LEMMA InitCovered == ASSUME Init PROVE Covered
<1> SUFFICES ASSUME NEW x \in Assets PROVE Claims(x) <= Means(x)
  BY DEF Covered
<1>1. /\ aTokenBalance[x] = [u \in Accounts |-> 0] /\ accruedToTreasury[x] = 0
  BY DEF Init
<1>2. SumFunction(aTokenBalance[x]) = 0
  BY <1>1, AccountsAreFinite, TotalOfZeros
<1>3. liquidity[x] \in Nat /\ Owed(x) \in Nat
  BY InitType, SheetTypes
<1> QED
  BY <1>1, <1>2, <1>3 DEF Claims, Means

\* The coverage is kept by every step ...
LEMMA NextKeepsCover ==
    ASSUME TypeOK, Covered, [Next]_vars
    PROVE  Covered'
<1>1. CASE SupplySteps
  <2>1. ASSUME NEW u \in Users, NEW a \in Assets, NEW b \in BOOLEAN,
               SetUserUseReserveAsCollateral(u, a, b)
        PROVE  Covered'
    BY <2>1 DEF SetUserUseReserveAsCollateral, Covered, Claims, Means, Owed,
       tokens, underlying, indices
  <2> QED
    BY <1>1, <2>1, SupplyKeepsCover, WithdrawKeepsCover, TransferKeepsCover,
       SupplyRecipients DEF SupplySteps
<1>2. CASE BorrowSteps
  BY <1>2, BorrowKeepsCover, RepayKeepsCover, RepayWithATokensKeepsCover,
     SwapKeepsCover DEF BorrowSteps
<1>3. CASE LiquidationSteps
  BY <1>3, LiquidationKeepsCover DEF LiquidationSteps
<1>4. ASSUME NEW a \in Assets, MintToTreasury(a) PROVE Covered'
  BY <1>4, MintToTreasuryKeepsCover
<1>5. ASSUME NEW a \in Assets, Accrue(a) PROVE Covered'
  BY <1>5, AccrueKeepsCover
<1>6. ASSUME \/ \E d \in Delegations :
                  ApproveDelegation(d.delegator, d.delegatee, d.asset, d.mode, d.amount)
             \/ \E u \in Users, k \in Categories \cup {0} : SetUserEMode(u, k)
             \/ \E s \in Assets \cup PriceSources : \E q \in Prices[s] : SetPrice(s, q)
             \/ SetSentinel
             \/ UNCHANGED vars
      PROVE  Covered'
  <2>1. UNCHANGED <<aTokenBalance, variableDebt, stableDebt, liquidity, accruedToTreasury,
                    liquidityIndex, variableBorrowIndex>>
    BY <1>6 DEF ApproveDelegation, SetUserEMode, SetPrice, SetSentinel, vars,
       tokens, underlying, indices
  <2> QED
    BY <2>1 DEF Covered, Claims, Means, Owed
<1> QED
  BY <1>1, <1>2, <1>3, <1>4, <1>5, <1>6 DEF Next, EnvironmentSteps

\* ... and is the backing, as debts at one ray are the scaled ones.
LEMMA CoveredIsBacked ==
    ASSUME TypeOK, Covered
    PROVE  ATokensBacked
<1> SUFFICES ASSUME NEW x \in Assets, variableBorrowIndex[x] = RAY,
                    Claims(x) <= Means(x)
             PROVE  ScaledTotalSupply(x) + accruedToTreasury[x] <= liquidity[x] + TotalDebt(x)
  BY DEF Covered, ATokensBacked
<1>1. RayMul(SumFunction(variableDebt[x]), RAY) = SumFunction(variableDebt[x])
  BY SheetTypes, RayIsNeutral
<1> QED
  BY <1>1 DEF Claims, Means, Owed, ScaledTotalSupply, TotalDebt

\* No sequence of calls at whatever prices -- deposits, loans in both modes and
\* swaps between them, repayments in aTokens, liquidations with their bonus,
\* fee and rounding, withdrawals to the aToken itself -- lets the balances and
\* the treasury's share exceed the underlying and the debts, as long as the
\* reserve has accrued no interest at an index.
THEOREM Backed == Spec => []ATokensBacked
<1>1. Init => TypeOK /\ Covered
  BY InitType, InitCovered
<1>2. TypeOK /\ Covered /\ [Next]_vars => (TypeOK /\ Covered)'
  BY NextType, NextKeepsCover
<1>3. TypeOK /\ Covered => ATokensBacked
  BY CoveredIsBacked
<1> QED
  BY <1>1, <1>2, <1>3, PTL DEF Spec

-----------------------------------------------------------------------------
(* Health.  What a position is worth as collateral, per asset, and what it *)
(* owes in total decide its health factor; so an operation can make a user *)
(* liquidatable only through one of the two.                               *)

\* A position with the types of a stored one.
Positions ==
    [collateral : SUBSET Assets, borrowing : SUBSET Assets,
     eMode : Categories \cup {0}, aToken : [Assets -> Nat], debt : [Assets -> Nat]]

\* What an asset counts for as collateral.
Worth(p) ==
    [a \in Assets |-> IF a \in CollateralAssets(p) THEN CollateralInBase(p)[a] ELSE 0]

\* The threshold that counts for an asset in the position's category.
ThresholdIn(category) ==
    [a \in Assets |->
        IF category # 0 /\ configuration[a].eModeCategory = category
        THEN eModeCategories[category].liquidationThreshold
        ELSE configuration[a].liquidationThreshold]

\* Prices are positive, thresholds natural numbers.
LEMMA PositionPrices ==
    ASSUME TypeOK, NEW p \in Positions, NEW a \in Assets
    PROVE  /\ PriceFor(p, a) \in Nat
           /\ ThresholdIn(p.eMode)[a] \in Nat
           /\ configuration[a].unit \in Nat \ {0}
<1>1. p.eMode \in Categories \cup {0}
  BY DEF Positions
<1>2. p.eMode # 0 => eModeCategories[p.eMode] \in EModeCategories
  BY <1>1 DEF TypeOK
<1>3. PriceSourceOf(p.eMode) # NoPriceSource => PriceSourceOf(p.eMode) \in Assets \cup PriceSources
  BY <1>2 DEF PriceSourceOf, EModeCategories
<1>4. \A s \in Assets \cup PriceSources : price[s] \in Nat
  BY DEF TypeOK
<1>5. PriceFor(p, a) \in Nat
  BY <1>3, <1>4 DEF PriceFor
<1>6. configuration[a].liquidationThreshold \in Nat
  BY ConfigurationTypes DEF ReserveConfigurations, ReserveConfigurationMap
<1>7. p.eMode # 0 => eModeCategories[p.eMode].liquidationThreshold \in Nat
  BY <1>2 DEF EModeCategories
<1>8. ThresholdIn(p.eMode)[a] \in Nat
  BY <1>6, <1>7 DEF ThresholdIn
<1> QED
  BY <1>5, <1>8, ConfigurationTypes

\* Collateral and debts in base currency are natural numbers.
LEMMA PositionValues ==
    ASSUME TypeOK, NEW p \in Positions
    PROVE  /\ CollateralAssets(p) \in SUBSET Assets
           /\ \A a \in Assets : /\ CollateralInBase(p)[a] \in Nat
                                /\ DebtInBase(p)[a] \in Nat
                                /\ Worth(p)[a] \in Nat
           /\ TotalCollateralInBase(p) \in Nat
           /\ TotalDebtInBase(p) \in Nat
<1>1. CollateralAssets(p) \in SUBSET Assets /\ p.borrowing \in SUBSET Assets
  BY DEF CollateralAssets, Positions
<1>2. ASSUME NEW a \in Assets
      PROVE  CollateralInBase(p)[a] \in Nat /\ DebtInBase(p)[a] \in Nat
  <2>1. PriceFor(p, a) \in Nat /\ configuration[a].unit \in Nat \ {0}
    BY PositionPrices
  <2>2. p.aToken[a] \in Nat /\ p.debt[a] \in Nat
    BY DEF Positions
  <2>3. \A x, y \in Nat : x * y \in Nat
    BY SMT
  <2>4. p.aToken[a] * PriceFor(p, a) \in Nat /\ PriceFor(p, a) * p.debt[a] \in Nat
    BY <2>1, <2>2, <2>3
  <2> QED
    BY <2>1, <2>4, QuotientBounds DEF CollateralInBase, DebtInBase
<1>3. IsFiniteSet(CollateralAssets(p)) /\ IsFiniteSet(p.borrowing)
  BY <1>1, AssetsAreFinite, FS_Subset
<1>4. TotalCollateralInBase(p) \in Nat
  BY <1>1, <1>2, <1>3, SumIsNat DEF TotalCollateralInBase
<1>5. TotalDebtInBase(p) \in Nat
  BY <1>1, <1>2, <1>3, SumIsNat DEF TotalDebtInBase
<1> QED
  BY <1>1, <1>2, <1>4, <1>5 DEF Worth

\* Total and average are sums over all reserves of what counts.
LEMMA TotalsOfWorth ==
    ASSUME TypeOK, NEW p \in Positions
    PROVE  /\ TotalCollateralInBase(p) = SumFunctionOnSet(Worth(p), Assets)
           /\ AvgLiquidationThreshold(p) =
                IF TotalCollateralInBase(p) = 0 THEN 0
                ELSE SumFunctionOnSet([a \in Assets |->
                         Worth(p)[a] * ThresholdIn(p.eMode)[a]], Assets)
                       \div TotalCollateralInBase(p)
<1> DEFINE S == CollateralAssets(p)
           thresholds == [a \in Assets |->
               IF InEMode(p, a) THEN eModeCategories[p.eMode].liquidationThreshold
                                ELSE configuration[a].liquidationThreshold]
           weighted == [a \in Assets |-> CollateralInBase(p)[a] * thresholds[a]]
           counted == [a \in Assets |-> Worth(p)[a] * ThresholdIn(p.eMode)[a]]
<1>1. S \in SUBSET Assets /\ \A a \in Assets : CollateralInBase(p)[a] \in Nat
  BY PositionValues
<1>2. TotalCollateralInBase(p) = SumFunctionOnSet(Worth(p), Assets)
  <2>1. \A a \in Assets : Worth(p)[a] = IF a \in S THEN CollateralInBase(p)[a] ELSE 0
    BY DEF Worth
  <2>2. \A a \in S : CollateralInBase(p)[a] \in Nat
    BY <1>1
  <2> HIDE DEF S
  <2>3. SumFunctionOnSet(CollateralInBase(p), S) = SumFunctionOnSet(Worth(p), Assets)
    BY <1>1, <2>1, <2>2, AssetsAreFinite, SumOfPart
  <2> QED
    BY <2>3 DEF TotalCollateralInBase, S
<1>3. \A a \in Assets : thresholds[a] = ThresholdIn(p.eMode)[a]
  BY DEF ThresholdIn, InEMode
<1>4. \A a \in Assets : thresholds[a] \in Nat
  BY <1>3, PositionPrices
<1> HIDE DEF thresholds
<1>5. ASSUME NEW a \in Assets
      PROVE  counted[a] = IF a \in S THEN weighted[a] ELSE 0
  <2>1. ThresholdIn(p.eMode)[a] \in Nat /\ thresholds[a] = ThresholdIn(p.eMode)[a]
    BY <1>3, PositionPrices
  <2>2. Worth(p)[a] = IF a \in S THEN CollateralInBase(p)[a] ELSE 0
    BY DEF Worth
  <2> HIDE DEF S
  <2> QED
    BY <2>1, <2>2
<1>6. \A a \in S : weighted[a] \in Nat
  <2>1. \A x, y \in Nat : x * y \in Nat
    BY SMT
  <2> QED
    BY <1>1, <1>4, <2>1
<1>7. SumFunctionOnSet(weighted, S) = SumFunctionOnSet(counted, Assets)
  <2> HIDE DEF weighted, counted, S
  <2> QED
    BY <1>1, <1>5, <1>6, AssetsAreFinite, SumOfPart
<1>8. AvgLiquidationThreshold(p) =
        IF TotalCollateralInBase(p) = 0 THEN 0
        ELSE SumFunctionOnSet(weighted, S) \div TotalCollateralInBase(p)
  BY DEF AvgLiquidationThreshold, WeightedAverage, TotalCollateralInBase, thresholds
<1> QED
  BY <1>2, <1>7, <1>8

\* Who owes less is no less healthy, with the rounding to the nearest unit.
LEMMA WadDivOrder ==
    ASSUME NEW n \in Nat, NEW d \in Nat \ {0}, NEW e \in Nat \ {0}, e <= d,
           WadDiv(n, d) >= WAD
    PROVE  WadDiv(n, e) >= WAD
<1> DEFINE p == WadDiv(n, d)
           q == WadDiv(n, e)
           dHalf == d \div 2
           eHalf == e \div 2
           nWad == n * WAD
<1>1. WAD \in Nat \ {0}
  BY ScalesAreEven
<1>2. nWad \in Nat
  BY <1>1, SMT
<1>3. /\ dHalf \in Nat /\ 2 * dHalf <= d /\ d < 2 * dHalf + 2
      /\ eHalf \in Nat /\ 2 * eHalf <= e /\ e < 2 * eHalf + 2
  BY SMT
<1>4. /\ p \in Nat /\ d * p <= nWad + dHalf
      /\ q \in Nat /\ nWad + eHalf < e * q + e
  <2>1. nWad + dHalf \in Nat /\ nWad + eHalf \in Nat
    BY <1>2, <1>3
  <2> HIDE DEF nWad, dHalf, eHalf
  <2> QED
    BY <2>1, QuotientBounds DEF WadDiv, nWad, dHalf, eHalf
<1>5. p >= WAD
  OBVIOUS
<1> HIDE DEF p, q, dHalf, eHalf, nWad
<1> SUFFICES ASSUME q < WAD PROVE FALSE
  BY <1>1, <1>4 DEF q
<1>6. d * WAD <= d * p
  BY <1>1, <1>4, <1>5, SMT
<1>7. e * q + e <= e * WAD
  <2>1. q + 1 <= WAD
    BY <1>1, <1>4
  <2>2. e * (q + 1) <= e * WAD
    BY <1>1, <1>4, <2>1, SMT
  <2> QED
    BY <1>4, <2>2, SMT
<1>8. PICK more \in Nat : d = e + more
  <2>1. d - e \in Nat /\ d = e + (d - e)
    OBVIOUS
  <2> QED
    BY <2>1
<1>9. more * WAD >= more /\ d * WAD = e * WAD + more * WAD
  BY <1>1, <1>8, SMT
<1>10. d * WAD \in Nat /\ e * WAD \in Nat /\ more * WAD \in Nat /\ d * p \in Nat /\ e * q \in Nat
  BY <1>1, <1>4, <1>8, SMT
<1> QED
  BY <1>2, <1>3, <1>4, <1>6, <1>7, <1>8, <1>9, <1>10

\* The health factor knows of the collateral only what it is worth.
LEMMA HealthOfWorth ==
    ASSUME TypeOK, NEW p \in Positions, NEW q \in Positions, q.eMode = p.eMode,
           \A a \in Assets : Worth(q)[a] = Worth(p)[a],
           TotalDebtInBase(q) <= TotalDebtInBase(p), Healthy(p)
    PROVE  Healthy(q)
<1>1. Worth(q) = Worth(p)
  BY DEF Worth
<1>2. /\ TotalCollateralInBase(q) = TotalCollateralInBase(p)
      /\ AvgLiquidationThreshold(q) = AvgLiquidationThreshold(p)
  BY <1>1, TotalsOfWorth
<1> DEFINE n == PercentMul(TotalCollateralInBase(p), AvgLiquidationThreshold(p))
           d == TotalDebtInBase(p)
           e == TotalDebtInBase(q)
<1>3. n \in Nat
  <2>1. TotalCollateralInBase(p) \in Nat /\ \A a \in Assets : Worth(p)[a] \in Nat
    BY PositionValues
  <2> DEFINE counted == [a \in Assets |-> Worth(p)[a] * ThresholdIn(p.eMode)[a]]
  <2>2. SumFunctionOnSet(counted, Assets) \in Nat
    <3>1. \A x, y \in Nat : x * y \in Nat
      BY SMT
    <3>2. \A a \in Assets : counted[a] \in Nat
      BY <2>1, <3>1, PositionPrices
    <3> HIDE DEF counted
    <3> QED
      BY <3>2, AssetsAreFinite, SumIsNat
  <2>3. AvgLiquidationThreshold(p) \in Nat
    <3>1. AvgLiquidationThreshold(p) = IF TotalCollateralInBase(p) = 0 THEN 0
            ELSE SumFunctionOnSet(counted, Assets) \div TotalCollateralInBase(p)
      BY TotalsOfWorth
    <3> HIDE DEF counted
    <3> QED
      BY <2>1, <2>2, <3>1, QuotientBounds
  <2> QED
    BY <2>1, <2>3, PercentMulType
<1>4. d \in Nat /\ e \in Nat /\ e <= d
  BY PositionValues
<1>5. (IF d = 0 THEN MaxUint ELSE WadDiv(n, d)) >= WAD
  BY DEF Healthy, HealthFactor
<1>6. HealthFactor(q) = IF e = 0 THEN MaxUint ELSE WadDiv(n, e)
  BY <1>2 DEF HealthFactor
<1> HIDE DEF n, d, e
<1>7. MaxUint >= WAD
  BY InitialValues, ScalesAreEven
<1>8. CASE e = 0
  BY <1>6, <1>7, <1>8 DEF Healthy
<1>9. CASE e # 0
  <2>1. d # 0 /\ WadDiv(n, d) >= WAD
    BY <1>4, <1>5, <1>9
  <2>2. WadDiv(n, e) >= WAD
    BY <1>3, <1>4, <1>9, <2>1, WadDivOrder
  <2> QED
    BY <1>6, <1>9, <2>2 DEF Healthy
<1> QED
  BY <1>8, <1>9

\* A position nothing was taken from, and that owes no more, stays healthy
\* unless it became worth more: then the average threshold can be a lower one.
LEMMA NothingTaken ==
    ASSUME TypeOK, NEW p \in Positions, NEW q \in Positions, q.eMode = p.eMode,
           \A a \in p.collateral : a \in q.collateral /\ p.aToken[a] <= q.aToken[a],
           TotalCollateralInBase(q) <= TotalCollateralInBase(p),
           TotalDebtInBase(q) <= TotalDebtInBase(p), Healthy(p)
    PROVE  Healthy(q)
<1>1. ASSUME NEW a \in Assets
      PROVE  /\ Worth(p)[a] \in Nat /\ Worth(q)[a] \in Nat
             /\ Worth(p)[a] <= Worth(q)[a]
  <2>1. Worth(p)[a] \in Nat /\ Worth(q)[a] \in Nat
    BY PositionValues
  <2>2. CASE a \in CollateralAssets(p)
    <3>1. a \in CollateralAssets(q) /\ p.aToken[a] <= q.aToken[a]
      BY <2>2 DEF CollateralAssets
    <3>2. PriceFor(q, a) = PriceFor(p, a)
      BY DEF PriceFor, InEMode
    <3>3. /\ PriceFor(p, a) \in Nat /\ configuration[a].unit \in Nat \ {0}
          /\ p.aToken[a] \in Nat /\ q.aToken[a] \in Nat
      BY PositionPrices DEF Positions
    <3>4. ASSUME NEW x \in Nat, NEW y \in Nat, NEW z \in Nat, NEW u \in Nat \ {0}, x <= y
          PROVE  (x * z) \div u <= (y * z) \div u
      <4>1. x * z \in Nat /\ y * z \in Nat /\ x * z <= y * z
        BY <3>4, SMT
      <4> QED
        BY <4>1, QuotientMonotone
    <3>5. (p.aToken[a] * PriceFor(p, a)) \div configuration[a].unit
            <= (q.aToken[a] * PriceFor(p, a)) \div configuration[a].unit
      BY <3>1, <3>3, <3>4
    <3> QED
      BY <2>1, <2>2, <3>1, <3>2, <3>5 DEF Worth, CollateralInBase
  <2>3. CASE a \notin CollateralAssets(p)
    <3>1. Worth(p)[a] = 0
      BY <2>3 DEF Worth
    <3> QED
      BY <2>1, <3>1
  <2> QED
    BY <2>2, <2>3
<1>2. SumFunctionOnSet(Worth(q), Assets) <= SumFunctionOnSet(Worth(p), Assets)
  BY TotalsOfWorth
<1>3. \A a \in Assets : Worth(p)[a] = Worth(q)[a]
  BY <1>1, <1>2, AssetsAreFinite, EqualSums
<1> QED
  BY <1>3, HealthOfWorth

\* Who owes nothing is healthy.
LEMMA NothingOwed ==
    ASSUME NEW q, q.borrowing = {}
    PROVE  Healthy(q)
<1>1. TotalDebtInBase(q) = 0
  BY SumOfNone DEF TotalDebtInBase
<1>2. MaxUint >= WAD
  BY InitialValues, ScalesAreEven
<1> QED
  BY <1>1, <1>2 DEF Healthy, HealthFactor

\* While prices and listing stay, a position of the next state is judged as
\* it would be now.
LEMMA JudgedAlike ==
    ASSUME price' = price, configuration' = configuration,
           eModeCategories' = eModeCategories,
           NEW w \in Users, NEW CONSTANT q, Position(w)' = q
    PROVE  /\ Healthy(Position(w))' <=> Healthy(q)
           /\ TotalCollateralInBase(Position(w))' = TotalCollateralInBase(q)
           /\ TotalDebtInBase(Position(w))' = TotalDebtInBase(q)
<1>1. TotalCollateralInBase(Position(w))' = TotalCollateralInBase(q)
  BY DEF TotalCollateralInBase, CollateralInBase, CollateralAssets, PriceFor, InEMode,
         PriceSourceOf
<1>2. TotalDebtInBase(Position(w))' = TotalDebtInBase(q)
  BY DEF TotalDebtInBase, DebtInBase, PriceFor, InEMode, PriceSourceOf
<1>3. AvgLiquidationThreshold(Position(w))' = AvgLiquidationThreshold(q)
  BY DEF AvgLiquidationThreshold, WeightedAverage, CollateralInBase, CollateralAssets,
         PriceFor, InEMode, PriceSourceOf
<1>4. HealthFactor(Position(w))' = HealthFactor(q)
  BY <1>1, <1>2, <1>3 DEF HealthFactor
<1> QED
  BY <1>1, <1>2, <1>4 DEF Healthy

\* A stored position has the types of one.
LEMMA PositionType == TypeOK => \A u \in Users : Position(u) \in Positions
<1>1. ASSUME TypeOK, NEW u \in Users PROVE Position(u) \in Positions
  <2>1. \A a \in Assets : BalanceOf(a, u) \in Nat /\ DebtOf(a, u) \in Nat
    BY <1>1, BalanceOfType, DebtTypes, UsersAreAccounts
  <2>2. /\ collateral[u] \in SUBSET Assets /\ borrowing[u] \in SUBSET Assets
        /\ usersEModeCategory[u] \in Categories \cup {0}
    BY <1>1 DEF TypeOK
  <2> QED
    BY <2>1, <2>2 DEF Position, Positions
<1> QED
  BY <1>1

\* ... also after a step.
LEMMA PositionTypeThen == (TypeOK => \A u \in Users : Position(u) \in Positions)'
  BY PositionType, PTL

\* What else may make a healthy position liquidatable: the market, a category
\* entered, more collateral, a loan or a debt in the other mode, which is rounded
\* anew, and paying with aTokens, which gives away collateral for as much debt.
MayTurn(u) ==
    \/ price' # price
    \/ \E a \in Assets : Accrue(a)
    \/ usersEModeCategory[u] = 0 /\ usersEModeCategory'[u] # 0
    \/ TotalCollateralInBase(Position(u))' > TotalCollateralInBase(Position(u))
    \/ \E a \in Assets, mode \in RateModes :
         \/ \E v \in Users, n \in Amounts : Borrow(v, u, a, n, mode)
         \/ \E n \in Amounts \cup {MaxUint} : RepayWithATokens(u, a, n, mode)
         \/ SwapBorrowRateMode(u, a, mode)

\* A step that leaves the collateral of a user alone, or adds to it.
NothingTakenFrom(u) ==
    /\ usersEModeCategory'[u] = usersEModeCategory[u]
    /\ liquidityIndex' = liquidityIndex
    /\ \A a \in collateral[u] : /\ a \in collateral'[u]
                                /\ aTokenBalance[a][u] <= aTokenBalance'[a][u]

\* A step that leaves the debts of a user alone, or lowers them.
NothingLentTo(u) ==
    /\ borrowing'[u] \subseteq borrowing[u]
    /\ variableBorrowIndex' = variableBorrowIndex
    /\ \A a \in Assets : /\ stableDebt'[a][u] <= stableDebt[a][u]
                          /\ variableDebt'[a][u] <= variableDebt[a][u]

\* In particular one that changes no debts at all.
LEMMA DebtsAlone ==
    ASSUME TypeOK, NEW w \in Users,
           UNCHANGED <<variableDebt, stableDebt, borrowing, variableBorrowIndex>>
    PROVE  NothingLentTo(w)
<1>1. \A a \in Assets : stableDebt[a][w] \in Nat /\ variableDebt[a][w] \in Nat
  BY DEF TypeOK
<1> QED
  BY <1>1 DEF NothingLentTo

\* Smaller debts of fewer reserves are a smaller total.
LEMMA LessOwed ==
    ASSUME TypeOK, NEW p \in Positions, NEW q \in Positions, q.eMode = p.eMode,
           q.borrowing \subseteq p.borrowing,
           \A a \in Assets : q.debt[a] <= p.debt[a]
    PROVE  TotalDebtInBase(q) <= TotalDebtInBase(p)
<1> DEFINE fewer == [a \in Assets |-> IF a \in q.borrowing THEN DebtInBase(q)[a] ELSE 0]
           more  == [a \in Assets |-> IF a \in p.borrowing THEN DebtInBase(p)[a] ELSE 0]
<1>1. q.borrowing \in SUBSET Assets /\ p.borrowing \in SUBSET Assets
  BY DEF Positions
<1>2. \A a \in Assets : DebtInBase(p)[a] \in Nat /\ DebtInBase(q)[a] \in Nat
  BY PositionValues
<1>3. ASSUME NEW a \in Assets PROVE DebtInBase(q)[a] <= DebtInBase(p)[a]
  <2>1. PriceFor(q, a) = PriceFor(p, a)
    BY DEF PriceFor, InEMode
  <2>2. /\ PriceFor(p, a) \in Nat /\ configuration[a].unit \in Nat \ {0}
        /\ p.debt[a] \in Nat /\ q.debt[a] \in Nat /\ q.debt[a] <= p.debt[a]
    BY PositionPrices DEF Positions
  <2>3. ASSUME NEW x \in Nat, NEW y \in Nat, NEW z \in Nat, NEW u \in Nat \ {0}, x <= y
        PROVE  (z * x) \div u <= (z * y) \div u
    <3>1. z * x \in Nat /\ z * y \in Nat /\ z * x <= z * y
      BY <2>3, SMT
    <3> QED
      BY <3>1, QuotientMonotone
  <2>4. (PriceFor(p, a) * q.debt[a]) \div configuration[a].unit
          <= (PriceFor(p, a) * p.debt[a]) \div configuration[a].unit
    BY <2>2, <2>3
  <2> QED
    BY <2>1, <2>4 DEF DebtInBase
<1>4. /\ TotalDebtInBase(q) = SumFunctionOnSet(fewer, Assets)
      /\ TotalDebtInBase(p) = SumFunctionOnSet(more, Assets)
  <2>1. /\ \A a \in Assets : fewer[a] = IF a \in q.borrowing THEN DebtInBase(q)[a] ELSE 0
        /\ \A a \in Assets : more[a] = IF a \in p.borrowing THEN DebtInBase(p)[a] ELSE 0
        /\ \A a \in q.borrowing : DebtInBase(q)[a] \in Nat
        /\ \A a \in p.borrowing : DebtInBase(p)[a] \in Nat
    BY <1>1, <1>2
  <2> HIDE DEF fewer, more
  <2> QED
    BY <1>1, <2>1, AssetsAreFinite, SumOfPart DEF TotalDebtInBase
<1>5. \A a \in Assets : fewer[a] \in Nat /\ more[a] \in Nat /\ fewer[a] <= more[a]
  BY <1>2, <1>3
<1> HIDE DEF fewer, more
<1> QED
  BY <1>4, <1>5, AssetsAreFinite, SumIsMonotonic

\* What the position after a step consists of.
LEMMA PositionThen ==
    ASSUME TypeOK', NEW w \in Users, NEW CONSTANT q, Position(w)' = q
    PROVE  /\ q \in Positions
           /\ q.collateral = collateral'[w] /\ q.borrowing = borrowing'[w]
           /\ q.eMode = usersEModeCategory'[w]
           /\ \A a \in Assets :
                /\ q.aToken[a] = RayMul(aTokenBalance'[a][w], liquidityIndex'[a])
                /\ q.debt[a] = stableDebt'[a][w] + RayMul(variableDebt'[a][w], variableBorrowIndex'[a])
<1>1. q \in Positions
  BY PositionTypeThen
<1>2. q = [collateral |-> collateral'[w], borrowing |-> borrowing'[w],
           eMode |-> usersEModeCategory'[w],
           aToken |-> [a \in Assets |-> RayMul(aTokenBalance'[a][w], liquidityIndex'[a])],
           debt |-> [a \in Assets |-> stableDebt'[a][w]
                       + RayMul(variableDebt'[a][w], variableBorrowIndex'[a])]]
  BY DEF Position, BalanceOf, DebtOf, VariableDebtOf
<1> QED
  BY <1>1, <1>2

\* The larger scaled balance is displayed as the larger balance.
LEMMA DisplayedOrder ==
    ASSUME NEW x \in Nat, NEW y \in Nat, x <= y, NEW i \in Nat
    PROVE  RayMul(x, i) <= RayMul(y, i)
  BY RayMulCommutes, RayMulMonotone

\* Such a step makes nobody liquidatable by itself.
LEMMA NothingTakenKeeps ==
    ASSUME TypeOK, TypeOK', configuration' = configuration,
           eModeCategories' = eModeCategories,
           NEW w \in Users, Healthy(Position(w)), NothingTakenFrom(w), NothingLentTo(w)
    PROVE  Healthy(Position(w))' \/ MayTurn(w)
<1> SUFFICES ASSUME ~ MayTurn(w) PROVE Healthy(Position(w))'
  OBVIOUS
<1>1. PICK q : Position(w)' = q
  OBVIOUS
<1>2. /\ q \in Positions /\ q.collateral = collateral'[w] /\ q.eMode = usersEModeCategory'[w]
      /\ q.borrowing = borrowing'[w]
      /\ \A a \in Assets : q.aToken[a] = RayMul(aTokenBalance'[a][w], liquidityIndex'[a])
      /\ \A a \in Assets : q.debt[a] =
            stableDebt'[a][w] + RayMul(variableDebt'[a][w], variableBorrowIndex'[a])
  BY <1>1, PositionThen
<1>3. price' = price
  BY DEF MayTurn
<1>4. /\ Healthy(Position(w))' <=> Healthy(q)
      /\ TotalCollateralInBase(Position(w))' = TotalCollateralInBase(q)
      /\ TotalDebtInBase(Position(w))' = TotalDebtInBase(q)
  BY <1>1, <1>3, JudgedAlike
<1>5. PICK p : p = Position(w)
  OBVIOUS
<1>6. /\ p \in Positions /\ p.collateral = collateral[w] /\ p.eMode = usersEModeCategory[w]
      /\ p.borrowing = borrowing[w]
      /\ \A a \in Assets : p.aToken[a] = RayMul(aTokenBalance[a][w], liquidityIndex[a])
      /\ \A a \in Assets : p.debt[a] =
            stableDebt[a][w] + RayMul(variableDebt[a][w], variableBorrowIndex[a])
      /\ Healthy(p)
  BY <1>5, PositionType DEF Position, BalanceOf, DebtOf, VariableDebtOf
<1>7. ASSUME NEW a \in p.collateral
      PROVE  a \in q.collateral /\ p.aToken[a] <= q.aToken[a]
  <2>1. a \in Assets /\ a \in collateral[w]
    BY <1>6 DEF Positions
  <2>2. /\ aTokenBalance[a][w] \in Nat /\ aTokenBalance'[a][w] \in Nat
        /\ liquidityIndex[a] \in Nat
    BY <2>1, IndexFacts, UsersAreAccounts DEF TypeOK
  <2>3. liquidityIndex' = liquidityIndex /\ aTokenBalance[a][w] <= aTokenBalance'[a][w]
        /\ a \in collateral'[w]
    BY <2>1 DEF NothingTakenFrom
  <2> QED
    BY <1>2, <1>6, <2>1, <2>2, <2>3, DisplayedOrder
<1>8. q.eMode = p.eMode
  BY <1>2, <1>6 DEF NothingTakenFrom
<1>9. TotalCollateralInBase(q) <= TotalCollateralInBase(p)
  <2>1. TotalCollateralInBase(q) \in Nat /\ TotalCollateralInBase(p) \in Nat
    BY <1>2, <1>6, PositionValues
  <2>2. ~ (TotalCollateralInBase(q) > TotalCollateralInBase(p))
    BY <1>4, <1>5 DEF MayTurn
  <2> QED
    BY <2>1, <2>2
<1>10. ASSUME NEW a \in Assets PROVE q.debt[a] <= p.debt[a]
  <2>1. /\ stableDebt[a][w] \in Nat /\ stableDebt'[a][w] \in Nat
        /\ variableDebt[a][w] \in Nat /\ variableDebt'[a][w] \in Nat
        /\ variableBorrowIndex[a] \in Nat
    BY IndexFacts DEF TypeOK
  <2>2. /\ stableDebt'[a][w] <= stableDebt[a][w]
        /\ variableDebt'[a][w] <= variableDebt[a][w]
        /\ variableBorrowIndex' = variableBorrowIndex
    BY DEF NothingLentTo
  <2> DEFINE x == RayMul(variableDebt'[a][w], variableBorrowIndex[a])
             y == RayMul(variableDebt[a][w], variableBorrowIndex[a])
  <2>3. x \in Nat /\ y \in Nat /\ x <= y
    BY <2>1, <2>2, DisplayedOrder, RayMulType
  <2>4. q.debt[a] = stableDebt'[a][w] + x /\ p.debt[a] = stableDebt[a][w] + y
    BY <1>2, <1>6, <2>2
  <2> HIDE DEF x, y
  <2> QED
    BY <2>1, <2>2, <2>3, <2>4
<1>11. TotalDebtInBase(q) <= TotalDebtInBase(p)
  <2>1. q.borrowing \subseteq p.borrowing
    BY <1>2, <1>6 DEF NothingLentTo
  <2> QED
    BY <1>2, <1>6, <1>8, <1>10, <2>1, LessOwed
<1> QED
  BY <1>2, <1>4, <1>6, <1>7, <1>8, <1>9, <1>11, NothingTaken

\* A step that leaves a user without debts does not either.
LEMMA NothingOwedKeeps ==
    ASSUME TypeOK', NEW w \in Users, borrowing'[w] = {},
           price' = price, configuration' = configuration, eModeCategories' = eModeCategories
    PROVE  Healthy(Position(w))'
<1>1. PICK q : Position(w)' = q
  OBVIOUS
<1>2. q.borrowing = {}
  BY <1>1, PositionThen
<1> QED
  BY <1>1, <1>2, JudgedAlike, NothingOwed

\* Nor does one after which the position is worth what a healthy one is worth
\* that has the same debts.
LEMMA CheckedKeeps ==
    ASSUME TypeOK, TypeOK', price' = price, configuration' = configuration,
           eModeCategories' = eModeCategories,
           NEW w \in Users, NEW r \in Positions, Healthy(r),
           r.eMode = usersEModeCategory'[w], r.borrowing = borrowing'[w],
           \A a \in Assets :
              r.debt[a] = stableDebt'[a][w] + RayMul(variableDebt'[a][w], variableBorrowIndex'[a]),
           \A a \in Assets :
              IF a \in collateral'[w]
              THEN /\ a \in r.collateral
                   /\ r.aToken[a] = RayMul(aTokenBalance'[a][w], liquidityIndex'[a])
              ELSE a \notin r.collateral \/ r.aToken[a] = 0
    PROVE  Healthy(Position(w))'
<1>1. PICK q : Position(w)' = q
  OBVIOUS
<1>2. /\ q \in Positions /\ q.collateral = collateral'[w] /\ q.eMode = usersEModeCategory'[w]
      /\ q.borrowing = borrowing'[w]
      /\ \A a \in Assets : q.aToken[a] = RayMul(aTokenBalance'[a][w], liquidityIndex'[a])
      /\ \A a \in Assets : q.debt[a] = r.debt[a]
  BY <1>1, PositionThen
<1>3. ASSUME NEW a \in Assets PROVE PriceFor(q, a) = PriceFor(r, a)
  BY <1>2 DEF PriceFor, InEMode
<1>4. TotalDebtInBase(q) <= TotalDebtInBase(r)
  <2>1. \A a \in q.borrowing : DebtInBase(q)[a] = DebtInBase(r)[a]
    BY <1>2, <1>3 DEF DebtInBase, Positions
  <2>2. IsFiniteSet(q.borrowing)
    BY <1>2, AssetsAreFinite, FS_Subset DEF Positions
  <2>3. TotalDebtInBase(q) = TotalDebtInBase(r)
    BY <1>2, <2>1, <2>2, SumDependsOnValues DEF TotalDebtInBase
  <2> QED
    BY <2>3, PositionValues
<1>5. ASSUME NEW a \in Assets PROVE Worth(q)[a] = Worth(r)[a]
  <2>1. CASE a \in collateral'[w]
    <3>1. a \in CollateralAssets(q) <=> a \in CollateralAssets(r)
      BY <1>2, <2>1 DEF CollateralAssets
    <3>2. CollateralInBase(q)[a] = CollateralInBase(r)[a]
      BY <1>2, <1>3, <2>1 DEF CollateralInBase
    <3> QED
      BY <3>1, <3>2 DEF Worth
  <2>2. CASE a \notin collateral'[w]
    <3>1. Worth(q)[a] = 0
      BY <1>2, <2>2 DEF Worth, CollateralAssets
    <3>2. CASE a \notin r.collateral
      BY <3>1, <3>2 DEF Worth, CollateralAssets
    <3>3. CASE r.aToken[a] = 0
      <4>1. PriceFor(r, a) \in Nat /\ configuration[a].unit \in Nat \ {0}
        BY PositionPrices
      <4>2. CollateralInBase(r)[a] = 0
        <5>1. \A x \in Nat, y \in Nat \ {0} : (0 * x) \div y = 0
          BY SMT
        <5> QED
          BY <3>3, <4>1, <5>1 DEF CollateralInBase
      <4> QED
        BY <3>1, <4>2 DEF Worth
    <3> QED
      BY <2>2, <3>2, <3>3
  <2> QED
    BY <2>1, <2>2
<1>6. Healthy(q)
  BY <1>2, <1>4, <1>5, HealthOfWorth
<1> QED
  BY <1>1, <1>6, JudgedAlike

\* Supplying, for whomever, takes nothing from anybody.
LEMMA SupplyTakesNothing ==
    ASSUME TypeOK, NEW w \in Users, NEW u \in Users, NEW v \in Users, NEW a \in Assets,
           NEW n \in Amounts, Supply(u, v, a, n)
    PROVE  NothingTakenFrom(w)
<1> DEFINE scaled == RayDiv(n, liquidityIndex[a])
<1>1. scaled \in Nat
  BY Bounds, IndexFacts, RayDivType
<1>2. /\ aTokenBalance' = [aTokenBalance EXCEPT ![a][v] = @ + scaled]
      /\ \/ collateral' = collateral
         \/ collateral' = [collateral EXCEPT ![v] = @ \cup {a}]
      /\ usersEModeCategory' = usersEModeCategory /\ liquidityIndex' = liquidityIndex
  BY DEF Supply, indices
<1>3. collateral[w] \subseteq collateral'[w]
  BY <1>2 DEF TypeOK
<1>4. \A x \in Assets : aTokenBalance[x][w] <= aTokenBalance'[x][w]
  <2> HIDE DEF scaled
  <2>1. TAKE x \in Assets
  <2>2. aTokenBalance[x][w] \in Nat /\ aTokenBalance \in [Assets -> [Accounts -> Nat]]
    BY UsersAreAccounts DEF TypeOK
  <2> QED
    BY <1>1, <1>2, <2>2
<1> QED
  BY <1>2, <1>3, <1>4 DEF NothingTakenFrom, TypeOK

\* Units that move are taken from one account only.
LEMMA MovedFrom ==
    ASSUME NEW balances \in [Accounts -> Nat], NEW from \in Accounts, NEW to \in Accounts,
           NEW scaled \in Nat, scaled <= balances[from], NEW w \in Accounts,
           w # from \/ from = to
    PROVE  balances[w] <= MoveBalance(balances, from, to, scaled)[w]
<1> DEFINE once == [balances EXCEPT ![from] = @ - scaled]
<1>1. once \in [Accounts -> Nat] /\ once[from] + scaled = balances[from]
      /\ \A x \in Accounts \ {from} : once[x] = balances[x]
  <2>1. balances[from] - scaled \in Nat /\ balances[from] \in Nat
    BY SMT
  <2> QED
    BY <2>1
<1>2. MoveBalance(balances, from, to, scaled)[w] = IF w = to THEN once[w] + scaled ELSE once[w]
  BY <1>1 DEF MoveBalance
<1> HIDE DEF once
<1> QED
  BY <1>1, <1>2

\* A transfer takes from the sender only, and is checked when it takes
\* collateral of somebody who owes.
LEMMA TransferIsChecked ==
    ASSUME TypeOK, TypeOK', configuration' = configuration, eModeCategories' = eModeCategories,
           NEW w \in Users, Healthy(Position(w)),
           NEW u \in Users, NEW v \in Users, NEW a \in Assets, NEW n \in Amounts,
           Transfer(u, v, a, n)
    PROVE  Healthy(Position(w))' \/ MayTurn(w)
<1> DEFINE scaled == RayDiv(n, liquidityIndex[a])
           after  == WithBalance(Position(u), a, aTokenBalance[a][u] - scaled)
           leaves == u # v /\ a \in collateral[u] /\ BalanceOf(a, u) = n
           enters == /\ u # v /\ BalanceOf(a, v) = 0
                     /\ ValidateAutomaticUseAsCollateral(collateral[v], a, FALSE)
<1>1. scaled \in Nat /\ n # 0
  BY Bounds, IndexFacts, RayDivType
<1>2. /\ scaled <= aTokenBalance[a][u]
      /\ u # v /\ a \in collateral[u] /\ borrowing[u] # {} => ValidateHFAndLtv(after, a)
      /\ aTokenBalance' = [aTokenBalance EXCEPT ![a] = MoveBalance(@, u, v, scaled)]
      /\ collateral' = [x \in Users |->
                          IF x = u /\ leaves THEN collateral[x] \ {a}
                          ELSE IF x = v /\ enters THEN collateral[x] \cup {a}
                          ELSE collateral[x]]
      /\ UNCHANGED <<variableDebt, stableDebt, borrowing, usersEModeCategory,
                     liquidityIndex, variableBorrowIndex, price>>
  BY <1>1 DEF Transfer, indices, oracles
<1> HIDE DEF scaled, after, enters
<1>3. /\ aTokenBalance \in [Assets -> [Accounts -> Nat]] /\ u \in Accounts /\ v \in Accounts
      /\ w \in Accounts /\ aTokenBalance[a] \in [Accounts -> Nat]
      /\ collateral \in [Users -> SUBSET Assets]
  BY UsersAreAccounts DEF TypeOK
<1>4. CASE w # u \/ u = v \/ a \notin collateral[u]
  <2>1. collateral[w] \subseteq collateral'[w]
    BY <1>2, <1>3, <1>4
  <2>2. ASSUME NEW x \in collateral[w] PROVE aTokenBalance[x][w] <= aTokenBalance'[x][w]
    <3>1. x \in Assets /\ aTokenBalance[x][w] \in Nat
      BY <1>3
    <3>2. CASE x = a
      <4>1. w # u \/ u = v
        BY <1>4, <3>2
      <4>2. aTokenBalance[a][w] <= MoveBalance(aTokenBalance[a], u, v, scaled)[w]
        BY <1>1, <1>2, <1>3, <4>1, MovedFrom
      <4> QED
        BY <1>2, <1>3, <3>2, <4>2
    <3>3. CASE x # a
      BY <1>2, <1>3, <3>1, <3>3
    <3> QED
      BY <3>2, <3>3
  <2>3. NothingTakenFrom(w)
    BY <1>2, <2>1, <2>2 DEF NothingTakenFrom
  <2>4. NothingLentTo(w)
    BY <1>2, DebtsAlone
  <2> QED
    BY <2>3, <2>4, NothingTakenKeeps
<1>5. CASE w = u /\ borrowing[u] = {}
  BY <1>2, <1>5, NothingOwedKeeps
<1>6. CASE w = u /\ u # v /\ a \in collateral[u] /\ borrowing[u] # {}
  <2>1. Healthy(after)
    BY <1>2, <1>6 DEF ValidateHFAndLtv
  <2> DEFINE left == aTokenBalance[a][u] - scaled
  <2>2. left \in Nat /\ aTokenBalance[a][u] \in Nat
    BY <1>1, <1>2, <1>3
  <2>3. aTokenBalance'[a][u] = left
    BY <1>2, <1>3, <1>6 DEF MoveBalance
  <2>4. \A x \in Assets : x # a => aTokenBalance'[x][u] = aTokenBalance[x][u]
    BY <1>2, <1>3
  <2> HIDE DEF left
  <2>5. /\ Position(u) \in Positions
        /\ Position(u).collateral = collateral[u] /\ Position(u).borrowing = borrowing[u]
        /\ Position(u).eMode = usersEModeCategory[u]
        /\ \A x \in Assets : Position(u).aToken[x] = RayMul(aTokenBalance[x][u], liquidityIndex[x])
        /\ \A x \in Assets : Position(u).debt[x] =
              stableDebt[x][u] + RayMul(variableDebt[x][u], variableBorrowIndex[x])
    <3>1. Position(u) \in Positions
      BY PositionType
    <3> QED
      BY <3>1 DEF Position, BalanceOf, DebtOf, VariableDebtOf
  <2>6. after = [Position(u) EXCEPT !.aToken[a] = RayMul(left, liquidityIndex[a])]
    BY DEF after, WithBalance, left
  <2>7. RayMul(left, liquidityIndex[a]) \in Nat
    BY <2>2, IndexFacts, RayMulType
  <2>8. PICK r : r = after
    OBVIOUS
  <2>9. /\ r \in Positions
        /\ r.collateral = collateral[u] /\ r.borrowing = borrowing[u]
        /\ r.eMode = usersEModeCategory[u]
        /\ \A x \in Assets : r.aToken[x] = RayMul(aTokenBalance'[x][u], liquidityIndex[x])
        /\ \A x \in Assets : r.debt[x] =
              stableDebt[x][u] + RayMul(variableDebt[x][u], variableBorrowIndex[x])
        /\ Healthy(r)
    BY <2>1, <2>3, <2>4, <2>5, <2>6, <2>7, <2>8 DEF Positions
  <2>10. collateral'[u] = IF leaves THEN collateral[u] \ {a} ELSE collateral[u]
    BY <1>2, <1>6
  <2>11. leaves => r.aToken[a] = 0
    <3> SUFFICES ASSUME leaves PROVE r.aToken[a] = 0
      OBVIOUS
    <3>1. scaled = aTokenBalance[a][u]
      BY <2>2, IndexFacts, RayDivOfRayMul DEF scaled, BalanceOf
    <3>2. left = 0
      BY <2>2, <3>1 DEF left
    <3> QED
      BY <2>3, <2>9, <3>2, RayMulZero, IndexFacts
  <2>12. ASSUME NEW x \in Assets
         PROVE  IF x \in collateral'[u]
                THEN /\ x \in r.collateral
                     /\ r.aToken[x] = RayMul(aTokenBalance'[x][u], liquidityIndex'[x])
                ELSE x \notin r.collateral \/ r.aToken[x] = 0
    BY <1>2, <2>9, <2>10, <2>11
  <2>13. Healthy(Position(u))'
    <3>1. /\ price' = price
          /\ r.eMode = usersEModeCategory'[u] /\ r.borrowing = borrowing'[u]
          /\ \A x \in Assets : r.debt[x] =
              stableDebt'[x][u] + RayMul(variableDebt'[x][u], variableBorrowIndex'[x])
      BY <1>2, <2>9
    <3> QED
      BY <2>9, <2>12, <3>1, CheckedKeeps
  <2> QED
    BY <1>6, <2>13
<1> QED
  BY <1>4, <1>5, <1>6

\* A withdrawal is checked when it takes collateral of somebody who owes: with
\* the balance and the flags it leaves.
LEMMA WithdrawIsChecked ==
    ASSUME TypeOK, TypeOK', configuration' = configuration, eModeCategories' = eModeCategories,
           NEW w \in Users, Healthy(Position(w)),
           NEW u \in Users, NEW a \in Assets, NEW n \in Amounts \cup {MaxUint}, NEW to,
           Withdraw(u, a, n, to)
    PROVE  Healthy(Position(w))' \/ MayTurn(w)
<1> DEFINE withdrawn == IF n = MaxUint THEN BalanceOf(a, u) ELSE n
           scaled == RayDiv(withdrawn, liquidityIndex[a])
           flags  == IF withdrawn = BalanceOf(a, u) THEN collateral[u] \ {a} ELSE collateral[u]
           left   == aTokenBalance[a][u] - scaled
           after  == WithBalance([Position(u) EXCEPT !.collateral = flags], a, left)
<1>1. scaled \in Nat
  <2>1. withdrawn \in Nat
    BY BalanceOfType, Bounds, UsersAreAccounts
  <2> HIDE DEF withdrawn
  <2> QED
    BY <2>1, IndexFacts, RayDivType
<1>2. /\ scaled <= aTokenBalance[a][u]
      /\ a \in collateral[u] /\ borrowing[u] # {} => ValidateHFAndLtv(after, a)
      /\ collateral' = [collateral EXCEPT ![u] = flags]
      /\ aTokenBalance' = [aTokenBalance EXCEPT ![a][u] = @ - scaled]
      /\ UNCHANGED <<variableDebt, stableDebt, borrowing, usersEModeCategory,
                     liquidityIndex, variableBorrowIndex, price>>
  BY DEF Withdraw, indices, oracles
<1>3. flags \in SUBSET collateral[u] /\ collateral[u] \ {a} \subseteq flags
  OBVIOUS
<1> HIDE DEF scaled, after, flags, left
<1>4. /\ aTokenBalance \in [Assets -> [Accounts -> Nat]] /\ u \in Accounts /\ w \in Accounts
      /\ collateral \in [Users -> SUBSET Assets]
  BY UsersAreAccounts DEF TypeOK
<1>5. CASE w # u \/ a \notin collateral[u]
  <2>1. collateral[w] \subseteq collateral'[w]
    BY <1>2, <1>3, <1>4, <1>5
  <2>2. ASSUME NEW x \in collateral[w] PROVE aTokenBalance[x][w] <= aTokenBalance'[x][w]
    <3>1. x \in Assets /\ aTokenBalance[x][w] \in Nat
      BY <1>4
    <3>2. x # a \/ w # u
      BY <1>5
    <3> QED
      BY <1>2, <1>4, <3>1, <3>2
  <2>3. NothingTakenFrom(w)
    BY <1>2, <2>1, <2>2 DEF NothingTakenFrom
  <2>4. NothingLentTo(w)
    BY <1>2, DebtsAlone
  <2> QED
    BY <2>3, <2>4, NothingTakenKeeps
<1>6. CASE w = u /\ borrowing[u] = {}
  BY <1>2, <1>6, NothingOwedKeeps
<1>7. CASE w = u /\ a \in collateral[u] /\ borrowing[u] # {}
  <2>1. Healthy(after)
    BY <1>2, <1>7 DEF ValidateHFAndLtv
  <2>2. left \in Nat /\ aTokenBalance[a][u] \in Nat
    BY <1>1, <1>2, <1>4 DEF left
  <2>3. /\ aTokenBalance'[a][u] = left
        /\ \A x \in Assets : x # a => aTokenBalance'[x][u] = aTokenBalance[x][u]
    BY <1>2, <1>4 DEF left
  <2>4. /\ Position(u) \in Positions
        /\ Position(u).borrowing = borrowing[u] /\ Position(u).eMode = usersEModeCategory[u]
        /\ \A x \in Assets : Position(u).aToken[x] = RayMul(aTokenBalance[x][u], liquidityIndex[x])
        /\ \A x \in Assets : Position(u).debt[x] =
              stableDebt[x][u] + RayMul(variableDebt[x][u], variableBorrowIndex[x])
    <3>1. Position(u) \in Positions
      BY PositionType
    <3> QED
      BY <3>1 DEF Position, BalanceOf, DebtOf, VariableDebtOf
  <2>5. after = [[Position(u) EXCEPT !.collateral = flags]
                    EXCEPT !.aToken[a] = RayMul(left, liquidityIndex[a])]
    BY DEF after, WithBalance
  <2>6. RayMul(left, liquidityIndex[a]) \in Nat
    BY <2>2, IndexFacts, RayMulType
  <2>7. PICK r : r = after
    OBVIOUS
  <2>8. flags \in SUBSET Assets
    BY <1>3, <1>4
  <2>9. /\ r \in Positions
        /\ r.collateral = flags /\ r.borrowing = borrowing[u]
        /\ r.eMode = usersEModeCategory[u]
        /\ \A x \in Assets : r.aToken[x] = RayMul(aTokenBalance'[x][u], liquidityIndex[x])
        /\ \A x \in Assets : r.debt[x] =
              stableDebt[x][u] + RayMul(variableDebt[x][u], variableBorrowIndex[x])
        /\ Healthy(r)
    BY <2>1, <2>3, <2>4, <2>5, <2>6, <2>7, <2>8 DEF Positions
  <2>10. collateral'[u] = flags
    BY <1>2, <1>4
  <2>11. Healthy(Position(u))'
    <3>1. /\ price' = price
          /\ r.eMode = usersEModeCategory'[u] /\ r.borrowing = borrowing'[u]
          /\ \A x \in Assets : r.debt[x] =
              stableDebt'[x][u] + RayMul(variableDebt'[x][u], variableBorrowIndex'[x])
      BY <1>2, <2>9
    <3>2. ASSUME NEW x \in Assets
          PROVE  IF x \in collateral'[u]
                 THEN /\ x \in r.collateral
                      /\ r.aToken[x] = RayMul(aTokenBalance'[x][u], liquidityIndex'[x])
                 ELSE x \notin r.collateral \/ r.aToken[x] = 0
      BY <1>2, <2>9, <2>10
    <3> QED
      BY <2>9, <3>1, <3>2, CheckedKeeps
  <2> QED
    BY <1>7, <2>11
<1> QED
  BY <1>5, <1>6, <1>7

\* A flag that is taken off is checked without it.
LEMMA SetUserUseReserveAsCollateralIsChecked ==
    ASSUME TypeOK, TypeOK', configuration' = configuration, eModeCategories' = eModeCategories,
           NEW w \in Users, Healthy(Position(w)),
           NEW u \in Users, NEW a \in Assets, NEW b \in BOOLEAN,
           SetUserUseReserveAsCollateral(u, a, b)
    PROVE  Healthy(Position(w))' \/ MayTurn(w)
<1> DEFINE flags == IF b THEN collateral[u] \cup {a} ELSE collateral[u] \ {a}
<1>1. /\ ~b => Healthy([Position(u) EXCEPT !.collateral = flags])
      /\ collateral' = [collateral EXCEPT ![u] = flags]
      /\ UNCHANGED <<aTokenBalance, variableDebt, stableDebt, borrowing, usersEModeCategory,
                     liquidityIndex, variableBorrowIndex, price>>
  BY DEF SetUserUseReserveAsCollateral, ValidateHFAndLtv, indices, oracles, tokens
<1>2. /\ aTokenBalance \in [Assets -> [Accounts -> Nat]] /\ w \in Accounts
      /\ collateral \in [Users -> SUBSET Assets]
  BY UsersAreAccounts DEF TypeOK
<1>3. CASE w # u \/ b
  <2>1. collateral[w] \subseteq collateral'[w]
    BY <1>1, <1>2, <1>3
  <2>2. \A x \in collateral[w] : aTokenBalance[x][w] <= aTokenBalance'[x][w]
    BY <1>1, <1>2
  <2>3. NothingTakenFrom(w)
    BY <1>1, <2>1, <2>2 DEF NothingTakenFrom
  <2>4. NothingLentTo(w)
    BY <1>1, DebtsAlone
  <2> QED
    BY <2>3, <2>4, NothingTakenKeeps
<1>4. CASE w = u /\ ~b
  <2>1. PICK r : r = [Position(u) EXCEPT !.collateral = flags]
    OBVIOUS
  <2>2. flags \in SUBSET Assets
    BY <1>2, <1>4
  <2>3. Position(u) \in Positions
    BY PositionType
  <2>4. /\ Position(u).borrowing = borrowing[u] /\ Position(u).eMode = usersEModeCategory[u]
        /\ \A x \in Assets : Position(u).aToken[x] = RayMul(aTokenBalance[x][u], liquidityIndex[x])
        /\ \A x \in Assets : Position(u).debt[x] =
              stableDebt[x][u] + RayMul(variableDebt[x][u], variableBorrowIndex[x])
    BY DEF Position, BalanceOf, DebtOf, VariableDebtOf
  <2> HIDE DEF flags
  <2>5. /\ r \in Positions /\ Healthy(r)
        /\ r.collateral = collateral'[u]
        /\ r.eMode = usersEModeCategory'[u] /\ r.borrowing = borrowing'[u]
        /\ \A x \in Assets : r.debt[x] =
              stableDebt'[x][u] + RayMul(variableDebt'[x][u], variableBorrowIndex'[x])
        /\ \A x \in Assets : r.aToken[x] = RayMul(aTokenBalance'[x][u], liquidityIndex'[x])
    BY <1>1, <1>2, <1>4, <2>1, <2>2, <2>3, <2>4 DEF Positions
  <2>6. Healthy(Position(u))'
    BY <1>1, <2>5, CheckedKeeps
  <2> QED
    BY <1>4, <2>6
<1> QED
  BY <1>3, <1>4

\* Another category is checked when one is left for it.
LEMMA SetUserEModeIsChecked ==
    ASSUME TypeOK, TypeOK', configuration' = configuration, eModeCategories' = eModeCategories,
           NEW w \in Users, Healthy(Position(w)),
           NEW u \in Users, NEW k \in Categories \cup {0}, SetUserEMode(u, k)
    PROVE  Healthy(Position(w))' \/ MayTurn(w)
<1>1. /\ usersEModeCategory[u] # 0 => Healthy([Position(u) EXCEPT !.eMode = k])
      /\ usersEModeCategory' = [usersEModeCategory EXCEPT ![u] = k]
      /\ UNCHANGED <<aTokenBalance, variableDebt, stableDebt, borrowing, collateral,
                     liquidityIndex, variableBorrowIndex, price>>
  BY DEF SetUserEMode, indices, oracles, tokens
<1>2. /\ aTokenBalance \in [Assets -> [Accounts -> Nat]] /\ w \in Accounts
      /\ collateral \in [Users -> SUBSET Assets]
      /\ usersEModeCategory \in [Users -> Categories \cup {0}]
  BY UsersAreAccounts DEF TypeOK
<1>3. CASE w # u \/ usersEModeCategory[u] = k
  <2>1. usersEModeCategory'[w] = usersEModeCategory[w]
    BY <1>1, <1>2, <1>3
  <2>2. \A x \in collateral[w] : aTokenBalance[x][w] <= aTokenBalance'[x][w]
    BY <1>1, <1>2
  <2>3. NothingTakenFrom(w)
    BY <1>1, <2>1, <2>2 DEF NothingTakenFrom
  <2>4. NothingLentTo(w)
    BY <1>1, DebtsAlone
  <2> QED
    BY <2>3, <2>4, NothingTakenKeeps
<1>4. CASE w = u /\ usersEModeCategory[u] = 0 /\ usersEModeCategory[u] # k
  BY <1>1, <1>2, <1>4 DEF MayTurn
<1>5. CASE w = u /\ usersEModeCategory[u] # 0
  <2>1. PICK r : r = [Position(u) EXCEPT !.eMode = k]
    OBVIOUS
  <2>2. Position(u) \in Positions
    BY PositionType
  <2>3. /\ Position(u).borrowing = borrowing[u] /\ Position(u).collateral = collateral[u]
        /\ \A x \in Assets : Position(u).aToken[x] = RayMul(aTokenBalance[x][u], liquidityIndex[x])
        /\ \A x \in Assets : Position(u).debt[x] =
              stableDebt[x][u] + RayMul(variableDebt[x][u], variableBorrowIndex[x])
    BY DEF Position, BalanceOf, DebtOf, VariableDebtOf
  <2>4. /\ r \in Positions /\ Healthy(r)
        /\ r.collateral = collateral'[u]
        /\ r.eMode = usersEModeCategory'[u] /\ r.borrowing = borrowing'[u]
        /\ \A x \in Assets : r.debt[x] =
              stableDebt'[x][u] + RayMul(variableDebt'[x][u], variableBorrowIndex'[x])
        /\ \A x \in Assets : r.aToken[x] = RayMul(aTokenBalance'[x][u], liquidityIndex'[x])
    BY <1>1, <1>2, <1>5, <2>1, <2>2, <2>3 DEF Positions
  <2>5. Healthy(Position(u))'
    BY <1>1, <2>4, CheckedKeeps
  <2> QED
    BY <1>5, <2>5
<1> QED
  BY <1>3, <1>4, <1>5

\* Health factors are numbers.
LEMMA HealthFactorType ==
    ASSUME TypeOK, NEW p \in Positions
    PROVE  HealthFactor(p) \in Nat
<1> DEFINE total == TotalCollateralInBase(p)
           debt  == TotalDebtInBase(p)
           avg   == AvgLiquidationThreshold(p)
           counted == [a \in Assets |-> Worth(p)[a] * ThresholdIn(p.eMode)[a]]
<1>1. total \in Nat /\ debt \in Nat /\ \A a \in Assets : Worth(p)[a] \in Nat
  BY PositionValues
<1>2. SumFunctionOnSet(counted, Assets) \in Nat
  <2>1. \A x, y \in Nat : x * y \in Nat
    BY SMT
  <2>2. \A a \in Assets : counted[a] \in Nat
    BY <1>1, <2>1, PositionPrices
  <2> HIDE DEF counted
  <2> QED
    BY <2>2, AssetsAreFinite, SumIsNat
<1>3. avg = IF total = 0 THEN 0 ELSE SumFunctionOnSet(counted, Assets) \div total
  BY TotalsOfWorth
<1> HIDE DEF total, debt, avg, counted
<1>4. avg \in Nat
  BY <1>1, <1>2, <1>3, QuotientBounds
<1>5. PercentMul(total, avg) \in Nat
  BY <1>1, <1>4, PercentMulType
<1> DEFINE n == PercentMul(total, avg)
<1> HIDE DEF n
<1>6. debt # 0 => WadDiv(n, debt) \in Nat
  <2>1. WAD \in Nat /\ n \in Nat
    BY <1>5, ScalesAreEven DEF n
  <2>2. n * WAD + debt \div 2 \in Nat
    BY <1>1, <2>1, SMT
  <2> QED
    BY <1>1, <2>2, QuotientBounds DEF WadDiv
<1>7. HealthFactor(p) = IF debt = 0 THEN MaxUint ELSE WadDiv(n, debt)
  BY DEF HealthFactor, debt, n, total, avg
<1> QED
  BY <1>6, <1>7, InitialValues

\* The fee of a liquidation is taken from the liquidated.
LEMMA FeeIsPaidBy ==
    ASSUME NEW balances \in [Accounts -> Nat], NEW u \in Users, NEW fee \in Nat,
           NEW index \in Nat \ {0}, index >= RAY, NEW w \in Users, w # u
    PROVE  balances[w] <= PayFee(balances, u, fee, index)[w]
<1> DEFINE wanted == RayDiv(fee, index)
           paid == IF wanted > balances[u]
                   THEN RayDiv(RayMul(balances[u], index), index) ELSE wanted
<1>0. u \in Accounts /\ w \in Accounts /\ Treasury \in Accounts
  BY UsersAreAccounts
<1>1. wanted \in Nat
  BY RayDivType
<1>2. balances[u] \in Nat /\ balances[w] \in Nat
  BY <1>0
<1>3. RayDiv(RayMul(balances[u], index), index) = balances[u]
  BY <1>2, RayDivOfRayMul
<1>4. paid \in Nat /\ paid <= balances[u]
  <2> HIDE DEF wanted
  <2> QED
    BY <1>1, <1>2, <1>3
<1>5. PayFee(balances, u, fee, index) =
        IF fee = 0 THEN balances ELSE MoveBalance(balances, u, Treasury, paid)
  BY DEF PayFee
<1> HIDE DEF paid
<1>6. balances[w] <= MoveBalance(balances, u, Treasury, paid)[w]
  BY <1>0, <1>4, MovedFrom
<1> QED
  BY <1>2, <1>5, <1>6

\* Only who is unhealthy is liquidated, and nobody else is taken anything.
LEMMA LiquidationTakesFromUnhealthy ==
    ASSUME TypeOK, NEW w \in Users, Healthy(Position(w)),
           NEW l \in Users, NEW u \in Users, NEW c \in Assets, NEW d \in Assets,
           NEW n \in Amounts \cup {MaxUint}, NEW b \in BOOLEAN,
           LiquidationCall(l, u, c, d, n, b)
    PROVE  NothingTakenFrom(w) /\ NothingLentTo(w)
<1> DEFINE p == Position(u)
           taken == Liquidated(p, c, d, n)
           scaled == RayDiv(taken.collateral, liquidityIndex[c])
           seized == IF b THEN MoveBalance(aTokenBalance[c], u, l, scaled)
                     ELSE [aTokenBalance[c] EXCEPT ![u] = @ - scaled]
           cleared == IF taken.collateral + taken.fee = p.aToken[c]
                      THEN [collateral EXCEPT ![u] = @ \ {c}] ELSE collateral
<1>1. /\ ValidateLiquidationCall(u, c, d)
      /\ scaled <= aTokenBalance[c][u]
      /\ \/ collateral' = cleared
         \/ collateral' = [cleared EXCEPT ![l] = @ \cup {c}]
      /\ aTokenBalance' = [aTokenBalance EXCEPT ![c] =
                             PayFee(seized, u, taken.fee, liquidityIndex[c])]
      /\ UNCHANGED <<usersEModeCategory, liquidityIndex>>
  BY DEF LiquidationCall, indices
<1>2. w # u
  <2>1. HealthFactor(Position(u)) < WAD
    BY <1>1 DEF ValidateLiquidationCall
  <2>2. HealthFactor(Position(u)) \in Nat /\ WAD \in Nat
    BY PositionType, HealthFactorType, ScalesAreEven
  <2>3. HealthFactor(Position(w)) >= WAD
    BY DEF Healthy
  <2> QED
    BY <2>1, <2>2, <2>3
<1>3. taken.collateral \in Nat /\ taken.fee \in Nat
  <2>1. n \in Nat
    BY Bounds, InitialValues
  <2> QED
    BY <1>1, <2>1, LiquidatedBounds
<1>4. scaled \in Nat
  BY <1>3, IndexFacts, RayDivType
<1>5. /\ cleared \in [Users -> SUBSET Assets] /\ cleared[w] = collateral[w]
      /\ collateral[w] \subseteq Assets
  BY <1>2 DEF TypeOK
<1> HIDE DEF taken, scaled, cleared
<1>6. /\ aTokenBalance \in [Assets -> [Accounts -> Nat]] /\ aTokenBalance[c] \in [Accounts -> Nat]
      /\ u \in Accounts /\ l \in Accounts /\ w \in Accounts
  BY UsersAreAccounts DEF TypeOK
<1>7. seized \in [Accounts -> Nat] /\ aTokenBalance[c][w] <= seized[w]
  <2>1. CASE b
    <3>1. /\ MoveBalance(aTokenBalance[c], u, l, scaled) \in [Accounts -> Nat]
          /\ aTokenBalance[c][w] <= MoveBalance(aTokenBalance[c], u, l, scaled)[w]
      BY <1>1, <1>2, <1>4, <1>6, MoveBalanceType, MovedFrom
    <3> QED
      BY <2>1, <3>1
  <2>2. CASE ~b
    <3>1. aTokenBalance[c][u] - scaled \in Nat
      BY <1>1, <1>4, <1>6
    <3> QED
      BY <1>2, <1>6, <2>2, <3>1
  <2> QED
    BY <2>1, <2>2
<1> HIDE DEF seized
<1>8. seized[w] <= PayFee(seized, u, taken.fee, liquidityIndex[c])[w]
  BY <1>2, <1>3, <1>7, IndexFacts, FeeIsPaidBy
<1>9. PayFee(seized, u, taken.fee, liquidityIndex[c]) \in [Accounts -> Nat]
  BY <1>3, <1>7, IndexFacts, PayFeeType
<1>10. ASSUME NEW x \in collateral[w] PROVE aTokenBalance[x][w] <= aTokenBalance'[x][w]
  <2>1. x \in Assets /\ aTokenBalance[x][w] \in Nat
    BY <1>5, <1>6
  <2>2. CASE x = c
    <3> DEFINE then == PayFee(seized, u, taken.fee, liquidityIndex[c])
    <3>1. aTokenBalance'[c][w] = then[w]
      BY <1>1, <1>6
    <3>2. then[w] \in Nat /\ seized[w] \in Nat /\ aTokenBalance[c][w] \in Nat
      BY <1>6, <1>7, <1>9
    <3>3. seized[w] <= then[w]
      BY <1>8
    <3> HIDE DEF then
    <3> QED
      BY <1>7, <2>2, <3>1, <3>2, <3>3
  <2>3. CASE x # c
    BY <1>1, <1>6, <2>1, <2>3
  <2> QED
    BY <2>2, <2>3
<1>11. collateral[w] \subseteq collateral'[w]
  BY <1>1, <1>5
<1>12. NothingTakenFrom(w)
  BY <1>1, <1>10, <1>11 DEF NothingTakenFrom
<1>13. NothingLentTo(w)
  <2>1. PICK x, y : /\ variableDebt' = [variableDebt EXCEPT ![d][u] = @ - x]
                    /\ stableDebt' = [stableDebt EXCEPT ![d][u] = @ - y]
    BY DEF LiquidationCall, BurnDebtTokens
  <2>2. /\ borrowing' = borrowing \/ borrowing' = [borrowing EXCEPT ![u] = @ \ {d}]
        /\ variableBorrowIndex' = variableBorrowIndex
    BY DEF LiquidationCall, indices
  <2>3. /\ variableDebt \in [Assets -> [Users -> Nat]] /\ stableDebt \in [Assets -> [Users -> Nat]]
        /\ borrowing \in [Users -> SUBSET Assets]
    BY DEF TypeOK
  <2>4. \A a \in Assets : /\ variableDebt'[a][w] = variableDebt[a][w] /\ variableDebt[a][w] \in Nat
                          /\ stableDebt'[a][w] = stableDebt[a][w] /\ stableDebt[a][w] \in Nat
    BY <1>2, <2>1, <2>3
  <2> QED
    BY <2>2, <2>3, <2>4 DEF NothingLentTo
<1> QED
  BY <1>12, <1>13

\* A repayment burns debt of the borrower.
LEMMA RepayLowers ==
    ASSUME TypeOK, NEW w \in Users, NEW u \in Users, NEW a \in Assets, NEW payback \in Nat,
           NEW mode \in RateModes, payback <= DebtOfMode(a, u, mode),
           variableBorrowIndex' = variableBorrowIndex, RepayDebt(u, a, payback, mode)
    PROVE  NothingLentTo(w)
<1> DEFINE scaled == RayDiv(payback, variableBorrowIndex[a])
<1>0. /\ variableDebt \in [Assets -> [Users -> Nat]] /\ stableDebt \in [Assets -> [Users -> Nat]]
      /\ borrowing \in [Users -> SUBSET Assets]
  BY DEF TypeOK
<1>1. scaled \in Nat
  BY IndexFacts, RayDivType
<1>2. \/ variableDebt' = variableDebt
      \/ variableDebt' = [variableDebt EXCEPT ![a][u] = @ - scaled]
  BY DEF RepayDebt
<1>3. \/ stableDebt' = stableDebt
      \/ stableDebt' = [stableDebt EXCEPT ![a][u] = @ - payback]
  BY DEF RepayDebt
<1>4. borrowing' = borrowing \/ borrowing' = [borrowing EXCEPT ![u] = @ \ {a}]
  BY DEF RepayDebt
<1> HIDE DEF scaled
<1>5. ASSUME NEW x \in Assets
      PROVE  variableDebt'[x][w] <= variableDebt[x][w] /\ stableDebt'[x][w] <= stableDebt[x][w]
  <2>1. variableDebt[x][w] \in Nat /\ stableDebt[x][w] \in Nat
    BY <1>0
  <2>2. variableDebt'[x][w] = variableDebt[x][w] \/ variableDebt'[x][w] = variableDebt[x][w] - scaled
    BY <1>0, <1>2
  <2>3. stableDebt'[x][w] = stableDebt[x][w] \/ stableDebt'[x][w] = stableDebt[x][w] - payback
    BY <1>0, <1>3
  <2> QED
    BY <1>1, <2>1, <2>2, <2>3
<1> QED
  BY <1>0, <1>4, <1>5 DEF NothingLentTo

\* Nobody else's loan, repayment or swap touches a position; a repayment in
\* the underlying, by whomever, only lowers its debts.
LEMMA BorrowingOfOthers ==
    ASSUME TypeOK, NEW w \in Users, BorrowSteps, ~ MayTurn(w)
    PROVE  NothingTakenFrom(w) /\ NothingLentTo(w)
<1>0. /\ aTokenBalance \in [Assets -> [Accounts -> Nat]] /\ collateral[w] \subseteq Assets
      /\ w \in Accounts /\ Users \subseteq Accounts
      /\ \A x \in Assets : aTokenBalance[x][w] \in Nat
      /\ variableDebt \in [Assets -> [Users -> Nat]] /\ stableDebt \in [Assets -> [Users -> Nat]]
      /\ borrowing \in [Users -> SUBSET Assets]
  BY UsersAreAccounts DEF TypeOK
<1>1. ASSUME UNCHANGED <<aTokenBalance, collateral, usersEModeCategory, liquidityIndex>>
      PROVE  NothingTakenFrom(w)
  BY <1>0, <1>1 DEF NothingTakenFrom
<1>2. ASSUME NEW u \in Users, u # w, NEW a \in Assets, NEW x, NEW y,
             variableDebt' = variableDebt \/ variableDebt' = [variableDebt EXCEPT ![a][u] = x],
             stableDebt' = stableDebt \/ stableDebt' = [stableDebt EXCEPT ![a][u] = y],
             borrowing' = borrowing \/ borrowing' = [borrowing EXCEPT ![u] = @ \cup {a}],
             variableBorrowIndex' = variableBorrowIndex
      PROVE  NothingLentTo(w)
  <2>1. ASSUME NEW b \in Assets
        PROVE  /\ variableDebt'[b][w] = variableDebt[b][w] /\ variableDebt[b][w] \in Nat
               /\ stableDebt'[b][w] = stableDebt[b][w] /\ stableDebt[b][w] \in Nat
    <3>1. variableDebt[b][w] \in Nat /\ stableDebt[b][w] \in Nat
      BY <1>0
    <3>2. variableDebt'[b][w] = variableDebt[b][w]
      <4>1. CASE variableDebt' = variableDebt
        BY <4>1
      <4>2. CASE variableDebt' = [variableDebt EXCEPT ![a][u] = x]
        <5>1. CASE b = a
          BY <1>0, <1>2, <4>2, <5>1
        <5>2. CASE b # a
          BY <1>0, <4>2, <5>2
        <5> QED
          BY <5>1, <5>2
      <4> QED
        BY <1>2, <4>1, <4>2
    <3>3. stableDebt'[b][w] = stableDebt[b][w]
      <4>1. CASE stableDebt' = stableDebt
        BY <4>1
      <4>2. CASE stableDebt' = [stableDebt EXCEPT ![a][u] = y]
        <5>1. CASE b = a
          BY <1>0, <1>2, <4>2, <5>1
        <5>2. CASE b # a
          BY <1>0, <4>2, <5>2
        <5> QED
          BY <5>1, <5>2
      <4> QED
        BY <1>2, <4>1, <4>2
    <3> QED
      BY <3>1, <3>2, <3>3
  <2>2. borrowing'[w] = borrowing[w]
    BY <1>0, <1>2
  <2> QED
    BY <1>2, <2>1, <2>2 DEF NothingLentTo
<1>3. ASSUME NEW u \in Users, NEW a \in Assets, NEW mode \in RateModes,
             NEW n \in Amounts \cup {MaxUint}, RepayWithATokens(u, a, n, mode)
      PROVE  NothingTakenFrom(w) /\ NothingLentTo(w)
  <2>1. u # w
    BY <1>3 DEF MayTurn
  <2>2. PICK scaled : aTokenBalance' = [aTokenBalance EXCEPT ![a][u] = @ - scaled]
    BY <1>3 DEF RepayWithATokens
  <2>3. UNCHANGED <<collateral, usersEModeCategory, liquidityIndex, variableBorrowIndex>>
    BY <1>3 DEF RepayWithATokens, indices
  <2>4. \A x \in Assets : aTokenBalance'[x][w] = aTokenBalance[x][w]
    BY <1>0, <2>1, <2>2
  <2>5. NothingTakenFrom(w)
    BY <1>0, <2>3, <2>4 DEF NothingTakenFrom
  <2> DEFINE debt    == DebtOfMode(a, u, mode)
             offered == IF n = MaxUint THEN BalanceOf(a, u) ELSE n
             payback == IF offered < debt THEN offered ELSE debt
  <2>6. debt \in Nat /\ offered \in Nat
    BY DebtTypes, BalanceOfType, <1>0, Bounds
  <2>7. RepayDebt(u, a, payback, mode)
    BY <1>3 DEF RepayWithATokens
  <2>8. payback \in Nat /\ payback <= debt
    <3> HIDE DEF debt, offered
    <3> QED
      BY <2>6
  <2> HIDE DEF payback
  <2> QED
    BY <2>3, <2>5, <2>7, <2>8, RepayLowers
<1>4. ASSUME NEW u \in Users, NEW a \in Assets, NEW mode \in RateModes, NEW v \in Users,
             NEW n \in Amounts \cup {MaxUint}, Repay(v, u, a, n, mode)
      PROVE  NothingTakenFrom(w) /\ NothingLentTo(w)
  <2> DEFINE debt    == DebtOfMode(a, u, mode)
             payback == IF n < debt THEN n ELSE debt
  <2>1. /\ RepayDebt(u, a, payback, mode)
        /\ UNCHANGED <<aTokenBalance, collateral, usersEModeCategory, liquidityIndex,
                       variableBorrowIndex>>
    BY <1>4 DEF Repay, indices
  <2>2. debt \in Nat /\ n \in Nat
    BY DebtTypes, Bounds, InitialValues
  <2>3. payback \in Nat /\ payback <= debt
    <3> HIDE DEF debt
    <3> QED
      BY <2>2
  <2> HIDE DEF payback
  <2> QED
    BY <1>1, <2>1, <2>3, RepayLowers
<1>5. ASSUME NEW u \in Users, NEW a \in Assets, NEW mode \in RateModes, NEW v \in Users,
             NEW n \in Amounts, Borrow(v, u, a, n, mode)
      PROVE  NothingTakenFrom(w) /\ NothingLentTo(w)
  <2>1. u # w
    BY <1>5 DEF MayTurn
  <2>2. UNCHANGED <<aTokenBalance, collateral, usersEModeCategory, liquidityIndex,
                    variableBorrowIndex>>
    BY <1>5 DEF Borrow, indices
  <2>3. /\ \/ variableDebt' = variableDebt
           \/ variableDebt' = [variableDebt EXCEPT ![a][u] =
                                 variableDebt[a][u] + RayDiv(n, variableBorrowIndex[a])]
        /\ \/ stableDebt' = stableDebt
           \/ stableDebt' = [stableDebt EXCEPT ![a][u] = stableDebt[a][u] + n]
        /\ borrowing' = borrowing \/ borrowing' = [borrowing EXCEPT ![u] = @ \cup {a}]
    BY <1>0, <1>5 DEF Borrow
  <2>4. PICK x, y :
          /\ variableDebt' = variableDebt \/ variableDebt' = [variableDebt EXCEPT ![a][u] = x]
          /\ stableDebt' = stableDebt \/ stableDebt' = [stableDebt EXCEPT ![a][u] = y]
    BY <2>3
  <2>5. NothingLentTo(w)
    BY <1>2, <2>1, <2>2, <2>3, <2>4
  <2> QED
    BY <1>1, <2>2, <2>5
<1>6. ASSUME NEW u \in Users, NEW a \in Assets, NEW mode \in RateModes,
             SwapBorrowRateMode(u, a, mode)
      PROVE  NothingTakenFrom(w) /\ NothingLentTo(w)
  <2>1. u # w
    BY <1>6 DEF MayTurn
  <2>2. UNCHANGED <<aTokenBalance, collateral, usersEModeCategory, liquidityIndex,
                    variableBorrowIndex, borrowing>>
    BY <1>6 DEF SwapBorrowRateMode, indices, usersConfig
  <2>3. /\ \E x : variableDebt' = [variableDebt EXCEPT ![a][u] = x]
        /\ \E y : stableDebt' = [stableDebt EXCEPT ![a][u] = y]
    <3> DEFINE debt == DebtOfMode(a, u, mode)
               scaled == RayDiv(debt, variableBorrowIndex[a])
    <3>1. \/ /\ stableDebt' = [stableDebt EXCEPT ![a][u] = @ - debt]
             /\ variableDebt' = [variableDebt EXCEPT ![a][u] = @ + scaled]
          \/ /\ variableDebt' = [variableDebt EXCEPT ![a][u] = @ - scaled]
             /\ stableDebt' = [stableDebt EXCEPT ![a][u] = @ + debt]
      BY <1>6 DEF SwapBorrowRateMode
    <3> HIDE DEF debt, scaled
    <3>2. \/ /\ stableDebt' = [stableDebt EXCEPT ![a][u] = stableDebt[a][u] - debt]
             /\ variableDebt' = [variableDebt EXCEPT ![a][u] = variableDebt[a][u] + scaled]
          \/ /\ variableDebt' = [variableDebt EXCEPT ![a][u] = variableDebt[a][u] - scaled]
             /\ stableDebt' = [stableDebt EXCEPT ![a][u] = stableDebt[a][u] + debt]
      BY <1>0, <3>1
    <3> QED
      BY <3>2
  <2>4. PICK x : variableDebt' = [variableDebt EXCEPT ![a][u] = x]
    BY <2>3
  <2>5. PICK y : stableDebt' = [stableDebt EXCEPT ![a][u] = y]
    BY <2>3
  <2>6. NothingLentTo(w)
    BY <1>2, <2>1, <2>2, <2>4, <2>5
  <2> QED
    BY <1>1, <2>2, <2>6
<1> QED
  BY <1>3, <1>4, <1>5, <1>6 DEF BorrowSteps

\* What the treasury is paid comes from no user.
LEMMA MintToTreasuryTakesNothing ==
    ASSUME TypeOK, NEW w \in Users, NEW a \in Assets, MintToTreasury(a)
    PROVE  NothingTakenFrom(w)
<1> DEFINE scaled == RayDiv(RayMul(accruedToTreasury[a], liquidityIndex[a]), liquidityIndex[a])
<1>1. scaled \in Nat
  <2>1. accruedToTreasury[a] \in Nat
    BY DEF TypeOK
  <2>2. RayMul(accruedToTreasury[a], liquidityIndex[a]) \in Nat
    BY <2>1, IndexFacts, RayMulType
  <2> QED
    BY <2>2, IndexFacts, RayDivType
<1>2. /\ aTokenBalance' = [aTokenBalance EXCEPT ![a][Treasury] = @ + scaled]
      /\ UNCHANGED <<collateral, usersEModeCategory, liquidityIndex>>
  BY DEF MintToTreasury, usersConfig
<1> HIDE DEF scaled
<1>3. /\ aTokenBalance \in [Assets -> [Accounts -> Nat]] /\ collateral[w] \subseteq Assets
      /\ w \in Accounts /\ Treasury \in Accounts
      /\ \A x \in Assets : aTokenBalance[x][w] \in Nat
  BY UsersAreAccounts DEF TypeOK
<1>4. \A x \in Assets : aTokenBalance[x][w] <= aTokenBalance'[x][w]
  BY <1>1, <1>2, <1>3
<1> QED
  BY <1>2, <1>3, <1>4 DEF NothingTakenFrom

\* Every step keeps a healthy position healthy, unless ...
LEMMA StepKeepsHealth ==
    ASSUME TypeOK, TypeOK', [Next]_vars, NEW w \in Users, Healthy(Position(w))
    PROVE  Healthy(Position(w))' \/ MayTurn(w)
<1>1. configuration' = configuration /\ eModeCategories' = eModeCategories
  BY ListingConstant
<1>2. NothingTakenFrom(w) /\ NothingLentTo(w) => Healthy(Position(w))' \/ MayTurn(w)
  BY <1>1, NothingTakenKeeps
<1>3. CASE SupplySteps
  <2>1. ASSUME NEW u \in Users, NEW a \in Assets, NEW v \in Recipients[u] \ {ATokenAddress},
               NEW n \in Amounts, Supply(u, v, a, n)
        PROVE  Healthy(Position(w))' \/ MayTurn(w)
    <3>1. NothingTakenFrom(w)
      BY <2>1, SupplyTakesNothing, SupplyRecipients
    <3>2. NothingLentTo(w)
      BY <2>1, DebtsAlone DEF Supply, indices
    <3> QED
      BY <1>2, <3>1, <3>2
  <2>2. ASSUME NEW u \in Users, NEW a \in Assets, NEW v \in Recipients[u] \ {ATokenAddress},
               NEW n \in Amounts, Transfer(u, v, a, n)
        PROVE  Healthy(Position(w))' \/ MayTurn(w)
    BY <1>1, <2>2, TransferIsChecked, SupplyRecipients
  <2>3. ASSUME NEW u \in Users, NEW a \in Assets, NEW to \in Recipients[u],
               NEW n \in Amounts \cup {MaxUint}, Withdraw(u, a, n, to)
        PROVE  Healthy(Position(w))' \/ MayTurn(w)
    BY <1>1, <2>3, WithdrawIsChecked
  <2>4. ASSUME NEW u \in Users, NEW a \in Assets, NEW b \in BOOLEAN,
               SetUserUseReserveAsCollateral(u, a, b)
        PROVE  Healthy(Position(w))' \/ MayTurn(w)
    BY <1>1, <2>4, SetUserUseReserveAsCollateralIsChecked
  <2> QED
    BY <1>3, <2>1, <2>2, <2>3, <2>4 DEF SupplySteps
<1>4. CASE BorrowSteps
  BY <1>2, <1>4, BorrowingOfOthers
<1>5. CASE LiquidationSteps
  BY <1>2, <1>5, LiquidationTakesFromUnhealthy DEF LiquidationSteps
<1>6. CASE \E u \in Users, k \in Categories \cup {0} : SetUserEMode(u, k)
  BY <1>1, <1>6, SetUserEModeIsChecked
<1>7. CASE \E a \in Assets : MintToTreasury(a)
  <2>1. NothingLentTo(w)
    BY <1>7, DebtsAlone DEF MintToTreasury, usersConfig
  <2> QED
    BY <1>2, <1>7, <2>1, MintToTreasuryTakesNothing
<1>8. ASSUME UNCHANGED <<aTokenBalance, variableDebt, stableDebt, usersConfig, indices>>
      PROVE  NothingTakenFrom(w) /\ NothingLentTo(w)
  <2>1. /\ collateral[w] \subseteq Assets /\ w \in Accounts
        /\ \A x \in Assets : aTokenBalance[x][w] \in Nat
    BY UsersAreAccounts DEF TypeOK
  <2> QED
    BY <1>8, <2>1, DebtsAlone DEF NothingTakenFrom, usersConfig, indices
<1>9. CASE \E d \in Delegations :
             ApproveDelegation(d.delegator, d.delegatee, d.asset, d.mode, d.amount)
  BY <1>2, <1>8, <1>9 DEF ApproveDelegation
<1>10. CASE \E a \in Assets : Accrue(a)
  BY <1>10 DEF MayTurn
<1>11. CASE (\E s \in Assets \cup PriceSources : \E x \in Prices[s] : SetPrice(s, x)) \/ SetSentinel
  BY <1>2, <1>8, <1>11 DEF SetPrice, SetSentinel, tokens
<1>12. CASE UNCHANGED vars
  BY <1>2, <1>8, <1>12 DEF vars, tokens
<1> QED
  BY <1>3, <1>4, <1>5, <1>6, <1>7, <1>9, <1>10, <1>11, <1>12 DEF Next, EnvironmentSteps

\* Nothing that others do makes a healthy user liquidatable, for any number of
\* users and reserves, any prices, thresholds and roundings: only the market
\* does, a step in which the worth of its collateral rises, or a loan, a swap of
\* rates, a repayment with aTokens or a new category of the user's own.
THEOREM HealthKept ==
    Spec => [][\A u \in Users : Healthy(Position(u)) => Healthy(Position(u))' \/ MayTurn(u)]_vars
<1>1. ASSUME TypeOK, TypeOK', [Next]_vars
      PROVE  [\A u \in Users : Healthy(Position(u)) => Healthy(Position(u))' \/ MayTurn(u)]_vars
  BY <1>1, StepKeepsHealth
<1> QED
  BY <1>1, TypeCorrect, PTL DEF Spec
=============================================================================
