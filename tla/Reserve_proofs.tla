--------------------------- MODULE Reserve_proofs ----------------------------
(***************************************************************************)
(* No operation of a reserve can fail because a subtraction underflows,    *)
(* whatever the rates, the amounts and the rounding: first for the stable  *)
(* debt token by itself, then for the reserve with its three tokens.       *)
(*                                                                         *)
(* Every operation of the reserve brings the indices up to the present,    *)
(* changes tokens, and takes new rates.  What these three do is one lemma  *)
(* each (UpdatedState, TokenWritten, RatesTaken); what a step has to leave *)
(* behind is one as well (OperationKeeps).                                 *)
(*                                                                         *)
(* Last, the events of the tokens: whatever operation is next, the events  *)
(* it emits are those the helpers of the tests expect for its arguments,   *)
(* and they add up to the balances of the holders.                         *)
(***************************************************************************)
EXTENDS TokenizationEvents, SequenceTheorems, Arithmetic_proofs

-----------------------------------------------------------------------------
(* Interest and rates.                                                     *)

\* Compound interest over any interval is at least what linear interest is:
\* the approximation of MathUtils never charges a borrower less than that.
THEOREM CompoundAtLeastLinear ==
    ASSUME NEW rate \in Nat, NEW elapsed \in Nat
    PROVE  /\ CompoundedInterest(rate, elapsed) \in Nat
           /\ CompoundedInterest(rate, elapsed) >= LinearInterest(rate, elapsed)
           /\ LinearInterest(rate, elapsed) >= RAY
<1> DEFINE year     == SECONDS_PER_YEAR
           minusTwo == IF elapsed > 2 THEN elapsed - 2 ELSE 0
           squared  == RayMul(rate, rate) \div (year * year)
           cubed    == RayMul(squared, rate) \div year
           pairs    == elapsed * (elapsed - 1)
           first    == (rate * elapsed) \div year
           second   == (pairs * squared) \div 2
           third    == (pairs * minusTwo * cubed) \div 6
<1>1. RAY \in Nat /\ year \in Nat \ {0} /\ minusTwo \in Nat
  BY ScalesAreEven, YearHasSeconds, SMT
<1>2. year * year \in Nat \ {0}
  BY <1>1, SMT
<1>3. squared \in Nat
  BY <1>2, RayMulType, QuotientBounds
<1>4. cubed \in Nat
  BY <1>1, <1>3, RayMulType, QuotientBounds
<1>5. first \in Nat
  <2>1. rate * elapsed \in Nat
    BY SMT
  <2> QED
    BY <1>1, <2>1, QuotientBounds
<1>6. CASE elapsed = 0
  <2>1. rate * elapsed = 0
    BY <1>6, SMT
  <2>2. first = 0
    <3>1. first \in Nat /\ year * first <= 0
      BY <1>1, <2>1, QuotientBounds
    <3> HIDE DEF first, year
    <3> QED
      BY <1>1, <3>1, SMT
  <2>3. /\ CompoundedInterest(rate, elapsed) = RAY
        /\ LinearInterest(rate, elapsed) = RAY + first
    BY <1>6 DEF CompoundedInterest, LinearInterest
  <2> HIDE DEF first
  <2> QED
    BY <1>1, <2>2, <2>3, SMT
<1>7. CASE elapsed # 0
  <2>1. pairs \in Nat
    BY <1>7, SMT
  <2>2. pairs * squared \in Nat /\ pairs * minusTwo * cubed \in Nat
    <3> HIDE DEF pairs, squared, minusTwo, cubed
    <3> QED
      BY <1>1, <1>3, <1>4, <2>1, SMT
  <2>3. second \in Nat /\ third \in Nat
    BY <2>2, QuotientBounds
  <2>4. /\ CompoundedInterest(rate, elapsed) = RAY + first + second + third
        /\ LinearInterest(rate, elapsed) = RAY + first
    BY <1>7 DEF CompoundedInterest, LinearInterest
  <2> HIDE DEF first, second, third
  <2> QED
    BY <1>1, <1>5, <2>3, <2>4, SMT
<1> QED
  BY <1>6, <1>7

\* Conversion to ray keeps naturals, and those that are not zero.
LEMMA WadToRayType ==
    ASSUME NEW a \in Nat
    PROVE  WadToRay(a) \in Nat /\ (a # 0 => WadToRay(a) # 0)
<1>1. RAY \in Nat \ {0} /\ WAD \in Nat \ {0} /\ RAY % WAD = 0
  BY ScalesAreEven, WadRayRatioIsExact
<1>2. RAY \div WAD \in Nat /\ RAY = WAD * (RAY \div WAD)
  BY <1>1, SMT
<1>3. RAY \div WAD # 0
  BY <1>1, <1>2, SMT
<1> DEFINE ratio == RAY \div WAD
<1> HIDE DEF ratio
<1>4. a * ratio \in Nat /\ (a # 0 => a * ratio # 0)
  BY <1>2, <1>3, SMT DEF ratio
<1> QED
  BY <1>4 DEF WadToRay, ratio

\* A weighted average of rates is a natural.
LEMMA WeightedRateType ==
    ASSUME NEW rate1 \in Nat, NEW amount1 \in Nat,
           NEW rate2 \in Nat, NEW amount2 \in Nat \ {0}
    PROVE  WeightedRate(rate1, amount1, rate2, amount2) \in Nat
<1>1. amount1 + amount2 \in Nat \ {0}
  BY SMT
<1>2. WadToRay(amount1 + amount2) \in Nat \ {0}
  BY <1>1, WadToRayType
<1> DEFINE weight1 == RayMul(rate1, WadToRay(amount1))
           weight2 == RayMul(rate2, WadToRay(amount2))
<1>3. weight1 \in Nat /\ weight2 \in Nat
  BY WadToRayType, RayMulType
<1>4. weight1 + weight2 \in Nat
  <2> HIDE DEF weight1, weight2
  <2> QED
    BY <1>3, SMT
<1> QED
  BY <1>2, <1>4, RayDivType DEF WeightedRate

-----------------------------------------------------------------------------
\* The token's clocks are never ahead of the block's: interest is always
\* counted over an interval that has passed.
ClocksBehind(t) ==
    /\ t.totalSupplyTimestamp <= now
    /\ \A u \in Borrowers : t.timestamp[u] <= now

StableIInv == StableTypeOK /\ ClocksBehind(stable)

\* A token of the right type, as the operations of one transaction pass it on.
LEMMA BalanceTypes ==
    ASSUME now \in Nat, NEW t \in StableTokens, ClocksBehind(t), NEW u \in Borrowers
    PROVE  /\ StableBalanceOf(t, u) \in Nat
           /\ StableBalanceOf(t, u) >= t.principal[u]
           /\ StableTotalSupply(t) \in Nat
<1>1. /\ t.principal[u] \in Nat /\ t.rate[u] \in Nat /\ t.timestamp[u] \in Nat
      /\ t.totalSupply \in Nat /\ t.avgStableRate \in Nat /\ t.totalSupplyTimestamp \in Nat
  BY DEF StableTokens
<1>2. now - t.timestamp[u] \in Nat /\ now - t.totalSupplyTimestamp \in Nat
  BY <1>1, SMT DEF ClocksBehind
<1> DEFINE factor == CompoundedInterest(t.rate[u], now - t.timestamp[u])
           average == CompoundedInterest(t.avgStableRate, now - t.totalSupplyTimestamp)
<1>3. /\ factor \in Nat /\ factor >= LinearInterest(t.rate[u], now - t.timestamp[u])
      /\ LinearInterest(t.rate[u], now - t.timestamp[u]) >= RAY
      /\ average \in Nat
  BY <1>1, <1>2, CompoundAtLeastLinear
<1>4. factor >= RAY
  <2>1. LinearInterest(t.rate[u], now - t.timestamp[u]) \in Int /\ RAY \in Int
    <3>1. /\ RAY \in Nat /\ SECONDS_PER_YEAR \in Nat \ {0}
          /\ t.rate[u] * (now - t.timestamp[u]) \in Nat
      BY <1>1, <1>2, ScalesAreEven, YearHasSeconds, SMT
    <3> QED
      BY <3>1, QuotientBounds, SMT DEF LinearInterest
  <2> HIDE DEF factor
  <2> QED
    BY <1>3, <2>1, SMT
<1> HIDE DEF factor, average
<1>5. /\ RayMul(t.principal[u], factor) \in Nat
      /\ RayMul(t.principal[u], factor) >= t.principal[u]
      /\ RayMul(t.totalSupply, average) \in Nat
  BY <1>1, <1>3, <1>4, RayMulType, RayMulGrows
<1> QED
  BY <1>1, <1>5 DEF StableBalanceOf, StableTotalSupply, factor, average

\* What a mint and a burn write: the entries of one user, and the total.
LEMMA WrittenType ==
    ASSUME now \in Nat, NEW t \in StableTokens, ClocksBehind(t), NEW u \in Borrowers,
           NEW p \in Nat, NEW r \in Nat, NEW stamp \in Nat, stamp <= now,
           NEW left \in Nat, NEW average \in Nat
    PROVE  /\ Written(t, u, p, r, stamp, left, average) \in StableTokens
           /\ ClocksBehind(Written(t, u, p, r, stamp, left, average))
<1>1. /\ t.principal \in [Borrowers -> Nat] /\ t.rate \in [Borrowers -> Nat]
      /\ t.timestamp \in [Borrowers -> Nat]
  BY DEF StableTokens
<1>2. Written(t, u, p, r, stamp, left, average) \in StableTokens
  BY <1>1 DEF StableTokens, Written
<1>3. ClocksBehind(Written(t, u, p, r, stamp, left, average))
  BY <1>1, SMT DEF ClocksBehind, Written
<1> QED
  BY <1>2, <1>3

\* A mint leaves a token of the right type.
LEMMA MintedType ==
    ASSUME now \in Nat, NEW t \in StableTokens, ClocksBehind(t), NEW u \in Borrowers,
           NEW amount \in Nat \ {0}, NEW rate \in Nat
    PROVE  Minted(t, u, amount, rate) \in StableTokens /\ ClocksBehind(Minted(t, u, amount, rate))
<1> DEFINE balance == StableBalanceOf(t, u)
           outstanding == StableTotalSupply(t)
           r       == WeightedRate(t.rate[u], balance, rate, amount)
           average == WeightedRate(t.avgStableRate, outstanding, rate, amount)
<1>1. balance \in Nat /\ outstanding \in Nat
  BY BalanceTypes
<1>2. t.rate[u] \in Nat /\ t.avgStableRate \in Nat
  BY DEF StableTokens
<1>3. r \in Nat /\ average \in Nat
  BY <1>1, <1>2, WeightedRateType
<1>4. Minted(t, u, amount, rate) = Written(t, u, balance + amount, r, now, outstanding + amount, average)
  BY DEF Minted
<1> HIDE DEF balance, outstanding, r, average
<1>5. balance + amount \in Nat /\ outstanding + amount \in Nat
  BY <1>1, SMT
<1> QED
  BY <1>3, <1>4, <1>5, WrittenType

\* So does a burn, clamped or not.
LEMMA BurntType ==
    ASSUME now \in Nat, NEW t \in StableTokens, ClocksBehind(t), NEW u \in Borrowers,
           NEW amount \in 1 .. StableBalanceOf(t, u)
    PROVE  Burnt(t, u, amount) \in StableTokens /\ ClocksBehind(Burnt(t, u, amount))
<1> DEFINE balance == StableBalanceOf(t, u)
           outstanding == StableTotalSupply(t)
           weight  == RemainingWeight(t, u, amount)
           cleared == Cleared(t, u, amount)
           left    == IF cleared THEN 0 ELSE outstanding - amount
           average == IF cleared THEN 0 ELSE RayDiv(weight, WadToRay(outstanding - amount))
           r       == IF amount = balance THEN 0 ELSE t.rate[u]
           stamp   == IF amount = balance THEN 0 ELSE now
<1>1. balance \in Nat /\ outstanding \in Nat /\ amount \in Nat
  BY BalanceTypes, SMT
<1>2. balance - amount \in Nat
  BY <1>1, SMT
<1>3. weight \in Int
  <2>1. /\ RayMul(t.avgStableRate, WadToRay(outstanding)) \in Nat
        /\ RayMul(t.rate[u], WadToRay(amount)) \in Nat
    BY <1>1, WadToRayType, RayMulType DEF StableTokens
  <2> QED
    BY <2>1, SMT DEF RemainingWeight
<1>4. left \in Nat /\ average \in Nat
  <2>1. CASE cleared
    BY <2>1
  <2>2. CASE ~ cleared
    <3>1. outstanding - amount \in Nat \ {0} /\ weight \in Nat
      BY <1>1, <1>3, <2>2, SMT DEF Cleared
    <3>2. WadToRay(outstanding - amount) \in Nat \ {0}
      BY <3>1, WadToRayType
    <3> QED
      BY <2>2, <3>1, <3>2, RayDivType
  <2> QED
    BY <2>1, <2>2
<1>5. r \in Nat /\ stamp \in Nat /\ stamp <= now
  BY SMT DEF StableTokens
<1>6. Burnt(t, u, amount) = Written(t, u, balance - amount, r, stamp, left, average)
  BY DEF Burnt
<1> HIDE DEF balance, outstanding, weight, cleared, left, average, r, stamp
<1> QED
  BY <1>2, <1>4, <1>5, <1>6, WrittenType

\* The invariant holds throughout.
LEMMA StableInductive == StableSpec => []StableIInv
<1>1. StableInit => StableIInv
  BY StableBounds, SMT
     DEF StableInit, NoStableDebt, StableIInv, StableTypeOK, StableTokens, ClocksBehind
<1>2. StableIInv /\ [StableNext]_<<now, stable>> => StableIInv'
  <2> SUFFICES ASSUME StableIInv, [StableNext]_<<now, stable>>
               PROVE  StableIInv'
    OBVIOUS
  <2>1. now \in Nat /\ stable \in StableTokens /\ ClocksBehind(stable) /\ now \in 0 .. MaxTime
    BY StableBounds, SMT DEF StableIInv, StableTypeOK
  <2>2. ASSUME NEW t \in StableTokens, ClocksBehind(t), stable' = t, now' = now
        PROVE  StableIInv'
    BY <2>1, <2>2 DEF StableIInv, StableTypeOK, ClocksBehind
  <2>3. ASSUME NEW u \in Borrowers, NEW amount \in Amounts, NEW rate \in StableRates,
               Mint(u, amount, rate)
        PROVE  StableIInv'
    <3>1. amount \in Nat \ {0} /\ rate \in Nat
      BY StableBounds
    <3> QED
      BY <2>1, <2>2, <2>3, <3>1, MintedType DEF Mint
  <2>4. ASSUME NEW u \in Borrowers, NEW amount, Burn(u, amount)
        PROVE  StableIInv'
    BY <2>1, <2>2, <2>4, BurntType DEF Burn
  <2>5. ASSUME NEW u \in Borrowers, NEW rate \in StableRates, Rebalance(u, rate)
        PROVE  StableIInv'
    <3> DEFINE balance == StableBalanceOf(stable, u)
               repaid  == Burnt(stable, u, balance)
    <3>1. balance \in Nat \ {0} /\ rate \in Nat
      BY <2>1, <2>5, BalanceTypes, StableBounds DEF Rebalance
    <3>2. balance \in 1 .. balance
      BY <3>1, SMT
    <3>3. repaid \in StableTokens /\ ClocksBehind(repaid)
      BY <2>1, <3>2, BurntType
    <3>4. stable' = Minted(repaid, u, balance, rate) /\ now' = now
      BY <2>5 DEF Rebalance, Rebalanced
    <3> HIDE DEF repaid, balance
    <3> QED
      BY <2>1, <2>2, <3>1, <3>3, <3>4, MintedType
  <2>6. CASE Tick
    BY <2>1, <2>6, StableBounds, SMT
       DEF Tick, StableIInv, StableTypeOK, StableTokens, ClocksBehind
  <2>7. CASE UNCHANGED <<now, stable>>
    BY <2>1, <2>7 DEF StableIInv, StableTypeOK, ClocksBehind
  <2> QED
    BY <2>3, <2>4, <2>5, <2>6, <2>7 DEF StableNext
<1> QED
  BY <1>1, <1>2, PTL DEF StableSpec

\* Whatever drift there is between the total and the debts, no mint, burn or
\* rebalance underflows (StableTypeOK of module StableDebtToken).
THEOREM StableTypeCorrect == StableSpec => []StableTypeOK
<1>1. StableIInv => StableTypeOK
  BY DEF StableIInv
<1> QED
  BY <1>1, StableInductive, PTL

\* A debt of this very moment bears no interest yet.
LEMMA NoInterestYet ==
    ASSUME now \in Nat, NEW amount \in Nat, NEW rate \in Nat
    PROVE  RayMul(amount, CompoundedInterest(rate, now - now)) = amount
<1>1. PICK h \in Nat \ {0} : RAY = 2 * h
  BY RayIsEven
<1>2. HALF_RAY = h
  BY <1>1, SMT DEF HALF_RAY
<1>3. /\ amount * RAY + h \in Nat /\ RAY \in Nat \ {0}
      /\ RAY * amount <= amount * RAY + h
      /\ amount * RAY + h < RAY * amount + RAY
  BY <1>1, SMT
<1>4. (amount * RAY + h) \div RAY = amount
  BY <1>3, QuotientUnique
<1>5. RayMul(amount, RAY) = amount
  BY <1>2, <1>4 DEF RayMul
<1>6. now - now = 0
  BY SMT
<1>7. CompoundedInterest(rate, 0) = RAY
  BY DEF CompoundedInterest
<1> QED
  BY <1>5, <1>6, <1>7

\* A rebalance changes nobody's debt, whatever burn's clamps do to the total
\* on the way (RebalanceKeepsDebts of module StableDebtToken).
THEOREM RebalanceNeutral == StableSpec => RebalanceKeepsDebts
<1>1. ASSUME StableIInv, NEW u \in Borrowers, NEW rate \in StableRates, Rebalance(u, rate),
             NEW v \in Borrowers
      PROVE  StableBalanceOf(stable, v)' = StableBalanceOf(stable, v)
  <2> DEFINE balance == StableBalanceOf(stable, u)
             repaid  == Burnt(stable, u, balance)
  <2>1. stable \in StableTokens /\ now \in Nat /\ ClocksBehind(stable)
    BY <1>1, StableBounds, SMT DEF StableIInv, StableTypeOK
  <2>2. balance \in Nat \ {0} /\ rate \in Nat
    BY <1>1, <2>1, BalanceTypes, StableBounds DEF Rebalance
  <2>3. stable' = Minted(repaid, u, balance, rate) /\ now' = now
    BY <1>1 DEF Rebalance, Rebalanced
  <2>4. /\ stable.principal \in [Borrowers -> Nat] /\ stable.rate \in [Borrowers -> Nat]
        /\ stable.timestamp \in [Borrowers -> Nat]
    BY <2>1 DEF StableTokens
  <2>5. /\ repaid.principal = [stable.principal EXCEPT ![u] = balance - balance]
        /\ repaid.rate = [stable.rate EXCEPT ![u] = 0]
        /\ repaid.timestamp = [stable.timestamp EXCEPT ![u] = 0]
    BY DEF Burnt, Written
  <2>6. /\ \A w \in Borrowers \ {u} : /\ repaid.principal[w] = stable.principal[w]
                                     /\ repaid.rate[w] = stable.rate[w]
                                     /\ repaid.timestamp[w] = stable.timestamp[w]
        /\ repaid.principal[u] = 0
        /\ repaid.principal \in [Borrowers -> Nat] /\ repaid.rate \in [Borrowers -> Nat]
        /\ repaid.timestamp \in [Borrowers -> Nat]
    <3>1. balance - balance = 0
      <4> HIDE DEF balance
      <4> QED
        BY <2>2, SMT
    <3> HIDE DEF balance, repaid
    <3> QED
      BY <2>4, <2>5, <3>1
  <2>7. StableBalanceOf(repaid, u) = 0
    BY <2>6 DEF StableBalanceOf
  <2> DEFINE r == WeightedRate(repaid.rate[u], StableBalanceOf(repaid, u), rate, balance)
  <2>8. r \in Nat
    BY <2>2, <2>6, <2>7, WeightedRateType
  <2>9. /\ stable'.principal = [repaid.principal EXCEPT ![u] = 0 + balance]
        /\ stable'.rate = [repaid.rate EXCEPT ![u] = r]
        /\ stable'.timestamp = [repaid.timestamp EXCEPT ![u] = now]
    BY <2>3, <2>7 DEF Minted, Written
  <2>10. 0 + balance = balance
    <3> HIDE DEF balance
    <3> QED
      BY <2>2, SMT
  <2> HIDE DEF repaid, r
  <2>11. CASE v = u
    <3>1. stable'.principal[v] = balance /\ stable'.rate[v] = r /\ stable'.timestamp[v] = now
      BY <2>6, <2>9, <2>10, <2>11
    <3>2. StableBalanceOf(stable, v)' = RayMul(balance, CompoundedInterest(r, now - now))
      BY <2>2, <2>3, <3>1 DEF StableBalanceOf
    <3> QED
      BY <2>1, <2>2, <2>8, <2>11, <3>2, NoInterestYet
  <2>12. CASE v # u
    <3>1. /\ stable'.principal[v] = stable.principal[v] /\ stable'.rate[v] = stable.rate[v]
          /\ stable'.timestamp[v] = stable.timestamp[v]
      BY <2>6, <2>9, <2>12
    <3> QED
      BY <2>3, <3>1 DEF StableBalanceOf
  <2> QED
    BY <2>11, <2>12
<1>2. StableIInv /\ [StableNext]_<<now, stable>> =>
        [\A u \in Borrowers, rate \in StableRates : Rebalance(u, rate) =>
            \A v \in Borrowers : StableBalanceOf(stable, v)' = StableBalanceOf(stable, v)]_<<now, stable>>
  BY <1>1
<1> QED
  BY <1>2, StableInductive, PTL DEF StableSpec, RebalanceKeepsDebts

-----------------------------------------------------------------------------
(* What the arithmetic of a reserve preserves.                             *)

\* Linear interest is at least one ray and grows with time.
LEMMA LinearInterestGrows ==
    ASSUME NEW rate \in Nat, NEW e \in Nat, NEW f \in Nat, e <= f
    PROVE  /\ LinearInterest(rate, e) \in Nat /\ LinearInterest(rate, f) \in Nat
           /\ RAY <= LinearInterest(rate, e)
           /\ LinearInterest(rate, e) <= LinearInterest(rate, f)
           /\ LinearInterest(rate, 0) = RAY /\ LinearInterest(0, e) = RAY
<1> DEFINE first(x) == (rate * x) \div SECONDS_PER_YEAR
<1>1. SECONDS_PER_YEAR \in Nat \ {0} /\ RAY \in Nat
  BY YearHasSeconds, ScalesAreEven
<1>2. rate * e \in Nat /\ rate * f \in Nat /\ rate * e <= rate * f /\ rate * 0 = 0 /\ 0 * e = 0
  BY SMT
<1>3. first(e) \in Nat /\ first(f) \in Nat /\ first(e) <= first(f)
  BY <1>1, <1>2, QuotientBounds, QuotientMonotone
<1>4. 0 \div SECONDS_PER_YEAR = 0
  BY <1>1, SMT
<1>5. first(0) = 0 /\ (0 * e) \div SECONDS_PER_YEAR = 0
  BY <1>2, <1>4
<1> HIDE DEF first
<1>6. RAY + first(e) \in Nat /\ RAY <= RAY + first(e) /\ RAY + first(e) <= RAY + first(f)
      /\ RAY + first(f) \in Nat /\ RAY + first(0) = RAY /\ RAY + 0 = RAY
  BY <1>1, <1>3, <1>5, SMT
<1> QED
  BY <1>5, <1>6 DEF LinearInterest, first

\* Compound interest grows with time, as does each term of the approximation.
LEMMA CompoundInterestGrows ==
    ASSUME NEW rate \in Nat, NEW e \in Nat, NEW f \in Nat, e <= f
    PROVE  CompoundedInterest(rate, e) <= CompoundedInterest(rate, f)
<1> DEFINE year == SECONDS_PER_YEAR
           least(x) == IF x > 2 THEN x - 2 ELSE 0
           squared  == RayMul(rate, rate) \div (year * year)
           cubed    == RayMul(squared, rate) \div year
           pairs(x) == x * (x - 1)
           first(x)  == (rate * x) \div year
           second(x) == (pairs(x) * squared) \div 2
           third(x)  == (pairs(x) * least(x) * cubed) \div 6
<1>1. RAY \in Nat /\ year \in Nat \ {0}
  BY ScalesAreEven, YearHasSeconds
<1>2. squared \in Nat /\ cubed \in Nat
  <2>1. year * year \in Nat \ {0}
    BY <1>1, SMT
  <2>2. squared \in Nat
    BY <2>1, RayMulType, QuotientBounds
  <2> QED
    BY <1>1, <2>2, RayMulType, QuotientBounds
<1>3. CASE e = 0
  <2>1. CompoundedInterest(rate, e) = RAY
    BY <1>3 DEF CompoundedInterest
  <2>2. /\ CompoundedInterest(rate, f) \in Nat /\ LinearInterest(rate, f) \in Nat
        /\ CompoundedInterest(rate, f) >= LinearInterest(rate, f)
        /\ RAY <= LinearInterest(rate, f)
    BY CompoundAtLeastLinear, LinearInterestGrows
  <2> QED
    BY <1>1, <2>1, <2>2, SMT
<1>4. CASE e # 0
  <2>1. f # 0
    BY <1>4, SMT
  <2>2. /\ pairs(e) \in Nat /\ pairs(f) \in Nat /\ least(e) \in Nat /\ least(f) \in Nat
        /\ pairs(e) <= pairs(f) /\ least(e) <= least(f)
    <3>1. e - 1 \in Nat /\ f - 1 \in Nat /\ e - 1 <= f - 1
      BY <1>4, <2>1, SMT
    <3>2. e * (e - 1) <= f * (e - 1) /\ f * (e - 1) <= f * (f - 1)
      BY <3>1, SMT
    <3>3. pairs(e) \in Nat /\ pairs(f) \in Nat /\ pairs(e) <= pairs(f)
      BY <3>1, <3>2, SMT
    <3> QED
      BY <3>3, SMT
  <2>3. /\ rate * e \in Nat /\ rate * f \in Nat /\ rate * e <= rate * f
    BY SMT
  <2>4. first(e) \in Nat /\ first(f) \in Nat /\ first(e) <= first(f)
    BY <1>1, <2>3, QuotientBounds, QuotientMonotone
  <2>5. second(e) \in Nat /\ second(f) \in Nat /\ second(e) <= second(f)
    <3> HIDE DEF pairs, squared, least, cubed
    <3>1. /\ pairs(e) * squared \in Nat /\ pairs(f) * squared \in Nat
          /\ pairs(e) * squared <= pairs(f) * squared
      BY <1>2, <2>2, SMT
    <3> QED
      BY <3>1, QuotientBounds, QuotientMonotone
  <2>6. third(e) \in Nat /\ third(f) \in Nat /\ third(e) <= third(f)
    <3> HIDE DEF pairs, squared, least, cubed
    <3>1. /\ pairs(e) * least(e) \in Nat /\ pairs(f) * least(f) \in Nat
          /\ pairs(e) * least(e) <= pairs(f) * least(e)
          /\ pairs(f) * least(e) <= pairs(f) * least(f)
      BY <2>2, SMT
    <3> DEFINE triples(x) == pairs(x) * least(x)
    <3>2. triples(e) \in Nat /\ triples(f) \in Nat /\ triples(e) <= triples(f)
      BY <2>2, <3>1, SMT
    <3> HIDE DEF triples
    <3>3. /\ triples(e) * cubed \in Nat /\ triples(f) * cubed \in Nat
          /\ triples(e) * cubed <= triples(f) * cubed
      BY <1>2, <3>2, SMT
    <3> QED
      BY <3>3, QuotientBounds, QuotientMonotone DEF triples
  <2>7. /\ CompoundedInterest(rate, e) = RAY + first(e) + second(e) + third(e)
        /\ CompoundedInterest(rate, f) = RAY + first(f) + second(f) + third(f)
    BY <1>4, <2>1 DEF CompoundedInterest
  <2> HIDE DEF first, second, third
  <2> QED
    BY <1>1, <2>4, <2>5, <2>6, <2>7, SMT
<1> QED
  BY <1>3, <1>4

\* A share is at most one.
LEMMA ShareBounds ==
    ASSUME NEW x \in Nat, NEW y \in Nat, x <= y
    PROVE  Share(x, y) \in Nat /\ Share(x, y) <= RAY
<1>1. RAY \in Nat
  BY ScalesAreEven
<1>2. CASE x = 0
  BY <1>1, <1>2, SMT DEF Share
<1>3. CASE x # 0
  <2>1. y \in Nat \ {0}
    BY <1>3, SMT
  <2> DEFINE q == (x * RAY + y \div 2) \div y
  <2>2. y \div 2 \in Nat /\ y \div 2 < y
    BY <2>1, SMT
  <2>3. x * RAY \in Nat /\ x * RAY <= y * RAY
    BY <1>1, SMT
  <2>4. x * RAY + y \div 2 \in Nat /\ x * RAY + y \div 2 < y * RAY + y
    BY <1>1, <2>2, <2>3, SMT
  <2>5. q \in Nat /\ y * q <= x * RAY + y \div 2
    BY <2>1, <2>4, QuotientBounds
  <2>6. Share(x, y) = q
    BY <1>3 DEF Share, RayDiv
  <2> HIDE DEF q
  <2>7. y * q < y * (RAY + 1)
    <3>1. y * (RAY + 1) = y * RAY + y
      BY <1>1, SMT
    <3>2. y * q \in Nat /\ y * RAY \in Nat
      BY <1>1, <2>5, SMT
    <3> QED
      BY <2>4, <2>5, <3>1, <3>2, SMT
  <2>8. q < RAY + 1
    BY <1>1, <2>1, <2>5, <2>7, SMT
  <2> QED
    BY <1>1, <2>5, <2>6, <2>8, SMT
<1> QED
  BY <1>2, <1>3

\* How far a ratio exceeds the optimum, of what it may exceed it by.
LEMMA ExcessType ==
    ASSUME NEW ratio \in Nat, ratio <= RAY, NEW optimum \in 0 .. RAY, ratio > optimum
    PROVE  RayDiv(ratio - optimum, RAY - optimum) \in Nat
<1>1. RAY \in Nat
  BY ScalesAreEven
<1>2. ratio - optimum \in Nat /\ RAY - optimum \in Nat \ {0}
  BY <1>1, SMT
<1> QED
  BY <1>2, RayDivType

\* What a slope adds to a rate is a natural.
LEMMA SlopedRateType ==
    ASSUME NEW slope1 \in Nat, NEW slope2 \in Nat, NEW usage \in Nat, usage <= RAY
    PROVE  SlopedRate(slope1, slope2, usage) \in Nat
<1>1. OPTIMAL_USAGE_RATIO \in Nat \ {0} /\ OPTIMAL_USAGE_RATIO \in 0 .. RAY
  BY StrategyParameters, ScalesAreEven, SMT
<1> DEFINE excess == RayDiv(usage - OPTIMAL_USAGE_RATIO, MAX_EXCESS_USAGE_RATIO)
           below  == RayDiv(RayMul(slope1, usage), OPTIMAL_USAGE_RATIO)
<1>2. below \in Nat
  BY <1>1, RayMulType, RayDivType
<1>3. CASE usage > OPTIMAL_USAGE_RATIO
  <2>1. excess \in Nat
    BY <1>1, <1>3, ExcessType DEF MAX_EXCESS_USAGE_RATIO
  <2>2. RayMul(slope2, excess) \in Nat
    BY <2>1, RayMulType
  <2>3. SlopedRate(slope1, slope2, usage) = slope1 + RayMul(slope2, excess)
    BY <1>3 DEF SlopedRate
  <2> QED
    BY <2>2, <2>3, SMT
<1>4. CASE ~ (usage > OPTIMAL_USAGE_RATIO)
  BY <1>2, <1>4 DEF SlopedRate
<1> QED
  BY <1>3, <1>4

\* calculateInterestRates returns naturals: no share exceeds one, and none of its
\* divisions is by zero.
LEMMA RatesType ==
    ASSUME NEW stableDebt \in Nat, NEW varDebt \in Nat, NEW avg \in Nat,
           NEW liquid \in Nat, NEW unbacked \in Nat
    PROVE  LET rates == calculateInterestRates(stableDebt, varDebt, avg, liquid, unbacked)
           IN  rates.liquidity \in Nat /\ rates.stable \in Nat /\ rates.variable \in Nat
<1> DEFINE debt  == stableDebt + varDebt
           usage == BorrowUsageRatio(debt, liquid)
           supplyUsage == SupplyUsageRatio(debt, liquid, unbacked)
           variableRate == baseVariableBorrowRate
                             + SlopedRate(variableRateSlope1, variableRateSlope2, usage)
           stableRate == getBaseStableBorrowRate
                           + SlopedRate(stableRateSlope1, stableRateSlope2, usage)
                           + StableRateExcess(Share(stableDebt, debt))
           overall == OverallBorrowRate(stableDebt, varDebt, variableRate, avg)
<1>1. /\ baseVariableBorrowRate \in Nat
      /\ variableRateSlope1 \in Nat /\ variableRateSlope2 \in Nat
      /\ stableRateSlope1 \in Nat /\ stableRateSlope2 \in Nat
      /\ baseStableRateOffset \in Nat /\ stableRateExcessOffset \in Nat
      /\ RAY \in Nat /\ PERCENTAGE_FACTOR \in Nat
      /\ OPTIMAL_STABLE_TO_TOTAL_DEBT_RATIO \in 0 .. RAY
      /\ reserveFactor \in 0 .. PERCENTAGE_FACTOR
  BY StrategyParameters, ScalesAreEven
<1>2. /\ debt \in Nat /\ liquid + debt \in Nat /\ liquid + debt + unbacked \in Nat
      /\ stableDebt <= debt /\ debt <= liquid + debt /\ debt <= liquid + debt + unbacked
  BY SMT
<1>3. /\ usage \in Nat /\ usage <= RAY /\ supplyUsage \in Nat
      /\ Share(stableDebt, debt) \in Nat /\ Share(stableDebt, debt) <= RAY
  <2> HIDE DEF debt
  <2> QED
    BY <1>2, ShareBounds DEF BorrowUsageRatio, SupplyUsageRatio
<1>4. /\ SlopedRate(variableRateSlope1, variableRateSlope2, usage) \in Nat
      /\ SlopedRate(stableRateSlope1, stableRateSlope2, usage) \in Nat
  <2> HIDE DEF usage
  <2> QED
    BY <1>1, <1>3, SlopedRateType
<1>5. variableRate \in Nat
  BY <1>1, <1>4, SMT
<1>6. StableRateExcess(Share(stableDebt, debt)) \in Nat
  <2> DEFINE share == Share(stableDebt, debt)
  <2> HIDE DEF share
  <2>1. share \in Nat /\ share <= RAY
    BY <1>3 DEF share
  <2>2. CASE share > OPTIMAL_STABLE_TO_TOTAL_DEBT_RATIO
    <3>1. RayDiv(share - OPTIMAL_STABLE_TO_TOTAL_DEBT_RATIO,
                 MAX_EXCESS_STABLE_TO_TOTAL_DEBT_RATIO) \in Nat
      BY <1>1, <2>1, <2>2, ExcessType DEF MAX_EXCESS_STABLE_TO_TOTAL_DEBT_RATIO
    <3> QED
      BY <1>1, <2>2, <3>1, RayMulType DEF StableRateExcess, share
  <2>3. CASE ~ (share > OPTIMAL_STABLE_TO_TOTAL_DEBT_RATIO)
    BY <2>3 DEF StableRateExcess, share
  <2> QED
    BY <2>2, <2>3
<1>7. stableRate \in Nat
  BY <1>1, <1>4, <1>6, SMT DEF getBaseStableBorrowRate
<1>8. overall \in Nat
  <2> HIDE DEF variableRate
  <2>1. CASE debt = 0
    BY <2>1 DEF OverallBorrowRate
  <2>2. CASE debt # 0
    <3>1. /\ WadToRay(varDebt) \in Nat /\ WadToRay(stableDebt) \in Nat
          /\ WadToRay(debt) \in Nat \ {0}
      BY <1>2, <2>2, WadToRayType
    <3> DEFINE weights == RayMul(WadToRay(varDebt), variableRate)
                            + RayMul(WadToRay(stableDebt), avg)
    <3>2. RayMul(WadToRay(varDebt), variableRate) \in Nat /\ RayMul(WadToRay(stableDebt), avg) \in Nat
      BY <1>5, <3>1, RayMulType
    <3>3. weights \in Nat
      BY <3>2, SMT
    <3>4. overall = RayDiv(weights, WadToRay(debt))
      BY <2>2 DEF OverallBorrowRate
    <3> HIDE DEF weights, overall, debt
    <3> QED
      BY <3>1, <3>3, <3>4, RayDivType
  <2> QED
    BY <2>1, <2>2
<1>9. LiquidityRate(overall, debt, liquid, unbacked) \in Nat
  <2>1. PERCENTAGE_FACTOR - reserveFactor \in Nat
    BY <1>1, SMT
  <2> HIDE DEF overall, debt
  <2> QED
    BY <1>3, <1>8, <2>1, RayMulType, PercentMulType DEF LiquidityRate
<1> HIDE DEF overall, variableRate, stableRate
<1>10. calculateInterestRates(stableDebt, varDebt, avg, liquid, unbacked) =
        [liquidity |-> LiquidityRate(overall, debt, liquid, unbacked),
         stable |-> stableRate, variable |-> variableRate]
  BY DEF calculateInterestRates, overall, variableRate, stableRate
<1> QED
  BY <1>5, <1>7, <1>9, <1>10

-----------------------------------------------------------------------------
(* The invariant, and what every operation begins and ends with.           *)

\* An index of a holder is never ahead of the index of the token: mint, burn
\* and transfer subtract them.
NotAhead(t, index) == \A a \in Accounts : t.index[a] <= index

ReserveIInv ==
    /\ ReserveTypeOK
    /\ ClocksBehind(stable)
    /\ stable.totalSupplyTimestamp <= reserve.lastUpdateTimestamp
    /\ reserve.lastUpdateTimestamp <= now
    /\ reserve.liquidityIndex >= RAY /\ reserve.variableBorrowIndex >= RAY
    /\ NotAhead(aToken, getNormalizedIncome)
    /\ NotAhead(variableDebt, reserve.variableBorrowIndex)

\* The reserve as an operation may leave it: brought up to the present, with
\* indices that are no lower than the interest makes them.
Updated(r) ==
    /\ r \in Reserves
    /\ r.lastUpdateTimestamp = now
    /\ r.liquidityIndex >= getNormalizedIncome
    /\ r.variableBorrowIndex >= reserve.variableBorrowIndex

\* The fields of a reserve.
LEMMA ReserveFields ==
    ASSUME NEW r \in Reserves
    PROVE  /\ r.liquidityIndex \in Nat /\ r.variableBorrowIndex \in Nat
           /\ r.liquidityRate \in Nat /\ r.stableBorrowRate \in Nat
           /\ r.variableBorrowRate \in Nat /\ r.lastUpdateTimestamp \in Nat
           /\ r.accruedToTreasury \in Nat /\ r.unbacked \in Nat
  BY DEF Reserves

\* The users and the treasury are finitely many.
LEMMA AccountsAreFinite == IsFiniteSet(Accounts) /\ Borrowers \subseteq Accounts /\ Treasury \in Accounts
  BY BorrowersAreFinite, FS_Singleton, FS_Union DEF Accounts

\* The total of scaled balances is a natural.
LEMMA ScaledTotalType ==
    ASSUME NEW t \in ScaledTokens
    PROVE  ScaledTotal(t) \in Nat
<1>1. t.scaled \in [Accounts -> Nat]
  BY DEF ScaledTokens
<1> QED
  BY <1>1, AccountsAreFinite, TotalIsNat DEF ScaledTotal

\* Income and debt of the moment are no lower than the stored indices, and are
\* what updateState stores.
LEMMA IndicesGrow ==
    ASSUME ReserveIInv
    PROVE  /\ now \in Nat /\ Elapsed \in Nat
           /\ reserve.liquidityIndex \in Nat /\ reserve.variableBorrowIndex \in Nat
           /\ getNormalizedIncome \in Nat /\ getNormalizedIncome >= reserve.liquidityIndex
           /\ NextLiquidityIndex = getNormalizedIncome
           /\ NextVariableBorrowIndex \in Nat
           /\ NextVariableBorrowIndex >= reserve.variableBorrowIndex
           /\ Elapsed = 0 => getNormalizedIncome = reserve.liquidityIndex
<1>1. now \in Nat
  BY StableBounds, SMT DEF ReserveIInv, ReserveTypeOK, StableTypeOK
<1>2. reserve \in Reserves /\ variableDebt \in ScaledTokens /\ RAY \in Nat
  BY ScalesAreEven DEF ReserveIInv, ReserveTypeOK
<1>3. /\ reserve.liquidityIndex \in Nat /\ reserve.variableBorrowIndex \in Nat
      /\ reserve.liquidityRate \in Nat /\ reserve.variableBorrowRate \in Nat
      /\ reserve.lastUpdateTimestamp \in Nat
  BY <1>2, ReserveFields
<1>4. Elapsed \in Nat
  BY <1>1, <1>3, SMT DEF ReserveIInv, Elapsed
<1> DEFINE linear == LinearInterest(reserve.liquidityRate, Elapsed)
           compound == CompoundedInterest(reserve.variableBorrowRate, Elapsed)
<1>5. 0 <= Elapsed
  BY <1>4, SMT
<1>6. /\ linear \in Nat /\ linear >= RAY
      /\ LinearInterest(0, Elapsed) = RAY /\ LinearInterest(reserve.liquidityRate, 0) = RAY
  <2>1. /\ linear \in Nat /\ RAY <= linear
        /\ LinearInterest(0, Elapsed) = RAY /\ LinearInterest(reserve.liquidityRate, 0) = RAY
    <3> Elapsed <= Elapsed
      BY <1>4, SMT
    <3> QED
      BY <1>3, <1>4, <1>5, LinearInterestGrows
  <2> HIDE DEF linear
  <2> QED
    BY <1>2, <2>1, SMT
<1>7. compound \in Nat /\ compound >= RAY
  <2>1. /\ compound \in Nat /\ compound >= LinearInterest(reserve.variableBorrowRate, Elapsed)
        /\ LinearInterest(reserve.variableBorrowRate, Elapsed) >= RAY
    BY <1>3, <1>4, CompoundAtLeastLinear
  <2>2. LinearInterest(reserve.variableBorrowRate, Elapsed) \in Nat
    <3> Elapsed <= Elapsed
      BY <1>4, SMT
    <3> QED
      BY <1>3, <1>4, LinearInterestGrows
  <2> HIDE DEF compound
  <2> QED
    BY <1>2, <2>1, <2>2, SMT
<1>8. /\ getNormalizedIncome = RayMul(reserve.liquidityIndex, linear)
      /\ getNormalizedDebt = RayMul(reserve.variableBorrowIndex, compound)
  BY <1>3, <1>6, <1>7, RayMulCommutes DEF getNormalizedIncome, getNormalizedDebt
<1>9. getNormalizedIncome \in Nat /\ getNormalizedIncome >= reserve.liquidityIndex
  <2> HIDE DEF linear
  <2> QED
    BY <1>3, <1>6, <1>8, RayMulType, RayMulGrows
<1>10. getNormalizedDebt \in Nat /\ getNormalizedDebt >= reserve.variableBorrowIndex
  <2> HIDE DEF compound
  <2> QED
    BY <1>3, <1>7, <1>8, RayMulType, RayMulGrows
<1>11. RayMul(reserve.liquidityIndex, RAY) = reserve.liquidityIndex
  BY <1>3, RayIsNeutral
<1>12. NextLiquidityIndex = getNormalizedIncome
  BY <1>6, <1>8, <1>11 DEF NextLiquidityIndex
<1>13. Elapsed = 0 => getNormalizedIncome = reserve.liquidityIndex
  BY <1>6, <1>8, <1>11
<1>14. NextVariableBorrowIndex \in Nat /\ NextVariableBorrowIndex >= reserve.variableBorrowIndex
  BY <1>3, <1>10, SMT DEF NextVariableBorrowIndex
<1> QED
  BY <1>1, <1>3, <1>4, <1>9, <1>12, <1>13, <1>14

\* The debt of the last update does not exceed that of now: the debt index has
\* grown, and compound interest has.
LEMMA DebtGrows ==
    ASSUME ReserveIInv
    PROVE  PrevTotalDebt \in Nat /\ CurrTotalDebt \in Nat /\ PrevTotalDebt <= CurrTotalDebt
<1> DEFINE total == ScaledTotal(variableDebt)
           earlier == RayMul(total, reserve.variableBorrowIndex)
           after  == RayMul(total, NextVariableBorrowIndex)
           start  == stable.totalSupplyTimestamp
           e == reserve.lastUpdateTimestamp - start
           f == now - start
           stableBefore == RayMul(stable.totalSupply, CompoundedInterest(stable.avgStableRate, e))
           stableAfter  == RayMul(stable.totalSupply, CompoundedInterest(stable.avgStableRate, f))
<1>1. total \in Nat
  BY ScaledTotalType DEF ReserveIInv, ReserveTypeOK
<1>2. earlier \in Nat /\ after \in Nat /\ earlier <= after
  <2>1. /\ reserve.variableBorrowIndex \in Nat /\ NextVariableBorrowIndex \in Nat
        /\ reserve.variableBorrowIndex <= NextVariableBorrowIndex
    BY IndicesGrow, SMT
  <2> HIDE DEF total
  <2> QED
    BY <1>1, <2>1, RayMulType, RayMulMonotone
<1>3. /\ stable.totalSupply \in Nat /\ stable.avgStableRate \in Nat /\ start \in Nat
  BY DEF ReserveIInv, ReserveTypeOK, StableTypeOK, StableTokens
<1>4. e \in Nat /\ f \in Nat /\ e <= f
  <2>1. reserve.lastUpdateTimestamp \in Nat /\ now \in Nat
    BY IndicesGrow, ReserveFields DEF ReserveIInv, ReserveTypeOK
  <2>2. start <= reserve.lastUpdateTimestamp /\ reserve.lastUpdateTimestamp <= now
    BY DEF ReserveIInv
  <2> HIDE DEF start
  <2> QED
    BY <1>3, <2>1, <2>2, SMT
<1>5. stableBefore \in Nat /\ stableAfter \in Nat /\ stableBefore <= stableAfter
  <2> HIDE DEF e, f
  <2>1. /\ CompoundedInterest(stable.avgStableRate, e) \in Nat
        /\ CompoundedInterest(stable.avgStableRate, f) \in Nat
        /\ CompoundedInterest(stable.avgStableRate, e) <= CompoundedInterest(stable.avgStableRate, f)
    BY <1>3, <1>4, CompoundAtLeastLinear, CompoundInterestGrows
  <2> QED
    BY <1>3, <2>1, RayMulType, RayMulMonotone
<1>6. StableTotalSupply(stable) = stableAfter
  <2>1. CASE stable.totalSupply = 0
    <3>1. CompoundedInterest(stable.avgStableRate, f) \in Nat
      BY <1>3, <1>4, CompoundAtLeastLinear
    <3>2. RayMul(0, CompoundedInterest(stable.avgStableRate, f)) = 0
      BY <3>1, RayMulZero
    <3> QED
      BY <2>1, <3>2 DEF StableTotalSupply
  <2>2. CASE stable.totalSupply # 0
    BY <2>2 DEF StableTotalSupply
  <2> QED
    BY <2>1, <2>2
<1>7. PrevTotalDebt = earlier + stableBefore /\ CurrTotalDebt = after + stableAfter
  BY <1>6 DEF PrevTotalDebt, CurrTotalDebt
<1> HIDE DEF earlier, after, stableBefore, stableAfter
<1> QED
  BY <1>2, <1>5, <1>7, SMT

\* updateState: the share of the treasury is of an interest that is not negative.
LEMMA UpdatedState ==
    ASSUME ReserveIInv
    PROVE  /\ Updated(updateState)
           /\ updateState.liquidityIndex = getNormalizedIncome
           /\ updateState.unbacked = reserve.unbacked
           /\ updateState.liquidityIndex >= RAY /\ updateState.variableBorrowIndex >= RAY
<1>1. reserve \in Reserves /\ reserve.liquidityIndex >= RAY /\ reserve.variableBorrowIndex >= RAY
      /\ RAY \in Nat /\ RAY # 0
  BY ScalesAreEven, SMT DEF ReserveIInv, ReserveTypeOK
<1>2. /\ now \in Nat /\ Elapsed \in Nat
      /\ reserve.liquidityIndex \in Nat /\ reserve.variableBorrowIndex \in Nat
      /\ getNormalizedIncome \in Nat /\ getNormalizedIncome >= reserve.liquidityIndex
      /\ NextLiquidityIndex = getNormalizedIncome
      /\ NextVariableBorrowIndex \in Nat
      /\ NextVariableBorrowIndex >= reserve.variableBorrowIndex
      /\ Elapsed = 0 => getNormalizedIncome = reserve.liquidityIndex
  BY IndicesGrow
<1>3. CASE Elapsed = 0
  <2>1. updateState = reserve
    BY <1>3 DEF updateState
  <2>2. reserve.lastUpdateTimestamp = now
    <3>1. reserve.lastUpdateTimestamp \in Nat
      BY <1>1, ReserveFields
    <3> QED
      BY <1>2, <1>3, <3>1, SMT DEF Elapsed
  <2>3. getNormalizedIncome = reserve.liquidityIndex
    BY <1>2, <1>3
  <2>4. reserve.liquidityIndex >= getNormalizedIncome
        /\ reserve.variableBorrowIndex >= reserve.variableBorrowIndex
    BY <1>2, <2>3, SMT
  <2> QED
    BY <1>1, <2>1, <2>2, <2>3, <2>4 DEF Updated
<1>4. CASE Elapsed # 0
  <2> DEFINE share == PercentMul(CurrTotalDebt - PrevTotalDebt, reserveFactor)
             accrued == reserve.accruedToTreasury + RayDiv(share, NextLiquidityIndex)
  <2>1. CurrTotalDebt - PrevTotalDebt \in Nat
    BY DebtGrows, SMT
  <2>2. reserveFactor \in Nat
    BY StrategyParameters, ScalesAreEven, SMT
  <2>3. share \in Nat
    BY <2>1, <2>2, PercentMulType
  <2>4. NextLiquidityIndex \in Nat \ {0} /\ NextLiquidityIndex >= RAY
    BY <1>1, <1>2, SMT
  <2>5. RayDiv(share, NextLiquidityIndex) \in Nat
    <3> HIDE DEF share
    <3> QED
      BY <2>3, <2>4, RayDivType
  <2>6. accrued \in Nat
    <3>1. reserve.accruedToTreasury \in Nat
      BY <1>1, ReserveFields
    <3> HIDE DEF share
    <3> QED
      BY <2>5, <3>1, SMT
  <2>7. updateState = [reserve EXCEPT !.liquidityIndex = NextLiquidityIndex,
                                      !.variableBorrowIndex = NextVariableBorrowIndex,
                                      !.accruedToTreasury = accrued,
                                      !.lastUpdateTimestamp = now]
    BY <1>4 DEF updateState
  <2> HIDE DEF accrued
  <2>8. /\ updateState \in Reserves
        /\ updateState.liquidityIndex = NextLiquidityIndex
        /\ updateState.variableBorrowIndex = NextVariableBorrowIndex
        /\ updateState.lastUpdateTimestamp = now
        /\ updateState.unbacked = reserve.unbacked
    BY <1>1, <1>2, <2>4, <2>6, <2>7 DEF Reserves
  <2>9. NextVariableBorrowIndex >= RAY /\ NextLiquidityIndex >= getNormalizedIncome
    BY <1>1, <1>2, SMT
  <2> QED
    BY <1>2, <2>4, <2>8, <2>9 DEF Updated
<1> QED
  BY <1>3, <1>4

\* New rates leave the indices as they are.
LEMMA RatesTaken ==
    ASSUME NEW r, Updated(r), NEW total \in Nat, NEW avg \in Nat, NEW scaled \in Nat,
           NEW liquid \in Nat
    PROVE  LET next == RatesUpdated(r, total, avg, scaled, liquid)
           IN  /\ Updated(next)
               /\ next.liquidityIndex = r.liquidityIndex
               /\ next.variableBorrowIndex = r.variableBorrowIndex
<1> DEFINE owed == RayMul(scaled, r.variableBorrowIndex)
           rates == calculateInterestRates(total, owed, avg, liquid, r.unbacked)
           next == RatesUpdated(r, total, avg, scaled, liquid)
<1>1. r \in Reserves
  BY DEF Updated
<1>2. r.variableBorrowIndex \in Nat /\ r.unbacked \in Nat
  BY <1>1, ReserveFields
<1>3. owed \in Nat
  BY <1>2, RayMulType
<1>4. rates.liquidity \in Nat /\ rates.stable \in Nat /\ rates.variable \in Nat
  <2> HIDE DEF owed
  <2> QED
    BY <1>2, <1>3, RatesType
<1>5. next = [r EXCEPT !.liquidityRate = rates.liquidity, !.stableBorrowRate = rates.stable,
                       !.variableBorrowRate = rates.variable]
  BY DEF RatesUpdated
<1> HIDE DEF rates
<1>6. /\ next \in Reserves
      /\ next.liquidityIndex = r.liquidityIndex
      /\ next.variableBorrowIndex = r.variableBorrowIndex
      /\ next.lastUpdateTimestamp = r.lastUpdateTimestamp
  BY <1>1, <1>4, <1>5 DEF Reserves
<1> HIDE DEF next
<1>7. Updated(next)
  BY <1>6 DEF Updated
<1> QED
  BY <1>6, <1>7 DEF next

-----------------------------------------------------------------------------
(* Tokens and funds.                                                       *)

\* What is not ahead of an index is not ahead of a later one.
LEMMA NotAheadLater ==
    ASSUME NEW t \in ScaledTokens, NEW i \in Nat, NEW j \in Nat, i <= j, NotAhead(t, i)
    PROVE  NotAhead(t, j)
<1>1. \A a \in Accounts : t.index[a] \in Nat
  BY DEF ScaledTokens
<1> QED
  BY <1>1, SMT DEF NotAhead

\* Writing the entries of one holder.
LEMMA TokenWritten ==
    ASSUME NEW t \in ScaledTokens, NEW a \in Accounts, NEW scaled \in Nat, NEW index \in Nat,
           NotAhead(t, index)
    PROVE  /\ WithScaled(t, a, scaled, index) \in ScaledTokens
           /\ NotAhead(WithScaled(t, a, scaled, index), index)
<1>1. t.scaled \in [Accounts -> Nat] /\ t.index \in [Accounts -> Nat]
  BY DEF ScaledTokens
<1>2. WithScaled(t, a, scaled, index) \in ScaledTokens
  BY <1>1 DEF ScaledTokens, WithScaled
<1>3. \A b \in Accounts : WithScaled(t, a, scaled, index).index[b]
                            = IF b = a THEN index ELSE t.index[b]
  BY <1>1 DEF WithScaled
<1>4. NotAhead(WithScaled(t, a, scaled, index), index)
  BY <1>3, SMT DEF NotAhead
<1> QED
  BY <1>2, <1>4

\* A mint of scaled balances.
LEMMA ScaledMintType ==
    ASSUME NEW t \in ScaledTokens, NEW a \in Accounts, NEW amount \in Nat,
           NEW index \in Nat \ {0}, NotAhead(t, index)
    PROVE  /\ ScaledMint(t, a, amount, index) \in ScaledTokens
           /\ NotAhead(ScaledMint(t, a, amount, index), index)
<1>1. t.scaled[a] \in Nat /\ RayDiv(amount, index) \in Nat
  BY RayDivType DEF ScaledTokens
<1>2. t.scaled[a] + RayDiv(amount, index) \in Nat
  BY <1>1, SMT
<1> QED
  BY <1>2, TokenWritten DEF ScaledMint

\* A burn that the balance covers.
LEMMA ScaledBurnType ==
    ASSUME NEW t \in ScaledTokens, NEW a \in Accounts, NEW amount,
           NEW index \in Nat, NotAhead(t, index), CanBurn(t, a, amount, index)
    PROVE  /\ ScaledBurn(t, a, amount, index) \in ScaledTokens
           /\ NotAhead(ScaledBurn(t, a, amount, index), index)
<1>1. t.scaled[a] \in Nat
  BY DEF ScaledTokens
<1>2. t.scaled[a] - RayDiv(amount, index) \in Nat
  BY <1>1, SMT DEF CanBurn
<1> QED
  BY <1>2, TokenWritten DEF ScaledBurn

\* A user pays.
LEMMA PaidType ==
    ASSUME ReserveIInv, NEW u \in Borrowers, NEW amount \in Nat, Paid(u, amount)
    PROVE  available' \in Nat /\ wallet' \in [Borrowers -> Nat]
<1>1. available \in Nat /\ wallet \in [Borrowers -> Nat]
  BY DEF ReserveIInv, ReserveTypeOK
<1>2. wallet[u] - amount \in Nat /\ available + amount \in Nat
  BY <1>1, SMT DEF Paid
<1> QED
  BY <1>1, <1>2 DEF Paid

\* A user is paid.
LEMMA PaidOutType ==
    ASSUME ReserveIInv, NEW u \in Borrowers, NEW amount \in Nat, PaidOut(u, amount)
    PROVE  available' \in Nat /\ wallet' \in [Borrowers -> Nat]
<1>1. available \in Nat /\ wallet \in [Borrowers -> Nat]
  BY DEF ReserveIInv, ReserveTypeOK
<1>2. wallet[u] + amount \in Nat /\ available - amount \in Nat
  BY <1>1, SMT DEF PaidOut
<1> QED
  BY <1>1, <1>2 DEF PaidOut

\* What the lemmas need of the state, and of the reserve brought up to the present.
LEMMA Prepared ==
    ASSUME ReserveIInv
    PROVE  /\ now \in Nat
           /\ stable \in StableTokens /\ ClocksBehind(stable)
           /\ aToken \in ScaledTokens /\ variableDebt \in ScaledTokens
           /\ reserve \in Reserves /\ reserve.stableBorrowRate \in Nat
           /\ available \in Nat /\ wallet \in [Borrowers -> Nat]
           /\ usedAsCollateral \subseteq Borrowers
           /\ borrowAllowance \in [RateModes -> [Borrowers -> [Borrowers -> Nat]]]
           /\ loans \in Seq(Loans)
           /\ Updated(updateState) /\ updateState \in Reserves
           /\ updateState.liquidityIndex \in Nat \ {0}
           /\ updateState.variableBorrowIndex \in Nat \ {0}
           /\ updateState.liquidityIndex = getNormalizedIncome
           /\ updateState.unbacked \in Nat
           /\ NotAhead(aToken, updateState.liquidityIndex)
           /\ NotAhead(variableDebt, updateState.variableBorrowIndex)
<1>1. /\ stable \in StableTokens /\ ClocksBehind(stable)
      /\ aToken \in ScaledTokens /\ variableDebt \in ScaledTokens
      /\ reserve \in Reserves
      /\ available \in Nat /\ wallet \in [Borrowers -> Nat]
      /\ usedAsCollateral \subseteq Borrowers
      /\ borrowAllowance \in [RateModes -> [Borrowers -> [Borrowers -> Nat]]]
      /\ loans \in Seq(Loans)
  BY DEF ReserveIInv, ReserveTypeOK, StableTypeOK
<1>2. now \in Nat /\ reserve.variableBorrowIndex \in Nat
  BY IndicesGrow
<1>3. /\ Updated(updateState) /\ updateState.liquidityIndex = getNormalizedIncome
      /\ updateState.liquidityIndex >= RAY /\ updateState.variableBorrowIndex >= RAY
  BY UpdatedState
<1>4. updateState \in Reserves /\ reserve.variableBorrowIndex <= updateState.variableBorrowIndex
  <2>1. updateState \in Reserves /\ updateState.variableBorrowIndex >= reserve.variableBorrowIndex
    BY <1>3 DEF Updated
  <2>2. updateState.variableBorrowIndex \in Nat
    BY <2>1, ReserveFields
  <2> QED
    BY <1>2, <2>1, <2>2, SMT
<1>5. /\ updateState.liquidityIndex \in Nat /\ updateState.variableBorrowIndex \in Nat
      /\ updateState.unbacked \in Nat /\ reserve.stableBorrowRate \in Nat
  BY <1>1, <1>4, ReserveFields
<1>6. updateState.liquidityIndex \in Nat \ {0} /\ updateState.variableBorrowIndex \in Nat \ {0}
  BY <1>3, <1>5, ScalesAreEven, SMT
<1>7. NotAhead(aToken, updateState.liquidityIndex)
  BY <1>3 DEF ReserveIInv
<1>8. NotAhead(variableDebt, updateState.variableBorrowIndex)
  <2>1. NotAhead(variableDebt, reserve.variableBorrowIndex)
    BY DEF ReserveIInv
  <2> QED
    BY <1>1, <1>2, <1>4, <1>5, <2>1, NotAheadLater
<1> QED
  BY <1>1, <1>2, <1>3, <1>4, <1>5, <1>6, <1>7, <1>8

\* The rates after an operation, whichever totals it hands on.
LEMMA RatesOfDebts ==
    ASSUME now \in Nat, NEW r, Updated(r), NEW s \in StableTokens, ClocksBehind(s),
           NEW v \in ScaledTokens, NEW liquid \in Nat, NEW u \in Borrowers
    PROVE  LET next == updateInterestRatesOfDebts(r, s, v, liquid)
           IN  /\ Updated(next)
               /\ next.liquidityIndex = r.liquidityIndex
               /\ next.variableBorrowIndex = r.variableBorrowIndex
<1>1. StableTotalSupply(s) \in Nat /\ s.avgStableRate \in Nat /\ ScaledTotal(v) \in Nat
  BY BalanceTypes, ScaledTotalType DEF StableTokens
<1> DEFINE total == StableTotalSupply(s)
           avg == s.avgStableRate
           scaled == ScaledTotal(v)
<1>2. updateInterestRatesOfDebts(r, s, v, liquid) = RatesUpdated(r, total, avg, scaled, liquid)
  BY DEF updateInterestRatesOfDebts
<1> HIDE DEF total, avg, scaled
<1>3. total \in Nat /\ avg \in Nat /\ scaled \in Nat
  BY <1>1 DEF total, avg, scaled
<1> QED
  BY <1>2, <1>3, RatesTaken

\* ... when the debts stay,
LEMMA RatesOfLiquidity ==
    ASSUME ReserveIInv, NEW r, Updated(r), NEW liquid \in Nat, NEW u \in Borrowers
    PROVE  LET next == updateInterestRates(r, liquid)
           IN  /\ Updated(next)
               /\ next.liquidityIndex = r.liquidityIndex
               /\ next.variableBorrowIndex = r.variableBorrowIndex
<1>1. updateInterestRates(r, liquid) = updateInterestRatesOfDebts(r, stable, variableDebt, liquid)
  BY DEF updateInterestRates, updateInterestRatesOfDebts
<1> QED
  BY <1>1, Prepared, RatesOfDebts

\* ... and when stable debt is burnt.
LEMMA RatesOfBurn ==
    ASSUME ReserveIInv, NEW r, Updated(r), NEW s \in StableTokens, NEW amount \in Nat,
           NEW v \in ScaledTokens, NEW liquid \in Nat, NEW u \in Borrowers
    PROVE  LET next == updateInterestRatesOfBurn(r, s, amount, v, liquid)
           IN  /\ Updated(next)
               /\ next.liquidityIndex = r.liquidityIndex
               /\ next.variableBorrowIndex = r.variableBorrowIndex
<1>1. StableTotalSupply(stable) \in Nat
  BY Prepared, BalanceTypes
<1>2. BurnReturns(stable, amount) \in Nat
  BY <1>1, SMT DEF BurnReturns
<1>3. s.avgStableRate \in Nat /\ ScaledTotal(v) \in Nat
  BY ScaledTotalType DEF StableTokens
<1> DEFINE total == BurnReturns(stable, amount)
           avg == s.avgStableRate
           scaled == ScaledTotal(v)
<1>4. updateInterestRatesOfBurn(r, s, amount, v, liquid) = RatesUpdated(r, total, avg, scaled, liquid)
  BY DEF updateInterestRatesOfBurn
<1> HIDE DEF total, avg, scaled
<1>5. total \in Nat /\ avg \in Nat /\ scaled \in Nat
  BY <1>2, <1>3 DEF total, avg, scaled
<1> QED
  BY <1>4, <1>5, RatesTaken

\* A rebalance is a full burn and a mint.
LEMMA RebalancedType ==
    ASSUME now \in Nat, NEW t \in StableTokens, ClocksBehind(t), NEW u \in Borrowers,
           StableBalanceOf(t, u) # 0, NEW rate \in Nat
    PROVE  Rebalanced(t, u, rate) \in StableTokens /\ ClocksBehind(Rebalanced(t, u, rate))
<1> DEFINE balance == StableBalanceOf(t, u)
           repaid  == Burnt(t, u, balance)
<1>1. balance \in Nat \ {0}
  BY BalanceTypes
<1>2. balance \in 1 .. balance
  BY <1>1, SMT
<1>3. repaid \in StableTokens /\ ClocksBehind(repaid)
  BY <1>2, BurntType
<1>4. Rebalanced(t, u, rate) = Minted(repaid, u, balance, rate)
  BY DEF Rebalanced
<1> HIDE DEF repaid, balance
<1> QED
  BY <1>1, <1>3, <1>4, MintedType

\* A premium raises the liquidity index: the suppliers' part over what they have.
LEMMA PremiumTaken ==
    ASSUME ReserveIInv, HasSuppliers(updateState), NEW premium \in Nat,
           NEW share \in 0 .. PERCENTAGE_FACTOR
    PROVE  LET next == Premium(updateState, premium, share)
           IN  /\ Updated(next)
               /\ next.liquidityIndex >= updateState.liquidityIndex
               /\ next.variableBorrowIndex = updateState.variableBorrowIndex
               /\ next.unbacked = updateState.unbacked
<1> DEFINE r == updateState
           toProtocol == PercentMul(premium, share)
           rest == premium - toProtocol
           worth == RayMul(ScaledTotal(aToken), r.liquidityIndex)
                      + RayMul(r.accruedToTreasury, r.liquidityIndex)
           ratio == RayDiv(WadToRay(rest), WadToRay(worth))
           index == RayMul(ratio + RAY, r.liquidityIndex)
           next == Premium(updateState, premium, share)
<1>1. /\ r \in Reserves /\ Updated(r)
      /\ r.liquidityIndex \in Nat \ {0} /\ r.liquidityIndex = getNormalizedIncome
      /\ aToken \in ScaledTokens
  BY Prepared
<1>2. r.accruedToTreasury \in Nat /\ r.variableBorrowIndex \in Nat
  BY <1>1, ReserveFields
<1>3. worth \in Nat \ {0}
  <2>1. /\ RayMul(ScaledTotal(aToken), r.liquidityIndex) \in Nat
        /\ RayMul(r.accruedToTreasury, r.liquidityIndex) \in Nat
    BY <1>1, <1>2, ScaledTotalType, RayMulType
  <2>2. worth \in Nat
    BY <2>1, SMT
  <2> QED
    BY <2>2 DEF HasSuppliers
<1>4. toProtocol \in Nat /\ rest \in Nat
  <2>1. share \in Nat /\ share <= PERCENTAGE_FACTOR
    BY ScalesAreEven, SMT
  <2>2. toProtocol \in Nat /\ toProtocol <= premium
    BY <2>1, PercentMulType, PercentMulShrinks
  <2> HIDE DEF toProtocol
  <2> QED
    BY <2>2, SMT
<1>5. ratio \in Nat
  <2> HIDE DEF worth, rest
  <2> QED
    BY <1>3, <1>4, WadToRayType, RayDivType
<1>6. ratio + RAY \in Nat /\ ratio + RAY >= RAY
  <2> HIDE DEF ratio
  <2> QED
    BY <1>5, ScalesAreEven, SMT
<1>7. index \in Nat /\ index >= r.liquidityIndex
  <2> HIDE DEF ratio
  <2>1. index = RayMul(r.liquidityIndex, ratio + RAY)
    BY <1>1, <1>6, RayMulCommutes
  <2> QED
    BY <1>1, <1>6, <2>1, RayMulType, RayMulGrows
<1>8. next = [r EXCEPT !.liquidityIndex = index,
                       !.accruedToTreasury = @ + RayDiv(toProtocol, index)]
  BY DEF Premium, cumulateToLiquidityIndex
<1> HIDE DEF toProtocol, index
<1>9. r.accruedToTreasury + RayDiv(toProtocol, index) \in Nat
  <2>1. index \in Nat \ {0}
    BY <1>1, <1>7, SMT
  <2>2. RayDiv(toProtocol, index) \in Nat
    BY <1>4, <2>1, RayDivType
  <2> QED
    BY <1>2, <2>2, SMT
<1> HIDE DEF next
<1>10. /\ next \in Reserves /\ next.liquidityIndex = index
       /\ next.variableBorrowIndex = r.variableBorrowIndex
       /\ next.unbacked = r.unbacked /\ next.lastUpdateTimestamp = r.lastUpdateTimestamp
  BY <1>1, <1>7, <1>8, <1>9 DEF Reserves
<1>11. Updated(next)
  BY <1>1, <1>7, <1>10 DEF Updated
<1> QED
  BY <1>7, <1>10, <1>11 DEF next

-----------------------------------------------------------------------------
(* What a step has to leave behind.                                        *)

\* What is shown of every step.
Keeps == ReserveIInv' /\ getNormalizedIncome' >= getNormalizedIncome

\* An operation that updates the reserve.
LEMMA OperationKeeps ==
    ASSUME ReserveIInv, now' = now, Updated(reserve'),
           stable' \in StableTokens, ClocksBehind(stable'),
           aToken' \in ScaledTokens, NotAhead(aToken', reserve'.liquidityIndex),
           variableDebt' \in ScaledTokens, NotAhead(variableDebt', reserve'.variableBorrowIndex),
           available' \in Nat, wallet' \in [Borrowers -> Nat],
           usedAsCollateral' \subseteq Borrowers,
           borrowAllowance' \in [RateModes -> [Borrowers -> [Borrowers -> Nat]]],
           loans' \in Seq(Loans)
    PROVE  Keeps
<1>1. /\ now \in Nat /\ now \in 0 .. MaxTime /\ RAY \in Nat
      /\ reserve.liquidityIndex \in Nat /\ reserve.variableBorrowIndex \in Nat
      /\ getNormalizedIncome \in Nat /\ getNormalizedIncome >= reserve.liquidityIndex
      /\ reserve.liquidityIndex >= RAY /\ reserve.variableBorrowIndex >= RAY
  BY IndicesGrow, ScalesAreEven DEF ReserveIInv, ReserveTypeOK, StableTypeOK
<1>2. /\ reserve' \in Reserves /\ reserve'.lastUpdateTimestamp = now
      /\ reserve'.liquidityIndex >= getNormalizedIncome
      /\ reserve'.variableBorrowIndex >= reserve.variableBorrowIndex
  BY DEF Updated
<1>3. /\ reserve'.liquidityIndex \in Nat /\ reserve'.variableBorrowIndex \in Nat
      /\ reserve'.liquidityRate \in Nat
  BY <1>2, ReserveFields
<1>4. reserve'.liquidityIndex >= RAY /\ reserve'.variableBorrowIndex >= RAY
  BY <1>1, <1>2, <1>3, SMT
<1>5. getNormalizedIncome' = reserve'.liquidityIndex
  <2>1. now - now = 0
    BY <1>1, SMT
  <2>2. LinearInterest(reserve'.liquidityRate, 0) = RAY
    <3> 0 \in Nat /\ 0 <= 0
      BY SMT
    <3> QED
      BY <1>3, LinearInterestGrows
  <2>3. RayMul(RAY, reserve'.liquidityIndex) = reserve'.liquidityIndex
    BY <1>1, <1>3, RayMulCommutes, RayIsNeutral
  <2> QED
    BY <1>2, <2>1, <2>2, <2>3 DEF getNormalizedIncome, Elapsed
<1>6. ReserveTypeOK'
  BY <1>1, <1>2 DEF ReserveTypeOK, StableTypeOK
<1>7. ClocksBehind(stable)'
  BY DEF ClocksBehind
<1>8. stable'.totalSupplyTimestamp <= reserve'.lastUpdateTimestamp
      /\ reserve'.lastUpdateTimestamp <= now'
  <2>1. stable'.totalSupplyTimestamp <= now
    BY DEF ClocksBehind
  <2> QED
    BY <1>1, <1>2, <2>1, SMT
<1>9. NotAhead(aToken, getNormalizedIncome)' /\ NotAhead(variableDebt, reserve.variableBorrowIndex)'
  BY <1>5 DEF NotAhead
<1> QED
  BY <1>2, <1>4, <1>5, <1>6, <1>7, <1>8, <1>9 DEF ReserveIInv, Keeps

\* An operation that looks at the income and stores no index.
LEMMA QuietKeeps ==
    ASSUME ReserveIInv, UNCHANGED <<now, stable, variableDebt>>,
           reserve' \in Reserves,
           reserve'.liquidityIndex = reserve.liquidityIndex,
           reserve'.variableBorrowIndex = reserve.variableBorrowIndex,
           reserve'.liquidityRate = reserve.liquidityRate,
           reserve'.lastUpdateTimestamp = reserve.lastUpdateTimestamp,
           aToken' \in ScaledTokens, NotAhead(aToken', getNormalizedIncome),
           available' \in Nat, wallet' \in [Borrowers -> Nat],
           usedAsCollateral' \subseteq Borrowers,
           borrowAllowance' \in [RateModes -> [Borrowers -> [Borrowers -> Nat]]],
           loans' \in Seq(Loans)
    PROVE  Keeps
<1>1. getNormalizedIncome' = getNormalizedIncome
  BY DEF getNormalizedIncome, Elapsed
<1>2. getNormalizedIncome \in Nat
  BY IndicesGrow
<1>3. ReserveTypeOK'
  BY DEF ReserveIInv, ReserveTypeOK, StableTypeOK
<1>4. ClocksBehind(stable)'
  BY DEF ReserveIInv, ClocksBehind
<1>5. NotAhead(aToken, getNormalizedIncome)' /\ NotAhead(variableDebt, reserve.variableBorrowIndex)'
  BY <1>1 DEF ReserveIInv, NotAhead
<1>6. ReserveIInv'
  BY <1>3, <1>4, <1>5 DEF ReserveIInv
<1> QED
  BY <1>1, <1>2, <1>6, SMT DEF Keeps

-----------------------------------------------------------------------------
(* The operations.                                                         *)

\* Amounts are positive.
LEMMA AmountsType == Amounts \subseteq Nat \ {0} /\ MAX \notin Amounts
  BY StableBounds, ReserveParameters

\* A mint of aTokens.
LEMMA ATokensMinted ==
    ASSUME ReserveIInv, NEW u \in Borrowers, NEW amount \in Nat,
           MintATokens(u, amount, updateState.liquidityIndex)
    PROVE  /\ aToken' \in ScaledTokens /\ NotAhead(aToken', updateState.liquidityIndex)
           /\ usedAsCollateral' \subseteq Borrowers
<1>1. u \in Accounts
  BY AccountsAreFinite
<1>2. aToken' = ScaledMint(aToken, u, amount, updateState.liquidityIndex)
  BY DEF MintATokens
<1>3. aToken' \in ScaledTokens /\ NotAhead(aToken', updateState.liquidityIndex)
  BY <1>1, <1>2, Prepared, ScaledMintType
<1>4. usedAsCollateral' \subseteq Borrowers
  BY Prepared DEF MintATokens
<1> QED
  BY <1>3, <1>4

\* supply
LEMMA SupplyKeeps ==
    ASSUME ReserveIInv, NEW u \in Borrowers, NEW v \in Borrowers, NEW amount \in Amounts,
           Supply(u, v, amount)
    PROVE  Keeps
<1> DEFINE r == updateState
<1>1. amount \in Nat
  BY AmountsType
<1>2. /\ Paid(u, amount) /\ MintATokens(v, amount, r.liquidityIndex)
      /\ reserve' = updateInterestRates(r, available')
      /\ UNCHANGED <<now, stable, variableDebt, borrowAllowance, loans>>
  BY DEF Supply
<1>3. available' \in Nat /\ wallet' \in [Borrowers -> Nat]
  BY <1>1, <1>2, PaidType
<1>4. /\ aToken' \in ScaledTokens /\ NotAhead(aToken', r.liquidityIndex)
      /\ usedAsCollateral' \subseteq Borrowers
  BY <1>1, <1>2, ATokensMinted
<1>5. /\ Updated(reserve') /\ reserve'.liquidityIndex = r.liquidityIndex
      /\ reserve'.variableBorrowIndex = r.variableBorrowIndex
  BY <1>2, <1>3, Prepared, RatesOfLiquidity
<1> HIDE DEF r
<1>6. NotAhead(variableDebt, r.variableBorrowIndex)
  BY Prepared DEF r
<1> QED
  BY <1>2, <1>3, <1>4, <1>5, <1>6, Prepared, OperationKeeps

\* withdraw
LEMMA WithdrawKeeps ==
    ASSUME ReserveIInv, NEW u \in Borrowers, NEW to \in Borrowers, NEW amount,
           Withdraw(u, to, amount)
    PROVE  Keeps
<1> DEFINE r == updateState
           balance == RayMul(aToken.scaled[u], r.liquidityIndex)
           withdrawn == Amount(amount, balance)
<1>1. /\ withdrawn \in 1 .. balance
      /\ CanBurn(aToken, u, withdrawn, r.liquidityIndex)
      /\ aToken' = ScaledBurn(aToken, u, withdrawn, r.liquidityIndex)
      /\ PaidOut(to, withdrawn)
      /\ usedAsCollateral' = IF withdrawn = balance THEN usedAsCollateral \ {u} ELSE usedAsCollateral
      /\ reserve' = updateInterestRates(r, available')
      /\ UNCHANGED <<now, stable, variableDebt, borrowAllowance, loans>>
  BY DEF Withdraw
<1>2. u \in Accounts
  BY AccountsAreFinite
<1> HIDE DEF withdrawn
<1>3. withdrawn \in Nat
  BY <1>1, SMT
<1>4. available' \in Nat /\ wallet' \in [Borrowers -> Nat]
  BY <1>1, <1>3, PaidOutType
<1>5. aToken' \in ScaledTokens /\ NotAhead(aToken', r.liquidityIndex)
  BY <1>1, <1>2, Prepared, ScaledBurnType
<1>6. usedAsCollateral' \subseteq Borrowers
  BY <1>1, Prepared
<1>7. /\ Updated(reserve') /\ reserve'.liquidityIndex = r.liquidityIndex
      /\ reserve'.variableBorrowIndex = r.variableBorrowIndex
  BY <1>1, <1>4, Prepared, RatesOfLiquidity
<1> HIDE DEF r
<1>8. NotAhead(variableDebt, r.variableBorrowIndex)
  BY Prepared DEF r
<1> QED
  BY <1>1, <1>4, <1>5, <1>6, <1>7, <1>8, Prepared, OperationKeeps

\* A transfer of aTokens, to oneself as well.
LEMMA TransferKeeps ==
    ASSUME ReserveIInv, NEW u \in Borrowers, NEW v \in Borrowers, NEW amount \in Amounts,
           Transfer(u, v, amount)
    PROVE  Keeps
<1> DEFINE index == getNormalizedIncome
           scaled == RayDiv(amount, index)
           sent == WithScaled(aToken, u, aToken.scaled[u] - scaled, index)
<1>1. /\ scaled <= aToken.scaled[u]
      /\ aToken' = WithScaled(sent, v, sent.scaled[v] + scaled, index)
      /\ UNCHANGED <<now, stable, reserve, variableDebt, available, wallet, borrowAllowance, loans>>
  BY DEF Transfer
<1>2. usedAsCollateral' \subseteq Borrowers
  BY Prepared DEF Transfer
<1>3. u \in Accounts /\ v \in Accounts
  BY AccountsAreFinite
<1>4. index \in Nat \ {0} /\ NotAhead(aToken, index) /\ aToken \in ScaledTokens /\ amount \in Nat
  BY Prepared, AmountsType
<1> HIDE DEF index
<1>5. scaled \in Nat
  BY <1>4, RayDivType
<1> HIDE DEF scaled
<1>6. aToken.scaled[u] - scaled \in Nat
  <2>1. aToken.scaled[u] \in Nat
    BY <1>3, <1>4 DEF ScaledTokens
  <2> QED
    BY <1>1, <1>5, <2>1, SMT
<1>7. sent \in ScaledTokens /\ NotAhead(sent, index)
  BY <1>3, <1>4, <1>6, TokenWritten
<1> HIDE DEF sent
<1>8. sent.scaled[v] + scaled \in Nat
  <2>1. sent.scaled[v] \in Nat
    BY <1>3, <1>7 DEF ScaledTokens
  <2> QED
    BY <1>5, <2>1, SMT
<1>9. aToken' \in ScaledTokens /\ NotAhead(aToken', index)
  BY <1>1, <1>3, <1>4, <1>7, <1>8, TokenWritten
<1> QED
  BY <1>1, <1>2, <1>9, Prepared, QuietKeeps DEF index

\* setUserUseReserveAsCollateral, approveDelegation
LEMMA OwnChoiceKeeps ==
    ASSUME ReserveIInv,
           \/ \E u \in Borrowers, b \in BOOLEAN : SetUserUseReserveAsCollateral(u, b)
           \/ \E u, v \in Borrowers, mode \in RateModes, n \in Amounts :
                ApproveDelegation(u, v, mode, n)
    PROVE  Keeps
<1>1. UNCHANGED <<now, stable, reserve, aToken, variableDebt, available, wallet, loans>>
  BY DEF SetUserUseReserveAsCollateral, ApproveDelegation
<1>2. usedAsCollateral' \subseteq Borrowers
  BY Prepared DEF SetUserUseReserveAsCollateral, ApproveDelegation
<1>3. borrowAllowance' \in [RateModes -> [Borrowers -> [Borrowers -> Nat]]]
  <2>1. CASE UNCHANGED borrowAllowance
    BY <2>1, Prepared
  <2>2. ASSUME NEW u \in Borrowers, NEW v \in Borrowers, NEW mode \in RateModes, NEW n \in Amounts,
               ApproveDelegation(u, v, mode, n)
        PROVE  borrowAllowance' \in [RateModes -> [Borrowers -> [Borrowers -> Nat]]]
    <3>1. borrowAllowance' = [borrowAllowance EXCEPT ![mode][u][v] = n]
      BY <2>2 DEF ApproveDelegation
    <3>2. n \in Nat
      BY AmountsType
    <3> QED
      BY <3>1, <3>2, Prepared
  <2> QED
    BY <2>1, <2>2 DEF SetUserUseReserveAsCollateral
<1>4. NotAhead(aToken', getNormalizedIncome)
  BY <1>1 DEF ReserveIInv
<1> QED
  BY <1>1, <1>2, <1>3, <1>4, Prepared, QuietKeeps

\* mintToTreasury
LEMMA MintToTreasuryKeeps ==
    ASSUME ReserveIInv, MintToTreasury
    PROVE  Keeps
<1> DEFINE index == getNormalizedIncome
           amount == RayMul(reserve.accruedToTreasury, index)
<1>1. /\ reserve' = [reserve EXCEPT !.accruedToTreasury = 0]
      /\ aToken' = ScaledMint(aToken, Treasury, amount, index)
      /\ UNCHANGED <<now, stable, variableDebt, available, wallet, usedAsCollateral,
                     borrowAllowance, loans>>
  BY DEF MintToTreasury
<1>2. index \in Nat \ {0} /\ NotAhead(aToken, index) /\ aToken \in ScaledTokens
      /\ reserve \in Reserves
  BY Prepared
<1>3. reserve.accruedToTreasury \in Nat
  BY <1>2, ReserveFields
<1> HIDE DEF index
<1>4. amount \in Nat
  BY <1>2, <1>3, RayMulType
<1> HIDE DEF amount
<1>5. aToken' \in ScaledTokens /\ NotAhead(aToken', index)
  BY <1>1, <1>2, <1>4, AccountsAreFinite, ScaledMintType
<1>6. /\ reserve' \in Reserves
      /\ reserve'.liquidityIndex = reserve.liquidityIndex
      /\ reserve'.variableBorrowIndex = reserve.variableBorrowIndex
      /\ reserve'.liquidityRate = reserve.liquidityRate
      /\ reserve'.lastUpdateTimestamp = reserve.lastUpdateTimestamp
  BY <1>1, <1>2 DEF Reserves
<1> QED
  BY <1>1, <1>5, <1>6, Prepared, QuietKeeps DEF index

\* borrow, for oneself or with an allowance
LEMMA BorrowKeeps ==
    ASSUME ReserveIInv, NEW u \in Borrowers, NEW v \in Borrowers, NEW amount \in Amounts,
           NEW mode \in RateModes, Borrow(u, v, amount, mode)
    PROVE  Keeps
<1> DEFINE r == updateState
<1>1. /\ SpendAllowance(u, v, mode, amount) /\ PaidOut(u, amount)
      /\ reserve' = updateInterestRatesOfDebts(r, stable', variableDebt', available')
      /\ UNCHANGED <<now, aToken, usedAsCollateral, loans>>
      /\ \/ /\ stable' = Minted(stable, v, amount, reserve.stableBorrowRate)
            /\ UNCHANGED variableDebt
         \/ /\ variableDebt' = ScaledMint(variableDebt, v, amount, r.variableBorrowIndex)
            /\ UNCHANGED stable
  BY DEF Borrow
<1>2. amount \in Nat \ {0} /\ amount \in Nat /\ v \in Accounts
  BY AmountsType, AccountsAreFinite
<1>3. borrowAllowance' \in [RateModes -> [Borrowers -> [Borrowers -> Nat]]]
  <2>1. CASE u = v
    BY <1>1, <2>1, Prepared DEF SpendAllowance
  <2>2. CASE u # v
    <3>1. /\ borrowAllowance[mode][v][u] >= amount
          /\ borrowAllowance' = [borrowAllowance EXCEPT ![mode][v][u] = @ - amount]
      BY <1>1, <2>2 DEF SpendAllowance
    <3>2. borrowAllowance \in [RateModes -> [Borrowers -> [Borrowers -> Nat]]]
      BY Prepared
    <3>3. borrowAllowance[mode][v][u] \in Nat
      BY <3>2
    <3>4. borrowAllowance[mode][v][u] - amount \in Nat
      BY <1>2, <3>1, <3>3, SMT
    <3> QED
      BY <3>1, <3>2, <3>4
  <2> QED
    BY <2>1, <2>2
<1>4. available' \in Nat /\ wallet' \in [Borrowers -> Nat]
  BY <1>1, <1>2, PaidOutType
<1>5. /\ stable' \in StableTokens /\ ClocksBehind(stable')
      /\ variableDebt' \in ScaledTokens /\ NotAhead(variableDebt', r.variableBorrowIndex)
  <2>1. CASE /\ stable' = Minted(stable, v, amount, reserve.stableBorrowRate)
             /\ UNCHANGED variableDebt
    BY <1>2, <2>1, Prepared, MintedType
  <2>2. CASE /\ variableDebt' = ScaledMint(variableDebt, v, amount, r.variableBorrowIndex)
             /\ UNCHANGED stable
    BY <1>2, <2>2, Prepared, ScaledMintType
  <2> QED
    BY <1>1, <2>1, <2>2
<1>6. /\ Updated(reserve') /\ reserve'.liquidityIndex = r.liquidityIndex
      /\ reserve'.variableBorrowIndex = r.variableBorrowIndex
  <2>1. now \in Nat /\ Updated(r)
    BY Prepared
  <2> HIDE DEF r
  <2>2. PICK s, d, liquid : s = stable' /\ d = variableDebt' /\ liquid = available'
    OBVIOUS
  <2>3. reserve' = updateInterestRatesOfDebts(r, s, d, liquid)
    BY <1>1, <2>2
  <2>4. s \in StableTokens /\ ClocksBehind(s) /\ d \in ScaledTokens /\ liquid \in Nat
    BY <1>4, <1>5, <2>2
  <2> QED
    BY <2>1, <2>3, <2>4, RatesOfDebts
<1>7. NotAhead(aToken, r.liquidityIndex)
  BY Prepared
<1> HIDE DEF r
<1> QED
  BY <1>1, <1>3, <1>4, <1>5, <1>6, <1>7, Prepared, OperationKeeps

\* What a debtor owes is a natural.
LEMMA DebtOfType ==
    ASSUME ReserveIInv, NEW u \in Borrowers, NEW mode \in RateModes
    PROVE  DebtOf(u, mode, updateState.variableBorrowIndex) \in Nat
<1>1. StableBalanceOf(stable, u) \in Nat
  BY Prepared, BalanceTypes
<1>2. variableDebt.scaled[u] \in Nat /\ updateState.variableBorrowIndex \in Nat
  BY Prepared, AccountsAreFinite DEF ScaledTokens
<1>3. RayMul(variableDebt.scaled[u], updateState.variableBorrowIndex) \in Nat
  BY <1>2, RayMulType
<1> QED
  BY <1>1, <1>3 DEF DebtOf

\* The burn of a debt, at either rate, with the rates of what is left.
LEMMA BurnDebtType ==
    ASSUME ReserveIInv, NEW u \in Borrowers, NEW mode \in RateModes, NEW amount \in Nat \ {0},
           amount <= DebtOf(u, mode, updateState.variableBorrowIndex), NEW liquid \in Nat,
           BurnDebt(updateState, u, mode, amount, liquid)
    PROVE  /\ stable' \in StableTokens /\ ClocksBehind(stable')
           /\ variableDebt' \in ScaledTokens
           /\ NotAhead(variableDebt', updateState.variableBorrowIndex)
           /\ Updated(reserve')
           /\ reserve'.liquidityIndex = updateState.liquidityIndex
           /\ reserve'.variableBorrowIndex = updateState.variableBorrowIndex
<1> DEFINE r == updateState
<1>1. u \in Accounts /\ amount \in Nat
  BY AccountsAreFinite
<1>2. CASE /\ mode = "stable" /\ stable' = Burnt(stable, u, amount)
           /\ reserve' = updateInterestRatesOfBurn(r, stable', amount, variableDebt, liquid)
           /\ UNCHANGED variableDebt
  <2>1. DebtOf(u, mode, r.variableBorrowIndex) = StableBalanceOf(stable, u)
    BY <1>2 DEF DebtOf
  <2>2. StableBalanceOf(stable, u) \in Nat
    BY Prepared, BalanceTypes
  <2>3. amount \in 1 .. StableBalanceOf(stable, u)
    BY <2>1, <2>2, SMT
  <2>4. stable' \in StableTokens /\ ClocksBehind(stable')
    BY <1>2, <2>3, Prepared, BurntType
  <2>5. /\ Updated(reserve') /\ reserve'.liquidityIndex = r.liquidityIndex
        /\ reserve'.variableBorrowIndex = r.variableBorrowIndex
    <3>1. Updated(r) /\ variableDebt \in ScaledTokens
      BY Prepared
    <3> HIDE DEF r
    <3>2. PICK s : s = stable'
      OBVIOUS
    <3>3. reserve' = updateInterestRatesOfBurn(r, s, amount, variableDebt, liquid)
      BY <1>2, <3>2
    <3>4. s \in StableTokens
      BY <2>4, <3>2
    <3> QED
      BY <1>1, <3>1, <3>3, <3>4, RatesOfBurn
  <2> QED
    BY <1>2, <2>4, <2>5, Prepared
<1>3. CASE /\ mode = "variable"
           /\ CanBurn(variableDebt, u, amount, r.variableBorrowIndex)
           /\ variableDebt' = ScaledBurn(variableDebt, u, amount, r.variableBorrowIndex)
           /\ reserve' = updateInterestRatesOfDebts(r, stable, variableDebt', liquid)
           /\ UNCHANGED stable
  <2>1. variableDebt' \in ScaledTokens /\ NotAhead(variableDebt', r.variableBorrowIndex)
    BY <1>1, <1>3, Prepared, ScaledBurnType
  <2>2. /\ Updated(reserve') /\ reserve'.liquidityIndex = r.liquidityIndex
        /\ reserve'.variableBorrowIndex = r.variableBorrowIndex
    <3>1. now \in Nat /\ Updated(r) /\ stable \in StableTokens /\ ClocksBehind(stable)
      BY Prepared
    <3> HIDE DEF r
    <3>2. PICK s, d : s = stable /\ d = variableDebt'
      OBVIOUS
    <3>3. reserve' = updateInterestRatesOfDebts(r, s, d, liquid)
      BY <1>3, <3>2
    <3>4. s \in StableTokens /\ ClocksBehind(s) /\ d \in ScaledTokens
      BY <2>1, <3>1, <3>2
    <3> QED
      BY <3>1, <3>3, <3>4, RatesOfDebts
  <2> QED
    BY <1>3, <2>1, <2>2, Prepared
<1> QED
  BY <1>2, <1>3 DEF BurnDebt

\* repay
LEMMA RepayKeeps ==
    ASSUME ReserveIInv, NEW u \in Borrowers, NEW v \in Borrowers, NEW amount \in Amounts \cup {MAX},
           NEW mode \in RateModes, Repay(u, v, amount, mode)
    PROVE  Keeps
<1> DEFINE r == updateState
           debt == DebtOf(v, mode, r.variableBorrowIndex)
           payback == IF amount = MAX THEN debt ELSE Least(amount, debt)
<1>1. /\ debt # 0 /\ Paid(u, payback) /\ BurnDebt(r, v, mode, payback, available')
      /\ UNCHANGED <<now, aToken, usedAsCollateral, borrowAllowance, loans>>
  BY DEF Repay
<1>2. debt \in Nat
  BY DebtOfType
<1>3. payback \in Nat \ {0} /\ payback \in Nat /\ payback <= debt
  <2> HIDE DEF debt
  <2>1. CASE amount = MAX
    BY <1>1, <1>2, <2>1, SMT
  <2>2. CASE amount # MAX
    <3>1. amount \in Nat \ {0}
      BY <2>2, AmountsType
    <3> QED
      BY <1>1, <1>2, <2>2, <3>1, SMT DEF Least
  <2> QED
    BY <2>1, <2>2
<1> HIDE DEF payback
<1>4. available' \in Nat /\ wallet' \in [Borrowers -> Nat]
  BY <1>1, <1>3, PaidType
<1>5. /\ stable' \in StableTokens /\ ClocksBehind(stable')
      /\ variableDebt' \in ScaledTokens /\ NotAhead(variableDebt', r.variableBorrowIndex)
      /\ Updated(reserve') /\ reserve'.liquidityIndex = r.liquidityIndex
      /\ reserve'.variableBorrowIndex = r.variableBorrowIndex
  BY <1>1, <1>3, <1>4, BurnDebtType
<1>6. NotAhead(aToken, r.liquidityIndex)
  BY Prepared
<1> HIDE DEF r, debt
<1> QED
  BY <1>1, <1>4, <1>5, <1>6, Prepared, OperationKeeps

\* repayWithATokens
LEMMA RepayWithATokensKeeps ==
    ASSUME ReserveIInv, NEW u \in Borrowers, NEW amount \in Amounts \cup {MAX},
           NEW mode \in RateModes, RepayWithATokens(u, amount, mode)
    PROVE  Keeps
<1> DEFINE r == updateState
           debt == DebtOf(u, mode, r.variableBorrowIndex)
           balance == RayMul(aToken.scaled[u], r.liquidityIndex)
           payback == Least(Amount(amount, balance), debt)
<1>1. /\ payback # 0 /\ BurnDebt(r, u, mode, payback, available)
      /\ CanBurn(aToken, u, payback, r.liquidityIndex)
      /\ aToken' = ScaledBurn(aToken, u, payback, r.liquidityIndex)
      /\ UNCHANGED <<now, available, wallet, usedAsCollateral, borrowAllowance, loans>>
  BY DEF RepayWithATokens
<1>2. u \in Accounts
  BY AccountsAreFinite
<1>3. debt \in Nat
  BY DebtOfType
<1>4. balance \in Nat
  <2>1. aToken.scaled[u] \in Nat /\ r.liquidityIndex \in Nat
    BY <1>2, Prepared DEF ScaledTokens
  <2> QED
    BY <2>1, RayMulType
<1>5. payback \in Nat \ {0} /\ payback <= debt
  <2> HIDE DEF debt, balance
  <2>1. Amount(amount, balance) \in Nat
    BY <1>4, AmountsType DEF Amount
  <2> QED
    BY <1>1, <1>3, <2>1, SMT DEF Least
<1> HIDE DEF payback
<1>6. available \in Nat
  BY Prepared
<1>7. /\ stable' \in StableTokens /\ ClocksBehind(stable')
      /\ variableDebt' \in ScaledTokens /\ NotAhead(variableDebt', r.variableBorrowIndex)
      /\ Updated(reserve') /\ reserve'.liquidityIndex = r.liquidityIndex
      /\ reserve'.variableBorrowIndex = r.variableBorrowIndex
  BY <1>1, <1>5, <1>6, BurnDebtType
<1>8. aToken' \in ScaledTokens /\ NotAhead(aToken', r.liquidityIndex)
  BY <1>1, <1>2, Prepared, ScaledBurnType
<1> HIDE DEF r, debt
<1> QED
  BY <1>1, <1>7, <1>8, Prepared, OperationKeeps

\* swapBorrowRateMode
LEMMA SwapKeeps ==
    ASSUME ReserveIInv, NEW u \in Borrowers, NEW mode \in RateModes, SwapBorrowRateMode(u, mode)
    PROVE  Keeps
<1> DEFINE r == updateState
           index == r.variableBorrowIndex
           debt == DebtOf(u, mode, index)
<1>1. /\ debt # 0
      /\ UNCHANGED <<now, aToken, available, wallet, usedAsCollateral, borrowAllowance, loans>>
      /\ \/ /\ mode = "stable"
            /\ stable' = Burnt(stable, u, debt)
            /\ variableDebt' = ScaledMint(variableDebt, u, debt, index)
            /\ reserve' = updateInterestRatesOfBurn(r, stable', debt, variableDebt', available)
         \/ /\ CanBurn(variableDebt, u, debt, index)
            /\ variableDebt' = ScaledBurn(variableDebt, u, debt, index)
            /\ stable' = Minted(stable, u, debt, reserve.stableBorrowRate)
            /\ reserve' = updateInterestRatesOfDebts(r, stable', variableDebt', available)
  BY DEF SwapBorrowRateMode
<1>2. u \in Accounts
  BY AccountsAreFinite
<1>3. debt \in Nat /\ debt \in Nat \ {0}
  BY <1>1, DebtOfType
<1>4. mode = "stable" => debt = StableBalanceOf(stable, u)
  BY DEF DebtOf
<1> HIDE DEF debt
<1>5. /\ stable' \in StableTokens /\ ClocksBehind(stable')
      /\ variableDebt' \in ScaledTokens /\ NotAhead(variableDebt', index)
      /\ Updated(reserve') /\ reserve'.liquidityIndex = r.liquidityIndex
      /\ reserve'.variableBorrowIndex = r.variableBorrowIndex
  <2>1. CASE /\ mode = "stable"
             /\ stable' = Burnt(stable, u, debt)
             /\ variableDebt' = ScaledMint(variableDebt, u, debt, index)
             /\ reserve' = updateInterestRatesOfBurn(r, stable', debt, variableDebt', available)
    <3>1. debt \in 1 .. StableBalanceOf(stable, u)
      BY <1>3, <1>4, <2>1, SMT
    <3>2. stable' \in StableTokens /\ ClocksBehind(stable')
      BY <2>1, <3>1, Prepared, BurntType
    <3>3. variableDebt' \in ScaledTokens /\ NotAhead(variableDebt', index)
      BY <1>2, <1>3, <2>1, Prepared, ScaledMintType
    <3>4. /\ Updated(reserve') /\ reserve'.liquidityIndex = r.liquidityIndex
          /\ reserve'.variableBorrowIndex = r.variableBorrowIndex
      <4>1. Updated(r) /\ available \in Nat
        BY Prepared
      <4> HIDE DEF r
      <4>2. PICK s, d : s = stable' /\ d = variableDebt'
        OBVIOUS
      <4>3. reserve' = updateInterestRatesOfBurn(r, s, debt, d, available)
        BY <2>1, <4>2
      <4>4. s \in StableTokens /\ d \in ScaledTokens
        BY <3>2, <3>3, <4>2
      <4> QED
        BY <1>3, <4>1, <4>3, <4>4, RatesOfBurn
    <3> QED
      BY <3>2, <3>3, <3>4
  <2>2. CASE /\ CanBurn(variableDebt, u, debt, index)
             /\ variableDebt' = ScaledBurn(variableDebt, u, debt, index)
             /\ stable' = Minted(stable, u, debt, reserve.stableBorrowRate)
             /\ reserve' = updateInterestRatesOfDebts(r, stable', variableDebt', available)
    <3>1. stable' \in StableTokens /\ ClocksBehind(stable')
      BY <1>3, <2>2, Prepared, MintedType
    <3>2. variableDebt' \in ScaledTokens /\ NotAhead(variableDebt', index)
      BY <1>2, <2>2, Prepared, ScaledBurnType
    <3>3. /\ Updated(reserve') /\ reserve'.liquidityIndex = r.liquidityIndex
          /\ reserve'.variableBorrowIndex = r.variableBorrowIndex
      <4>1. now \in Nat /\ Updated(r) /\ available \in Nat
        BY Prepared
      <4> HIDE DEF r
      <4>2. PICK s, d : s = stable' /\ d = variableDebt'
        OBVIOUS
      <4>3. reserve' = updateInterestRatesOfDebts(r, s, d, available)
        BY <2>2, <4>2
      <4>4. s \in StableTokens /\ ClocksBehind(s) /\ d \in ScaledTokens
        BY <3>1, <3>2, <4>2
      <4> QED
        BY <4>1, <4>3, <4>4, RatesOfDebts
    <3> QED
      BY <3>1, <3>2, <3>3
  <2> QED
    BY <1>1, <2>1, <2>2
<1>6. NotAhead(aToken, r.liquidityIndex)
  BY Prepared
<1> HIDE DEF r
<1> QED
  BY <1>1, <1>5, <1>6, Prepared, OperationKeeps

\* rebalanceStableBorrowRate
LEMMA RebalanceKeeps ==
    ASSUME ReserveIInv, NEW u \in Borrowers, RebalanceStableBorrowRate(u)
    PROVE  Keeps
<1> DEFINE r == updateState
<1>1. /\ StableBalanceOf(stable, u) # 0
      /\ stable' = Rebalanced(stable, u, reserve.stableBorrowRate)
      /\ reserve' = updateInterestRatesOfDebts(r, stable', variableDebt, available)
      /\ UNCHANGED <<now, aToken, variableDebt, available, wallet, usedAsCollateral,
                     borrowAllowance, loans>>
  BY DEF RebalanceStableBorrowRate
<1>2. stable' \in StableTokens /\ ClocksBehind(stable')
  BY <1>1, Prepared, RebalancedType
<1>3. /\ Updated(reserve') /\ reserve'.liquidityIndex = r.liquidityIndex
      /\ reserve'.variableBorrowIndex = r.variableBorrowIndex
  <2>1. now \in Nat /\ Updated(r) /\ variableDebt \in ScaledTokens /\ available \in Nat
    BY Prepared
  <2>2. PICK s : s = stable'
    OBVIOUS
  <2> HIDE DEF r
  <2>3. reserve' = updateInterestRatesOfDebts(r, s, variableDebt, available)
    BY <1>1, <2>2
  <2>4. s \in StableTokens /\ ClocksBehind(s)
    BY <1>2, <2>2
  <2> QED
    BY <2>1, <2>3, <2>4, RatesOfDebts
<1>4. NotAhead(aToken, r.liquidityIndex) /\ NotAhead(variableDebt, r.variableBorrowIndex)
  BY Prepared
<1> HIDE DEF r
<1> QED
  BY <1>1, <1>2, <1>3, <1>4, Prepared, OperationKeeps

\* mintUnbacked
LEMMA MintUnbackedKeeps ==
    ASSUME ReserveIInv, NEW u \in Borrowers, NEW amount \in Amounts, MintUnbacked(u, amount)
    PROVE  Keeps
<1> DEFINE r == updateState
           next == [r EXCEPT !.unbacked = @ + amount]
<1>1. /\ MintATokens(u, amount, r.liquidityIndex)
      /\ reserve' = updateInterestRates(next, available)
      /\ UNCHANGED <<now, stable, variableDebt, available, wallet, borrowAllowance, loans>>
  BY DEF MintUnbacked
<1>2. amount \in Nat /\ r.unbacked \in Nat /\ r \in Reserves
  BY AmountsType, Prepared
<1>3. /\ aToken' \in ScaledTokens /\ NotAhead(aToken', r.liquidityIndex)
      /\ usedAsCollateral' \subseteq Borrowers
  BY <1>1, <1>2, ATokensMinted
<1>4. r.unbacked + amount \in Nat
  BY <1>2, SMT
<1>5. Updated(r) /\ NotAhead(variableDebt, r.variableBorrowIndex)
  BY Prepared
<1> HIDE DEF r
<1>6. /\ next \in Reserves /\ next.liquidityIndex = r.liquidityIndex
      /\ next.variableBorrowIndex = r.variableBorrowIndex
      /\ next.lastUpdateTimestamp = r.lastUpdateTimestamp
  BY <1>2, <1>4 DEF Reserves
<1> HIDE DEF next
<1>7. Updated(next)
  BY <1>5, <1>6 DEF Updated
<1>8. /\ Updated(reserve') /\ reserve'.liquidityIndex = r.liquidityIndex
      /\ reserve'.variableBorrowIndex = r.variableBorrowIndex
  BY <1>1, <1>6, <1>7, Prepared, RatesOfLiquidity
<1> QED
  BY <1>1, <1>3, <1>5, <1>8, Prepared, OperationKeeps

\* A payment on top for the suppliers, and the rates that follow.
LEMMA PremiumKeeps ==
    ASSUME ReserveIInv, NEW next, Updated(next), NEW u \in Borrowers,
           next.liquidityIndex >= updateState.liquidityIndex,
           next.variableBorrowIndex = updateState.variableBorrowIndex,
           available' \in Nat, wallet' \in [Borrowers -> Nat],
           reserve' = updateInterestRates(next, available'),
           UNCHANGED <<now, stable, aToken, variableDebt, usedAsCollateral, borrowAllowance>>,
           loans' \in Seq(Loans)
    PROVE  Keeps
<1> DEFINE r == updateState
<1>1. /\ Updated(reserve') /\ reserve'.liquidityIndex = next.liquidityIndex
      /\ reserve'.variableBorrowIndex = next.variableBorrowIndex
  BY RatesOfLiquidity
<1>2. NotAhead(aToken, r.liquidityIndex) /\ NotAhead(variableDebt, r.variableBorrowIndex)
      /\ r.liquidityIndex \in Nat /\ aToken \in ScaledTokens
  BY Prepared
<1>3. next.liquidityIndex \in Nat /\ r.liquidityIndex <= next.liquidityIndex
  <2>1. next.liquidityIndex \in Nat
    BY ReserveFields DEF Updated
  <2> HIDE DEF r
  <2> QED
    BY <1>2, <2>1, SMT DEF r
<1> HIDE DEF r
<1>4. NotAhead(aToken, next.liquidityIndex)
  BY <1>2, <1>3, NotAheadLater
<1>5. NotAhead(aToken', reserve'.liquidityIndex)
      /\ NotAhead(variableDebt', reserve'.variableBorrowIndex)
  BY <1>1, <1>2, <1>4 DEF r
<1> QED
  BY <1>1, <1>5, Prepared, OperationKeeps

\* backUnbacked
LEMMA BackUnbackedKeeps ==
    ASSUME ReserveIInv, NEW u \in Borrowers, NEW amount \in Amounts, NEW fee \in Amounts \cup {0},
           BackUnbacked(u, amount, fee)
    PROVE  Keeps
<1> DEFINE r == updateState
           backing == Least(amount, r.unbacked)
           paid == Premium(r, fee, BridgeProtocolFee)
           next == [paid EXCEPT !.unbacked = @ - backing]
<1>1. /\ HasSuppliers(r) /\ Paid(u, backing + fee)
      /\ reserve' = updateInterestRates(next, available')
      /\ UNCHANGED <<now, stable, aToken, variableDebt, usedAsCollateral, borrowAllowance, loans>>
  BY DEF BackUnbacked
<1>2. amount \in Nat /\ fee \in Nat /\ r.unbacked \in Nat
  <2>1. fee \in Nat
    BY AmountsType, SMT
  <2> QED
    BY <2>1, AmountsType, Prepared
<1>3. BridgeProtocolFee \in 0 .. PERCENTAGE_FACTOR
  BY ReserveParameters
<1>4. /\ Updated(paid) /\ paid.liquidityIndex >= r.liquidityIndex
      /\ paid.variableBorrowIndex = r.variableBorrowIndex /\ paid.unbacked = r.unbacked
  BY <1>1, <1>2, <1>3, PremiumTaken
<1> HIDE DEF r, paid
<1>5. backing \in Nat /\ backing <= r.unbacked
  BY <1>2, SMT DEF Least
<1> HIDE DEF backing
<1>6. backing + fee \in Nat /\ paid.unbacked - backing \in Nat
  BY <1>2, <1>4, <1>5, SMT
<1>7. available' \in Nat /\ wallet' \in [Borrowers -> Nat]
  BY <1>1, <1>6, PaidType
<1>8. /\ next \in Reserves /\ next.liquidityIndex = paid.liquidityIndex
      /\ next.variableBorrowIndex = paid.variableBorrowIndex
      /\ next.lastUpdateTimestamp = paid.lastUpdateTimestamp
  BY <1>4, <1>6 DEF Updated, Reserves
<1> HIDE DEF next
<1>9. Updated(next)
  BY <1>4, <1>8 DEF Updated
<1>10. loans' \in Seq(Loans)
  BY <1>1, Prepared
<1> QED
  BY <1>1, <1>4, <1>7, <1>8, <1>9, <1>10, PremiumKeeps DEF r

\* The funds of a flash loan leave, and
LEMMA FlashLoanKeeps ==
    ASSUME ReserveIInv, NEW u \in Borrowers, NEW amount \in Amounts,
           NEW premium \in {0, PercentMul(amount, FlashLoanPremiumTotal)},
           FlashLoan(u, amount, premium)
    PROVE  Keeps
<1>1. /\ PaidOut(u, amount)
      /\ loans' = Append(loans, [receiver |-> u, amount |-> amount, premium |-> premium])
      /\ UNCHANGED <<now, stable, reserve, aToken, variableDebt, usedAsCollateral, borrowAllowance>>
  BY DEF FlashLoan
<1>2. amount \in Nat /\ premium \in Nat
  <2>1. FlashLoanPremiumTotal \in Nat
    BY ReserveParameters, ScalesAreEven, SMT
  <2> QED
    BY <2>1, AmountsType, PercentMulType
<1>3. available' \in Nat /\ wallet' \in [Borrowers -> Nat]
  BY <1>1, <1>2, PaidOutType
<1>4. loans' \in Seq(Loans)
  <2>1. [receiver |-> u, amount |-> amount, premium |-> premium] \in Loans
    BY <1>2 DEF Loans
  <2> QED
    BY <1>1, <2>1, Prepared
<1>5. NotAhead(aToken', getNormalizedIncome)
  BY <1>1 DEF ReserveIInv
<1> QED
  BY <1>1, <1>3, <1>4, <1>5, Prepared, QuietKeeps

\* return with the premium.
LEMMA FlashLoanRepaymentKeeps ==
    ASSUME ReserveIInv, NEW i \in DOMAIN loans, FlashLoanRepayment(i)
    PROVE  Keeps
<1> DEFINE r == updateState
           owed == loans[i].amount + loans[i].premium
           next == Premium(r, loans[i].premium, FlashLoanPremiumToProtocol)
<1>1. /\ HasSuppliers(r) /\ Paid(loans[i].receiver, owed)
      /\ reserve' = updateInterestRates(next, available')
      /\ loans' = RemoveAt(loans, i)
      /\ UNCHANGED <<now, stable, aToken, variableDebt, usedAsCollateral, borrowAllowance>>
  BY DEF FlashLoanRepayment
<1>2. loans \in Seq(Loans) /\ loans[i] \in Loans
  BY Prepared
<1>3. loans[i].receiver \in Borrowers /\ loans[i].amount \in Nat /\ loans[i].premium \in Nat
  BY <1>2 DEF Loans
<1>4. owed \in Nat
  BY <1>3, SMT
<1>5. FlashLoanPremiumToProtocol \in 0 .. PERCENTAGE_FACTOR
  BY ReserveParameters
<1>6. /\ Updated(next) /\ next.liquidityIndex >= r.liquidityIndex
      /\ next.variableBorrowIndex = r.variableBorrowIndex
  BY <1>1, <1>3, <1>5, PremiumTaken
<1> HIDE DEF owed, next
<1>7. available' \in Nat /\ wallet' \in [Borrowers -> Nat]
  BY <1>1, <1>3, <1>4, PaidType
<1>8. loans' \in Seq(Loans)
  BY <1>1, <1>2 DEF RemoveAt
<1> HIDE DEF r
<1> QED
  BY <1>1, <1>3, <1>6, <1>7, <1>8, PremiumKeeps DEF r

\* Time passes.
LEMMA NextBlockKeeps ==
    ASSUME ReserveIInv, NextBlock
    PROVE  Keeps
<1>1. /\ now < MaxTime /\ now' = now + 1
      /\ UNCHANGED <<stable, reserve, aToken, variableDebt, available, wallet, usedAsCollateral,
                     borrowAllowance, loans>>
  BY DEF NextBlock, Tick
<1>2. /\ now \in Nat /\ Elapsed \in Nat /\ reserve.liquidityIndex \in Nat
      /\ getNormalizedIncome \in Nat
  BY IndicesGrow
<1>3. reserve \in Reserves /\ stable \in StableTokens /\ aToken \in ScaledTokens /\ MaxTime \in Nat
  BY Prepared, StableBounds
<1>4. reserve.lastUpdateTimestamp \in Nat /\ reserve.liquidityRate \in Nat
  BY <1>3, ReserveFields
<1>5. Elapsed' = Elapsed + 1 /\ Elapsed + 1 \in Nat /\ Elapsed <= Elapsed + 1
  BY <1>1, <1>2, <1>4, SMT DEF Elapsed
<1> DEFINE earlier == LinearInterest(reserve.liquidityRate, Elapsed)
           after  == LinearInterest(reserve.liquidityRate, Elapsed + 1)
<1>6. earlier \in Nat /\ after \in Nat /\ earlier <= after
  BY <1>2, <1>4, <1>5, LinearInterestGrows
<1>7. /\ getNormalizedIncome = RayMul(reserve.liquidityIndex, earlier)
      /\ getNormalizedIncome' = RayMul(reserve.liquidityIndex, after)
  <2>1. getNormalizedIncome' = RayMul(after, reserve.liquidityIndex)
    BY <1>1, <1>5 DEF getNormalizedIncome
  <2> HIDE DEF after
  <2> QED
    BY <1>2, <1>6, <2>1, RayMulCommutes DEF getNormalizedIncome
<1> HIDE DEF earlier, after
<1>8. getNormalizedIncome <= getNormalizedIncome' /\ getNormalizedIncome' \in Nat
  BY <1>2, <1>6, <1>7, RayMulMonotone, RayMulType
<1>9. ReserveTypeOK'
  <2>1. now' \in 0 .. MaxTime
    BY <1>1, <1>2, <1>3, SMT
  <2> QED
    BY <1>1, <2>1, Prepared DEF ReserveTypeOK, StableTypeOK
<1>10. ClocksBehind(stable)'
  <2>1. \A u \in Borrowers : stable.timestamp[u] \in Nat
    BY <1>3 DEF StableTokens
  <2>2. stable.totalSupplyTimestamp \in Nat
    BY <1>3 DEF StableTokens
  <2> QED
    BY <1>1, <1>2, <2>1, <2>2, Prepared, SMT DEF ClocksBehind
<1>11. reserve'.lastUpdateTimestamp <= now'
  BY <1>1, <1>2, <1>4, SMT DEF ReserveIInv
<1>12. NotAhead(aToken, getNormalizedIncome)'
  <2>1. NotAhead(aToken, getNormalizedIncome)
    BY DEF ReserveIInv
  <2>2. NotAhead(aToken, getNormalizedIncome')
    BY <1>2, <1>3, <1>8, <2>1, NotAheadLater
  <2> QED
    BY <1>1, <2>2 DEF NotAhead
<1>13. NotAhead(variableDebt, reserve.variableBorrowIndex)'
  BY <1>1 DEF ReserveIInv, NotAhead
<1>14. ReserveIInv'
  BY <1>1, <1>9, <1>10, <1>11, <1>12, <1>13 DEF ReserveIInv
<1> QED
  BY <1>2, <1>8, <1>14, SMT DEF Keeps

\* Every step.
LEMMA StepKeeps ==
    ASSUME ReserveIInv, [ReserveNext]_reserveVars
    PROVE  Keeps
<1>1. CASE SupplySteps
  <2>1. PICK u \in Borrowers, v \in Borrowers :
           \/ Withdraw(u, v, MAX)
           \/ \E n \in Amounts : Supply(u, v, n) \/ Withdraw(u, v, n) \/ Transfer(u, v, n)
    BY <1>1 DEF SupplySteps
  <2> QED
    BY <2>1, SupplyKeeps, WithdrawKeeps, TransferKeeps
<1>2. CASE CollateralSteps
  BY <1>2, OwnChoiceKeeps DEF CollateralSteps
<1>3. CASE BorrowSteps
  <2>1. PICK u \in Borrowers, v \in Borrowers, mode \in RateModes, n \in Amounts :
           Borrow(u, v, n, mode) \/ ApproveDelegation(u, v, mode, n)
    BY <1>3 DEF BorrowSteps
  <2> QED
    BY <2>1, BorrowKeeps, OwnChoiceKeeps
<1>4. CASE RepaySteps
  <2>1. PICK u \in Borrowers, mode \in RateModes :
           \/ SwapBorrowRateMode(u, mode)
           \/ \E n \in Amounts \cup {MAX} :
                \/ RepayWithATokens(u, n, mode)
                \/ \E v \in Borrowers : Repay(u, v, n, mode)
    BY <1>4 DEF RepaySteps
  <2> QED
    BY <2>1, SwapKeeps, RepayWithATokensKeeps, RepayKeeps
<1>5. CASE RebalanceSteps
  BY <1>5, RebalanceKeeps DEF RebalanceSteps
<1>6. CASE MintToTreasury
  BY <1>6, MintToTreasuryKeeps
<1>7. CASE BridgeSteps
  BY <1>7, MintUnbackedKeeps, BackUnbackedKeeps DEF BridgeSteps
<1>8. CASE FlashSteps
  BY <1>8, FlashLoanRepaymentKeeps, FlashLoanKeeps DEF FlashSteps
<1>9. CASE NextBlock
  BY <1>9, NextBlockKeeps
<1>10. CASE UNCHANGED reserveVars
  <2>1. UNCHANGED <<now, stable, reserve, aToken, variableDebt, available, wallet,
                    usedAsCollateral, borrowAllowance, loans>>
    BY <1>10 DEF reserveVars
  <2>2. NotAhead(aToken', getNormalizedIncome)
    BY <2>1 DEF ReserveIInv
  <2> QED
    BY <2>1, <2>2, Prepared, QuietKeeps
<1> QED
  BY <1>1, <1>2, <1>3, <1>4, <1>5, <1>6, <1>7, <1>8, <1>9, <1>10 DEF ReserveNext

\* The invariant holds throughout.
LEMMA ReserveInductive == ReserveSpec => []ReserveIInv
<1>1. ReserveInit => ReserveIInv
  <2> SUFFICES ASSUME ReserveInit PROVE ReserveIInv
    OBVIOUS
  <2>1. RAY \in Nat /\ RAY >= RAY /\ 0 \in Nat /\ 0 - 0 = 0 /\ MaxTime \in Nat /\ 0 \in 0 .. MaxTime
    BY ScalesAreEven, StableBounds, SMT
  <2>2. now = 0 /\ stable = NoStableDebt
    BY DEF ReserveInit, StableInit
  <2>3. StableTypeOK /\ ClocksBehind(stable)
    BY <2>1, <2>2, SMT DEF StableTypeOK, StableTokens, NoStableDebt, ClocksBehind
  <2>4. reserve \in Reserves /\ aToken \in ScaledTokens /\ variableDebt \in ScaledTokens
    BY <2>1 DEF ReserveInit, Reserves, ScaledTokens
  <2>5. ReserveTypeOK
    BY <2>1, <2>3, <2>4, ReserveParameters DEF ReserveInit, ReserveTypeOK
  <2>6. /\ reserve.liquidityIndex = RAY /\ reserve.variableBorrowIndex = RAY
        /\ reserve.lastUpdateTimestamp = 0 /\ reserve.liquidityRate = 0
        /\ stable.totalSupplyTimestamp = 0
    BY <2>2 DEF ReserveInit, NoStableDebt
  <2>7. getNormalizedIncome = RAY
    <3>1. LinearInterest(0, 0) = RAY
      <4> 0 <= 0
        BY SMT
      <4> QED
        BY <2>1, LinearInterestGrows
    <3>2. RayMul(RAY, RAY) = RAY
      BY <2>1, RayIsNeutral
    <3> QED
      BY <2>1, <2>2, <2>6, <3>1, <3>2 DEF getNormalizedIncome, Elapsed
  <2>8. /\ \A a \in Accounts : aToken.index[a] = 0 /\ variableDebt.index[a] = 0
        /\ 0 <= RAY /\ 0 <= 0
    BY <2>1, SMT DEF ReserveInit
  <2>9. NotAhead(aToken, getNormalizedIncome) /\ NotAhead(variableDebt, reserve.variableBorrowIndex)
    BY <2>6, <2>7, <2>8 DEF NotAhead
  <2> QED
    BY <2>1, <2>2, <2>3, <2>5, <2>6, <2>8, <2>9 DEF ReserveIInv
<1>2. ReserveIInv /\ [ReserveNext]_reserveVars => ReserveIInv'
  BY StepKeeps DEF Keeps
<1> QED
  BY <1>1, <1>2, PTL DEF ReserveSpec

\* No amount, balance, index or rate leaves the naturals: no operation subtracts
\* more than there is, and no rate divides by zero, inside flash loans neither
\* (ReserveTypeOK of module Reserve).
THEOREM ReserveTyped == ReserveSpec => []ReserveTypeOK
<1>1. ReserveIInv => ReserveTypeOK
  BY DEF ReserveIInv
<1> QED
  BY <1>1, ReserveInductive, PTL

\* The totals that _accrueToTreasury subtracts, and the indices that the tokens
\* subtract, are in order in every reachable state (AccrualNeverUnderflows of
\* module Reserve).
THEOREM AccrualInOrder == ReserveSpec => []AccrualNeverUnderflows
<1>1. ReserveIInv => AccrualNeverUnderflows
  <2> SUFFICES ASSUME ReserveIInv PROVE AccrualNeverUnderflows
    OBVIOUS
  <2>1. /\ NextLiquidityIndex = getNormalizedIncome
        /\ reserve.variableBorrowIndex \in Nat /\ NextVariableBorrowIndex \in Nat
        /\ reserve.variableBorrowIndex <= NextVariableBorrowIndex
    BY IndicesGrow, SMT
  <2>2. NotAhead(aToken, getNormalizedIncome) /\ NotAhead(variableDebt, reserve.variableBorrowIndex)
        /\ stable.totalSupplyTimestamp <= reserve.lastUpdateTimestamp
    BY DEF ReserveIInv
  <2>3. NotAhead(variableDebt, NextVariableBorrowIndex)
    BY <2>1, <2>2, Prepared, NotAheadLater
  <2> QED
    BY <2>1, <2>2, <2>3, DebtGrows DEF AccrualNeverUnderflows, NotAhead
<1> QED
  BY <1>1, ReserveInductive, PTL

\* Whoever withdraws or repays the whole displayed balance leaves no scaled unit
\* (FullExit of module Reserve).
THEOREM ExitsAreFull == ReserveSpec => []FullExit
<1>1. ReserveIInv => FullExit
  <2> SUFFICES ASSUME ReserveIInv, NEW a \in Accounts
               PROVE  /\ aToken.scaled[a] = RayDiv(RayMul(aToken.scaled[a], NextLiquidityIndex), NextLiquidityIndex)
                      /\ variableDebt.scaled[a] =
                           RayDiv(RayMul(variableDebt.scaled[a], NextVariableBorrowIndex), NextVariableBorrowIndex)
    BY DEF FullExit
  <2>1. aToken.scaled[a] \in Nat /\ variableDebt.scaled[a] \in Nat
    BY Prepared DEF ScaledTokens
  <2>2. /\ NextLiquidityIndex \in Nat /\ NextLiquidityIndex >= RAY
        /\ NextVariableBorrowIndex \in Nat /\ NextVariableBorrowIndex >= RAY
    <3>1. /\ reserve.liquidityIndex >= RAY /\ reserve.variableBorrowIndex >= RAY /\ RAY \in Nat
      BY ScalesAreEven DEF ReserveIInv
    <3> QED
      BY <3>1, IndicesGrow, SMT
  <2> QED
    BY <2>1, <2>2, RayDivOfRayMul
<1> QED
  BY <1>1, ReserveInductive, PTL

\* The worth of a scaled aToken never falls: not by time, not by an operation, and
\* not by a premium (IncomeNeverFalls of module Reserve).
THEOREM IncomeGrows == ReserveSpec => IncomeNeverFalls
<1>1. ReserveIInv /\ [ReserveNext]_reserveVars => [getNormalizedIncome' >= getNormalizedIncome]_reserveVars
  BY StepKeeps DEF Keeps
<1> QED
  BY <1>1, ReserveInductive, PTL DEF ReserveSpec, IncomeNeverFalls

-----------------------------------------------------------------------------
(* Rates: an operation takes them of the debts and the liquidity it leaves.  *)

RatesCurrent == reserve = updateInterestRatesOfDebts(reserve, stable, variableDebt, available)

\* No suppliers, and no share of the treasury that becomes one: before the first
\* operation no rates were taken.
Fresh == ScaledTotal(aToken) = 0 /\ reserve.accruedToTreasury = 0

RatesInv == loans = <<>> /\ Elapsed = 0 => Fresh \/ RatesCurrent

\* A repayment that leaves a total, which the token sets to zero all the same.
RemainderDropped ==
    \E u \in Borrowers : \E n \in 1 .. StableBalanceOf(stable, u) :
        /\ stable' = Burnt(stable, u, n)
        /\ StableTotalSupply(stable) > n
        /\ stable'.totalSupply = 0

\* Rates taken twice are the same rates: they do not depend on the ones before.
LEMMA RatesTakenTwice ==
    ASSUME NEW r \in Reserves, NEW total, NEW avg, NEW scaled, NEW liquid
    PROVE  LET next == RatesUpdated(r, total, avg, scaled, liquid)
           IN  next = RatesUpdated(next, total, avg, scaled, liquid)
<1> DEFINE rates == calculateInterestRates(total, RayMul(scaled, r.variableBorrowIndex), avg,
                                           liquid, r.unbacked)
           next == [r EXCEPT !.liquidityRate = rates.liquidity, !.stableBorrowRate = rates.stable,
                             !.variableBorrowRate = rates.variable]
<1>1. RatesUpdated(r, total, avg, scaled, liquid) = next
  BY DEF RatesUpdated
<1>2. next.variableBorrowIndex = r.variableBorrowIndex /\ next.unbacked = r.unbacked
  <2> HIDE DEF rates
  <2> QED
    BY SMT DEF Reserves
<1>3. RatesUpdated(next, total, avg, scaled, liquid) =
        [next EXCEPT !.liquidityRate = rates.liquidity, !.stableBorrowRate = rates.stable,
                     !.variableBorrowRate = rates.variable]
  BY <1>2, Zenon DEF RatesUpdated, rates
<1>4. [next EXCEPT !.liquidityRate = rates.liquidity, !.stableBorrowRate = rates.stable,
                   !.variableBorrowRate = rates.variable] = next
  <2>1. DOMAIN r = {"liquidityIndex", "variableBorrowIndex", "liquidityRate", "stableBorrowRate",
                    "variableBorrowRate", "lastUpdateTimestamp", "accruedToTreasury", "unbacked"}
    BY Zenon DEF Reserves
  <2> HIDE DEF rates
  <2>2. DOMAIN next = DOMAIN r
    BY Zenon
  <2>3. /\ next.liquidityRate = rates.liquidity /\ next.stableBorrowRate = rates.stable
        /\ next.variableBorrowRate = rates.variable
    BY <2>1, SMT
  <2>4. next = [f \in DOMAIN next |-> next[f]]
    OBVIOUS
  <2> HIDE DEF next
  <2>5. PICK a, b, c : a = rates.liquidity /\ b = rates.stable /\ c = rates.variable
    OBVIOUS
  <2>6. /\ next.liquidityRate = a /\ next.stableBorrowRate = b /\ next.variableBorrowRate = c
    BY <2>3, <2>5
  <2>7. [next EXCEPT !.liquidityRate = a, !.stableBorrowRate = b, !.variableBorrowRate = c]
          = [f \in DOMAIN next |-> next[f]]
    BY <2>1, <2>2, <2>6
  <2> QED
    BY <2>4, <2>5, <2>7
<1> QED
  BY <1>1, <1>3, <1>4

\* An operation that takes the rates of what it leaves.
LEMMA RatesOfWhatIsLeft ==
    ASSUME now' = now, NEW r \in Reserves,
           reserve' = updateInterestRatesOfDebts(r, stable', variableDebt', available')
    PROVE  RatesInv'
<1> DEFINE total == StableTotalSupply(stable')
           avg == stable'.avgStableRate
           scaled == ScaledTotal(variableDebt')
           liquid == available'
<1>1. reserve' = RatesUpdated(r, total, avg, scaled, liquid)
  BY DEF updateInterestRatesOfDebts
<1>2. RatesCurrent' <=> reserve' = RatesUpdated(reserve', total, avg, scaled, liquid)
  BY DEF RatesCurrent, updateInterestRatesOfDebts, StableTotalSupply, ScaledTotal, RatesUpdated
<1> HIDE DEF total, avg, scaled, liquid
<1>3. RatesCurrent'
  BY <1>1, <1>2, RatesTakenTwice
<1> QED
  BY <1>3 DEF RatesInv

\* ... when the debts stay.
LEMMA RatesOfNewLiquidity ==
    ASSUME UNCHANGED <<now, stable, variableDebt>>, NEW r \in Reserves,
           reserve' = updateInterestRates(r, available')
    PROVE  RatesInv'
<1>1. reserve' = updateInterestRatesOfDebts(r, stable', variableDebt', available')
  BY DEF updateInterestRates, updateInterestRatesOfDebts
<1> QED
  BY <1>1, RatesOfWhatIsLeft

\* ... that burns stable debt: what burn returns is the total, unless it dropped one.
LEMMA RatesOfBurntDebt ==
    ASSUME ReserveIInv, now' = now, ~ RemainderDropped, NEW u \in Borrowers,
           NEW amount \in 1 .. StableBalanceOf(stable, u), stable' = Burnt(stable, u, amount),
           NEW r \in Reserves,
           reserve' = updateInterestRatesOfBurn(r, stable', amount, variableDebt', available')
    PROVE  RatesInv'
<1> DEFINE outstanding == StableTotalSupply(stable)
           cleared == Cleared(stable, u, amount)
           next == Burnt(stable, u, amount)
<1>1. /\ now \in Nat /\ stable \in StableTokens /\ ClocksBehind(stable)
      /\ outstanding \in Nat /\ StableBalanceOf(stable, u) \in Nat /\ amount \in Nat
  BY Prepared, BalanceTypes, SMT
<1>2. next \in StableTokens /\ ClocksBehind(next)
  BY <1>1, BurntType
<1>3. /\ next.totalSupplyTimestamp = now
      /\ next.totalSupply = IF cleared THEN 0 ELSE outstanding - amount
  BY DEF Burnt, Written
<1>4. next.totalSupply \in Nat /\ next.avgStableRate \in Nat
  BY <1>2 DEF StableTokens
<1>5. StableTotalSupply(next) = next.totalSupply
  BY <1>1, <1>3, <1>4, NoInterestYet DEF StableTotalSupply
<1>6. BurnReturns(stable, amount) = next.totalSupply
  <2>1. CASE outstanding <= amount
    <3>1. cleared
      BY <2>1 DEF Cleared
    <3> QED
      BY <1>3, <2>1, <3>1 DEF BurnReturns
  <2>2. CASE ~ (outstanding <= amount)
    <3>1. outstanding > amount
      BY <1>1, <2>2, SMT
    <3>2. next.totalSupply # 0
      BY <3>1 DEF RemainderDropped
    <3>3. ~ cleared
      BY <1>3, <3>2
    <3>4. BurnReturns(stable, amount) = outstanding - amount
      BY <2>2 DEF BurnReturns
    <3> QED
      BY <1>3, <3>3, <3>4
  <2> QED
    BY <2>1, <2>2
<1> HIDE DEF next
<1>7. StableTotalSupply(stable') = BurnReturns(stable, amount)
  BY <1>5, <1>6 DEF next
<1>8. reserve' = updateInterestRatesOfDebts(r, stable', variableDebt', available')
  BY <1>7 DEF updateInterestRatesOfBurn, updateInterestRatesOfDebts
<1> QED
  BY <1>8, RatesOfWhatIsLeft

\* ... of a repayment at either rate.
LEMMA RatesOfRepaidDebt ==
    ASSUME ReserveIInv, now' = now, ~ RemainderDropped, NEW u \in Borrowers,
           NEW mode \in RateModes, NEW amount \in Nat \ {0},
           amount <= DebtOf(u, mode, updateState.variableBorrowIndex),
           BurnDebt(updateState, u, mode, amount, available')
    PROVE  RatesInv'
<1> DEFINE r == updateState
<1>1. r \in Reserves /\ StableBalanceOf(stable, u) \in Nat
  BY Prepared, BalanceTypes
<1>2. CASE /\ mode = "stable" /\ stable' = Burnt(stable, u, amount)
           /\ reserve' = updateInterestRatesOfBurn(r, stable', amount, variableDebt, available')
           /\ UNCHANGED variableDebt
  <2>1. DebtOf(u, mode, r.variableBorrowIndex) = StableBalanceOf(stable, u)
    BY <1>2 DEF DebtOf
  <2>2. amount \in 1 .. StableBalanceOf(stable, u)
    BY <1>1, <2>1, SMT
  <2>3. reserve' = updateInterestRatesOfBurn(r, stable', amount, variableDebt', available')
    BY <1>2
  <2> HIDE DEF r
  <2> QED
    BY <1>1, <1>2, <2>2, <2>3, RatesOfBurntDebt
<1>3. CASE /\ mode = "variable"
           /\ reserve' = updateInterestRatesOfDebts(r, stable, variableDebt', available')
           /\ UNCHANGED stable
  <2>1. reserve' = updateInterestRatesOfDebts(r, stable', variableDebt', available')
    BY <1>3
  <2> HIDE DEF r
  <2> QED
    BY <1>1, <2>1, RatesOfWhatIsLeft
<1> QED
  BY <1>2, <1>3 DEF BurnDebt

\* An operation that takes no rates, and mints no first aTokens.
LEMMA RatesStand ==
    ASSUME RatesInv, UNCHANGED <<now, stable, variableDebt, available, reserve, loans>>,
           ScaledTotal(aToken) = 0 => aToken'.scaled = aToken.scaled
    PROVE  RatesInv'
<1>1. Elapsed' = Elapsed
  BY DEF Elapsed
<1>2. RatesCurrent => RatesCurrent'
  BY DEF RatesCurrent, updateInterestRatesOfDebts, StableTotalSupply, ScaledTotal, RatesUpdated
<1>3. Fresh => Fresh'
  BY DEF Fresh, ScaledTotal
<1> QED
  BY <1>1, <1>2, <1>3 DEF RatesInv

\* supply, withdraw, and the transfer of aTokens
LEMMA SupplyRates ==
    ASSUME ReserveIInv, RatesInv, SupplySteps
    PROVE  RatesInv'
<1>1. ASSUME NEW u \in Borrowers, NEW v \in Borrowers, NEW n,
             Supply(u, v, n) \/ Withdraw(u, v, n)
      PROVE  RatesInv'
  <2>1. UNCHANGED <<now, stable, variableDebt>>
        /\ reserve' = updateInterestRates(updateState, available')
    BY <1>1 DEF Supply, Withdraw
  <2> QED
    BY <2>1, Prepared, RatesOfNewLiquidity
<1>2. ASSUME NEW u \in Borrowers, NEW v \in Borrowers, NEW n \in Amounts, Transfer(u, v, n)
      PROVE  RatesInv'
  <2> DEFINE scaled == RayDiv(n, getNormalizedIncome)
             sent == WithScaled(aToken, u, aToken.scaled[u] - scaled, getNormalizedIncome)
  <2>1. /\ scaled <= aToken.scaled[u]
        /\ aToken' = WithScaled(sent, v, sent.scaled[v] + scaled, getNormalizedIncome)
        /\ UNCHANGED <<now, stable, variableDebt, available, reserve, loans>>
    BY <1>2 DEF Transfer
  <2>2. u \in Accounts /\ v \in Accounts /\ aToken.scaled \in [Accounts -> Nat] /\ n \in Nat
        /\ getNormalizedIncome \in Nat \ {0}
    BY Prepared, AccountsAreFinite, AmountsType DEF ScaledTokens
  <2>3. scaled \in Nat
    BY <2>2, RayDivType
  <2>4. ASSUME ScaledTotal(aToken) = 0
        PROVE  aToken'.scaled = aToken.scaled
    <3> HIDE DEF scaled
    <3>1. aToken.scaled[u] <= 0 /\ aToken.scaled[v] <= 0
      BY <2>2, <2>4, AccountsAreFinite, TotalBounds DEF ScaledTotal
    <3>2. aToken.scaled[u] = 0 /\ aToken.scaled[v] = 0 /\ scaled = 0
      BY <2>1, <2>2, <2>3, <3>1, SMT
    <3>3. sent.scaled = [aToken.scaled EXCEPT ![u] = aToken.scaled[u] - scaled]
          /\ aToken'.scaled = [sent.scaled EXCEPT ![v] = sent.scaled[v] + scaled]
      BY <2>1 DEF WithScaled
    <3>4. aToken.scaled[u] - scaled = aToken.scaled[u]
      BY <3>2, SMT
    <3>5. sent.scaled = aToken.scaled
      BY <2>2, <3>3, <3>4
    <3>6. sent.scaled[v] + scaled = aToken.scaled[v]
      BY <3>2, <3>5, SMT
    <3> HIDE DEF sent
    <3> QED
      BY <2>2, <3>3, <3>5, <3>6
  <2> QED
    BY <2>1, <2>4, RatesStand
<1> QED
  BY <1>1, <1>2 DEF SupplySteps

\* borrow
LEMMA BorrowRates ==
    ASSUME ReserveIInv, RatesInv, BorrowSteps
    PROVE  RatesInv'
<1>1. ASSUME NEW u \in Borrowers, NEW v \in Borrowers, NEW mode \in RateModes, NEW n,
             Borrow(u, v, n, mode)
      PROVE  RatesInv'
  <2>1. now' = now /\ reserve' = updateInterestRatesOfDebts(updateState, stable', variableDebt', available')
    BY <1>1 DEF Borrow
  <2> QED
    BY <2>1, Prepared, RatesOfWhatIsLeft
<1>2. ASSUME NEW u \in Borrowers, NEW v \in Borrowers, NEW mode \in RateModes, NEW n,
             ApproveDelegation(u, v, mode, n)
      PROVE  RatesInv'
  BY <1>2, RatesStand DEF ApproveDelegation
<1> QED
  BY <1>1, <1>2 DEF BorrowSteps

\* repay, repayWithATokens and swapBorrowRateMode
LEMMA RepayRates ==
    ASSUME ReserveIInv, ~ RemainderDropped, RepaySteps
    PROVE  RatesInv'
<1>1. ASSUME NEW u \in Borrowers, NEW v \in Borrowers, NEW n \in Amounts \cup {MAX},
             NEW mode \in RateModes, Repay(u, v, n, mode)
      PROVE  RatesInv'
  <2> DEFINE debt == DebtOf(v, mode, updateState.variableBorrowIndex)
             payback == IF n = MAX THEN debt ELSE Least(n, debt)
  <2>1. debt # 0 /\ now' = now /\ BurnDebt(updateState, v, mode, payback, available')
    BY <1>1 DEF Repay
  <2>2. debt \in Nat
    BY DebtOfType
  <2>3. payback \in Nat \ {0} /\ payback <= debt
    <3> HIDE DEF debt
    <3>1. n # MAX => n \in Nat \ {0}
      BY AmountsType
    <3> QED
      BY <2>1, <2>2, <3>1, SMT DEF Least
  <2> HIDE DEF payback
  <2> QED
    BY <2>1, <2>3, RatesOfRepaidDebt
<1>2. ASSUME NEW u \in Borrowers, NEW n \in Amounts \cup {MAX}, NEW mode \in RateModes,
             RepayWithATokens(u, n, mode)
      PROVE  RatesInv'
  <2> DEFINE debt == DebtOf(u, mode, updateState.variableBorrowIndex)
             balance == RayMul(aToken.scaled[u], updateState.liquidityIndex)
             payback == Least(Amount(n, balance), debt)
  <2>1. /\ payback # 0 /\ UNCHANGED <<now, available>>
        /\ BurnDebt(updateState, u, mode, payback, available)
    BY <1>2 DEF RepayWithATokens
  <2>2. debt \in Nat /\ balance \in Nat
    <3>1. aToken.scaled[u] \in Nat /\ updateState.liquidityIndex \in Nat
      BY Prepared, AccountsAreFinite DEF ScaledTokens
    <3> QED
      BY <3>1, DebtOfType, RayMulType
  <2>3. payback \in Nat \ {0} /\ payback <= debt
    <3> HIDE DEF debt, balance
    <3>1. Amount(n, balance) \in Nat
      BY <2>2, AmountsType DEF Amount
    <3> QED
      BY <2>1, <2>2, <3>1, SMT DEF Least
  <2>4. BurnDebt(updateState, u, mode, payback, available')
    BY <2>1
  <2> HIDE DEF payback
  <2> QED
    BY <2>1, <2>3, <2>4, RatesOfRepaidDebt
<1>3. ASSUME NEW u \in Borrowers, NEW mode \in RateModes, SwapBorrowRateMode(u, mode)
      PROVE  RatesInv'
  <2> DEFINE debt == DebtOf(u, mode, updateState.variableBorrowIndex)
  <2>1. /\ debt # 0 /\ UNCHANGED <<now, available>>
        /\ \/ /\ mode = "stable"
              /\ stable' = Burnt(stable, u, debt)
              /\ reserve' = updateInterestRatesOfBurn(updateState, stable', debt, variableDebt', available)
           \/ reserve' = updateInterestRatesOfDebts(updateState, stable', variableDebt', available)
    BY <1>3 DEF SwapBorrowRateMode
  <2>2. CASE reserve' = updateInterestRatesOfDebts(updateState, stable', variableDebt', available)
    <3>1. reserve' = updateInterestRatesOfDebts(updateState, stable', variableDebt', available')
      BY <2>1, <2>2
    <3> QED
      BY <2>1, <3>1, Prepared, RatesOfWhatIsLeft
  <2>3. CASE /\ mode = "stable"
             /\ stable' = Burnt(stable, u, debt)
             /\ reserve' = updateInterestRatesOfBurn(updateState, stable', debt, variableDebt', available)
    <3>1. debt \in Nat /\ debt = StableBalanceOf(stable, u)
      BY <2>3, DebtOfType DEF DebtOf
    <3> HIDE DEF debt
    <3>2. debt \in 1 .. StableBalanceOf(stable, u)
      BY <2>1, <3>1, SMT
    <3>3. reserve' = updateInterestRatesOfBurn(updateState, stable', debt, variableDebt', available')
      BY <2>1, <2>3
    <3> QED
      BY <2>1, <2>3, <3>2, <3>3, Prepared, RatesOfBurntDebt
  <2> QED
    BY <2>1, <2>2, <2>3
<1> QED
  BY <1>1, <1>2, <1>3 DEF RepaySteps

\* mintToTreasury: the share that it mints was there before.
LEMMA TreasuryRates ==
    ASSUME ReserveIInv, RatesInv, MintToTreasury
    PROVE  RatesInv'
<1>1. /\ reserve.accruedToTreasury # 0 /\ reserve' = [reserve EXCEPT !.accruedToTreasury = 0]
      /\ UNCHANGED <<now, stable, variableDebt, available, loans>>
  BY DEF MintToTreasury
<1>2. reserve \in Reserves
  BY Prepared
<1>3. Elapsed' = Elapsed
  BY <1>1, <1>2 DEF Elapsed, Reserves
<1>4. ~ Fresh
  BY <1>1 DEF Fresh
<1>5. ASSUME RatesCurrent
      PROVE  RatesCurrent'
  <2> DEFINE rates == calculateInterestRates(StableTotalSupply(stable),
                        RayMul(ScaledTotal(variableDebt), reserve.variableBorrowIndex),
                        stable.avgStableRate, available, reserve.unbacked)
  <2>1. reserve = [reserve EXCEPT !.liquidityRate = rates.liquidity,
                     !.stableBorrowRate = rates.stable, !.variableBorrowRate = rates.variable]
    BY <1>5 DEF RatesCurrent, updateInterestRatesOfDebts, RatesUpdated
  <2>2. RatesCurrent' <=>
          reserve' = [reserve' EXCEPT !.liquidityRate = rates.liquidity,
                        !.stableBorrowRate = rates.stable, !.variableBorrowRate = rates.variable]
    <3>1. reserve'.variableBorrowIndex = reserve.variableBorrowIndex
          /\ reserve'.unbacked = reserve.unbacked
      BY <1>1, <1>2 DEF Reserves
    <3> QED
      BY <1>1, <3>1, Zenon DEF RatesCurrent, updateInterestRatesOfDebts, RatesUpdated,
           StableTotalSupply, ScaledTotal
  <2> HIDE DEF rates
  <2>3. PICK a, b, c : a = rates.liquidity /\ b = rates.stable /\ c = rates.variable
    OBVIOUS
  <2>4. reserve = [reserve EXCEPT !.liquidityRate = a, !.stableBorrowRate = b,
                                  !.variableBorrowRate = c]
    BY <2>1, <2>3, Zenon
  <2>5. reserve.liquidityRate = a /\ reserve.stableBorrowRate = b /\ reserve.variableBorrowRate = c
    <3>1. PICK r : r = reserve
      OBVIOUS
    <3>2. r = [r EXCEPT !.liquidityRate = a, !.stableBorrowRate = b, !.variableBorrowRate = c]
      BY <2>4, <3>1
    <3>3. r \in Reserves
      BY <1>2, <3>1
    <3> DEFINE q == [r EXCEPT !.liquidityRate = a, !.stableBorrowRate = b, !.variableBorrowRate = c]
    <3>4. q.liquidityRate = a /\ q.stableBorrowRate = b /\ q.variableBorrowRate = c
      BY <3>3 DEF Reserves
    <3>5. r = q
      BY <3>2
    <3> HIDE DEF q
    <3>6. r.liquidityRate = a /\ r.stableBorrowRate = b /\ r.variableBorrowRate = c
      BY <3>4, <3>5
    <3> QED
      BY <3>1, <3>6
  <2>6. reserve' \in Reserves /\ reserve'.liquidityRate = a /\ reserve'.stableBorrowRate = b
        /\ reserve'.variableBorrowRate = c
    BY <1>1, <1>2, <2>5 DEF Reserves
  <2>7. reserve' = [reserve' EXCEPT !.liquidityRate = a, !.stableBorrowRate = b,
                                    !.variableBorrowRate = c]
    <3>1. PICK r : r = reserve'
      OBVIOUS
    <3>2. r \in Reserves /\ r.liquidityRate = a /\ r.stableBorrowRate = b
          /\ r.variableBorrowRate = c
      BY <2>6, <3>1
    <3>3. r = [r EXCEPT !.liquidityRate = a, !.stableBorrowRate = b, !.variableBorrowRate = c]
      BY <3>2 DEF Reserves
    <3> QED
      BY <3>1, <3>3
  <2> QED
    BY <2>2, <2>3, <2>7
<1> QED
  BY <1>1, <1>3, <1>4, <1>5 DEF RatesInv

\* rebalanceStableBorrowRate
LEMMA RebalanceRates ==
    ASSUME ReserveIInv, RebalanceSteps
    PROVE  RatesInv'
<1>1. PICK u \in Borrowers : RebalanceStableBorrowRate(u)
  BY DEF RebalanceSteps
<1>2. /\ UNCHANGED <<now, available, variableDebt>>
      /\ reserve' = updateInterestRatesOfDebts(updateState, stable', variableDebt, available)
  BY <1>1 DEF RebalanceStableBorrowRate
<1>3. reserve' = updateInterestRatesOfDebts(updateState, stable', variableDebt', available')
  BY <1>2
<1> QED
  BY <1>2, <1>3, Prepared, RatesOfWhatIsLeft

\* mintUnbacked and backUnbacked
LEMMA BridgeRates ==
    ASSUME ReserveIInv, BridgeSteps
    PROVE  RatesInv'
<1> DEFINE r == updateState
<1>1. r \in Reserves /\ r.unbacked \in Nat
  BY Prepared
<1>2. ASSUME NEW u \in Borrowers, NEW n \in Amounts, MintUnbacked(u, n)
      PROVE  RatesInv'
  <2> DEFINE next == [r EXCEPT !.unbacked = @ + n]
  <2>1. /\ UNCHANGED <<now, stable, variableDebt, available>>
        /\ reserve' = updateInterestRates(next, available)
    BY <1>2 DEF MintUnbacked
  <2>2. r.unbacked + n \in Nat
    BY <1>1, AmountsType, SMT
  <2> HIDE DEF r
  <2>3. next \in Reserves
    BY <1>1, <2>2 DEF Reserves
  <2> HIDE DEF next
  <2>4. reserve' = updateInterestRates(next, available')
    BY <2>1
  <2> QED
    BY <2>1, <2>3, <2>4, RatesOfNewLiquidity
<1>3. ASSUME NEW u \in Borrowers, NEW n \in Amounts, NEW fee \in Amounts \cup {0},
             BackUnbacked(u, n, fee)
      PROVE  RatesInv'
  <2> DEFINE backing == Least(n, r.unbacked)
             paid == Premium(r, fee, BridgeProtocolFee)
             next == [paid EXCEPT !.unbacked = @ - backing]
  <2>1. /\ HasSuppliers(r) /\ UNCHANGED <<now, stable, variableDebt>>
        /\ reserve' = updateInterestRates(next, available')
    BY <1>3 DEF BackUnbacked
  <2>2. n \in Nat /\ fee \in Nat /\ BridgeProtocolFee \in 0 .. PERCENTAGE_FACTOR
    BY AmountsType, ReserveParameters
  <2>3. paid \in Reserves /\ paid.unbacked = r.unbacked
    BY <2>1, <2>2, PremiumTaken DEF Updated
  <2> HIDE DEF r, paid
  <2>4. backing \in Nat /\ paid.unbacked - backing \in Nat
    BY <1>1, <2>2, <2>3, SMT DEF Least
  <2> HIDE DEF backing
  <2>5. next \in Reserves
    BY <2>3, <2>4 DEF Reserves
  <2> HIDE DEF next
  <2> QED
    BY <2>1, <2>5, RatesOfNewLiquidity
<1> QED
  BY <1>2, <1>3 DEF BridgeSteps

\* A flash loan takes no rates, but is outstanding; its repayment takes them.
LEMMA FlashRates ==
    ASSUME ReserveIInv, FlashSteps
    PROVE  RatesInv'
<1>1. ASSUME NEW i \in DOMAIN loans, FlashLoanRepayment(i)
      PROVE  RatesInv'
  <2> DEFINE next == Premium(updateState, loans[i].premium, FlashLoanPremiumToProtocol)
  <2>1. /\ HasSuppliers(updateState) /\ UNCHANGED <<now, stable, variableDebt>>
        /\ reserve' = updateInterestRates(next, available')
    BY <1>1 DEF FlashLoanRepayment
  <2>2. loans[i] \in Loans
    BY Prepared
  <2>3. loans[i].premium \in Nat /\ FlashLoanPremiumToProtocol \in 0 .. PERCENTAGE_FACTOR
    BY <2>2, ReserveParameters DEF Loans
  <2>4. next \in Reserves
    BY <2>1, <2>3, PremiumTaken DEF Updated
  <2> HIDE DEF next
  <2> QED
    BY <2>1, <2>4, RatesOfNewLiquidity
<1>2. ASSUME NEW u, NEW n, NEW premium, FlashLoan(u, n, premium)
      PROVE  RatesInv'
  <2>1. loans' = Append(loans, [receiver |-> u, amount |-> n, premium |-> premium])
    BY <1>2 DEF FlashLoan
  <2>2. loans \in Seq(Loans)
    BY Prepared
  <2>3. loans' # <<>>
    BY <2>1, <2>2
  <2> QED
    BY <2>3 DEF RatesInv
<1> QED
  BY <1>1, <1>2 DEF FlashSteps

\* When time has passed, the rates are those of the last operation.
LEMMA BlockRates ==
    ASSUME ReserveIInv, NextBlock
    PROVE  RatesInv'
<1>1. now' = now + 1 /\ reserve' = reserve
  BY DEF NextBlock, Tick
<1>2. now \in Nat /\ Elapsed \in Nat /\ reserve \in Reserves
  BY IndicesGrow, Prepared
<1>3. reserve.lastUpdateTimestamp \in Nat
  BY <1>2, ReserveFields
<1>4. Elapsed' # 0
  BY <1>1, <1>2, <1>3, SMT DEF Elapsed
<1> QED
  BY <1>4 DEF RatesInv

\* After every operation of a moment the rates are those of the debts and the
\* liquidity that it left (RatesAreCurrent of module Reserve), as long as no
\* repayment sets the total to zero on the ground that it takes all of the
\* average rate with it: what burn returns then is not the total that it left,
\* and BorrowLogic takes the rates of it.  Nothing else makes the rates differ.
THEOREM RatesStayCurrent ==
    ReserveSpec /\ [][~ RemainderDropped]_reserveVars => []RatesAreCurrent
<1>1. ReserveInit => RatesInv
  <2> SUFFICES ASSUME ReserveInit PROVE RatesInv
    OBVIOUS
  <2>1. ScaledTotal(aToken) = 0
    <3>1. aToken.scaled = [a \in Accounts |-> 0]
      BY DEF ReserveInit
    <3> QED
      BY <3>1, AccountsAreFinite, TotalOfZeros DEF ScaledTotal
  <2>2. reserve.accruedToTreasury = 0
    BY DEF ReserveInit
  <2> QED
    BY <2>1, <2>2 DEF RatesInv, Fresh
<1>2. ASSUME ReserveIInv, RatesInv, [ReserveNext]_reserveVars, [~ RemainderDropped]_reserveVars
      PROVE  RatesInv'
  <2>1. CASE UNCHANGED reserveVars
    <3>1. UNCHANGED <<now, stable, variableDebt, available, reserve, loans>> /\ aToken' = aToken
      BY <2>1 DEF reserveVars
    <3> QED
      BY <1>2, <3>1, RatesStand
  <2>2. CASE ReserveNext /\ ~ RemainderDropped
    <3>1. CASE CollateralSteps
      BY <1>2, <3>1, RatesStand DEF CollateralSteps, SetUserUseReserveAsCollateral
    <3> QED
      BY <1>2, <2>2, <3>1, SupplyRates, BorrowRates, RepayRates, TreasuryRates, BridgeRates,
         FlashRates, BlockRates, RebalanceRates DEF ReserveNext
  <2> QED
    BY <1>2, <2>1, <2>2
<1>3. RatesInv => RatesAreCurrent
  BY DEF RatesInv, Fresh, RatesCurrent, RatesAreCurrent, updateInterestRates,
     updateInterestRatesOfDebts
<1> QED
  BY <1>1, <1>2, <1>3, ReserveInductive, PTL DEF ReserveSpec

-----------------------------------------------------------------------------
(* The events of the tokens.                                               *)

\* Transactions that emit events are operations of the reserve.
LEMMA EmitsAreOperations ==
    [EventsNext]_<<reserveVars, eventVars>> => [ReserveNext]_reserveVars
<1> SUFFICES ASSUME EventsNext PROVE ReserveNext
  BY DEF reserveVars, eventVars
<1>1. CASE EmitSupplySteps(Amounts)
  BY <1>1 DEF EmitSupplySteps, EmitSupply, EmitWithdraw, EmitTransfer, SupplySteps, ReserveNext
<1>2. CASE EmitBorrowSteps(Amounts)
  BY <1>2 DEF EmitBorrowSteps, EmitVariableBorrow, EmitStableBorrow, BorrowSteps, RateModes,
              ReserveNext
<1>3. CASE EmitApproveSteps(Amounts)
  BY <1>3 DEF EmitApproveSteps, BorrowSteps, ReserveNext
<1>4. CASE EmitRepaySteps(Amounts)
  BY <1>4 DEF EmitRepaySteps, EmitRepayVariable, EmitRepayStable, RepaySteps, RateModes, ReserveNext
<1>5. CASE EmitRepayAllSteps(Amounts)
  BY <1>5 DEF EmitRepayAllSteps, EmitRepayAll, RepaySteps, ReserveNext
<1>6. CASE EmitWithdrawAllSteps
  <2>1. PICK u \in Borrowers, v \in Borrowers : Withdraw(u, v, MAX)
    BY <1>6 DEF EmitWithdrawAllSteps, EmitWithdrawAll
  <2> QED
    BY <2>1 DEF SupplySteps, ReserveNext
<1>7. CASE EmitSwapSteps(Amounts)
  BY <1>7 DEF EmitSwapSteps, EmitSwap, EmitRepayWithATokens, RepaySteps, ReserveNext
<1>8. CASE EmitRebalanceSteps
  BY <1>8 DEF EmitRebalanceSteps, EmitRebalance, RebalanceSteps, ReserveNext
<1>9. CASE EmitBridgeSteps(Amounts)
  BY <1>9 DEF EmitBridgeSteps, EmitMintUnbacked, BridgeSteps, ReserveNext
<1>10. CASE Silent(CollateralSteps) \/ Silent(MintToTreasury) \/ Silent(FlashSteps) \/ Silent(NextBlock)
  BY <1>10 DEF Silent, ReserveNext
<1> QED
  BY <1>1, <1>2, <1>3, <1>4, <1>5, <1>6, <1>7, <1>8, <1>9, <1>10 DEF EventsNext

\* With the events the reserve behaves as it does without them.
LEMMA EventsOfReserve == EventsSpec => []ReserveIInv
<1>1. EventsInit => ReserveInit
  BY DEF EventsInit
<1>2. EventsSpec => ReserveSpec
  BY <1>1, EmitsAreOperations, PTL DEF EventsSpec, ReserveSpec
<1> QED
  BY <1>2, ReserveInductive, PTL

-----------------------------------------------------------------------------

\* After an operation nothing has accrued yet.
LEMMA IndicesNow ==
    ReserveIInv /\ reserve.lastUpdateTimestamp = now =>
        /\ getNormalizedIncome = reserve.liquidityIndex
        /\ getNormalizedDebt = reserve.variableBorrowIndex
<1> SUFFICES ASSUME ReserveIInv, reserve.lastUpdateTimestamp = now
             PROVE  /\ getNormalizedIncome = reserve.liquidityIndex
                    /\ getNormalizedDebt = reserve.variableBorrowIndex
  OBVIOUS
<1>1. now \in Nat /\ reserve.variableBorrowIndex \in Nat /\ RAY \in Nat
  BY IndicesGrow, ScalesAreEven
<1>2. Elapsed = 0
  BY <1>1, SMT DEF Elapsed
<1>3. getNormalizedDebt = RayMul(RAY, reserve.variableBorrowIndex)
  BY <1>2 DEF getNormalizedDebt, CompoundedInterest
<1> QED
  BY <1>1, <1>2, <1>3, IndicesGrow, RayMulCommutes, RayIsNeutral

\* So it is in the state that the step leads to.
LEMMA IndicesThen ==
    (ReserveIInv /\ reserve.lastUpdateTimestamp = now =>
        /\ getNormalizedIncome = reserve.liquidityIndex
        /\ getNormalizedDebt = reserve.variableBorrowIndex)'
  BY IndicesNow, PTL

\* The arithmetic of the suites is that of the contracts for what is not negative.
LEMMA NoSigns ==
    ASSUME NEW a \in Nat, NEW b \in Nat
    PROVE  /\ rayMul(a, b) = RayMul(a, b)
           /\ b # 0 => rayDiv(a, b) = RayDiv(a, b) /\ div(a, b) = a \div b
<1>1. ASSUME NEW n \in Nat, NEW d \in Nat \ {0} PROVE div(n, d) = n \div d /\ n \div d \in Nat
  <2>1. (n < 0) = (d < 0) /\ ~ (n < 0) /\ ~ (d < 0)
    BY SMT
  <2>2. n \div d \in Nat
    BY QuotientBounds
  <2> QED
    BY <2>1, <2>2, SMT DEF div
<1>2. RAY \in Nat \ {0} /\ HALF_RAY \in Nat
  BY ScalesAreEven, SMT DEF HALF_RAY
<1>3. rayMul(a, b) = RayMul(a, b)
  <2>1. a * b \in Nat /\ HALF_RAY + a * b = a * b + HALF_RAY /\ HALF_RAY + a * b \in Nat
    BY <1>2, SMT
  <2> QED
    BY <1>1, <1>2, <2>1 DEF rayMul, RayMul
<1>4. ASSUME b # 0 PROVE rayDiv(a, b) = RayDiv(a, b)
  <2>1. div(b, 2) = b \div 2 /\ b \div 2 \in Nat
    BY <1>1, SMT
  <2>2. a * RAY \in Nat
    BY <1>2, SMT
  <2>3. (b \div 2) + a * RAY = a * RAY + (b \div 2) /\ a * RAY + (b \div 2) \in Nat
    BY <2>1, <2>2, SMT
  <2> QED
    BY <1>1, <1>4, <2>1, <2>3 DEF rayDiv, RayDiv
<1> QED
  BY <1>1, <1>3, <1>4

\* What a list of events tells.
Told(s) == {s[i] : i \in DOMAIN s}

\* A list after a list tells what both tell.
LEMMA ToldTogether ==
    ASSUME NEW S, NEW s \in Seq(S), NEW t \in Seq(S)
    PROVE  s \o t \in Seq(S) /\ Told(s \o t) = Told(s) \cup Told(t)
<1>1. /\ s \o t \in Seq(S) /\ Len(s) \in Nat /\ Len(t) \in Nat
      /\ DOMAIN s = 1 .. Len(s) /\ DOMAIN t = 1 .. Len(t)
      /\ DOMAIN (s \o t) = 1 .. Len(s) + Len(t)
      /\ \A i \in 1 .. Len(s) : (s \o t)[i] = s[i]
      /\ \A i \in 1 .. Len(t) : (s \o t)[Len(s) + i] = t[i]
  BY ConcatProperties, LenProperties, SMT
<1>2. \A i \in 1 .. Len(s) + Len(t) :
          i \in 1 .. Len(s) \/ \E j \in 1 .. Len(t) : i = Len(s) + j
  <2> SUFFICES ASSUME NEW i \in 1 .. Len(s) + Len(t), i \notin 1 .. Len(s)
               PROVE  \E j \in 1 .. Len(t) : i = Len(s) + j
    OBVIOUS
  <2>1. i - Len(s) \in 1 .. Len(t) /\ i = Len(s) + (i - Len(s))
    BY <1>1, SMT
  <2> QED
    BY <2>1
<1>3. /\ \A i \in 1 .. Len(s) : i \in 1 .. Len(s) + Len(t)
      /\ \A j \in 1 .. Len(t) : Len(s) + j \in 1 .. Len(s) + Len(t)
  BY <1>1, SMT
<1>4. ASSUME NEW e \in Told(s \o t) PROVE e \in Told(s) \cup Told(t)
  <2>1. PICK i \in 1 .. Len(s) + Len(t) : e = (s \o t)[i]
    BY <1>1 DEF Told
  <2>2. CASE i \in 1 .. Len(s)
    BY <1>1, <2>1, <2>2 DEF Told
  <2>3. CASE i \notin 1 .. Len(s)
    <3>1. PICK j \in 1 .. Len(t) : i = Len(s) + j
      BY <1>2, <2>3
    <3> QED
      BY <1>1, <2>1, <3>1 DEF Told
  <2> QED
    BY <2>2, <2>3
<1>5. ASSUME NEW e \in Told(s) \cup Told(t) PROVE e \in Told(s \o t)
  <2>1. CASE e \in Told(s)
    BY <1>1, <1>3, <2>1 DEF Told
  <2>2. CASE e \in Told(t)
    BY <1>1, <1>3, <2>2 DEF Told
  <2> QED
    BY <2>1, <2>2
<1> QED
  BY <1>1, <1>4, <1>5

\* Lists of up to two events, and the tuples in the middle of the suites' ones.
LEMMA ShortLists ==
    ASSUME NEW S
    PROVE  /\ \A a \in S : <<a>> \in Seq(S) /\ Told(<<a>>) = {a}
           /\ \A a \in S, b \in S : <<a, b>> \in Seq(S) /\ Told(<<a, b>>) = {a, b}
           /\ << >> \in Seq(S) /\ Told(<< >>) = {}
  BY SMT DEF Told

-----------------------------------------------------------------------------

\* What a mint emits is what the suites match it with.
LEMMA MintTold ==
    ASSUME NEW token, NEW caller, NEW a, NEW value, NEW x, NEW index, NEW S,
           MintMatch(token, <<caller, a, value, x, index>>) \subseteq S
    PROVE  /\ MintEvents(token, caller, a, value, x, index) \in Seq(S)
           /\ Told(MintEvents(token, caller, a, value, x, index))
                = MintMatch(token, <<caller, a, value, x, index>>)
<1> DEFINE p == Event(token, "Transfer", <<ZERO_ADDRESS, a, value>>)
           q == Event(token, "Mint", <<caller, a, value, x, index>>)
<1>1. MintMatch(token, <<caller, a, value, x, index>>) = {p, q}
  BY DEF MintMatch
<1>2. MintEvents(token, caller, a, value, x, index) = <<p, q>>
  BY DEF MintEvents
<1> HIDE DEF p, q
<1>3. p \in S /\ q \in S
  BY <1>1, Zenon
<1>4. <<p, q>> \in Seq(S) /\ Told(<<p, q>>) = {p, q}
  BY <1>3, ShortLists
<1> QED
  BY <1>1, <1>2, <1>4

\* The events of a receipt are matched when the log tells them.
LEMMA Matched ==
    ASSUME NEW E, E \subseteq Told(log')
    PROVE  \A event \in E : matchEvent(event)'
  BY DEF Told, matchEvent

\* A payment before or after what a token emits.
LEMMA PaymentTold ==
    ASSUME NEW pay, NEW list, NEW M, list \in Seq({pay} \cup M), Told(list) = M
    PROVE  Told(<<pay>> \o list) = {pay} \cup M /\ Told(list \o <<pay>>) = {pay} \cup M
<1>1. PICK S : S = {pay} \cup M
  OBVIOUS
<1>2. PICK paid : paid = <<pay>>
  OBVIOUS
<1>3. paid \in Seq(S) /\ list \in Seq(S) /\ Told(paid) = {pay}
  BY <1>1, <1>2, ShortLists
<1>4. Told(paid \o list) = Told(paid) \cup Told(list)
  BY <1>3, ToldTogether
<1>5. Told(list \o paid) = Told(list) \cup Told(paid)
  BY <1>3, ToldTogether
<1> QED
  BY <1>2, <1>3, <1>4, <1>5

\* A transaction that takes new rates stores the indices of the moment.
LEMMA IndicesAfter ==
    ASSUME ReserveIInv, ReserveIInv', now' = now, NEW total, NEW avg, NEW scaled, NEW liquid,
           reserve' = RatesUpdated(updateState, total, avg, scaled, liquid)
    PROVE  /\ getNormalizedIncome' = updateState.liquidityIndex
           /\ getNormalizedDebt' = updateState.variableBorrowIndex
           /\ updateState.liquidityIndex \in Nat \ {0}
           /\ updateState.variableBorrowIndex \in Nat \ {0}
<1>1. Updated(updateState) /\ updateState \in Reserves
  BY Prepared
<1>2. PICK x, y, z : reserve' = [updateState EXCEPT !.liquidityRate = x, !.stableBorrowRate = y,
                                                    !.variableBorrowRate = z]
  BY DEF RatesUpdated
<1> DEFINE r == updateState
<1> HIDE DEF r
<1>3. /\ reserve'.lastUpdateTimestamp = r.lastUpdateTimestamp
      /\ reserve'.liquidityIndex = r.liquidityIndex
      /\ reserve'.variableBorrowIndex = r.variableBorrowIndex
  BY <1>1, <1>2 DEF Reserves, r
<1>4. reserve'.lastUpdateTimestamp = now'
  BY <1>1, <1>3 DEF Updated, r
<1> QED
  BY <1>3, <1>4, IndicesThen, Prepared DEF r

\* The entry of a holder that is written.
LEMMA EntryWritten ==
    ASSUME NEW t \in ScaledTokens, NEW a \in Accounts, NEW scaled, NEW index
    PROVE  /\ WithScaled(t, a, scaled, index).scaled[a] = scaled
           /\ \A b \in Accounts \ {a} :
                  /\ WithScaled(t, a, scaled, index).scaled[b] = t.scaled[b]
                  /\ WithScaled(t, a, scaled, index).index[b] = t.index[b]
  BY DEF WithScaled, ScaledTokens

\* The interest of a holder: the suites work out the scaled balance of before from
\* the one of after.
LEMMA InterestOfMint ==
    ASSUME NEW t \in ScaledTokens, NEW a \in Accounts, NEW n \in Nat, NEW i \in Nat \ {0}
    PROVE  /\ getBalanceIncrease(ScaledMint(t, a, n, i).scaled[a] - rayDiv(n, i), t.index[a], i)
                = BalanceIncrease(t, a, i)
           /\ BalanceIncrease(t, a, i) \in Int
<1>1. t.scaled[a] \in Nat /\ t.index[a] \in Nat
  BY DEF ScaledTokens
<1>2. ScaledMint(t, a, n, i).scaled[a] = t.scaled[a] + RayDiv(n, i) /\ RayDiv(n, i) \in Nat
  BY EntryWritten, RayDivType DEF ScaledMint
<1>3. ScaledMint(t, a, n, i).scaled[a] - rayDiv(n, i) = t.scaled[a]
  <2>1. rayDiv(n, i) = RayDiv(n, i)
    BY NoSigns
  <2> QED
    BY <1>1, <1>2, <2>1, SMT
<1>4. RayMul(t.scaled[a], i) \in Nat /\ RayMul(t.scaled[a], t.index[a]) \in Nat
  BY <1>1, RayMulType
<1>5. BalanceIncrease(t, a, i) \in Int
  BY <1>4, SMT DEF BalanceIncrease
<1> QED
  BY <1>1, <1>3, <1>5, NoSigns DEF getBalanceIncrease, BalanceIncrease

\* What a holder is told of interest when units are burnt: the events
\* subtract the balance of before from the one after plus the amount.
LEMMA InterestOfBurn ==
    ASSUME NEW t \in ScaledTokens, NEW a \in Accounts, NEW n \in Nat, NEW i \in Nat \ {0}
    PROVE  /\ getBalanceIncrease(ScaledBurn(t, a, n, i).scaled[a] + rayDiv(n, i), t.index[a], i)
                = BalanceIncrease(t, a, i)
           /\ BalanceIncrease(t, a, i) \in Int
<1>1. t.scaled[a] \in Nat /\ t.index[a] \in Nat
  BY DEF ScaledTokens
<1>2. ScaledBurn(t, a, n, i).scaled[a] = t.scaled[a] - RayDiv(n, i) /\ RayDiv(n, i) \in Nat
  BY EntryWritten, RayDivType DEF ScaledBurn
<1>3. ScaledBurn(t, a, n, i).scaled[a] + rayDiv(n, i) = t.scaled[a]
  <2>1. rayDiv(n, i) = RayDiv(n, i)
    BY NoSigns
  <2> QED
    BY <1>1, <1>2, <2>1, SMT
<1>4. BalanceIncrease(t, a, i) \in Int
  BY InterestOfMint
<1> QED
  BY <1>1, <1>3, <1>4, NoSigns DEF getBalanceIncrease, BalanceIncrease

\* What the suites match the burn of a scaled balance with.
BurnMatch(token, a, target, amount, increase, index) ==
    IF amount - increase < 0
    THEN MintMatch(token, <<a, a, -(amount - increase), increase, index>>)
    ELSE {Event(token, "Transfer", <<a, ZERO_ADDRESS, amount - increase>>),
          Event(token, "Burn", <<a, target, amount - increase, increase, index>>)}

\* The pair of events of a burn is among the expected ones, whether the
\* interest is more than the amount or not.
LEMMA BurnTold ==
    ASSUME NEW token, NEW t, NEW a, NEW target, NEW amount \in Nat, NEW index, NEW S,
           BalanceIncrease(t, a, index) \in Int,
           BurnMatch(token, a, target, amount, BalanceIncrease(t, a, index), index) \subseteq S
    PROVE  /\ ScaledBurnEvents(token, t, a, target, amount, index) \in Seq(S)
           /\ Told(ScaledBurnEvents(token, t, a, target, amount, index))
                = BurnMatch(token, a, target, amount, BalanceIncrease(t, a, index), index)
<1> DEFINE inc == BalanceIncrease(t, a, index)
<1>1. (inc > amount) = (amount - inc < 0) /\ -(amount - inc) = inc - amount
  <2>1. inc \in Int
    OBVIOUS
  <2> HIDE DEF inc
  <2> QED
    BY <2>1, SMT
<1>2. ScaledBurnEvents(token, t, a, target, amount, index) =
        IF inc > amount THEN MintEvents(token, a, a, inc - amount, inc, index)
        ELSE <<Event(token, "Transfer", <<a, ZERO_ADDRESS, amount - inc>>),
               Event(token, "Burn", <<a, target, amount - inc, inc, index>>)>>
  BY DEF ScaledBurnEvents
<1> HIDE DEF inc
<1>3. CASE inc > amount
  <2>1. BurnMatch(token, a, target, amount, inc, index)
          = MintMatch(token, <<a, a, inc - amount, inc, index>>)
    BY <1>1, <1>3 DEF BurnMatch
  <2> QED
    BY <1>2, <1>3, <2>1, MintTold DEF inc
<1>4. CASE ~ (inc > amount)
  <2> DEFINE p == Event(token, "Transfer", <<a, ZERO_ADDRESS, amount - inc>>)
             q == Event(token, "Burn", <<a, target, amount - inc, inc, index>>)
  <2>1. BurnMatch(token, a, target, amount, inc, index) = {p, q}
    BY <1>1, <1>4 DEF BurnMatch
  <2>2. ScaledBurnEvents(token, t, a, target, amount, index) = <<p, q>>
    BY <1>2, <1>4
  <2> HIDE DEF p, q
  <2> QED
    BY <2>1, <2>2, ShortLists DEF inc
<1> QED
  BY <1>3, <1>4

BeforeIt == [aToken |-> aToken, variableDebt |-> variableDebt, stable |-> stable]

-----------------------------------------------------------------------------
\* A deposit.
LEMMA SupplyAsExpected ==
    ASSUME ReserveIInv, ReserveIInv', NEW u \in Borrowers, NEW v \in Borrowers, NEW n \in Amounts,
           Supply(u, v, n), helper' = Helper("supply", u, v, v, n), before' = BeforeIt,
           log' = Paying(u, aTokenAddress, n)
                    \o ScaledMintEvents("aToken", aToken, u, v, n, updateState.liquidityIndex)
    PROVE  \A event \in supply' : matchEvent(event)'
<1> DEFINE i == updateState.liquidityIndex
           inc == BalanceIncrease(aToken, v, i)
           pay == Event("underlying", "Transfer", <<u, aTokenAddress, n>>)
           mint == MintEvents("aToken", u, v, n + inc, inc, i)
<1>1. aToken' = ScaledMint(aToken, v, n, i) /\ now' = now
  BY DEF Supply, MintATokens
<1>2. n \in Nat /\ v \in Accounts /\ aToken \in ScaledTokens
  BY AmountsType, Prepared, AccountsAreFinite
<1>3. getNormalizedIncome' = i /\ i \in Nat \ {0}
  BY <1>1, IndicesAfter DEF Supply, updateInterestRates
<1> HIDE DEF i
<1>4. getBalanceIncrease(aToken'.scaled[v] - rayDiv(n, i), aToken.index[v], i) = inc
  BY <1>1, <1>2, <1>3, InterestOfMint
<1> HIDE DEF inc
<1>5. supply' = {pay} \cup MintMatch("aToken", <<u, v, n + inc, inc, i>>)
  BY <1>3, <1>4 DEF supply, Helper, BeforeIt
<1>6. log' = <<pay>> \o mint
  BY DEF Paying, ScaledMintEvents, i, inc
<1>7. PICK list, M, p : p = pay /\ list = mint /\ M = MintMatch("aToken", <<u, v, n + inc, inc, i>>)
  OBVIOUS
<1>8. list \in Seq({p} \cup M) /\ Told(list) = M
  BY <1>7, MintTold
<1> HIDE DEF pay, mint
<1>9. Told(log') = supply'
  <2>1. Told(<<p>> \o list) = {p} \cup M /\ Told(list \o <<p>>) = {p} \cup M
    BY <1>8, PaymentTold
  <2> QED
    BY <1>5, <1>6, <1>7, <2>1
<1> QED
  BY <1>9, Matched

\* A withdrawal.
LEMMA WithdrawAsExpected ==
    ASSUME ReserveIInv, ReserveIInv', NEW u \in Borrowers, NEW to \in Borrowers, NEW n \in Amounts,
           Withdraw(u, to, n), helper' = Helper("withdraw", u, u, to, n), before' = BeforeIt,
           log' = ScaledBurnEvents("aToken", aToken, u, to, n, updateState.liquidityIndex)
                    \o Paying(aTokenAddress, to, n)
    PROVE  \A event \in withdraw' : matchEvent(event)'
<1> DEFINE i == updateState.liquidityIndex
           inc == BalanceIncrease(aToken, u, i)
           pay == Event("underlying", "Transfer", <<aTokenAddress, to, n>>)
           burn == ScaledBurnEvents("aToken", aToken, u, to, n, i)
<1>1. aToken' = ScaledBurn(aToken, u, n, i) /\ now' = now
  BY AmountsType DEF Withdraw, Amount
<1>2. n \in Nat /\ u \in Accounts /\ aToken \in ScaledTokens
  BY AmountsType, Prepared, AccountsAreFinite
<1>3. getNormalizedIncome' = i /\ i \in Nat \ {0}
  BY <1>1, IndicesAfter DEF Withdraw, updateInterestRates
<1> HIDE DEF i
<1>4. /\ getBalanceIncrease(aToken'.scaled[u] + rayDiv(n, i), aToken.index[u], i) = inc
      /\ inc \in Int
  BY <1>1, <1>2, <1>3, InterestOfBurn
<1>5. withdraw' = {pay} \cup BurnMatch("aToken", u, to, n, inc, i)
  <2> HIDE DEF inc
  <2> QED
    BY <1>3, <1>4 DEF withdraw, Helper, BeforeIt, BurnMatch
<1>6. log' = burn \o <<pay>>
  BY DEF Paying, i
<1>7. PICK list, M, p : p = pay /\ list = burn /\ M = BurnMatch("aToken", u, to, n, inc, i)
  OBVIOUS
<1>8. list \in Seq({p} \cup M) /\ Told(list) = M
  BY <1>2, <1>4, <1>7, BurnTold
<1> HIDE DEF pay, burn
<1>9. Told(log') = withdraw'
  <2>1. Told(<<p>> \o list) = {p} \cup M /\ Told(list \o <<p>>) = {p} \cup M
    BY <1>8, PaymentTold
  <2> QED
    BY <1>5, <1>6, <1>7, <2>1
<1> QED
  BY <1>9, Matched

\* A loan at the variable rate.
LEMMA VariableBorrowAsExpected ==
    ASSUME ReserveIInv, ReserveIInv', NEW u \in Borrowers, NEW v \in Borrowers, NEW n \in Amounts,
           Borrow(u, v, n, "variable"), helper' = Helper("variableBorrow", u, v, u, n),
           before' = BeforeIt,
           log' = ScaledMintEvents("variableDebtToken", variableDebt, u, v, n,
                                   updateState.variableBorrowIndex)
                    \o Paying(aTokenAddress, u, n)
    PROVE  \A event \in variableBorrow' : matchEvent(event)'
<1> DEFINE i == updateState.variableBorrowIndex
           inc == BalanceIncrease(variableDebt, v, i)
           pay == Event("underlying", "Transfer", <<aTokenAddress, u, n>>)
           mint == MintEvents("variableDebtToken", u, v, n + inc, inc, i)
<1>1. variableDebt' = ScaledMint(variableDebt, v, n, i) /\ now' = now
  BY DEF Borrow
<1>2. n \in Nat /\ v \in Accounts /\ variableDebt \in ScaledTokens
  BY AmountsType, Prepared, AccountsAreFinite
<1>3. getNormalizedDebt' = i /\ i \in Nat \ {0}
  BY <1>1, IndicesAfter DEF Borrow, updateInterestRatesOfDebts
<1> HIDE DEF i
<1>4. getBalanceIncrease(variableDebt'.scaled[v] - rayDiv(n, i), variableDebt.index[v], i) = inc
  BY <1>1, <1>2, <1>3, InterestOfMint
<1> HIDE DEF inc
<1>5. variableBorrow' = {pay} \cup MintMatch("variableDebtToken", <<u, v, n + inc, inc, i>>)
  BY <1>3, <1>4 DEF variableBorrow, Helper, BeforeIt
<1>6. log' = mint \o <<pay>>
  BY DEF Paying, ScaledMintEvents, i, inc
<1>7. PICK list, M, p : p = pay /\ list = mint /\ M = MintMatch("variableDebtToken", <<u, v, n + inc, inc, i>>)
  OBVIOUS
<1>8. list \in Seq({p} \cup M) /\ Told(list) = M
  BY <1>7, MintTold
<1> HIDE DEF pay, mint
<1>9. Told(log') = variableBorrow'
  <2>1. Told(<<p>> \o list) = {p} \cup M /\ Told(list \o <<p>>) = {p} \cup M
    BY <1>8, PaymentTold
  <2> QED
    BY <1>5, <1>6, <1>7, <2>1
<1> QED
  BY <1>9, Matched

\* The repayment of one, of no more than the debt.
LEMMA RepayVariableAsExpected ==
    ASSUME ReserveIInv, ReserveIInv', NEW u \in Borrowers, NEW v \in Borrowers, NEW n \in Amounts,
           n <= RayMul(variableDebt.scaled[v], updateState.variableBorrowIndex),
           Repay(u, v, n, "variable"), helper' = Helper("repayVariableBorrow", u, v, u, n),
           before' = BeforeIt,
           log' = ScaledBurnEvents("variableDebtToken", variableDebt, v, ZERO_ADDRESS, n,
                                   updateState.variableBorrowIndex)
                    \o Paying(u, aTokenAddress, n)
    PROVE  \A event \in repayVariableBorrow' : matchEvent(event)'
<1> DEFINE i == updateState.variableBorrowIndex
           inc == BalanceIncrease(variableDebt, v, i)
           pay == Event("underlying", "Transfer", <<u, aTokenAddress, n>>)
           burn == ScaledBurnEvents("variableDebtToken", variableDebt, v, ZERO_ADDRESS, n, i)
<1>1. BurnDebt(updateState, v, "variable", n, available') /\ now' = now
  BY AmountsType DEF Repay, DebtOf, Least
<1>2. n \in Nat /\ v \in Accounts /\ variableDebt \in ScaledTokens
  BY AmountsType, Prepared, AccountsAreFinite
<1>3. /\ variableDebt' = ScaledBurn(variableDebt, v, n, i)
      /\ reserve' = updateInterestRatesOfDebts(updateState, stable, variableDebt', available')
  BY <1>1 DEF BurnDebt
<1>4. getNormalizedDebt' = i /\ i \in Nat \ {0}
  BY <1>1, <1>3, IndicesAfter DEF updateInterestRatesOfDebts
<1> HIDE DEF i
<1>5. /\ getBalanceIncrease(variableDebt'.scaled[v] + rayDiv(n, i), variableDebt.index[v], i) = inc
      /\ inc \in Int
  BY <1>2, <1>3, <1>4, InterestOfBurn
<1>6. repayVariableBorrow' = {pay} \cup BurnMatch("variableDebtToken", v, ZERO_ADDRESS, n, inc, i)
  <2> HIDE DEF inc
  <2> QED
    BY <1>4, <1>5 DEF repayVariableBorrow, Helper, BeforeIt, BurnMatch
<1>7. log' = burn \o <<pay>>
  BY DEF Paying, i
<1>8. PICK list, M, p :
        p = pay /\ list = burn /\ M = BurnMatch("variableDebtToken", v, ZERO_ADDRESS, n, inc, i)
  OBVIOUS
<1>9. list \in Seq({p} \cup M) /\ Told(list) = M
  BY <1>2, <1>5, <1>8, BurnTold
<1> HIDE DEF pay, burn
<1>10. Told(log') = repayVariableBorrow'
  <2>1. Told(<<p>> \o list) = {p} \cup M /\ Told(list \o <<p>>) = {p} \cup M
    BY <1>9, PaymentTold
  <2> QED
    BY <1>6, <1>7, <1>8, <2>1
<1> QED
  BY <1>10, Matched

-----------------------------------------------------------------------------
\* The suites' account of compound interest is that of the contracts.
LEMMA CompoundedAsCalculated ==
    ASSUME NEW rate \in Nat, NEW t \in Nat, NEW last \in Nat, last <= t
    PROVE  /\ Calc!calcCompoundedInterest(rate, t, last) = CompoundedInterest(rate, t - last)
           /\ \A p \in Nat :
                Calc!rayMul(p, CompoundedInterest(rate, t - last))
                  = RayMul(p, CompoundedInterest(rate, t - last))
<1> DEFINE e == t - last
           squared == RayMul(rate, rate) \div (SECONDS_PER_YEAR * SECONDS_PER_YEAR)
           cubed == RayMul(squared, rate) \div SECONDS_PER_YEAR
           minusTwo == IF e > 2 THEN e - 2 ELSE 0
           pairs == e * (e - 1)
<1>1. ASSUME NEW n \in Nat, NEW d \in Nat \ {0} PROVE Calc!div(n, d) = n \div d /\ n \div d \in Nat
  <2>1. (n < 0) = (d < 0) /\ ~ (n < 0) /\ ~ (d < 0)
    BY SMT
  <2>2. n \div d \in Nat
    BY QuotientBounds
  <2> QED
    BY <2>1, <2>2, SMT DEF Calc!div
<1>2. RAY \in Nat \ {0} /\ HALF_RAY \in Nat /\ Calc!HALF_RAY = HALF_RAY
  BY ScalesAreEven, SMT DEF HALF_RAY, Calc!HALF_RAY
<1>3. ASSUME NEW a \in Nat, NEW b \in Nat PROVE Calc!rayMul(a, b) = RayMul(a, b) /\ RayMul(a, b) \in Nat
  <2>1. HALF_RAY + a * b = a * b + HALF_RAY /\ HALF_RAY + a * b \in Nat
    BY <1>2, SMT
  <2> QED
    BY <1>1, <1>2, <2>1, RayMulType DEF Calc!rayMul, RayMul
<1>4. /\ e \in Nat /\ SECONDS_PER_YEAR \in Nat \ {0}
      /\ SECONDS_PER_YEAR * SECONDS_PER_YEAR \in Nat \ {0}
      /\ minusTwo \in Nat
  BY YearHasSeconds, SMT
<1>5. /\ Calc!div(Calc!rayMul(rate, rate), SECONDS_PER_YEAR * SECONDS_PER_YEAR) = squared
      /\ squared \in Nat
  BY <1>1, <1>3, <1>4
<1>6. /\ Calc!div(Calc!rayMul(squared, rate), SECONDS_PER_YEAR) = cubed
      /\ cubed \in Nat
  BY <1>1, <1>3, <1>4, <1>5
<1>7. Calc!Max0(e - 2) = minusTwo
  BY <1>4, SMT DEF Calc!Max0
<1> HIDE DEF squared, cubed, minusTwo
<1>8. ASSUME e = 0
      PROVE  Calc!calcCompoundedInterest(rate, t, last) = CompoundedInterest(rate, e)
  BY <1>8 DEF Calc!calcCompoundedInterest, CompoundedInterest
<1>9. ASSUME e # 0
      PROVE  Calc!calcCompoundedInterest(rate, t, last) = CompoundedInterest(rate, e)
  <2>1. /\ rate * e \in Nat /\ pairs \in Nat
    BY <1>4, <1>9, SMT
  <2>2. pairs * squared \in Nat /\ pairs * minusTwo * cubed \in Nat
    <3> HIDE DEF pairs
    <3> QED
      BY <1>4, <1>5, <1>6, <2>1, SMT
  <2>3. /\ Calc!div(rate * e, SECONDS_PER_YEAR) = (rate * e) \div SECONDS_PER_YEAR
        /\ Calc!div(pairs * squared, 2) = (pairs * squared) \div 2
        /\ Calc!div(pairs * minusTwo * cubed, 6) = (pairs * minusTwo * cubed) \div 6
    <3> HIDE DEF pairs, e
    <3>1. 2 \in Nat \ {0} /\ 6 \in Nat \ {0}
      BY SMT
    <3> QED
      BY <1>1, <1>4, <2>1, <2>2, <3>1, Zenon
  <2>4. Calc!calcCompoundedInterest(rate, t, last) =
          RAY + Calc!div(rate * e, SECONDS_PER_YEAR) + Calc!div(pairs * squared, 2)
              + Calc!div(pairs * minusTwo * cubed, 6)
    BY <1>5, <1>6, <1>7, <1>9 DEF Calc!calcCompoundedInterest
  <2>5. CompoundedInterest(rate, e) =
          RAY + (rate * e) \div SECONDS_PER_YEAR + (pairs * squared) \div 2
              + (pairs * minusTwo * cubed) \div 6
    BY <1>9 DEF CompoundedInterest, squared, cubed, minusTwo
  <2> QED
    BY <2>3, <2>4, <2>5
<1>10. CompoundedInterest(rate, e) \in Nat
  <2> HIDE DEF e
  <2> QED
    BY <1>4, CompoundAtLeastLinear
<1> QED
  BY <1>3, <1>8, <1>9, <1>10

\* Without a rate there is no interest.
LEMMA NoRate ==
    ASSUME NEW e \in Nat
    PROVE  CompoundedInterest(0, e) = RAY
<1>1. /\ RAY \in Nat /\ SECONDS_PER_YEAR \in Nat \ {0}
      /\ SECONDS_PER_YEAR * SECONDS_PER_YEAR \in Nat \ {0}
  BY ScalesAreEven, YearHasSeconds, SMT
<1>2. ASSUME NEW d \in Nat \ {0} PROVE 0 \div d = 0
  BY <1>2, QuotientUnique, SMT
<1>3. RayMul(0, 0) \div (SECONDS_PER_YEAR * SECONDS_PER_YEAR) = 0
  BY <1>1, <1>2, RayMulZero
<1>4. RayMul(0, 0) \div SECONDS_PER_YEAR = 0
  BY <1>1, <1>2, RayMulZero
<1> DEFINE minusTwo == IF e > 2 THEN e - 2 ELSE 0
<1>5. /\ 0 * e = 0 /\ (e * (e - 1)) * 0 = 0 /\ e * (e - 1) * minusTwo * 0 = 0
  BY SMT
<1>6. (0 * e) \div SECONDS_PER_YEAR = 0 /\ ((e * (e - 1)) * 0) \div 2 = 0
      /\ (e * (e - 1) * minusTwo * 0) \div 6 = 0
  BY <1>1, <1>2, <1>5
<1>7. CompoundedInterest(0, e) = IF e = 0 THEN RAY
        ELSE RAY + (0 * e) \div SECONDS_PER_YEAR + ((e * (e - 1)) * 0) \div 2
                 + (e * (e - 1) * minusTwo * 0) \div 6
  BY <1>3, <1>4 DEF CompoundedInterest
<1> QED
  BY <1>1, <1>6, <1>7, SMT

\* A debt has a time from which it bears interest.
Stamped(t) == \A u \in Borrowers : t.principal[u] # 0 => t.timestamp[u] # 0

\* The stable debt the tests calculate is the debt the token displays.
LEMMA DebtAsCalculated ==
    ASSUME now \in Nat, NEW t \in StableTokens, ClocksBehind(t), Stamped(t), NEW u \in Borrowers
    PROVE  Calc!calcExpectedStableDebtTokenBalance(t.principal[u], t.rate[u], t.timestamp[u], now)
             = StableBalanceOf(t, u)
<1> DEFINE p == t.principal[u]
           r == t.rate[u]
           last == t.timestamp[u]
           factor == CompoundedInterest(r, now - last)
<1>1. p \in Nat /\ r \in Nat /\ last \in Nat /\ last <= now /\ (p # 0 => last # 0)
  BY DEF StableTokens, ClocksBehind, Stamped
<1>2. StableBalanceOf(t, u) = IF p = 0 THEN 0 ELSE RayMul(p, factor)
  BY DEF StableBalanceOf
<1>3. Calc!calcExpectedStableDebtTokenBalance(p, r, last, now) =
        IF r = 0 \/ now = last \/ last = 0 THEN p
        ELSE Calc!rayMul(p, Calc!calcCompoundedInterest(r, now, last))
  BY DEF Calc!calcExpectedStableDebtTokenBalance
<1> HIDE DEF p, r, last
<1>4. now - last \in Nat
  BY <1>1, SMT
<1>5. factor \in Nat
  BY <1>1, <1>4, CompoundAtLeastLinear
<1>6. Calc!rayMul(p, Calc!calcCompoundedInterest(r, now, last)) = RayMul(p, factor)
  BY <1>1, CompoundedAsCalculated
<1> DEFINE calculated == Calc!calcExpectedStableDebtTokenBalance(p, r, last, now)
<1>7. ASSUME p = 0 PROVE calculated = StableBalanceOf(t, u)
  BY <1>2, <1>3, <1>5, <1>6, <1>7, RayMulZero
<1>8. ASSUME p # 0 /\ (r = 0 \/ now = last) PROVE calculated = StableBalanceOf(t, u)
  <2>1. factor = RAY
    <3>1. CASE now = last
      <4>1. now - last = 0
        BY <1>1, <3>1, SMT
      <4> QED
        BY <4>1 DEF CompoundedInterest
    <3>2. CASE r = 0
      <4>1. factor = CompoundedInterest(0, now - last)
        BY <3>2
      <4> QED
        BY <1>4, <4>1, NoRate
    <3> QED
      BY <1>8, <3>1, <3>2
  <2>2. RayMul(p, factor) = p
    BY <1>1, <2>1, RayIsNeutral
  <2> QED
    BY <1>2, <1>3, <1>8, <2>2
<1>9. ASSUME p # 0 /\ ~ (r = 0 \/ now = last) PROVE calculated = StableBalanceOf(t, u)
  BY <1>1, <1>2, <1>3, <1>6, <1>9
<1> QED
  BY <1>7, <1>8, <1>9 DEF p, r, last

-----------------------------------------------------------------------------
\* A loan at a stable rate.
LEMMA StableBorrowAsExpected ==
    ASSUME ReserveIInv, Stamped(stable), NEW u \in Borrowers, NEW v \in Borrowers, NEW n \in Amounts,
           Borrow(u, v, n, "stable"), helper' = Helper("stableBorrow", u, v, u, n),
           before' = BeforeIt,
           log' = StableBorrowEvents(stable, u, v, n, Minted(stable, v, n, reserve.stableBorrowRate))
                    \o Paying(aTokenAddress, u, n)
    PROVE  \A event \in stableBorrow' : matchEvent(event)'
<1> DEFINE bal == StableBalanceOf(stable, v)
           inc == bal - stable.principal[v]
           pay == Event("underlying", "Transfer", <<aTokenAddress, u, n>>)
           a == Event("stableDebtToken", "Transfer", <<ZERO_ADDRESS, v, n + inc>>)
           b == Event("stableDebtToken", "Mint",
                      <<u, v, n + inc, bal, inc, stable'.rate[v], stable'.avgStableRate,
                        stable'.totalSupply>>)
<1>1. stable' = Minted(stable, v, n, reserve.stableBorrowRate) /\ now' = now
  BY DEF Borrow
<1>2. newPrincipalBalance' = bal
  <2>1. newPrincipalBalance' = Calc!calcExpectedStableDebtTokenBalance(
            stable.principal[v], stable.rate[v], stable.timestamp[v], now)
    BY <1>1 DEF newPrincipalBalance, Helper, BeforeIt
  <2> QED
    BY <2>1, Prepared, DebtAsCalculated DEF ReserveIInv
<1> HIDE DEF bal
<1>3. stableBorrow' = {pay} \cup {a, b}
  <2>1. newPrincipalBalance' - before'.stable.principal[v] = inc
    BY <1>2 DEF BeforeIt
  <2> HIDE DEF inc
  <2>2. stableBorrow' =
          {pay} \cup MintMatch("stableDebtToken",
                         <<u, v, n + inc, bal, inc, stable'.rate[v], stable'.avgStableRate,
                           stable'.totalSupply>>)
    BY <1>2, <2>1 DEF stableBorrow, Helper
  <2>3. MintMatch("stableDebtToken",
                         <<u, v, n + inc, bal, inc, stable'.rate[v], stable'.avgStableRate,
                           stable'.totalSupply>>) = {a, b}
    BY DEF MintMatch
  <2> QED
    BY <2>2, <2>3
<1>4. log' = <<a, b>> \o <<pay>>
  BY <1>1 DEF Paying, StableBorrowEvents, StableMintEvents, bal
<1> HIDE DEF pay, a, b
<1>5. PICK c, d, p : c = a /\ d = b /\ p = pay
  OBVIOUS
<1>6. PICK list : list = <<c, d>>
  OBVIOUS
<1>7. list \in Seq({p} \cup {c, d}) /\ Told(list) = {c, d}
  BY <1>6, ShortLists
<1>8. Told(log') = stableBorrow'
  <2>1. Told(list \o <<p>>) = {p} \cup {c, d}
    BY <1>7, PaymentTold
  <2> QED
    BY <1>3, <1>4, <1>5, <1>6, <2>1
<1> QED
  BY <1>8, Matched

\* The repayment of a stable debt: the total that burn returns is that of the token
\* unless the rest is dropped.
LEMMA RepayStableAsExpected ==
    ASSUME ReserveIInv, Stamped(stable), NEW u \in Borrowers, NEW v \in Borrowers, NEW n \in Amounts,
           n <= StableBalanceOf(stable, v),
           Repay(u, v, n, "stable"), helper' = Helper("repayStableBorrow", u, v, u, n),
           before' = BeforeIt, stable'.totalSupply # 0,
           log' = StableBurnEvents(v, n, Burnt(stable, v, n)) \o Paying(u, aTokenAddress, n)
    PROVE  \A event \in repayStableBorrow' : matchEvent(event)'
<1> DEFINE bal == StableBalanceOf(stable, v)
           inc == bal - stable.principal[v]
           pay == Event("underlying", "Transfer", <<u, aTokenAddress, n>>)
           a == Event("stableDebtToken", "Transfer", <<ZERO_ADDRESS, v, inc - n>>)
           b == Event("stableDebtToken", "Mint",
                      <<v, v, inc - n, bal, inc, stable'.rate[v], stable'.avgStableRate,
                        stable'.totalSupply>>)
           c == Event("stableDebtToken", "Transfer", <<v, ZERO_ADDRESS, n - inc>>)
           d == Event("stableDebtToken", "Burn",
                      <<v, n - inc, bal, inc, stable'.avgStableRate, stable'.totalSupply>>)
<1>1. BurnDebt(updateState, v, "stable", n, available') /\ now' = now /\ n \in Nat \ {0}
  BY AmountsType DEF Repay, DebtOf, Least
<1>2. stable' = Burnt(stable, v, n)
  BY <1>1 DEF BurnDebt
<1>3. newPrincipalBalance' = bal
  <2>1. newPrincipalBalance' = Calc!calcExpectedStableDebtTokenBalance(
            stable.principal[v], stable.rate[v], stable.timestamp[v], now)
    BY <1>1 DEF newPrincipalBalance, Helper, BeforeIt
  <2> QED
    BY <2>1, Prepared, DebtAsCalculated DEF ReserveIInv
<1>4. bal \in Nat /\ stable.principal[v] \in Nat /\ inc \in Int /\ StableTotalSupply(stable) \in Nat
  <2>1. bal \in Nat /\ stable.principal[v] \in Nat /\ StableTotalSupply(stable) \in Nat
    BY Prepared, BalanceTypes DEF StableTokens
  <2> HIDE DEF bal
  <2> QED
    BY <2>1, SMT
<1>5. BurnReturns(stable, n) = stable'.totalSupply
  <2>1. stable'.totalSupply = IF Cleared(stable, v, n) THEN 0 ELSE StableTotalSupply(stable) - n
    BY <1>2 DEF Burnt, Written
  <2>2. ~ Cleared(stable, v, n)
    BY <2>1
  <2> QED
    BY <2>1, <2>2 DEF Cleared, BurnReturns
<1>6. inc > n => stable'.rate[v] = stable.rate[v]
  <2>1. stable'.rate[v] = IF n = bal THEN 0 ELSE stable.rate[v]
    BY <1>2, Prepared DEF Burnt, Written, StableTokens
  <2> HIDE DEF bal
  <2> QED
    BY <1>1, <1>4, <2>1, SMT
<1>7. (inc > n) = (n - inc < 0) /\ -(n - inc) = inc - n
  <2> HIDE DEF inc
  <2> QED
    BY <1>1, <1>4, SMT
<1>8. newPrincipalBalance' - before'.stable.principal[v] = inc
  BY <1>3 DEF BeforeIt
<1>9. StableBurnEvents(v, n, Burnt(stable, v, n)) = IF inc > n THEN <<a, b>> ELSE <<c, d>>
  <2>1. stable'.rate[v] = stable.rate[v] \/ ~ (inc > n)
    BY <1>6
  <2>2. [stable' EXCEPT !.rate = stable.rate, !.totalSupply = BurnReturns(stable, n)]
          = [stable' EXCEPT !.rate = stable.rate, !.totalSupply = stable'.totalSupply]
    BY <1>5
  <2> DEFINE next == [stable' EXCEPT !.rate = stable.rate, !.totalSupply = stable'.totalSupply]
  <2>3. next.rate = stable.rate /\ next.avgStableRate = stable'.avgStableRate
        /\ next.totalSupply = stable'.totalSupply
    BY <1>2 DEF Burnt, Written
  <2>4. StableBurnEvents(v, n, stable') =
          IF inc > n THEN StableMintEvents(v, v, inc - n, bal, inc, next)
          ELSE <<c, Event("stableDebtToken", "Burn",
                      <<v, n - inc, bal, inc, stable'.avgStableRate, BurnReturns(stable, n)>>)>>
    BY <2>2 DEF StableBurnEvents
  <2> HIDE DEF next, inc, bal
  <2>5. inc > n => StableMintEvents(v, v, inc - n, bal, inc, next) = <<a, b>>
    BY <2>1, <2>3 DEF StableMintEvents
  <2> QED
    BY <1>2, <1>5, <2>4, <2>5
<1>10. log' = (IF inc > n THEN <<a, b>> ELSE <<c, d>>) \o <<pay>>
  BY <1>9 DEF Paying
<1> HIDE DEF bal, inc
<1>11. repayStableBorrow' = {pay} \cup IF inc > n THEN {a, b} ELSE {c, d}
  <2>1. repayStableBorrow' =
          {pay} \cup IF n - inc < 0
                     THEN MintMatch("stableDebtToken",
                                    <<v, v, -(n - inc), bal, inc, stable'.rate[v],
                                      stable'.avgStableRate, stable'.totalSupply>>)
                     ELSE {c, d}
    BY <1>3, <1>8 DEF repayStableBorrow, Helper
  <2>2. MintMatch("stableDebtToken", <<v, v, inc - n, bal, inc, stable'.rate[v],
                                       stable'.avgStableRate, stable'.totalSupply>>) = {a, b}
    BY DEF MintMatch
  <2> HIDE DEF a, b, c, d, pay
  <2> QED
    BY <1>7, <2>1, <2>2
<1> HIDE DEF pay, a, b, c, d
<1>12. PICK x, y, p : p = pay /\ x = (IF inc > n THEN a ELSE c) /\ y = (IF inc > n THEN b ELSE d)
  OBVIOUS
<1>13. PICK list : list = <<x, y>>
  OBVIOUS
<1>14. list \in Seq({p} \cup {x, y}) /\ Told(list) = {x, y}
  BY <1>13, ShortLists
<1>15. log' = list \o <<p>> /\ repayStableBorrow' = {p} \cup {x, y}
  BY <1>10, <1>11, <1>12, <1>13
<1>16. Told(list \o <<p>>) = {p} \cup {x, y}
  BY <1>14, PaymentTold
<1> QED
  BY <1>15, <1>16, Matched

-----------------------------------------------------------------------------
\* The interest of a holder, minted only when there is some.
InterestMatch(caller, a, increase, index) ==
    IF increase > 0 THEN MintMatch("aToken", <<caller, a, increase, increase, index>>) ELSE {}

\* Interest is told in a pair of events, or not at all when there is none.
LEMMA InterestTold ==
    ASSUME NEW caller, NEW a, NEW increase, NEW index, NEW S,
           InterestMatch(caller, a, increase, index) \subseteq S
    PROVE  /\ InterestEvents(caller, a, increase, index) \in Seq(S)
           /\ Told(InterestEvents(caller, a, increase, index))
                = InterestMatch(caller, a, increase, index)
<1>1. CASE increase > 0
  BY <1>1, MintTold DEF InterestMatch, InterestEvents
<1>2. CASE ~ (increase > 0)
  BY <1>2, ShortLists DEF InterestMatch, InterestEvents
<1> QED
  BY <1>1, <1>2

\* A transfer: the suites add what left the one and take what came to the other.
LEMMA TransferAsExpected ==
    ASSUME ReserveIInv, ReserveIInv', NEW caller \in Borrowers, NEW u \in Borrowers,
           NEW v \in Borrowers, NEW n \in Amounts,
           Transfer(u, v, n), helper' = Helper("transferFrom", caller, u, v, n), before' = BeforeIt,
           log' = TransferEvents(caller, u, v, n, getNormalizedIncome)
    PROVE  \A event \in transferFrom' : matchEvent(event)'
<1> DEFINE i == getNormalizedIncome
           moved == RayDiv(n, i)
           from == BalanceIncrease(aToken, u, i)
           into == BalanceIncrease(aToken, v, i)
           sent == WithScaled(aToken, u, aToken.scaled[u] - moved, i)
           delta == IF u = v THEN 0 ELSE moved
           x == Event("aToken", "Transfer", <<u, v, n>>)
           y == Event("aToken", "BalanceTransfer", <<u, v, moved, i>>)
<1>1. /\ moved <= aToken.scaled[u] /\ aToken' = WithScaled(sent, v, sent.scaled[v] + moved, i)
      /\ reserve' = reserve /\ now' = now
  BY DEF Transfer
<1>2. /\ n \in Nat /\ u \in Accounts /\ v \in Accounts /\ aToken \in ScaledTokens
      /\ aToken.scaled[u] \in Nat /\ aToken.scaled[v] \in Nat
      /\ aToken.index[u] \in Nat /\ aToken.index[v] \in Nat
  BY AmountsType, Prepared, AccountsAreFinite DEF ScaledTokens
<1>3. getNormalizedIncome' = i /\ i \in Nat \ {0}
  BY <1>1, Prepared DEF getNormalizedIncome, Elapsed
<1> HIDE DEF i
<1>4. moved \in Nat /\ rayDiv(n, i) = moved
  BY <1>2, <1>3, RayDivType, NoSigns
<1> HIDE DEF moved
<1>5. /\ sent \in [scaled : [Accounts -> Int], index : [Accounts -> Nat]]
      /\ sent.scaled[u] = aToken.scaled[u] - moved
      /\ \A b \in Accounts \ {u} : sent.scaled[b] = aToken.scaled[b]
  BY <1>2, <1>3, <1>4 DEF WithScaled, ScaledTokens
<1> HIDE DEF sent
<1>6. /\ aToken'.scaled[v] = sent.scaled[v] + moved
      /\ \A b \in Accounts \ {v} : aToken'.scaled[b] = sent.scaled[b]
  BY <1>1, <1>2, <1>5 DEF WithScaled
<1>7. aToken'.scaled[u] + delta = aToken.scaled[u] /\ aToken'.scaled[v] - delta = aToken.scaled[v]
  <2>1. CASE u = v
    <3>1. aToken'.scaled[u] = aToken.scaled[u] - moved + moved
      BY <1>5, <1>6, <2>1
    <3> QED
      BY <1>2, <1>4, <2>1, <3>1, SMT
  <2>2. CASE u # v
    <3>1. /\ aToken'.scaled[u] = aToken.scaled[u] - moved
          /\ aToken'.scaled[v] = aToken.scaled[v] + moved
      BY <1>2, <1>5, <1>6, <2>2
    <3> QED
      BY <1>2, <1>4, <2>2, <3>1, SMT
  <2> QED
    BY <2>1, <2>2
<1>8. /\ getBalanceIncrease(aToken'.scaled[u] + delta, aToken.index[u], i) = from
      /\ getBalanceIncrease(aToken'.scaled[v] - delta, aToken.index[v], i) = into
  BY <1>2, <1>3, <1>7, NoSigns DEF getBalanceIncrease, BalanceIncrease
<1>9. log' = (InterestEvents(caller, u, from, i)
                \o (IF u # v THEN InterestEvents(caller, v, into, i) ELSE << >>)) \o <<x, y>>
  BY DEF TransferEvents, i, moved
<1> DEFINE F == InterestMatch(caller, u, from, i)
           G == IF u # v THEN InterestMatch(caller, v, into, i) ELSE {}
<1> HIDE DEF from, into
<1>10. transferFrom' = {x, y} \cup F \cup G
  <2> DEFINE fromIncrease == getBalanceIncrease(aToken'.scaled[u] + delta, aToken.index[u], i)
             intoIncrease == getBalanceIncrease(aToken'.scaled[v] - delta, aToken.index[v], i)
  <2>1. transferFrom' =
          {Event("aToken", "Transfer", <<u, v, n>>),
           Event("aToken", "BalanceTransfer", <<u, v, rayDiv(n, i), i>>)}
            \cup (IF fromIncrease > 0
                  THEN MintMatch("aToken", <<caller, u, fromIncrease, fromIncrease, i>>) ELSE {})
            \cup (IF u # v /\ intoIncrease > 0
                  THEN MintMatch("aToken", <<caller, v, intoIncrease, intoIncrease, i>>) ELSE {})
    BY <1>3, <1>4 DEF transferFrom, Helper, BeforeIt
  <2>2. fromIncrease = from /\ intoIncrease = into
    BY <1>8
  <2> HIDE DEF fromIncrease, intoIncrease, delta
  <2> QED
    BY <1>4, <2>1, <2>2 DEF InterestMatch
<1>11. PICK c, d, p, q, P, Q :
         /\ c = InterestEvents(caller, u, from, i) /\ P = F
         /\ d = (IF u # v THEN InterestEvents(caller, v, into, i) ELSE << >>) /\ Q = G
         /\ p = x /\ q = y
  OBVIOUS
<1> HIDE DEF x, y, F, G
<1>12. PICK S, last : S = {p, q} \cup P \cup Q /\ last = <<p, q>>
  OBVIOUS
<1>13. c \in Seq(S) /\ Told(c) = P
  BY <1>11, <1>12, InterestTold DEF F
<1>14. d \in Seq(S) /\ Told(d) = Q
  <2>1. CASE u # v
    <3>1. d = InterestEvents(caller, v, into, i) /\ Q = InterestMatch(caller, v, into, i)
      BY <1>11, <2>1 DEF G
    <3> QED
      BY <1>12, <3>1, InterestTold
  <2>2. CASE u = v
    BY <1>11, <2>2, ShortLists DEF G
  <2> QED
    BY <2>1, <2>2
<1>15. last \in Seq(S) /\ Told(last) = {p, q}
  BY <1>12, ShortLists
<1>16. (c \o d) \in Seq(S) /\ Told(c \o d) = Told(c) \cup Told(d)
  BY <1>13, <1>14, ToldTogether
<1>17. PICK first : first = c \o d
  OBVIOUS
<1>18. Told(first \o last) = Told(first) \cup Told(last)
  <2>1. first \in Seq(S) /\ last \in Seq(S)
    BY <1>15, <1>16, <1>17
  <2> QED
    BY <2>1, ToldTogether
<1>19. log' = first \o last
  BY <1>9, <1>11, <1>12, <1>17
<1>20. Told(first \o last) = transferFrom'
  BY <1>10, <1>11, <1>13, <1>14, <1>15, <1>16, <1>17, <1>18
<1> QED
  BY <1>19, <1>20, Matched

-----------------------------------------------------------------------------
\* Every operation that leaves a debt stamps it: no block has the timestamp 0.
LEMMA StampedWritten ==
    ASSUME now # 0, NEW t \in StableTokens, Stamped(t), NEW w \in Borrowers,
           NEW p, NEW r, NEW stamp, NEW total, NEW avg, p = 0 \/ stamp = now
    PROVE  Stamped(Written(t, w, p, r, stamp, total, avg))
<1> DEFINE next == Written(t, w, p, r, stamp, total, avg)
<1>1. /\ next.principal[w] = p /\ next.timestamp[w] = stamp
      /\ \A u \in Borrowers \ {w} : /\ next.principal[u] = t.principal[u]
                                    /\ next.timestamp[u] = t.timestamp[u]
  BY DEF Written, StableTokens
<1> HIDE DEF next
<1>2. Stamped(next)
  BY <1>1 DEF Stamped
<1> QED
  BY <1>2 DEF next

\* A mint stamps the debt it writes.
LEMMA StampedMinted ==
    ASSUME now # 0, NEW t \in StableTokens, Stamped(t), NEW u \in Borrowers, NEW n, NEW rate
    PROVE  Stamped(Minted(t, u, n, rate))
  BY StampedWritten DEF Minted

\* A burn stamps the debt it leaves.
LEMMA StampedBurnt ==
    ASSUME now \in Nat \ {0}, NEW t \in StableTokens, ClocksBehind(t), Stamped(t),
           NEW u \in Borrowers, NEW n
    PROVE  Stamped(Burnt(t, u, n))
<1> DEFINE bal == StableBalanceOf(t, u)
<1>1. bal \in Nat
  BY BalanceTypes
<1> HIDE DEF bal
<1>2. n = bal => bal - n = 0
  BY <1>1, SMT
<1> QED
  BY <1>2, StampedWritten DEF Burnt, bal

\* No operation of the reserve leaves a debt without a time.
LEMMA StampedKeeps ==
    ASSUME ReserveIInv, Stamped(stable), EventsNext
    PROVE  Stamped(stable')
<1>1. PICK s : s = stable'
  OBVIOUS
<1>2. now \in Nat /\ stable \in StableTokens /\ ClocksBehind(stable)
  BY Prepared
<1>3. CASE stable' = stable
  BY <1>3
<1>4. ASSUME now # 0, NEW u \in Borrowers, NEW n, NEW rate, stable' = Minted(stable, u, n, rate)
      PROVE  Stamped(stable')
  <2>1. Stamped(Minted(stable, u, n, rate))
    BY <1>2, <1>4, StampedMinted
  <2> QED
    BY <1>4, <2>1
<1>5. ASSUME now # 0, NEW u \in Borrowers, NEW n, stable' = Burnt(stable, u, n)
      PROVE  Stamped(stable')
  <2>1. Stamped(Burnt(stable, u, n))
    BY <1>2, <1>5, StampedBurnt
  <2> QED
    BY <1>5, <2>1
<1>6. ASSUME now # 0, NEW u \in Borrowers, NEW r, NEW mode \in RateModes, NEW n, NEW liquid,
             BurnDebt(r, u, mode, n, liquid)
      PROVE  Stamped(stable')
  BY <1>3, <1>5, <1>6 DEF BurnDebt
<1>7. ASSUME now # 0, NEW u \in Borrowers, RebalanceStableBorrowRate(u)
      PROVE  Stamped(stable')
  <2> DEFINE n == StableBalanceOf(stable, u)
             burnt == Burnt(stable, u, n)
  <2>1. n \in 1 .. n
    <3>1. n \in Nat \ {0}
      BY <1>2, <1>7, BalanceTypes DEF RebalanceStableBorrowRate
    <3> HIDE DEF n
    <3> QED
      BY <3>1, SMT
  <2>2. burnt \in StableTokens /\ Stamped(burnt)
    BY <1>2, <1>7, <2>1, BurntType, StampedBurnt
  <2>3. stable' = Minted(burnt, u, n, reserve.stableBorrowRate)
    BY <1>7 DEF RebalanceStableBorrowRate, Rebalanced
  <2> HIDE DEF n, burnt
  <2>4. Stamped(Minted(burnt, u, n, reserve.stableBorrowRate))
    BY <1>7, <2>2, StampedMinted
  <2> QED
    BY <2>3, <2>4
<1>8. CASE now # 0 /\ (EmitSupplySteps(Amounts) \/ EmitApproveSteps(Amounts) \/ EmitWithdrawAllSteps
                        \/ EmitBridgeSteps(Amounts))
  <2>1. EmitSupplySteps(Amounts) => stable' = stable
    <3>1. \A u, v, n : Supply(u, v, n) \/ Withdraw(u, v, n) \/ Transfer(u, v, n) => stable' = stable
      BY DEF Supply, Withdraw, Transfer
    <3> QED
      BY <3>1 DEF EmitSupplySteps, EmitSupply, EmitWithdraw, EmitTransfer
  <2>2. EmitApproveSteps(Amounts) => stable' = stable
    BY DEF EmitApproveSteps, ApproveDelegation
  <2>3. EmitWithdrawAllSteps => stable' = stable
    BY DEF EmitWithdrawAllSteps, EmitWithdrawAll, Withdraw
  <2>4. EmitBridgeSteps(Amounts) => stable' = stable
    BY DEF EmitBridgeSteps, EmitMintUnbacked, MintUnbacked, BackUnbacked
  <2> QED
    BY <1>3, <1>8, <2>1, <2>2, <2>3, <2>4
<1>9. CASE now # 0 /\ EmitBorrowSteps(Amounts)
  <2>1. PICK u \in Borrowers, v \in Borrowers, n \in Amounts, mode \in RateModes : Borrow(u, v, n, mode)
    BY <1>9 DEF EmitBorrowSteps, EmitVariableBorrow, EmitStableBorrow, RateModes
  <2>2. stable' = Minted(stable, v, n, reserve.stableBorrowRate) \/ stable' = stable
    BY <2>1 DEF Borrow
  <2> QED
    BY <1>3, <1>4, <1>9, <2>2
<1>10. CASE now # 0 /\ (EmitRepaySteps(Amounts) \/ EmitRepayAllSteps(Amounts))
  <2>1. PICK u \in Borrowers, v \in Borrowers, mode \in RateModes : \E n : Repay(u, v, n, mode)
    <3>1. "stable" \in RateModes /\ "variable" \in RateModes
      BY DEF RateModes
    <3>2. CASE EmitRepaySteps(Amounts)
      BY <3>1, <3>2 DEF EmitRepaySteps, EmitRepayVariable, EmitRepayStable
    <3>3. CASE EmitRepayAllSteps(Amounts)
      BY <3>3 DEF EmitRepayAllSteps, EmitRepayAll
    <3> QED
      BY <1>10, <3>2, <3>3
  <2>2. PICK r, m, liquid : BurnDebt(r, v, mode, m, liquid)
    BY <2>1 DEF Repay
  <2> QED
    BY <1>6, <1>10, <2>2
<1>11. CASE now # 0 /\ EmitSwapSteps(Amounts)
  <2>1. PICK u \in Borrowers, mode \in RateModes :
          SwapBorrowRateMode(u, mode) \/ \E n : RepayWithATokens(u, n, mode)
    BY <1>11 DEF EmitSwapSteps, EmitSwap, EmitRepayWithATokens
  <2>2. CASE SwapBorrowRateMode(u, mode)
    <3>1. \/ \E n : stable' = Burnt(stable, u, n)
          \/ \E n : stable' = Minted(stable, u, n, reserve.stableBorrowRate)
      BY <2>2 DEF SwapBorrowRateMode
    <3> QED
      BY <1>4, <1>5, <1>11, <3>1
  <2>3. CASE \E n : RepayWithATokens(u, n, mode)
    <3>1. PICK r, m, liquid : BurnDebt(r, u, mode, m, liquid)
      BY <2>3 DEF RepayWithATokens
    <3> QED
      BY <1>6, <1>11, <3>1
  <2> QED
    BY <2>1, <2>2, <2>3
<1>12. CASE now # 0 /\ EmitRebalanceSteps
  BY <1>7, <1>12 DEF EmitRebalanceSteps, EmitRebalance
<1>13. CASE Silent(CollateralSteps) \/ Silent(MintToTreasury) \/ Silent(FlashSteps) \/ Silent(NextBlock)
  <2>1. stable' = stable
    BY <1>13 DEF Silent, CollateralSteps, SetUserUseReserveAsCollateral, MintToTreasury, FlashSteps,
                 FlashLoan, FlashLoanRepayment, NextBlock, Tick
  <2> QED
    BY <1>3, <2>1
<1>14. now > 0 => now # 0
  BY <1>2, SMT
<1> QED
  BY <1>8, <1>9, <1>10, <1>11, <1>12, <1>13, <1>14 DEF EventsNext

\* Nobody's receipt, nothing expected.
LEMMA UnreadExpectsNothing ==
    ASSUME NEW events, Unread(events)
    PROVE  EventsAsExpected'
<1>1. helper'.name = "none"
  BY DEF Unread, NoHelper, Helper
<1>2. expectedEvents' = {}
  BY <1>1 DEF expectedEvents
<1> QED
  BY <1>2 DEF EventsAsExpected

\* What one step leaves behind.
LEMMA StepAsExpected ==
    ASSUME ReserveIInv, ReserveIInv', Stamped(stable), EventsNext
    PROVE  EventsAsExpected'
<1>1. CASE EmitSupplySteps(Amounts)
  <2>1. ASSUME NEW u \in Borrowers, NEW v \in Borrowers, NEW n \in Amounts, EmitSupply(u, v, n)
        PROVE  EventsAsExpected'
    <3> DEFINE told == Paying(u, aTokenAddress, n)
                 \o ScaledMintEvents("aToken", aToken, u, v, n, updateState.liquidityIndex)
    <3>1. CASE ~ Unread(told)
      <4>1. /\ Supply(u, v, n) /\ helper' = Helper("supply", u, v, v, n) /\ before' = BeforeIt
            /\ log' = told
        BY <2>1, <3>1 DEF EmitSupply, Receipt, BeforeIt
      <4>2. expectedEvents' = supply'
        BY <4>1 DEF expectedEvents, Helper
      <4> QED
        BY <4>1, <4>2, SupplyAsExpected DEF EventsAsExpected
    <3> QED
      BY <3>1, UnreadExpectsNothing
  <2>2. ASSUME NEW u \in Borrowers, NEW v \in Borrowers, NEW n \in Amounts, EmitWithdraw(u, v, n)
        PROVE  EventsAsExpected'
    <3> DEFINE told == ScaledBurnEvents("aToken", aToken, u, v, n, updateState.liquidityIndex)
                         \o Paying(aTokenAddress, v, n)
    <3>1. CASE ~ Unread(told)
      <4>1. /\ Withdraw(u, v, n) /\ helper' = Helper("withdraw", u, u, v, n) /\ before' = BeforeIt
            /\ log' = told
        BY <2>2, <3>1 DEF EmitWithdraw, Receipt, BeforeIt
      <4>2. expectedEvents' = withdraw'
        BY <4>1 DEF expectedEvents, Helper
      <4> QED
        BY <4>1, <4>2, WithdrawAsExpected DEF EventsAsExpected
    <3> QED
      BY <3>1, UnreadExpectsNothing
  <2>3. ASSUME NEW u \in Borrowers, NEW v \in Borrowers, NEW n \in Amounts, NEW w \in Borrowers,
               EmitTransfer(w, u, v, n)
        PROVE  EventsAsExpected'
    <3> DEFINE told == TransferEvents(w, u, v, n, getNormalizedIncome)
    <3>1. CASE ~ Unread(told)
      <4>1. /\ Transfer(u, v, n) /\ helper' = Helper("transferFrom", w, u, v, n) /\ before' = BeforeIt
            /\ log' = told
        BY <2>3, <3>1 DEF EmitTransfer, Receipt, BeforeIt
      <4>2. expectedEvents' = transferFrom'
        BY <4>1 DEF expectedEvents, Helper
      <4> QED
        BY <4>1, <4>2, TransferAsExpected DEF EventsAsExpected
    <3> QED
      BY <3>1, UnreadExpectsNothing
  <2> QED
    BY <1>1, <2>1, <2>2, <2>3 DEF EmitSupplySteps
<1>2. CASE EmitBorrowSteps(Amounts)
  <2>1. ASSUME NEW u \in Borrowers, NEW v \in Borrowers, NEW n \in Amounts,
               EmitVariableBorrow(u, v, n)
        PROVE  EventsAsExpected'
    <3> DEFINE told == ScaledMintEvents("variableDebtToken", variableDebt, u, v, n,
                                        updateState.variableBorrowIndex)
                         \o Paying(aTokenAddress, u, n)
    <3>1. CASE ~ Unread(told)
      <4>1. /\ Borrow(u, v, n, "variable") /\ helper' = Helper("variableBorrow", u, v, u, n)
            /\ before' = BeforeIt /\ log' = told
        BY <2>1, <3>1 DEF EmitVariableBorrow, Receipt, BeforeIt
      <4>2. expectedEvents' = variableBorrow'
        BY <4>1 DEF expectedEvents, Helper
      <4> QED
        BY <4>1, <4>2, VariableBorrowAsExpected DEF EventsAsExpected
    <3> QED
      BY <3>1, UnreadExpectsNothing
  <2>2. ASSUME NEW u \in Borrowers, NEW v \in Borrowers, NEW n \in Amounts,
               EmitStableBorrow(u, v, n)
        PROVE  EventsAsExpected'
    <3> DEFINE told == StableBorrowEvents(stable, u, v, n,
                                          Minted(stable, v, n, reserve.stableBorrowRate))
                         \o Paying(aTokenAddress, u, n)
    <3>1. CASE ~ Unread(told)
      <4>1. /\ Borrow(u, v, n, "stable") /\ helper' = Helper("stableBorrow", u, v, u, n)
            /\ before' = BeforeIt /\ log' = told
        BY <2>2, <3>1 DEF EmitStableBorrow, Receipt, BeforeIt
      <4>2. expectedEvents' = stableBorrow'
        BY <4>1 DEF expectedEvents, Helper
      <4> QED
        BY <4>1, <4>2, StableBorrowAsExpected DEF EventsAsExpected
    <3> QED
      BY <3>1, UnreadExpectsNothing
  <2> QED
    BY <1>2, <2>1, <2>2 DEF EmitBorrowSteps
<1>3. CASE EmitRepaySteps(Amounts)
  <2>1. ASSUME NEW u \in Borrowers, NEW v \in Borrowers, NEW n \in Amounts,
               EmitRepayVariable(u, v, n)
        PROVE  EventsAsExpected'
    <3> DEFINE told == ScaledBurnEvents("variableDebtToken", variableDebt, v, ZERO_ADDRESS, n,
                                        updateState.variableBorrowIndex)
                         \o Paying(u, aTokenAddress, n)
    <3>1. CASE ~ Unread(told)
      <4>1. /\ Repay(u, v, n, "variable") /\ helper' = Helper("repayVariableBorrow", u, v, u, n)
            /\ n <= RayMul(variableDebt.scaled[v], updateState.variableBorrowIndex)
            /\ before' = BeforeIt /\ log' = told
        BY <2>1, <3>1 DEF EmitRepayVariable, Receipt, BeforeIt
      <4>2. expectedEvents' = repayVariableBorrow'
        BY <4>1 DEF expectedEvents, Helper
      <4> QED
        BY <4>1, <4>2, RepayVariableAsExpected DEF EventsAsExpected
    <3> QED
      BY <3>1, UnreadExpectsNothing
  <2>2. ASSUME NEW u \in Borrowers, NEW v \in Borrowers, NEW n \in Amounts, EmitRepayStable(u, v, n)
        PROVE  EventsAsExpected'
    <3> DEFINE told == StableBurnEvents(v, n, Burnt(stable, v, n)) \o Paying(u, aTokenAddress, n)
    <3>1. CASE ~ Unread(told)
      <4>1. /\ Repay(u, v, n, "stable") /\ helper' = Helper("repayStableBorrow", u, v, u, n)
            /\ n <= StableBalanceOf(stable, v)
            /\ before' = BeforeIt /\ log' = told
        BY <2>2, <3>1 DEF EmitRepayStable, Receipt, BeforeIt
      <4>2. expectedEvents' = repayStableBorrow' /\ helper'.name = "repayStableBorrow"
        BY <4>1 DEF expectedEvents, Helper
      <4>3. CASE stable'.totalSupply = 0
        BY <4>2, <4>3 DEF EventsAsExpected, TotalDropped
      <4>4. CASE stable'.totalSupply # 0
        BY <4>1, <4>2, <4>4, RepayStableAsExpected DEF EventsAsExpected
      <4> QED
        BY <4>3, <4>4
    <3> QED
      BY <3>1, UnreadExpectsNothing
  <2> QED
    BY <1>3, <2>1, <2>2 DEF EmitRepaySteps
<1>4. CASE \E events : Unread(events)
  BY <1>4, UnreadExpectsNothing
<1>5. CASE EmitApproveSteps(Amounts) \/ EmitRepayAllSteps(Amounts) \/ EmitWithdrawAllSteps
             \/ EmitSwapSteps(Amounts)
  BY <1>4, <1>5 DEF EmitApproveSteps, EmitRepayAllSteps, EmitRepayAll, EmitWithdrawAllSteps,
                    EmitWithdrawAll, EmitSwapSteps, EmitSwap, EmitRepayWithATokens
<1>6. CASE EmitRebalanceSteps \/ EmitBridgeSteps(Amounts)
  BY <1>4, <1>6 DEF EmitRebalanceSteps, EmitRebalance, EmitBridgeSteps, EmitMintUnbacked
<1>7. CASE Silent(CollateralSteps) \/ Silent(MintToTreasury) \/ Silent(FlashSteps) \/ Silent(NextBlock)
  BY <1>4, <1>7 DEF Silent
<1> QED
  BY <1>1, <1>2, <1>3, <1>5, <1>6, <1>7 DEF EventsNext

\* Whatever the suites work out of the readings before and after a transaction, the
\* contracts tell: every event they expect is in the receipt, for every number of
\* users, every strategy and every sequence of operations (EventsAsExpected of module
\* TokenizationEvents).
THEOREM EventsMatch == EventsSpec => []EventsAsExpected
<1> DEFINE vars == <<reserveVars, eventVars>>
<1>1. EventsInit => EventsAsExpected /\ Stamped(stable)
  <2> SUFFICES ASSUME EventsInit PROVE EventsAsExpected /\ Stamped(stable)
    OBVIOUS
  <2>1. helper.name = "none"
    BY DEF EventsInit, NoHelper, Helper
  <2>2. expectedEvents = {}
    BY <2>1 DEF expectedEvents
  <2>3. Stamped(stable)
    BY DEF EventsInit, ReserveInit, StableInit, NoStableDebt, Stamped
  <2> QED
    BY <2>2, <2>3 DEF EventsAsExpected
<1>2. ReserveIInv /\ ReserveIInv' /\ Stamped(stable) /\ EventsAsExpected /\ [EventsNext]_vars
        => Stamped(stable)' /\ EventsAsExpected'
  <2> SUFFICES ASSUME ReserveIInv, ReserveIInv', Stamped(stable), EventsAsExpected,
                      [EventsNext]_vars
               PROVE  Stamped(stable)' /\ EventsAsExpected'
    OBVIOUS
  <2>1. CASE EventsNext
    BY <2>1, StampedKeeps, StepAsExpected
  <2>2. CASE UNCHANGED vars
    <3>1. /\ now' = now /\ stable' = stable /\ reserve' = reserve /\ aToken' = aToken
          /\ variableDebt' = variableDebt /\ helper' = helper /\ before' = before /\ log' = log
      BY <2>2 DEF reserveVars, eventVars
    <3>2. getNormalizedIncome' = getNormalizedIncome /\ getNormalizedDebt' = getNormalizedDebt
      BY <3>1 DEF getNormalizedIncome, getNormalizedDebt, Elapsed
    <3>3. newPrincipalBalance' = newPrincipalBalance
      BY <3>1 DEF newPrincipalBalance
    <3>4. supply' = supply /\ withdraw' = withdraw
      BY <3>1, <3>2 DEF supply, withdraw
    <3>5. transferFrom' = transferFrom
      BY <3>1, <3>2 DEF transferFrom
    <3>6. variableBorrow' = variableBorrow /\ repayVariableBorrow' = repayVariableBorrow
      BY <3>1, <3>2 DEF variableBorrow, repayVariableBorrow
    <3>7. stableBorrow' = stableBorrow /\ repayStableBorrow' = repayStableBorrow
      BY <3>1, <3>3 DEF stableBorrow, repayStableBorrow
    <3>8. expectedEvents' = expectedEvents
      BY <3>1, <3>4, <3>5, <3>6, <3>7 DEF expectedEvents
    <3> QED
      BY <3>1, <3>8 DEF EventsAsExpected, TotalDropped, matchEvent
  <2> QED
    BY <2>1, <2>2
<1> QED
  BY <1>1, <1>2, EventsOfReserve, PTL DEF EventsSpec

-----------------------------------------------------------------------------
(* What the events add up to.  A transaction emits lists of one or two     *)
(* events, each about one holder; the amounts of Mint and Burn contain the *)
(* interest since the holder's last operation, so that they are what the   *)
(* balance moves by, but for the scaled units that an amount is rounded to.*)

\* The events s are d more, or less, of a token for a holder.
AddUp(k, s, b, d) ==
    /\ \E S : s \in Seq(S)
    /\ \A i \in DOMAIN s : Gain(k, s[i], b) \in Int
    /\ d \in Int /\ Gains(k, s, b) = d

\* A sum over an interval, and its last term.
LEMMA SumToNext ==
    ASSUME NEW m \in Nat, NEW f, \A i \in 1 .. m + 1 : f[i] \in Int
    PROVE  SumFunctionOnSet(f, 1 .. m + 1) = f[m + 1] + SumFunctionOnSet(f, 1 .. m)
<1>1. IsFiniteSet(1 .. m + 1)
  BY FS_Interval, SMT
<1>2. m + 1 \in 1 .. m + 1 /\ (1 .. m + 1) \ {m + 1} = 1 .. m
  BY SMT
<1> QED
  BY <1>1, <1>2, SumOfAny

\* No event, or one.
LEMMA FewAddUp ==
    /\ \A k, b : AddUp(k, << >>, b, 0)
    /\ \A k, b, e : Gain(k, e, b) \in Int => AddUp(k, <<e>>, b, Gain(k, e, b))
<1>1. ASSUME NEW k, NEW b PROVE AddUp(k, << >>, b, 0)
  <2> DEFINE f == [i \in DOMAIN << >> |-> Gain(k, << >>[i], b)]
  <2>1. DOMAIN << >> = {} /\ << >> \in Seq({}) /\ 0 \in Int
    BY SMT
  <2>2. DOMAIN f = {}
    BY <2>1
  <2> HIDE DEF f
  <2>3. SumFunction(f) = 0
    BY <2>2, SumOfNone DEF SumFunction
  <2> QED
    BY <2>1, <2>3 DEF AddUp, Gains, f
<1>2. ASSUME NEW k, NEW b, NEW e, Gain(k, e, b) \in Int
      PROVE  AddUp(k, <<e>>, b, Gain(k, e, b))
  <2> DEFINE f == [i \in DOMAIN <<e>> |-> Gain(k, <<e>>[i], b)]
  <2>1. DOMAIN <<e>> = {1} /\ <<e>> \in Seq({e}) /\ <<e>>[1] = e
    BY SMT
  <2>2. DOMAIN f = {1} /\ f[1] = Gain(k, e, b)
    BY <2>1
  <2> HIDE DEF f
  <2>3. SumFunctionOnSet(f, {1}) = f[1] + SumFunctionOnSet(f, {1} \ {1})
    <3>1. IsFiniteSet({1}) /\ \A x \in {1} : f[x] \in Int
      BY <1>2, <2>2, FS_Singleton
    <3> QED
      BY <3>1, SumOfAny
  <2>4. SumFunctionOnSet(f, {1} \ {1}) = 0
    <3>1. {1} \ {1} = {}
      OBVIOUS
    <3> QED
      BY <3>1, SumOfNone
  <2>5. SumFunction(f) = Gain(k, e, b)
    <3>1. Gain(k, e, b) + 0 = Gain(k, e, b)
      BY <1>2, SMT
    <3> QED
      BY <2>2, <2>3, <2>4, <3>1 DEF SumFunction
  <2> QED
    BY <1>2, <2>1, <2>5 DEF AddUp, Gains, f
<1> QED
  BY <1>1, <1>2

\* A list and a short one after it.
LEMMA AddedUp ==
    ASSUME NEW k, NEW b, NEW s, NEW t, NEW c, NEW d, AddUp(k, s, b, c), AddUp(k, t, b, d),
           Len(t) \in 0 .. 2
    PROVE  AddUp(k, s \o t, b, c + d)
<1>1. PICK S, T : s \in Seq(S) /\ t \in Seq(T)
  BY DEF AddUp
<1>2. s \in Seq(S \cup T) /\ t \in Seq(S \cup T)
  BY <1>1, SMT
<1> DEFINE m == Len(s)
           n == Len(t)
           g == [i \in DOMAIN (s \o t) |-> Gain(k, (s \o t)[i], b)]
           e == [i \in DOMAIN s |-> Gain(k, s[i], b)]
           f == [i \in DOMAIN t |-> Gain(k, t[i], b)]
<1>3. /\ s \o t \in Seq(S \cup T) /\ m \in Nat /\ n \in {0, 1, 2}
      /\ DOMAIN s = 1 .. m /\ DOMAIN t = 1 .. n /\ DOMAIN (s \o t) = 1 .. m + n
      /\ \A i \in 1 .. m : (s \o t)[i] = s[i]
      /\ \A i \in 1 .. n : (s \o t)[m + i] = t[i]
  BY <1>2, ConcatProperties, LenProperties, SMT
<1>4. /\ \A i \in 1 .. m : i \in 1 .. m + n
      /\ \A i \in 1 .. n : m + i \in 1 .. m + n
      /\ \A i \in 1 .. m + n : i \in 1 .. m \/ \E j \in 1 .. n : i = m + j
  <2>1. \A i \in 1 .. m + n : i \in 1 .. m \/ (i - m \in 1 .. n /\ i = m + (i - m))
    BY <1>3, SMT
  <2>2. n \in Nat
    BY <1>3
  <2>3. \A i \in 1 .. m + n : i \in 1 .. m \/ \E j \in 1 .. n : i = m + j
    BY <2>1
  <2>4. m \in Nat
    BY <1>3
  <2> HIDE DEF m, n
  <2>5. \A i \in 1 .. m : i \in 1 .. m + n
    BY <2>2, <2>4, SMT
  <2>6. \A i \in 1 .. n : m + i \in 1 .. m + n
    BY <2>2, <2>4, SMT
  <2> QED
    BY <2>3, <2>5, <2>6
<1>5. /\ DOMAIN g = 1 .. m + n /\ DOMAIN e = 1 .. m /\ DOMAIN f = 1 .. n
      /\ \A i \in 1 .. m : g[i] = e[i]
      /\ \A i \in 1 .. n : g[m + i] = f[i]
  BY <1>3, <1>4
<1>6. /\ \A i \in 1 .. m : e[i] \in Int
      /\ \A i \in 1 .. n : f[i] \in Int
      /\ c \in Int /\ d \in Int
      /\ SumFunction(e) = c /\ SumFunction(f) = d
  BY <1>3 DEF AddUp, Gains
<1>a. \A i \in DOMAIN (s \o t) : Gain(k, (s \o t)[i], b) = g[i]
  OBVIOUS
<1>b. Gains(k, s \o t, b) = SumFunction(g)
  BY DEF Gains
<1> HIDE DEF g, e, f, m, n
<1>7. \A i \in 1 .. m + n : g[i] \in Int
  <2> TAKE i \in 1 .. m + n
  <2>1. CASE i \in 1 .. m
    BY <1>5, <1>6, <2>1
  <2>2. CASE \E j \in 1 .. n : i = m + j
    BY <1>5, <1>6, <2>2
  <2> QED
    BY <1>4, <2>1, <2>2
<1>8. SumFunctionOnSet(e, 1 .. m) = c /\ SumFunctionOnSet(f, 1 .. n) = d
  BY <1>5, <1>6 DEF SumFunction
<1>9. SumFunctionOnSet(g, 1 .. m) = c
  <2>1. IsFiniteSet(1 .. m)
    BY <1>3, FS_Interval, SMT
  <2>2. SumFunctionOnSet(g, 1 .. m) = SumFunctionOnSet(e, 1 .. m)
    BY <1>5, <2>1, SumDependsOnValues
  <2> QED
    BY <1>8, <2>2
<1>10. 0 \in Nat /\ 1 \in Nat /\ m \in Nat /\ m + 1 \in Nat /\ 0 + 1 = 1 /\ 1 + 1 = 2
       /\ (m + 1) + 1 = m + 2 /\ m + 0 = m /\ 1 .. 0 = {}
  BY <1>3, SMT
<1>11. SumFunctionOnSet(g, 1 .. m + n) = c + d
  <2>1. CASE n = 0
    <3>1. d = 0 /\ SumFunctionOnSet(g, 1 .. m + n) = c /\ c + 0 = c
      BY <1>6, <1>8, <1>9, <1>10, <2>1, SumOfNone
    <3> QED
      BY <3>1
  <2>2. CASE n = 1
    <3>1. 1 \in 1 .. n
      BY <2>2
    <3>2. SumFunctionOnSet(g, 1 .. m + 1) = g[m + 1] + c
      BY <1>7, <1>9, <1>10, <2>2, SumToNext
    <3>3. SumFunctionOnSet(f, 1 .. 0 + 1) = f[0 + 1] + SumFunctionOnSet(f, 1 .. 0)
      BY <1>6, <1>10, <2>2, SumToNext
    <3>4. d = f[1] + 0
      BY <1>8, <1>10, <2>2, <3>3, SumOfNone
    <3>5. f[1] \in Int /\ g[m + 1] = f[1]
      BY <1>5, <1>6, <3>1
    <3> QED
      BY <1>6, <2>2, <3>2, <3>4, <3>5
  <2>3. CASE n = 2
    <3>1. 1 \in 1 .. n /\ 2 \in 1 .. n
      BY <2>3
    <3>2. f[1] \in Int /\ g[m + 1] = f[1] /\ f[2] \in Int /\ g[m + 2] = f[2]
      BY <1>5, <1>6, <3>1
    <3>3. SumFunctionOnSet(g, 1 .. m + 1) = g[m + 1] + c
      <4>1. \A i \in 1 .. m + 1 : i \in 1 .. m + n
        BY <1>10, <2>3, SMT
      <4> QED
        BY <1>7, <1>9, <1>10, <4>1, SumToNext
    <3>4. SumFunctionOnSet(g, 1 .. m + 2) = g[m + 2] + SumFunctionOnSet(g, 1 .. m + 1)
      <4>1. SumFunctionOnSet(g, 1 .. (m + 1) + 1) = g[(m + 1) + 1] + SumFunctionOnSet(g, 1 .. m + 1)
        <5>1. \A i \in 1 .. (m + 1) + 1 : g[i] \in Int
          BY <1>7, <1>10, <2>3
        <5> QED
          BY <1>10, <5>1, SumToNext
      <4> QED
        BY <1>10, <4>1
    <3>5. SumFunctionOnSet(f, 1 .. 0 + 1) = f[0 + 1] + SumFunctionOnSet(f, 1 .. 0)
      <4>1. \A i \in 1 .. 0 + 1 : f[i] \in Int
        BY <3>2, SMT
      <4> QED
        BY <1>10, <4>1, SumToNext
    <3>6. SumFunctionOnSet(f, 1 .. 1 + 1) = f[1 + 1] + SumFunctionOnSet(f, 1 .. 1)
      <4>1. \A i \in 1 .. 1 + 1 : f[i] \in Int
        BY <1>6, <1>10, <2>3
      <4> QED
        BY <1>10, <4>1, SumToNext
    <3>7. d = f[2] + (f[1] + 0)
      BY <1>8, <1>10, <2>3, <3>5, <3>6, SumOfNone
    <3>8. SumFunctionOnSet(g, 1 .. m + n) = f[2] + (f[1] + c)
      BY <2>3, <3>2, <3>3, <3>4
    <3>9. f[2] + (f[1] + c) = c + d
      BY <1>6, <3>2, <3>7, SMT
    <3> QED
      BY <3>8, <3>9
  <2> QED
    BY <1>3, <2>1, <2>2, <2>3
<1>12. SumFunction(g) = c + d
  BY <1>5, <1>11 DEF SumFunction
<1>13. c + d \in Int
  BY <1>6
<1> QED
  BY <1>3, <1>5, <1>7, <1>12, <1>13, <1>a, <1>b DEF AddUp

\* Two events are one and another.
LEMMA PairJoined ==
    ASSUME NEW p, NEW q
    PROVE  <<p>> \o <<q>> = <<p, q>> /\ Len(<<q>>) \in 0 .. 2 /\ Len(<<p, q>>) \in 0 .. 2
<1>1. PICK s, t, r : s = <<p>> /\ t = <<q>> /\ r = <<p, q>>
  OBVIOUS
<1>2. /\ s \in Seq({p, q}) /\ t \in Seq({p, q}) /\ r \in Seq({p, q})
      /\ Len(s) = 1 /\ Len(t) = 1 /\ Len(r) = 2
      /\ s[1] = p /\ t[1] = q /\ r[1] = p /\ r[2] = q
  BY <1>1, SMT
<1>3. /\ s \o t \in Seq({p, q}) /\ Len(s \o t) = Len(s) + Len(t)
      /\ \A i \in 1 .. Len(s) + Len(t) :
             (s \o t)[i] = IF i <= Len(s) THEN s[i] ELSE t[i - Len(s)]
  BY <1>2, ConcatProperties
<1>4. /\ 1 + 1 = 2 /\ 1 \in 1 .. 2 /\ 2 \in 1 .. 2 /\ 1 <= 1 /\ ~ (2 <= 1) /\ 2 - 1 = 1
      /\ \A i \in 1 .. 2 : i = 1 \/ i = 2
  BY SMT
<1>5. (s \o t)[1] = p /\ (s \o t)[2] = q /\ Len(s \o t) = 2
  BY <1>2, <1>3, <1>4
<1>6. \A i \in 1 .. Len(s \o t) : (s \o t)[i] = r[i]
  BY <1>2, <1>4, <1>5
<1>7. s \o t = r
  BY <1>2, <1>3, <1>5, <1>6, SeqEqual
<1>8. 1 \in 0 .. 2 /\ 2 \in 0 .. 2
  BY SMT
<1> QED
  BY <1>1, <1>2, <1>7, <1>8

\* A few events, of one token and one holder.
ToldOf(events, token, a, d) ==
    /\ Len(events) \in 0 .. 2 /\ d \in Int
    /\ \A k \in Tokens, b \in Borrowers :
           AddUp(k, events, b, IF k = token /\ b = a THEN d ELSE 0)

\* A transfer from or to nobody counts for nobody.
LEMMA GainOfNobody ==
    ASSUME NEW k, NEW token, NEW b \in Borrowers, NEW a, NEW x
    PROVE  /\ Gain(k, Event(token, "Transfer", <<ZERO_ADDRESS, a, x>>), b) = 0
           /\ Gain(k, Event(token, "Transfer", <<a, ZERO_ADDRESS, x>>), b) = 0
<1>1. Gain(k, Event(token, "Transfer", <<ZERO_ADDRESS, a, x>>), b) = 0
  BY SMT DEF Gain, Event
<1>2. Gain(k, Event(token, "Transfer", <<a, ZERO_ADDRESS, x>>), b) = 0
  BY SMT DEF Gain, Event
<1> QED
  BY <1>1, <1>2

\* What a holder gains by a mint.
LEMMA GainOfMint ==
    ASSUME NEW k, NEW token, NEW b, NEW args
    PROVE  Gain(k, Event(token, "Mint", args), b) = IF k = token /\ b = args[2] THEN args[3] ELSE 0
  BY SMT DEF Gain, Event

\* What a holder loses by a burn.
LEMMA GainOfBurn ==
    ASSUME NEW k, NEW token, NEW b, NEW args, NEW x,
           x = IF token = "stableDebtToken" THEN args[2] ELSE args[3]
    PROVE  Gain(k, Event(token, "Burn", args), b) = IF k = token /\ b = args[1] THEN -x ELSE 0
<1>1. -0 = 0
  <2>1. \A n \in Int : -n = 0 - n
    BY SMT
  <2>2. 0 \in Int /\ 0 - 0 = 0
    BY SMT
  <2> QED
    BY <2>1, <2>2
<1> QED
  BY <1>1, SMT DEF Gain, Event

\* A pair of events, of which the first counts for nobody.
LEMMA PairTells ==
    ASSUME NEW p, NEW q, NEW token, NEW a, NEW d \in Int,
           \A k \in Tokens, b \in Borrowers : Gain(k, p, b) = 0,
           \A k \in Tokens, b \in Borrowers : Gain(k, q, b) = IF k = token /\ b = a THEN d ELSE 0
    PROVE  ToldOf(<<p, q>>, token, a, d)
<1>1. ASSUME NEW k \in Tokens, NEW b \in Borrowers
      PROVE  AddUp(k, <<p, q>>, b, IF k = token /\ b = a THEN d ELSE 0)
  <2> DEFINE n == IF k = token /\ b = a THEN d ELSE 0
  <2>1. Gain(k, p, b) = 0 /\ Gain(k, q, b) = n
    OBVIOUS
  <2>a. n \in Int
    OBVIOUS
  <2> HIDE DEF n
  <2>b. 0 \in Int /\ 0 + n = n
    BY <2>a, SMT
  <2>2. AddUp(k, <<p>>, b, 0) /\ AddUp(k, <<q>>, b, n)
    BY <2>1, <2>a, <2>b, FewAddUp
  <2>3. Len(<<q>>) \in 0 .. 2 /\ <<p>> \o <<q>> = <<p, q>>
    BY PairJoined
  <2>4. AddUp(k, <<p>> \o <<q>>, b, 0 + n)
    BY <2>2, <2>3, AddedUp
  <2> QED
    BY <2>b, <2>3, <2>4 DEF n
<1>2. Len(<<p, q>>) \in 0 .. 2
  BY PairJoined
<1> QED
  BY <1>1, <1>2 DEF ToldOf

\* A mint tells its amount.
LEMMA MintTells ==
    ASSUME NEW token, NEW caller, NEW a, NEW x \in Int, NEW increase, NEW index
    PROVE  ToldOf(MintEvents(token, caller, a, x, increase, index), token, a, x)
<1> DEFINE args == <<caller, a, x, increase, index>>
           p == Event(token, "Transfer", <<ZERO_ADDRESS, a, x>>)
           q == Event(token, "Mint", args)
<1>1. args[2] = a /\ args[3] = x
  OBVIOUS
<1> HIDE DEF args
<1>2. \A k \in Tokens, b \in Borrowers : Gain(k, p, b) = 0
  BY GainOfNobody
<1>a. \A k \in Tokens, b \in Borrowers : Gain(k, q, b) = IF k = token /\ b = a THEN x ELSE 0
  BY <1>1, GainOfMint
<1> HIDE DEF p, q
<1>3. ToldOf(<<p, q>>, token, a, x)
  BY <1>2, <1>a, PairTells
<1> QED
  BY <1>3 DEF MintEvents, p, q, args

\* A burn tells its amount without the interest of the holder.
LEMMA BurnTells ==
    ASSUME NEW token, token # "stableDebtToken", NEW t, NEW a, NEW target, NEW amount \in Nat,
           NEW index, BalanceIncrease(t, a, index) \in Int
    PROVE  ToldOf(ScaledBurnEvents(token, t, a, target, amount, index), token, a,
                 BalanceIncrease(t, a, index) - amount)
<1> DEFINE inc == BalanceIncrease(t, a, index)
           args == <<a, target, amount - inc, inc, index>>
           p == Event(token, "Transfer", <<a, ZERO_ADDRESS, amount - inc>>)
           q == Event(token, "Burn", args)
<1>1. ScaledBurnEvents(token, t, a, target, amount, index) =
        IF inc > amount THEN MintEvents(token, a, a, inc - amount, inc, index) ELSE <<p, q>>
  BY DEF ScaledBurnEvents
<1>2. inc \in Int
  OBVIOUS
<1> HIDE DEF inc
<1>3. amount - inc \in Int /\ inc - amount \in Int /\ -(amount - inc) = inc - amount
  BY <1>2, SMT
<1>4. args[1] = a /\ amount - inc = IF token = "stableDebtToken" THEN args[2] ELSE args[3]
  OBVIOUS
<1> HIDE DEF args
<1>5. \A k \in Tokens, b \in Borrowers : Gain(k, p, b) = 0
  BY GainOfNobody
<1>a. \A k \in Tokens, b \in Borrowers :
        Gain(k, q, b) = IF k = token /\ b = a THEN inc - amount ELSE 0
  <2> TAKE k \in Tokens, b \in Borrowers
  <2>1. Gain(k, Event(token, "Burn", args), b)
          = IF k = token /\ b = args[1] THEN -(amount - inc) ELSE 0
    BY <1>4, GainOfBurn
  <2> QED
    BY <1>3, <1>4, <2>1
<1> HIDE DEF p, q
<1>6. ToldOf(<<p, q>>, token, a, inc - amount)
  BY <1>3, <1>5, <1>a, PairTells
<1>7. ToldOf(MintEvents(token, a, a, inc - amount, inc, index), token, a, inc - amount)
  BY <1>3, MintTells
<1> QED
  BY <1>1, <1>6, <1>7 DEF inc

\* A mint of stable debt tells its amount.
LEMMA StableMintTells ==
    ASSUME NEW caller, NEW a, NEW x \in Int, NEW balance, NEW increase, NEW next
    PROVE  ToldOf(StableMintEvents(caller, a, x, balance, increase, next), "stableDebtToken", a, x)
<1> DEFINE args == <<caller, a, x, balance, increase, next.rate[a], next.avgStableRate,
                     next.totalSupply>>
           p == Event("stableDebtToken", "Transfer", <<ZERO_ADDRESS, a, x>>)
           q == Event("stableDebtToken", "Mint", args)
<1>1. args[2] = a /\ args[3] = x
  OBVIOUS
<1> HIDE DEF args
<1>2. \A k \in Tokens, b \in Borrowers : Gain(k, p, b) = 0
  BY GainOfNobody
<1>a. \A k \in Tokens, b \in Borrowers :
        Gain(k, q, b) = IF k = "stableDebtToken" /\ b = a THEN x ELSE 0
  BY <1>1, GainOfMint
<1> HIDE DEF p, q
<1>3. ToldOf(<<p, q>>, "stableDebtToken", a, x)
  BY <1>2, <1>a, PairTells
<1> QED
  BY <1>3 DEF StableMintEvents, p, q, args

\* A burn of less than the interest is a mint; what it tells is the same.
LEMMA StableBurnTells ==
    ASSUME NEW a, NEW amount \in Nat, NEW next, NEW inc \in Int,
           inc = StableBalanceOf(stable, a) - stable.principal[a]
    PROVE  ToldOf(StableBurnEvents(a, amount, next), "stableDebtToken", a, inc - amount)
<1> DEFINE balance == StableBalanceOf(stable, a)
           left == BurnReturns(stable, amount)
           x == amount - inc
           args == <<a, x, balance, inc, next.avgStableRate, left>>
           p == Event("stableDebtToken", "Transfer", <<a, ZERO_ADDRESS, x>>)
           q == Event("stableDebtToken", "Burn", args)
           minted == [next EXCEPT !.rate = stable.rate, !.totalSupply = left]
<1>1. StableBurnEvents(a, amount, next) =
        IF inc > amount THEN StableMintEvents(a, a, inc - amount, balance, inc, minted) ELSE <<p, q>>
  BY DEF StableBurnEvents
<1>2. x \in Int /\ inc - amount \in Int /\ -x = inc - amount
  BY SMT
<1>3. args[1] = a /\ x = IF "stableDebtToken" = "stableDebtToken" THEN args[2] ELSE args[3]
  OBVIOUS
<1> HIDE DEF args, x, minted, balance
<1>4. \A k \in Tokens, b \in Borrowers : Gain(k, p, b) = 0
  BY GainOfNobody
<1>5. \A k \in Tokens, b \in Borrowers :
        Gain(k, q, b) = IF k = "stableDebtToken" /\ b = a THEN inc - amount ELSE 0
  <2> TAKE k \in Tokens, b \in Borrowers
  <2>1. Gain(k, q, b) = IF k = "stableDebtToken" /\ b = args[1] THEN -x ELSE 0
    BY <1>3, GainOfBurn
  <2> QED
    BY <1>2, <1>3, <2>1
<1> HIDE DEF p, q
<1>6. ToldOf(<<p, q>>, "stableDebtToken", a, inc - amount)
  BY <1>2, <1>4, <1>5, PairTells
<1>7. ToldOf(StableMintEvents(a, a, inc - amount, balance, inc, minted), "stableDebtToken", a,
            inc - amount)
  BY <1>2, StableMintTells
<1> QED
  BY <1>1, <1>6, <1>7

\* A payment tells nothing of the tokens.
LEMMA PaymentTells ==
    ASSUME NEW u, NEW v, NEW n, NEW token, NEW a
    PROVE  ToldOf(Paying(u, v, n), token, a, 0)
<1> DEFINE p == Event("underlying", "Transfer", <<u, v, n>>)
<1>1. ASSUME NEW k \in Tokens, NEW b \in Borrowers PROVE Gain(k, p, b) = 0
  <2>1. k # "underlying"
    BY DEF Tokens
  <2> QED
    BY <2>1, SMT DEF Gain, Event
<1>2. Paying(u, v, n) = <<p>>
  BY DEF Paying
<1> HIDE DEF p
<1>3. 0 \in Int
  BY SMT
<1>4. \A k \in Tokens, b \in Borrowers : AddUp(k, <<p>>, b, 0)
  BY <1>1, <1>3, FewAddUp
<1>5. Len(<<p>>) \in 0 .. 2
  BY PairJoined
<1> QED
  BY <1>2, <1>3, <1>4, <1>5 DEF ToldOf

\* Interest that a transfer tells.
LEMMA InterestTells ==
    ASSUME NEW caller, NEW a, NEW x \in Nat, NEW index
    PROVE  ToldOf(InterestEvents(caller, a, x, index), "aToken", a, x)
<1>1. CASE x > 0
  BY <1>1, MintTells DEF InterestEvents
<1>2. CASE ~ (x > 0)
  <2>1. x = 0 /\ Len(<< >>) \in 0 .. 2 /\ 0 \in Int
    BY <1>2, SMT
  <2>2. InterestEvents(caller, a, x, index) = << >>
    BY <1>2 DEF InterestEvents
  <2> QED
    BY <2>1, <2>2, FewAddUp DEF ToldOf
<1> QED
  BY <1>1, <1>2

\* A holder is told by how much its balance has moved, up to a rounding.
Near(t, next, b, told) ==
    told - (RayMul(next.scaled[b], next.index[b]) - RayMul(t.scaled[b], t.index[b]))
      \in -Rounding(next.index[b]) .. Rounding(next.index[b])

\* What SharesRound bounds is at most a rounding, up or down.
LEMMA RoundingBounds ==
    ASSUME NEW i \in Nat, NEW off \in Int,
           -(i + 2 * RAY) <= 2 * RAY * off, 2 * RAY * off <= i + 2 * RAY
    PROVE  off \in -Rounding(i) .. Rounding(i)
<1> DEFINE n == i + 2 * RAY
           d == 2 * RAY
           q == Rounding(i)
<1>1. RAY \in Nat \ {0}
  BY ScalesAreEven, SMT
<1>2. n \in Nat /\ d \in Nat \ {0}
  BY <1>1, SMT
<1>3. q = n \div d
  BY DEF Rounding
<1> HIDE DEF q
<1>4. -n <= d * off /\ d * off <= n
  OBVIOUS
<1> HIDE DEF n, d
<1>5. q \in Nat /\ n < d * q + d
  BY <1>2, <1>3, QuotientBounds
<1>6. d * off < d * (q + 1) /\ d * (-off) < d * (q + 1)
  <2>1. d * (-off) = -(d * off) /\ d * (q + 1) = d * q + d /\ d * off \in Int /\ d * q \in Int
    BY <1>2, <1>5, SMT
  <2> QED
    BY <1>2, <1>4, <1>5, <2>1, SMT
<1>7. off < q + 1 /\ -off < q + 1
  <2>1. \A x, y \in Int : d * x < d * y => x < y
    BY <1>2, SMT
  <2>2. -off \in Int /\ q + 1 \in Int
    BY <1>5, SMT
  <2> QED
    BY <1>6, <2>1, <2>2
<1>8. off \in -q .. q
  BY <1>5, <1>7, SMT
<1> QED
  BY <1>8 DEF q

\* A holder whom the step does not touch.
LEMMA NearAsItWas ==
    ASSUME NEW t \in ScaledTokens, NEW next, NEW b \in Accounts,
           next.scaled[b] = t.scaled[b], next.index[b] = t.index[b]
    PROVE  Near(t, next, b, 0)
<1> DEFINE x == RayMul(t.scaled[b], t.index[b])
<1>1. t.scaled[b] \in Nat /\ t.index[b] \in Nat
  BY DEF ScaledTokens
<1>2. x \in Nat
  BY <1>1, RayMulType
<1> HIDE DEF x
<1>3. 0 - (x - x) = 0 /\ 0 \in Int
  BY <1>2, SMT
<1>4. -(t.index[b] + 2 * RAY) <= 2 * RAY * 0 /\ 2 * RAY * 0 <= t.index[b] + 2 * RAY
  BY <1>1, ScalesAreEven, SMT
<1>5. 0 \in -Rounding(t.index[b]) .. Rounding(t.index[b])
  BY <1>1, <1>3, <1>4, RoundingBounds
<1> QED
  BY <1>3, <1>5 DEF Near, x

\* One who gets units.
LEMMA NearRaised ==
    ASSUME NEW t \in ScaledTokens, NEW next, NEW b \in Accounts, NEW n \in Nat,
           NEW i \in Nat \ {0}, next.index[b] = i, next.scaled[b] = t.scaled[b] + RayDiv(n, i)
    PROVE  Near(t, next, b, n + BalanceIncrease(t, b, i))
<1> DEFINE s == t.scaled[b]
           p == RayMul(s, i)
           q == RayMul(s + RayDiv(n, i), i)
           x == RayMul(s, t.index[b])
           off == n + p - q
<1>1. s \in Nat /\ t.index[b] \in Nat /\ i \in Nat /\ RayDiv(n, i) \in Nat
  BY RayDivType DEF ScaledTokens
<1>2. p \in Nat /\ x \in Nat /\ q \in Nat
  <2>1. s + RayDiv(n, i) \in Nat
    BY <1>1, SMT
  <2> QED
    BY <1>1, <2>1, RayMulType
<1>3. off \in Int
  BY <1>2, SMT
<1>4. -(i + 2 * RAY) <= 2 * RAY * off /\ 2 * RAY * off <= i + 2 * RAY
  BY <1>1, <1>3, SharesRound
<1>5. off \in -Rounding(i) .. Rounding(i)
  BY <1>1, <1>3, <1>4, RoundingBounds
<1>6. /\ BalanceIncrease(t, b, i) = p - x
      /\ RayMul(next.scaled[b], next.index[b]) = q
  BY DEF BalanceIncrease
<1> HIDE DEF p, q, x
<1>7. (n + (p - x)) - (q - x) = n + p - q
  BY <1>2, SMT
<1> QED
  BY <1>5, <1>6, <1>7 DEF Near, x

\* One whose units go.
LEMMA NearLowered ==
    ASSUME NEW t \in ScaledTokens, NEW next, NEW b \in Accounts, NEW n \in Nat,
           NEW i \in Nat \ {0}, next.index[b] = i, next.scaled[b] \in Nat,
           t.scaled[b] = next.scaled[b] + RayDiv(n, i)
    PROVE  Near(t, next, b, BalanceIncrease(t, b, i) - n)
<1> DEFINE s == next.scaled[b]
           p == RayMul(s, i)
           q == RayMul(s + RayDiv(n, i), i)
           x == RayMul(t.scaled[b], t.index[b])
           off == n + p - q
<1>1. s \in Nat /\ t.scaled[b] \in Nat /\ t.index[b] \in Nat /\ i \in Nat
  BY DEF ScaledTokens
<1>2. p \in Nat /\ x \in Nat /\ q \in Nat
  BY <1>1, RayMulType
<1>3. off \in Int
  BY <1>2, SMT
<1>4. -(i + 2 * RAY) <= 2 * RAY * off /\ 2 * RAY * off <= i + 2 * RAY
  BY <1>1, <1>3, SharesRound
<1>5. off \in -Rounding(i) .. Rounding(i)
  BY <1>1, <1>3, <1>4, RoundingBounds
<1>6. /\ BalanceIncrease(t, b, i) = q - x
      /\ RayMul(next.scaled[b], next.index[b]) = p
  BY DEF BalanceIncrease
<1>7. off = n + p - q
  OBVIOUS
<1> HIDE DEF p, q, x, off
<1>8. -off \in -Rounding(i) .. Rounding(i)
  <2>1. Rounding(i) \in Nat
    <3>1. i + 2 * RAY \in Nat /\ 2 * RAY \in Nat \ {0}
      BY <1>1, ScalesAreEven, SMT
    <3> QED
      BY <3>1, QuotientBounds DEF Rounding
  <2> QED
    BY <1>3, <1>5, <2>1, SMT
<1>9. ((q - x) - n) - (p - x) = -off
  BY <1>2, <1>7, SMT
<1> QED
  BY <1>6, <1>8, <1>9 DEF Near, x

\* A mint raises one balance.
LEMMA NearMinted ==
    ASSUME NEW t \in ScaledTokens, NEW a \in Accounts, NEW b \in Accounts, NEW n \in Nat,
           NEW i \in Nat \ {0}
    PROVE  Near(t, ScaledMint(t, a, n, i), b, IF b = a THEN n + BalanceIncrease(t, a, i) ELSE 0)
<1> DEFINE next == ScaledMint(t, a, n, i)
<1>1. CASE b = a
  <2>1. next.index[b] = i /\ next.scaled[b] = t.scaled[b] + RayDiv(n, i)
    BY <1>1 DEF ScaledMint, WithScaled, ScaledTokens
  <2> HIDE DEF next
  <2>2. Near(t, next, b, n + BalanceIncrease(t, b, i))
    BY <2>1, NearRaised
  <2> QED
    BY <1>1, <2>2 DEF next
<1>2. CASE b # a
  <2>1. next.index[b] = t.index[b] /\ next.scaled[b] = t.scaled[b]
    BY <1>2, EntryWritten DEF ScaledMint
  <2> HIDE DEF next
  <2>2. Near(t, next, b, 0)
    BY <2>1, NearAsItWas
  <2> QED
    BY <1>2, <2>2 DEF next
<1> QED
  BY <1>1, <1>2

\* A burn lowers one balance.
LEMMA NearBurnt ==
    ASSUME NEW t \in ScaledTokens, NEW a \in Accounts, NEW b \in Accounts, NEW n \in Nat,
           NEW i \in Nat \ {0}, CanBurn(t, a, n, i)
    PROVE  Near(t, ScaledBurn(t, a, n, i), b, IF b = a THEN BalanceIncrease(t, a, i) - n ELSE 0)
<1> DEFINE next == ScaledBurn(t, a, n, i)
<1>1. CASE b = a
  <2>1. next.index[b] = i /\ next.scaled[b] = t.scaled[b] - RayDiv(n, i)
    BY <1>1 DEF ScaledBurn, WithScaled, ScaledTokens
  <2> HIDE DEF next
  <2>2. t.scaled[b] \in Nat /\ RayDiv(n, i) \in 1 .. t.scaled[b]
    BY <1>1 DEF ScaledTokens, CanBurn
  <2>3. next.scaled[b] \in Nat /\ t.scaled[b] = next.scaled[b] + RayDiv(n, i)
    BY <2>1, <2>2, SMT
  <2>4. Near(t, next, b, BalanceIncrease(t, b, i) - n)
    BY <2>1, <2>3, NearLowered
  <2> QED
    BY <1>1, <2>4 DEF next
<1>2. CASE b # a
  <2>1. next.index[b] = t.index[b] /\ next.scaled[b] = t.scaled[b]
    BY <1>2, EntryWritten DEF ScaledBurn
  <2> HIDE DEF next
  <2>2. Near(t, next, b, 0)
    BY <2>1, NearAsItWas
  <2> QED
    BY <1>2, <2>2 DEF next
<1> QED
  BY <1>1, <1>2

\* A list of events that is about one holder: what it tells of each token.
Tells(events, a, c, d, e) ==
    /\ c \in Int /\ d \in Int /\ e \in Int
    /\ \A b \in Borrowers :
         /\ AddUp("aToken", events, b, IF b = a THEN c ELSE 0)
         /\ AddUp("variableDebtToken", events, b, IF b = a THEN d ELSE 0)
         /\ AddUp("stableDebtToken", events, b, IF b = a THEN e ELSE 0)

\* One list of events of one token.
LEMMA EventsTell ==
    ASSUME NEW events, NEW a, NEW n
    PROVE  /\ ToldOf(events, "aToken", a, n) => Tells(events, a, n, 0, 0)
           /\ ToldOf(events, "variableDebtToken", a, n) => Tells(events, a, 0, n, 0)
           /\ ToldOf(events, "stableDebtToken", a, n) => Tells(events, a, 0, 0, n)
<1>1. 0 \in Int
  BY SMT
<1> DEFINE A == "aToken"
           V == "variableDebtToken"
           S == "stableDebtToken"
<1>2. A \in Tokens /\ V \in Tokens /\ S \in Tokens /\ A # V /\ A # S /\ V # S
  BY DEF Tokens
<1>3. Tells(events, a, n, 0, 0) = (n \in Int /\ \A b \in Borrowers :
         /\ AddUp(A, events, b, IF b = a THEN n ELSE 0)
         /\ AddUp(V, events, b, 0) /\ AddUp(S, events, b, 0))
  BY <1>1 DEF Tells
<1>4. Tells(events, a, 0, n, 0) = (n \in Int /\ \A b \in Borrowers :
         /\ AddUp(A, events, b, 0)
         /\ AddUp(V, events, b, IF b = a THEN n ELSE 0) /\ AddUp(S, events, b, 0))
  BY <1>1 DEF Tells
<1>5. Tells(events, a, 0, 0, n) = (n \in Int /\ \A b \in Borrowers :
         /\ AddUp(A, events, b, 0)
         /\ AddUp(V, events, b, 0) /\ AddUp(S, events, b, IF b = a THEN n ELSE 0))
  BY <1>1 DEF Tells
<1> HIDE DEF A, V, S
<1>6. ToldOf(events, A, a, n) => Tells(events, a, n, 0, 0)
  BY <1>2, <1>3 DEF ToldOf
<1>7. ToldOf(events, V, a, n) => Tells(events, a, 0, n, 0)
  BY <1>2, <1>4 DEF ToldOf
<1>8. ToldOf(events, S, a, n) => Tells(events, a, 0, 0, n)
  BY <1>2, <1>5 DEF ToldOf
<1> QED
  BY <1>6, <1>7, <1>8 DEF A, V, S

\* A list and a short one after it, about the same holder.
LEMMA PartsTell ==
    ASSUME NEW s, NEW t, NEW a, NEW c, NEW d, NEW e, NEW x, NEW y, NEW z,
           Tells(s, a, c, d, e), Tells(t, a, x, y, z), Len(t) \in 0 .. 2
    PROVE  Tells(s \o t, a, c + x, d + y, e + z)
<1>1. /\ c \in Int /\ d \in Int /\ e \in Int /\ x \in Int /\ y \in Int /\ z \in Int
      /\ c + x \in Int /\ d + y \in Int /\ e + z \in Int /\ 0 + 0 = 0
  BY DEF Tells
<1>2. ASSUME NEW b \in Borrowers, NEW k, NEW m, NEW n,
             AddUp(k, s, b, IF b = a THEN m ELSE 0), AddUp(k, t, b, IF b = a THEN n ELSE 0)
      PROVE  AddUp(k, s \o t, b, IF b = a THEN m + n ELSE 0)
  <2>1. CASE b = a
    <3>1. AddUp(k, s, b, m) /\ AddUp(k, t, b, n)
      BY <1>2, <2>1
    <3> QED
      BY <2>1, <3>1, AddedUp
  <2>2. CASE b # a
    <3>1. AddUp(k, s, b, 0) /\ AddUp(k, t, b, 0)
      BY <1>2, <2>2
    <3> QED
      BY <1>1, <2>2, <3>1, AddedUp
  <2> QED
    BY <2>1, <2>2
<1> QED
  BY <1>1, <1>2 DEF Tells

\* With a payment before or after.
LEMMA PaidAndTold ==
    ASSUME NEW s, NEW a, NEW c, NEW d, NEW e, NEW u, NEW v, NEW n, Tells(s, a, c, d, e)
    PROVE  /\ Tells(s \o Paying(u, v, n), a, c, d, e)
           /\ Len(s) \in 0 .. 2 => Tells(Paying(u, v, n) \o s, a, c, d, e)
<1>1. ToldOf(Paying(u, v, n), "aToken", a, 0)
  BY PaymentTells
<1>2. Tells(Paying(u, v, n), a, 0, 0, 0) /\ Len(Paying(u, v, n)) \in 0 .. 2
  BY <1>1, EventsTell DEF ToldOf
<1>3. c + 0 = c /\ d + 0 = d /\ e + 0 = e /\ 0 + c = c /\ 0 + d = d /\ 0 + e = e
  BY SMT DEF Tells
<1>4. Tells(s \o Paying(u, v, n), a, c + 0, d + 0, e + 0)
  BY <1>2, PartsTell
<1>5. ASSUME Len(s) \in 0 .. 2 PROVE Tells(Paying(u, v, n) \o s, a, 0 + c, 0 + d, 0 + e)
  BY <1>2, <1>5, PartsTell
<1> QED
  BY <1>3, <1>4, <1>5

\* The events tell each holder by how much its balances move.
Follow(events) ==
    \A b \in Borrowers :
        /\ \E d : AddUp("aToken", events, b, d) /\ Near(aToken, aToken', b, d)
        /\ \E d : AddUp("variableDebtToken", events, b, d) /\ Near(variableDebt, variableDebt', b, d)
        /\ AddUp("stableDebtToken", events, b, stable'.principal[b] - stable.principal[b])

\* What moves when it does so for one holder.
Moved(a, c, d, e) ==
    \A b \in Borrowers :
        /\ Near(aToken, aToken', b, IF b = a THEN c ELSE 0)
        /\ Near(variableDebt, variableDebt', b, IF b = a THEN d ELSE 0)
        /\ stable'.principal[b] - stable.principal[b] = IF b = a THEN e ELSE 0

\* If one holder is told of what moves, each is.
LEMMA ToldAsMoved ==
    ASSUME NEW events, NEW a, NEW c, NEW d, NEW e, Tells(events, a, c, d, e), Moved(a, c, d, e)
    PROVE  Follow(events)
  BY DEF Tells, Moved, Follow

\* The tokens that an operation leaves alone.
LEMMA Unmoved ==
    ASSUME ReserveIInv, NEW b \in Borrowers, NEW a
    PROVE  /\ aToken' = aToken => Near(aToken, aToken', b, IF b = a THEN 0 ELSE 0)
           /\ variableDebt' = variableDebt => Near(variableDebt, variableDebt', b, IF b = a THEN 0 ELSE 0)
           /\ stable' = stable => stable'.principal[b] - stable.principal[b] = IF b = a THEN 0 ELSE 0
<1>1. aToken \in ScaledTokens /\ variableDebt \in ScaledTokens /\ b \in Accounts
  BY Prepared, AccountsAreFinite
<1>2. stable.principal[b] - stable.principal[b] = 0
  <2>1. stable.principal[b] \in Nat
    BY Prepared DEF StableTokens
  <2> QED
    BY <2>1, SMT
<1> QED
  BY <1>1, <1>2, NearAsItWas

\* The principal that is written.
LEMMA PrincipalWritten ==
    ASSUME NEW t \in StableTokens, NEW a \in Borrowers, NEW p \in Int, NEW r, NEW stamp, NEW left, NEW avg,
           NEW b \in Borrowers
    PROVE  Written(t, a, p, r, stamp, left, avg).principal[b] - t.principal[b]
             = IF b = a THEN p - t.principal[a] ELSE 0
<1>1. t.principal \in [Borrowers -> Nat]
  BY DEF StableTokens
<1>2. Written(t, a, p, r, stamp, left, avg).principal[b] = IF b = a THEN p ELSE t.principal[b]
  BY <1>1 DEF Written
<1>3. t.principal[b] \in Nat /\ t.principal[b] - t.principal[b] = 0
  BY <1>1, SMT
<1> QED
  BY <1>2, <1>3

\* A loan adds the interest to the principal.
LEMMA PrincipalMinted ==
    ASSUME now \in Nat, NEW t \in StableTokens, ClocksBehind(t), NEW a \in Borrowers,
           NEW n \in Nat, NEW rate, NEW b \in Borrowers
    PROVE  Minted(t, a, n, rate).principal[b] - t.principal[b]
             = IF b = a THEN n + (StableBalanceOf(t, a) - t.principal[a]) ELSE 0
<1> DEFINE balance == StableBalanceOf(t, a)
           r == WeightedRate(t.rate[a], balance, rate, n)
           left == StableTotalSupply(t) + n
           avg == WeightedRate(t.avgStableRate, StableTotalSupply(t), rate, n)
<1>1. balance \in Nat /\ t.principal[a] \in Nat
  BY BalanceTypes DEF StableTokens
<1>2. Minted(t, a, n, rate) = Written(t, a, balance + n, r, now, left, avg)
  BY DEF Minted
<1> HIDE DEF balance, r, left, avg
<1>3. balance + n \in Int /\ (balance + n) - t.principal[a] = n + (balance - t.principal[a])
  BY <1>1, SMT
<1> QED
  BY <1>2, <1>3, PrincipalWritten DEF balance

\* So does a repayment, which it lowers by the amount.
LEMMA PrincipalBurnt ==
    ASSUME now \in Nat, NEW t \in StableTokens, ClocksBehind(t), NEW a \in Borrowers,
           NEW n \in Nat, NEW b \in Borrowers
    PROVE  Burnt(t, a, n).principal[b] - t.principal[b]
             = IF b = a THEN (StableBalanceOf(t, a) - t.principal[a]) - n ELSE 0
<1> DEFINE balance == StableBalanceOf(t, a)
           r == IF n = balance THEN 0 ELSE t.rate[a]
           stamp == IF n = balance THEN 0 ELSE now
           cleared == Cleared(t, a, n)
           left == IF cleared THEN 0 ELSE StableTotalSupply(t) - n
           avg == IF cleared THEN 0
                  ELSE RayDiv(RemainingWeight(t, a, n), WadToRay(StableTotalSupply(t) - n))
<1>1. balance \in Nat /\ t.principal[a] \in Nat
  BY BalanceTypes DEF StableTokens
<1>2. Burnt(t, a, n) = Written(t, a, balance - n, r, stamp, left, avg)
  BY DEF Burnt
<1> HIDE DEF balance, r, stamp, left, avg, cleared
<1>3. balance - n \in Int /\ (balance - n) - t.principal[a] = (balance - t.principal[a]) - n
  BY <1>1, SMT
<1> QED
  BY <1>2, <1>3, PrincipalWritten DEF balance

\* A mint of a scaled token tells its holder what moves.
LEMMA MintMoves ==
    ASSUME NEW token \in {"aToken", "variableDebtToken"}, NEW t \in ScaledTokens, NEW caller, NEW a \in Borrowers,
           NEW n \in Nat, NEW i \in Nat \ {0}
    PROVE  \E d : /\ ToldOf(ScaledMintEvents(token, t, caller, a, n, i), token, a, d)
                  /\ \A b \in Borrowers : Near(t, ScaledMint(t, a, n, i), b, IF b = a THEN d ELSE 0)
<1>1. a \in Accounts /\ Borrowers \subseteq Accounts
  BY AccountsAreFinite
<1> DEFINE inc == BalanceIncrease(t, a, i)
<1>2. inc \in Int
  BY <1>1, InterestOfMint
<1>3. ScaledMintEvents(token, t, caller, a, n, i) = MintEvents(token, caller, a, n + inc, inc, i)
  BY DEF ScaledMintEvents
<1>4. \A b \in Borrowers : Near(t, ScaledMint(t, a, n, i), b, IF b = a THEN n + inc ELSE 0)
  BY <1>1, NearMinted
<1> HIDE DEF inc
<1>5. n + inc \in Int
  BY <1>2, SMT
<1>6. ToldOf(MintEvents(token, caller, a, n + inc, inc, i), token, a, n + inc)
  BY <1>5, MintTells
<1> QED
  BY <1>3, <1>4, <1>6

\* So it is for a burn.
LEMMA BurnMoves ==
    ASSUME NEW token \in {"aToken", "variableDebtToken"}, NEW t \in ScaledTokens, NEW target, NEW a \in Borrowers,
           NEW n \in Nat, NEW i \in Nat \ {0}, CanBurn(t, a, n, i)
    PROVE  \E d : /\ ToldOf(ScaledBurnEvents(token, t, a, target, n, i), token, a, d)
                  /\ \A b \in Borrowers : Near(t, ScaledBurn(t, a, n, i), b, IF b = a THEN d ELSE 0)
<1>1. a \in Accounts /\ Borrowers \subseteq Accounts
  BY AccountsAreFinite
<1>2. BalanceIncrease(t, a, i) \in Int
  BY <1>1, InterestOfMint
<1>3. \A b \in Borrowers :
        Near(t, ScaledBurn(t, a, n, i), b, IF b = a THEN BalanceIncrease(t, a, i) - n ELSE 0)
  BY <1>1, NearBurnt
<1>4. token # "stableDebtToken"
  OBVIOUS
<1>5. ToldOf(ScaledBurnEvents(token, t, a, target, n, i), token, a, BalanceIncrease(t, a, i) - n)
  BY <1>2, <1>4, BurnTells
<1> QED
  BY <1>3, <1>5

\* A loan at the stable rate.
LEMMA StableBorrowTells ==
    ASSUME now \in Nat, NEW t \in StableTokens, ClocksBehind(t), NEW caller, NEW a \in Borrowers,
           NEW n \in Nat, NEW next, NEW e, e = n + (StableBalanceOf(t, a) - t.principal[a])
    PROVE  ToldOf(StableBorrowEvents(t, caller, a, n, next), "stableDebtToken", a, e)
<1> DEFINE balance == StableBalanceOf(t, a)
           inc == balance - t.principal[a]
<1>1. balance \in Nat /\ t.principal[a] \in Nat
  BY BalanceTypes DEF StableTokens
<1>2. StableBorrowEvents(t, caller, a, n, next) = StableMintEvents(caller, a, e, balance, inc, next)
  BY DEF StableBorrowEvents
<1>3. e \in Int
  <2>1. e = n + (balance - t.principal[a])
    OBVIOUS
  <2> HIDE DEF balance
  <2> QED
    BY <1>1, <2>1, SMT
<1> HIDE DEF balance, inc
<1>4. ToldOf(StableMintEvents(caller, a, e, balance, inc, next), "stableDebtToken", a, e)
  BY <1>3, StableMintTells
<1> QED
  BY <1>2, <1>4

\* A mint of aTokens, with what is paid for it or without.
LEMMA ATokensTold ==
    ASSUME ReserveIInv, NEW caller, NEW a \in Borrowers, NEW n \in Nat,
           aToken' = ScaledMint(aToken, a, n, updateState.liquidityIndex),
           UNCHANGED <<variableDebt, stable>>
    PROVE  LET told == ScaledMintEvents("aToken", aToken, caller, a, n, updateState.liquidityIndex)
           IN  Follow(told) /\ Follow(Paying(caller, aTokenAddress, n) \o told)
<1> DEFINE told == ScaledMintEvents("aToken", aToken, caller, a, n, updateState.liquidityIndex)
           i == updateState.liquidityIndex
<1>1. aToken \in ScaledTokens /\ i \in Nat \ {0}
  BY Prepared
<1>2. PICK d : /\ ToldOf(told, "aToken", a, d)
               /\ \A b \in Borrowers : Near(aToken, ScaledMint(aToken, a, n, i), b, IF b = a THEN d ELSE 0)
  BY <1>1, MintMoves
<1>3. Moved(a, d, 0, 0)
  BY <1>2, Unmoved DEF Moved
<1> HIDE DEF told, i
<1>4. Tells(told, a, d, 0, 0) /\ Len(told) \in 0 .. 2
  BY <1>2, EventsTell DEF ToldOf
<1>5. Tells(Paying(caller, aTokenAddress, n) \o told, a, d, 0, 0)
  BY <1>4, PaidAndTold
<1> QED
  BY <1>3, <1>4, <1>5, ToldAsMoved DEF told

\* A withdrawal.
LEMMA WithdrawFollows ==
    ASSUME ReserveIInv, NEW u \in Borrowers, NEW to \in Borrowers, NEW amount, NEW n,
           n = Amount(amount, RayMul(aToken.scaled[u], updateState.liquidityIndex)),
           Withdraw(u, to, amount)
    PROVE  LET told == ScaledBurnEvents("aToken", aToken, u, to, n, updateState.liquidityIndex)
           IN  Follow(told) /\ Follow(told \o Paying(aTokenAddress, to, n))
<1> DEFINE told == ScaledBurnEvents("aToken", aToken, u, to, n, updateState.liquidityIndex)
           i == updateState.liquidityIndex
<1>1. /\ n \in 1 .. RayMul(aToken.scaled[u], i) /\ CanBurn(aToken, u, n, i)
      /\ aToken' = ScaledBurn(aToken, u, n, i) /\ UNCHANGED <<stable, variableDebt>>
  BY DEF Withdraw
<1>2. aToken \in ScaledTokens /\ i \in Nat \ {0}
  BY Prepared
<1>a. n \in Nat
  BY <1>1, SMT
<1>3. PICK d : /\ ToldOf(told, "aToken", u, d)
               /\ \A b \in Borrowers : Near(aToken, ScaledBurn(aToken, u, n, i), b, IF b = u THEN d ELSE 0)
  BY <1>1, <1>2, <1>a, BurnMoves
<1>4. Moved(u, d, 0, 0)
  BY <1>1, <1>3, Unmoved DEF Moved
<1> HIDE DEF told, i
<1>5. Tells(told, u, d, 0, 0)
  BY <1>3, EventsTell
<1>6. Tells(told \o Paying(aTokenAddress, to, n), u, d, 0, 0)
  BY <1>5, PaidAndTold
<1> QED
  BY <1>4, <1>5, <1>6, ToldAsMoved DEF told

\* A loan at the variable rate.
LEMMA VariableBorrowFollows ==
    ASSUME ReserveIInv, NEW u \in Borrowers, NEW v \in Borrowers, NEW n \in Amounts,
           Borrow(u, v, n, "variable")
    PROVE  Follow(ScaledMintEvents("variableDebtToken", variableDebt, u, v, n,
                                   updateState.variableBorrowIndex)
                    \o Paying(aTokenAddress, u, n))
<1> DEFINE told == ScaledMintEvents("variableDebtToken", variableDebt, u, v, n,
                                    updateState.variableBorrowIndex)
           i == updateState.variableBorrowIndex
<1>1. variableDebt' = ScaledMint(variableDebt, v, n, i) /\ UNCHANGED <<stable, aToken>>
  BY DEF Borrow
<1>2. variableDebt \in ScaledTokens /\ i \in Nat \ {0} /\ n \in Nat
  BY Prepared, AmountsType
<1>3. PICK d : /\ ToldOf(told, "variableDebtToken", v, d)
               /\ \A b \in Borrowers :
                    Near(variableDebt, ScaledMint(variableDebt, v, n, i), b, IF b = v THEN d ELSE 0)
  BY <1>2, MintMoves
<1>4. Moved(v, 0, d, 0)
  BY <1>1, <1>3, Unmoved DEF Moved
<1> HIDE DEF told, i
<1>5. Tells(told, v, 0, d, 0)
  BY <1>3, EventsTell
<1>6. Tells(told \o Paying(aTokenAddress, u, n), v, 0, d, 0)
  BY <1>5, PaidAndTold
<1> QED
  BY <1>4, <1>6, ToldAsMoved DEF told

\* So it is for one at the stable rate.
LEMMA StableBorrowFollows ==
    ASSUME ReserveIInv, NEW u \in Borrowers, NEW v \in Borrowers, NEW n \in Amounts,
           Borrow(u, v, n, "stable")
    PROVE  Follow(StableBorrowEvents(stable, u, v, n, Minted(stable, v, n, reserve.stableBorrowRate))
                    \o Paying(aTokenAddress, u, n))
<1>a. PICK rate, next : rate = reserve.stableBorrowRate /\ next = Minted(stable, v, n, rate)
  OBVIOUS
<1> DEFINE told == StableBorrowEvents(stable, u, v, n, next)
<1>1. stable' = next /\ UNCHANGED <<variableDebt, aToken>>
  BY <1>a DEF Borrow
<1>2. stable \in StableTokens /\ now \in Nat /\ ClocksBehind(stable) /\ n \in Nat
  BY Prepared, AmountsType
<1>b. PICK e : e = n + (StableBalanceOf(stable, v) - stable.principal[v])
  OBVIOUS
<1>3. /\ ToldOf(told, "stableDebtToken", v, e)
      /\ \A b \in Borrowers : next.principal[b] - stable.principal[b] = IF b = v THEN e ELSE 0
  <2>1. ToldOf(StableBorrowEvents(stable, u, v, n, next), "stableDebtToken", v, e)
    BY <1>2, <1>b, StableBorrowTells
  <2>2. \A b \in Borrowers :
          Minted(stable, v, n, rate).principal[b] - stable.principal[b] = IF b = v THEN e ELSE 0
    BY <1>2, <1>b, PrincipalMinted
  <2> QED
    BY <1>a, <2>1, <2>2
<1>4. Moved(v, 0, 0, e)
  BY <1>1, <1>3, Unmoved DEF Moved
<1> HIDE DEF told
<1>5. Tells(told, v, 0, 0, e)
  BY <1>3, EventsTell
<1>6. Tells(told \o Paying(aTokenAddress, u, n), v, 0, 0, e)
  BY <1>5, PaidAndTold
<1> QED
  BY <1>4, <1>6, <1>a, ToldAsMoved DEF told

\* What a burn of debt moves, at either rate.
LEMMA DebtBurnMoves ==
    ASSUME ReserveIInv, NEW u \in Borrowers, NEW mode \in RateModes, NEW n \in Nat, NEW liquidity,
           BurnDebt(updateState, u, mode, n, liquidity)
    PROVE  \E d, e :
             /\ Tells(DebtBurnEvents(u, mode, n), u, 0, d, e)
             /\ Len(DebtBurnEvents(u, mode, n)) \in 0 .. 2
             /\ \A b \in Borrowers :
                  /\ Near(variableDebt, variableDebt', b, IF b = u THEN d ELSE 0)
                  /\ stable'.principal[b] - stable.principal[b] = IF b = u THEN e ELSE 0
<1> DEFINE i == updateState.variableBorrowIndex
           told == DebtBurnEvents(u, mode, n)
<1>1. /\ variableDebt \in ScaledTokens /\ i \in Nat \ {0} /\ now \in Nat
      /\ stable \in StableTokens /\ ClocksBehind(stable)
  BY Prepared
<1>2. CASE mode = "stable"
  <2>1. stable' = Burnt(stable, u, n) /\ variableDebt' = variableDebt
    BY <1>2 DEF BurnDebt
  <2>2. PICK inc : inc = StableBalanceOf(stable, u) - stable.principal[u]
    OBVIOUS
  <2>3. inc \in Int
    <3>1. StableBalanceOf(stable, u) \in Nat /\ stable.principal[u] \in Nat
      BY <1>1, BalanceTypes DEF StableTokens
    <3> QED
      BY <2>2, <3>1, SMT
  <2>4. \A b \in Borrowers :
          stable'.principal[b] - stable.principal[b] = IF b = u THEN inc - n ELSE 0
    BY <1>1, <2>1, <2>2, PrincipalBurnt
  <2>5. told = StableBurnEvents(u, n, Burnt(stable, u, n))
    BY <1>2 DEF DebtBurnEvents
  <2>6. ToldOf(StableBurnEvents(u, n, Burnt(stable, u, n)), "stableDebtToken", u, inc - n)
    BY <2>2, <2>3, StableBurnTells
  <2> HIDE DEF told
  <2>7. Tells(told, u, 0, 0, inc - n) /\ Len(told) \in 0 .. 2
    BY <2>5, <2>6, EventsTell DEF ToldOf
  <2>8. \A b \in Borrowers : Near(variableDebt, variableDebt', b, IF b = u THEN 0 ELSE 0)
    BY <2>1, Unmoved
  <2> QED
    BY <2>4, <2>7, <2>8 DEF told
<1>3. CASE mode # "stable"
  <2>1. /\ variableDebt' = ScaledBurn(variableDebt, u, n, i) /\ stable' = stable
        /\ CanBurn(variableDebt, u, n, i)
    BY <1>3 DEF BurnDebt
  <2>2. told = ScaledBurnEvents("variableDebtToken", variableDebt, u, ZERO_ADDRESS, n, i)
    BY <1>3 DEF DebtBurnEvents
  <2> HIDE DEF told, i
  <2>3. PICK d : /\ ToldOf(told, "variableDebtToken", u, d)
                 /\ \A b \in Borrowers : Near(variableDebt, variableDebt', b, IF b = u THEN d ELSE 0)
    BY <1>1, <2>1, <2>2, BurnMoves
  <2>4. Tells(told, u, 0, d, 0) /\ Len(told) \in 0 .. 2
    BY <2>3, EventsTell DEF ToldOf
  <2>5. \A b \in Borrowers :
          stable'.principal[b] - stable.principal[b] = IF b = u THEN 0 ELSE 0
    BY <2>1, Unmoved
  <2> QED
    BY <2>3, <2>4, <2>5 DEF told
<1> QED
  BY <1>2, <1>3

\* A debt is paid back.
LEMMA RepayFollows ==
    ASSUME ReserveIInv, NEW u \in Borrowers, NEW v \in Borrowers, NEW mode \in RateModes,
           NEW amount \in Amounts \cup {MAX}, NEW n,
           n = IF amount = MAX THEN DebtNow(v, mode) ELSE Least(amount, DebtNow(v, mode)),
           Repay(u, v, amount, mode)
    PROVE  /\ Follow(DebtBurnEvents(v, mode, n))
           /\ Follow(DebtBurnEvents(v, mode, n) \o Paying(u, aTokenAddress, n))
<1> DEFINE told == DebtBurnEvents(v, mode, n)
<1>1. BurnDebt(updateState, v, mode, n, available') /\ aToken' = aToken
  BY DEF Repay, DebtNow
<1>2. n \in Nat
  <2>1. DebtNow(v, mode) \in Nat
    BY Prepared, DebtOfType DEF DebtNow
  <2>2. amount \in Nat \/ amount = MAX
    BY AmountsType
  <2> QED
    BY <2>1, <2>2, AmountsType DEF Least
<1>3. PICK d, e : /\ Tells(told, v, 0, d, e)
                  /\ \A b \in Borrowers :
                       /\ Near(variableDebt, variableDebt', b, IF b = v THEN d ELSE 0)
                       /\ stable'.principal[b] - stable.principal[b] = IF b = v THEN e ELSE 0
  BY <1>1, <1>2, DebtBurnMoves
<1>4. Moved(v, 0, d, e)
  BY <1>1, <1>3, Unmoved DEF Moved
<1> HIDE DEF told
<1>5. Tells(told \o Paying(u, aTokenAddress, n), v, 0, d, e)
  BY <1>3, PaidAndTold
<1> QED
  BY <1>3, <1>4, <1>5, ToldAsMoved DEF told

\* A debt is paid with the aTokens of the debtor.
LEMMA RepayWithATokensFollows ==
    ASSUME ReserveIInv, NEW u \in Borrowers, NEW mode \in RateModes,
           NEW amount \in Amounts \cup {MAX}, NEW n,
           n = Least(Amount(amount, RayMul(aToken.scaled[u], updateState.liquidityIndex)),
                     DebtNow(u, mode)),
           RepayWithATokens(u, amount, mode)
    PROVE  Follow(DebtBurnEvents(u, mode, n)
                    \o ScaledBurnEvents("aToken", aToken, u, aTokenAddress, n, updateState.liquidityIndex))
<1> DEFINE i == updateState.liquidityIndex
           burnt == DebtBurnEvents(u, mode, n)
           told == ScaledBurnEvents("aToken", aToken, u, aTokenAddress, n, i)
<1>1. /\ BurnDebt(updateState, u, mode, n, available)
      /\ CanBurn(aToken, u, n, i) /\ aToken' = ScaledBurn(aToken, u, n, i)
  BY DEF RepayWithATokens, DebtNow
<1>2. aToken \in ScaledTokens /\ i \in Nat \ {0} /\ u \in Accounts
  BY Prepared, AccountsAreFinite
<1>3. n \in Nat
  <2>1. DebtNow(u, mode) \in Nat
    BY Prepared, DebtOfType DEF DebtNow
  <2>2. RayMul(aToken.scaled[u], i) \in Nat
    BY <1>2, RayMulType DEF ScaledTokens
  <2>3. Amount(amount, RayMul(aToken.scaled[u], i)) \in Nat
    BY <2>2, AmountsType DEF Amount
  <2> QED
    BY <2>1, <2>3 DEF Least
<1>4. PICK d, e : /\ Tells(burnt, u, 0, d, e)
                  /\ \A b \in Borrowers :
                       /\ Near(variableDebt, variableDebt', b, IF b = u THEN d ELSE 0)
                       /\ stable'.principal[b] - stable.principal[b] = IF b = u THEN e ELSE 0
  BY <1>1, <1>3, DebtBurnMoves
<1>5. PICK c : /\ ToldOf(told, "aToken", u, c)
               /\ \A b \in Borrowers : Near(aToken, ScaledBurn(aToken, u, n, i), b, IF b = u THEN c ELSE 0)
  <2>1. "aToken" \in {"aToken", "variableDebtToken"} /\ CanBurn(aToken, u, n, i)
    BY <1>1
  <2> HIDE DEF i, burnt
  <2> QED
    BY <1>2, <1>3, <2>1, BurnMoves
<1>6. Moved(u, c, d, e)
  BY <1>1, <1>4, <1>5 DEF Moved
<1> HIDE DEF burnt, told, i
<1>7. Tells(told, u, c, 0, 0) /\ Len(told) \in 0 .. 2
  BY <1>5, EventsTell DEF ToldOf
<1>8. Tells(burnt \o told, u, 0 + c, d + 0, e + 0)
  BY <1>4, <1>7, PartsTell
<1>9. 0 + c = c /\ d + 0 = d /\ e + 0 = e
  BY <1>4, <1>7, SMT DEF Tells
<1> QED
  BY <1>6, <1>8, <1>9, ToldAsMoved DEF burnt, told, i

\* A debt moves to the other rate.
LEMMA SwapFollows ==
    ASSUME ReserveIInv, NEW u \in Borrowers, NEW mode \in RateModes, NEW debt,
           debt = DebtNow(u, mode), SwapBorrowRateMode(u, mode)
    PROVE  Follow(DebtBurnEvents(u, mode, debt) \o
                    IF mode = "stable"
                    THEN ScaledMintEvents("variableDebtToken", variableDebt, u, u, debt,
                                          updateState.variableBorrowIndex)
                    ELSE StableBorrowEvents(stable, u, u, debt, stable'))
<1>1. PICK i : i = updateState.variableBorrowIndex
  OBVIOUS
<1>2. /\ variableDebt \in ScaledTokens /\ i \in Nat \ {0} /\ now \in Nat
      /\ stable \in StableTokens /\ ClocksBehind(stable) /\ debt \in Nat
  BY <1>1, Prepared, DebtOfType DEF DebtNow
<1>3. /\ aToken' = aToken /\ 0 \in Int
      /\ \A b \in Borrowers : Near(aToken, aToken', b, IF b = u THEN 0 ELSE 0)
  BY Unmoved, SMT DEF SwapBorrowRateMode
<1>4. PICK inc : inc = StableBalanceOf(stable, u) - stable.principal[u]
  OBVIOUS
<1>5. inc \in Int /\ inc - debt \in Int /\ debt + inc \in Int
  <2>1. StableBalanceOf(stable, u) \in Nat /\ stable.principal[u] \in Nat
    BY <1>2, BalanceTypes DEF StableTokens
  <2> QED
    BY <1>2, <1>4, <2>1, SMT
<1>6. CASE mode = "stable"
  <2> DEFINE burnt == StableBurnEvents(u, debt, Burnt(stable, u, debt))
             told == ScaledMintEvents("variableDebtToken", variableDebt, u, u, debt, i)
  <2>1. stable' = Burnt(stable, u, debt) /\ variableDebt' = ScaledMint(variableDebt, u, debt, i)
    BY <1>1, <1>6 DEF SwapBorrowRateMode, DebtNow
  <2>2. \A b \in Borrowers :
          stable'.principal[b] - stable.principal[b] = IF b = u THEN inc - debt ELSE 0
    BY <1>2, <1>4, <2>1, PrincipalBurnt
  <2>3. ToldOf(burnt, "stableDebtToken", u, inc - debt)
    BY <1>2, <1>4, <1>5, StableBurnTells
  <2>4. PICK d : /\ ToldOf(told, "variableDebtToken", u, d)
                 /\ \A b \in Borrowers : Near(variableDebt, variableDebt', b, IF b = u THEN d ELSE 0)
    BY <1>2, <2>1, MintMoves
  <2>5. Moved(u, 0, d, inc - debt)
    BY <1>3, <2>2, <2>4 DEF Moved
  <2>6. DebtBurnEvents(u, mode, debt) = burnt
    BY <1>6 DEF DebtBurnEvents
  <2> HIDE DEF burnt, told
  <2>7. /\ Tells(burnt, u, 0, 0, inc - debt) /\ Tells(told, u, 0, d, 0)
        /\ Len(told) \in 0 .. 2
    BY <2>3, <2>4, EventsTell DEF ToldOf
  <2>8. Tells(burnt \o told, u, 0 + 0, 0 + d, (inc - debt) + 0)
    BY <2>7, PartsTell
  <2>9. 0 + 0 = 0 /\ 0 + d = d /\ (inc - debt) + 0 = inc - debt
    BY <1>5, <2>7, SMT DEF Tells
  <2>10. Follow(burnt \o told)
    BY <2>5, <2>8, <2>9, ToldAsMoved
  <2> QED
    BY <1>1, <1>6, <2>6, <2>10 DEF told
<1>7. CASE mode # "stable"
  <2>a. PICK next : next = stable'
    OBVIOUS
  <2> DEFINE burnt == ScaledBurnEvents("variableDebtToken", variableDebt, u, ZERO_ADDRESS, debt, i)
             told == StableBorrowEvents(stable, u, u, debt, next)
  <2>1. /\ stable' = Minted(stable, u, debt, reserve.stableBorrowRate)
        /\ CanBurn(variableDebt, u, debt, i)
        /\ variableDebt' = ScaledBurn(variableDebt, u, debt, i)
    BY <1>1, <1>7 DEF SwapBorrowRateMode, DebtNow
  <2>2. \A b \in Borrowers :
          stable'.principal[b] - stable.principal[b] = IF b = u THEN debt + inc ELSE 0
    BY <1>2, <1>4, <2>1, PrincipalMinted
  <2>3. ToldOf(told, "stableDebtToken", u, debt + inc)
    BY <1>2, <1>4, StableBorrowTells
  <2>4. PICK d : /\ ToldOf(burnt, "variableDebtToken", u, d)
                 /\ \A b \in Borrowers : Near(variableDebt, variableDebt', b, IF b = u THEN d ELSE 0)
    BY <1>2, <2>1, BurnMoves
  <2>5. Moved(u, 0, d, debt + inc)
    BY <1>3, <2>2, <2>4 DEF Moved
  <2>6. DebtBurnEvents(u, mode, debt) = burnt
    BY <1>1, <1>7 DEF DebtBurnEvents
  <2> HIDE DEF burnt, told
  <2>7. /\ Tells(burnt, u, 0, d, 0) /\ Tells(told, u, 0, 0, debt + inc)
        /\ Len(told) \in 0 .. 2
    BY <2>3, <2>4, EventsTell DEF ToldOf
  <2>8. Tells(burnt \o told, u, 0 + 0, d + 0, 0 + (debt + inc))
    BY <2>7, PartsTell
  <2>9. 0 + 0 = 0 /\ d + 0 = d /\ 0 + (debt + inc) = debt + inc
    BY <1>5, <2>7, SMT DEF Tells
  <2>10. Follow(burnt \o told)
    BY <2>5, <2>8, <2>9, ToldAsMoved
  <2> QED
    BY <1>7, <2>6, <2>10, <2>a DEF told
<1> QED
  BY <1>6, <1>7

\* All of a stable debt is paid back and borrowed again, which moves the principal
\* by the interest.
LEMMA RebalanceFollows ==
    ASSUME ReserveIInv, NEW u \in Borrowers, NEW debt, debt = StableBalanceOf(stable, u),
           NEW burnt, burnt = Burnt(stable, u, debt), RebalanceStableBorrowRate(u)
    PROVE  Follow(StableBurnEvents(u, debt, burnt) \o StableBorrowEvents(burnt, u, u, debt, stable'))
<1>1. PICK next, rate : next = stable' /\ rate = reserve.stableBorrowRate
  OBVIOUS
<1> DEFINE first == StableBurnEvents(u, debt, burnt)
           last == StableBorrowEvents(burnt, u, u, debt, next)
<1>2. next = Minted(burnt, u, debt, rate) /\ UNCHANGED <<aToken, variableDebt>> /\ debt # 0
  BY <1>1 DEF RebalanceStableBorrowRate, Rebalanced
<1>3. /\ now \in Nat /\ stable \in StableTokens /\ ClocksBehind(stable)
      /\ debt \in Nat /\ debt \in 1 .. debt /\ stable.principal[u] \in Nat
  <2>1. /\ now \in Nat /\ stable \in StableTokens /\ ClocksBehind(stable) /\ debt \in Nat
        /\ stable.principal[u] \in Nat
    BY Prepared, BalanceTypes DEF StableTokens
  <2>2. debt \in 1 .. debt
    BY <1>2, <2>1, SMT
  <2> QED
    BY <2>1, <2>2
<1>4. burnt \in StableTokens /\ ClocksBehind(burnt)
  BY <1>3, BurntType
<1>5. PICK inc : inc = debt - stable.principal[u]
  OBVIOUS
<1>6. inc \in Int /\ inc - debt \in Int
  BY <1>3, <1>5, SMT
<1>7. \A b \in Borrowers :
        burnt.principal[b] - stable.principal[b] = IF b = u THEN inc - debt ELSE 0
  BY <1>3, <1>5, PrincipalBurnt
<1>8. burnt.principal[u] = 0 /\ StableBalanceOf(burnt, u) = 0
  <2>1. burnt.principal[u] \in Nat
    BY <1>4 DEF StableTokens
  <2>2. burnt.principal[u] - stable.principal[u] = inc - debt
    BY <1>7
  <2>3. burnt.principal[u] = 0
    BY <1>3, <1>5, <2>1, <2>2, SMT
  <2> QED
    BY <2>3 DEF StableBalanceOf
<1>9. debt + (StableBalanceOf(burnt, u) - burnt.principal[u]) = debt
  <2>1. debt + (0 - 0) = debt
    BY <1>3, SMT
  <2> QED
    BY <1>8, <2>1
<1>10. \A b \in Borrowers : next.principal[b] - burnt.principal[b] = IF b = u THEN debt ELSE 0
  BY <1>2, <1>3, <1>4, <1>9, PrincipalMinted
<1>11. ToldOf(first, "stableDebtToken", u, inc - debt)
  BY <1>3, <1>5, <1>6, StableBurnTells
<1>12. ToldOf(last, "stableDebtToken", u, debt)
  BY <1>3, <1>4, <1>9, StableBorrowTells
<1> HIDE DEF first, last
<1>13. /\ Tells(first, u, 0, 0, inc - debt) /\ Tells(last, u, 0, 0, debt)
       /\ Len(last) \in 0 .. 2
  BY <1>11, <1>12, EventsTell DEF ToldOf
<1>14. Tells(first \o last, u, 0 + 0, 0 + 0, (inc - debt) + debt)
  BY <1>13, PartsTell
<1>15. 0 + 0 = 0 /\ (inc - debt) + debt = inc
  BY <1>3, <1>6, SMT
<1>16. \A b \in Borrowers : next.principal[b] - stable.principal[b] = IF b = u THEN inc ELSE 0
  <2> TAKE b \in Borrowers
  <2>1. burnt.principal[b] \in Nat /\ stable.principal[b] \in Nat /\ next.principal[b] \in Nat
    <3>1. next \in StableTokens
      <4>1. rate \in Nat /\ debt \in Nat \ {0}
        BY <1>1, <1>2, <1>3, Prepared DEF Reserves
      <4> QED
        BY <1>2, <1>3, <1>4, <4>1, MintedType
    <3> QED
      BY <1>3, <1>4, <3>1 DEF StableTokens
  <2>2. CASE b = u
    BY <1>3, <1>6, <1>7, <1>10, <2>1, <2>2, SMT
  <2>3. CASE b # u
    BY <1>7, <1>10, <2>1, <2>3, SMT
  <2> QED
    BY <2>2, <2>3
<1>17. Moved(u, 0, 0, inc)
  BY <1>1, <1>2, <1>16, Unmoved DEF Moved
<1> QED
  BY <1>1, <1>14, <1>15, <1>17, ToldAsMoved DEF first, last

\* One whose units stay, and whose interest is told.
LEMMA NearKept ==
    ASSUME NEW t \in ScaledTokens, NEW next, NEW b \in Accounts, NEW i \in Nat,
           next.index[b] = i, next.scaled[b] = t.scaled[b]
    PROVE  Near(t, next, b, BalanceIncrease(t, b, i))
<1> DEFINE p == RayMul(t.scaled[b], i)
           x == RayMul(t.scaled[b], t.index[b])
<1>1. t.scaled[b] \in Nat /\ t.index[b] \in Nat
  BY DEF ScaledTokens
<1>2. p \in Nat /\ x \in Nat
  BY <1>1, RayMulType
<1>3. BalanceIncrease(t, b, i) = p - x /\ RayMul(next.scaled[b], next.index[b]) = p
  BY DEF BalanceIncrease
<1> HIDE DEF p, x
<1>4. (p - x) - (p - x) = 0 /\ 0 \in Int
  BY <1>2, SMT
<1>5. -(i + 2 * RAY) <= 2 * RAY * 0 /\ 2 * RAY * 0 <= i + 2 * RAY
  BY ScalesAreEven, SMT
<1>6. 0 \in -Rounding(i) .. Rounding(i)
  BY <1>4, <1>5, RoundingBounds
<1> QED
  BY <1>3, <1>4, <1>6 DEF Near, x

\* What a transfer moves: the interest of both, told once, and the amount.
TransferTold(u, v, n, i, b) ==
    ((IF b = u THEN BalanceIncrease(aToken, u, i) ELSE 0)
       + (IF u # v /\ b = v THEN BalanceIncrease(aToken, v, i) ELSE 0))
      + ((IF b = v THEN n ELSE 0) - (IF b = u THEN n ELSE 0))

\* Each holder is near to what it is told.
LEMMA TransferMoves ==
    ASSUME ReserveIInv, NEW u \in Borrowers, NEW v \in Borrowers, NEW n \in Amounts,
           NEW i, i = getNormalizedIncome, Transfer(u, v, n), NEW b \in Borrowers
    PROVE  Near(aToken, aToken', b, TransferTold(u, v, n, i, b))
<1> DEFINE moved == RayDiv(n, i)
           sent == WithScaled(aToken, u, aToken.scaled[u] - moved, i)
<1>1. moved <= aToken.scaled[u] /\ aToken' = WithScaled(sent, v, sent.scaled[v] + moved, i)
  BY DEF Transfer
<1>2. /\ n \in Nat /\ u \in Accounts /\ v \in Accounts /\ b \in Accounts /\ aToken \in ScaledTokens
      /\ aToken.scaled[u] \in Nat /\ aToken.scaled[v] \in Nat
      /\ i \in Nat \ {0}
  BY AmountsType, Prepared, AccountsAreFinite DEF ScaledTokens
<1>3. moved \in Nat
  BY <1>2, RayDivType
<1> HIDE DEF moved
<1>4. /\ sent \in [scaled : [Accounts -> Int], index : [Accounts -> Nat]]
      /\ sent.scaled[u] = aToken.scaled[u] - moved /\ sent.index[u] = i
      /\ \A a \in Accounts \ {u} : sent.scaled[a] = aToken.scaled[a] /\ sent.index[a] = aToken.index[a]
  BY <1>2, <1>3 DEF WithScaled, ScaledTokens
<1> HIDE DEF sent
<1>5. /\ aToken'.scaled[v] = sent.scaled[v] + moved /\ aToken'.index[v] = i
      /\ \A a \in Accounts \ {v} : aToken'.scaled[a] = sent.scaled[a] /\ aToken'.index[a] = sent.index[a]
  BY <1>1, <1>2, <1>4 DEF WithScaled
<1>6. BalanceIncrease(aToken, b, i) \in Int
  BY <1>2, InterestOfMint
<1>7. PICK next : next = aToken'
  OBVIOUS
<1>8. CASE b = u /\ u = v
  <2>1. next.index[b] = i /\ next.scaled[b] = aToken.scaled[b]
    <3>1. next.scaled[b] = aToken.scaled[u] - moved + moved
      BY <1>4, <1>5, <1>7, <1>8
    <3>2. next.scaled[b] = aToken.scaled[b]
      BY <1>2, <1>3, <1>8, <3>1, SMT
    <3> QED
      BY <1>5, <1>7, <1>8, <3>2
  <2>2. Near(aToken, next, b, BalanceIncrease(aToken, b, i))
    BY <1>2, <2>1, NearKept
  <2>3. TransferTold(u, v, n, i, b) = (BalanceIncrease(aToken, b, i) + 0) + (n - n)
    BY <1>8 DEF TransferTold
  <2>4. TransferTold(u, v, n, i, b) = BalanceIncrease(aToken, b, i)
    BY <1>2, <1>6, <2>3, SMT
  <2> QED
    BY <1>7, <2>2, <2>4
<1>9. CASE b = u /\ u # v
  <2>1. next.index[b] = i /\ next.scaled[b] = aToken.scaled[b] - moved
    BY <1>2, <1>4, <1>5, <1>7, <1>9
  <2>2. next.scaled[b] \in Nat /\ aToken.scaled[b] = next.scaled[b] + moved
    BY <1>1, <1>2, <1>3, <1>9, <2>1, SMT
  <2>3. Near(aToken, next, b, BalanceIncrease(aToken, b, i) - n)
    BY <1>2, <2>1, <2>2, NearLowered DEF moved
  <2>4. TransferTold(u, v, n, i, b) = (BalanceIncrease(aToken, b, i) + 0) + (0 - n)
    BY <1>9 DEF TransferTold
  <2>5. TransferTold(u, v, n, i, b) = BalanceIncrease(aToken, b, i) - n
    BY <1>2, <1>6, <2>4, SMT
  <2> QED
    BY <1>7, <2>3, <2>5
<1>10. CASE b = v /\ u # v
  <2>1. next.index[b] = i /\ next.scaled[b] = aToken.scaled[b] + moved
    BY <1>2, <1>4, <1>5, <1>7, <1>10
  <2>2. Near(aToken, next, b, n + BalanceIncrease(aToken, b, i))
    BY <1>2, <2>1, NearRaised DEF moved
  <2>3. TransferTold(u, v, n, i, b) = (0 + BalanceIncrease(aToken, b, i)) + (n - 0)
    BY <1>10 DEF TransferTold
  <2>4. TransferTold(u, v, n, i, b) = n + BalanceIncrease(aToken, b, i)
    BY <1>2, <1>6, <2>3, SMT
  <2> QED
    BY <1>7, <2>2, <2>4
<1>11. CASE b # u /\ b # v
  <2>1. next.scaled[b] = aToken.scaled[b] /\ next.index[b] = aToken.index[b]
    BY <1>2, <1>4, <1>5, <1>7, <1>11
  <2>2. Near(aToken, next, b, 0)
    BY <1>2, <2>1, NearAsItWas
  <2>3. TransferTold(u, v, n, i, b) = 0
    BY <1>11, SMT DEF TransferTold
  <2> QED
    BY <1>7, <2>2, <2>3
<1> QED
  BY <1>8, <1>9, <1>10, <1>11

\* What the two last events of a transfer tell.
LEMMA PassingTells ==
    ASSUME NEW u \in Borrowers, NEW v \in Borrowers, NEW n \in Nat, NEW moved, NEW i,
           NEW k \in Tokens, NEW b \in Borrowers
    PROVE  AddUp(k, <<Event("aToken", "Transfer", <<u, v, n>>),
                      Event("aToken", "BalanceTransfer", <<u, v, moved, i>>)>>, b,
                 IF k = "aToken" THEN (IF b = v THEN n ELSE 0) - (IF b = u THEN n ELSE 0) ELSE 0)
<1> DEFINE args == <<u, v, n>>
           p == Event("aToken", "Transfer", args)
           q == Event("aToken", "BalanceTransfer", <<u, v, moved, i>>)
           d == IF k = "aToken" THEN (IF b = v THEN n ELSE 0) - (IF b = u THEN n ELSE 0) ELSE 0
<1>1. args[1] = u /\ args[2] = v /\ args[3] = n /\ ZERO_ADDRESS \notin {u, v}
  BY ZeroIsNobody
<1> HIDE DEF args
<1>2. Gain(k, p, b) = d
  BY <1>1, SMT DEF Gain, Event
<1>3. Gain(k, q, b) = 0
  BY SMT DEF Gain, Event
<1>4. d \in Int /\ 0 \in Int /\ d + 0 = d
  BY SMT
<1> HIDE DEF p, q, d
<1>5. AddUp(k, <<p>>, b, d) /\ AddUp(k, <<q>>, b, 0)
  BY <1>2, <1>3, <1>4, FewAddUp
<1>6. Len(<<q>>) \in 0 .. 2 /\ <<p>> \o <<q>> = <<p, q>>
  BY PairJoined
<1>7. AddUp(k, <<p>> \o <<q>>, b, d + 0)
  BY <1>5, <1>6, AddedUp
<1> QED
  BY <1>4, <1>6, <1>7 DEF p, q, d, args

\* So the events of a transfer tell what it moves, of one who sends to oneself too.
LEMMA TransferFollows ==
    ASSUME ReserveIInv, NEW caller, NEW u \in Borrowers, NEW v \in Borrowers, NEW n \in Amounts,
           Transfer(u, v, n)
    PROVE  Follow(TransferEvents(caller, u, v, n, getNormalizedIncome))
<1>1. PICK i, from, into : /\ i = getNormalizedIncome
                           /\ from = BalanceIncrease(aToken, u, i)
                           /\ into = BalanceIncrease(aToken, v, i)
  OBVIOUS
<1> DEFINE c == InterestEvents(caller, u, from, i)
           d == IF u # v THEN InterestEvents(caller, v, into, i) ELSE << >>
           e == <<Event("aToken", "Transfer", <<u, v, n>>),
                  Event("aToken", "BalanceTransfer", <<u, v, RayDiv(n, i), i>>)>>
<1>2. TransferEvents(caller, u, v, n, getNormalizedIncome) = (c \o d) \o e
  BY <1>1 DEF TransferEvents
<1>3. /\ n \in Nat /\ u \in Accounts /\ v \in Accounts
      /\ aToken \in ScaledTokens /\ i \in Nat \ {0} /\ NotAhead(aToken, i)
  BY <1>1, AmountsType, Prepared, AccountsAreFinite
<1>4. \A a \in Accounts : BalanceIncrease(aToken, a, i) \in Nat
  <2> TAKE a \in Accounts
  <2>1. aToken.scaled[a] \in Nat /\ aToken.index[a] \in Nat /\ aToken.index[a] <= i /\ i \in Nat
    BY <1>3 DEF ScaledTokens, NotAhead
  <2>2. RayMul(aToken.scaled[a], aToken.index[a]) <= RayMul(aToken.scaled[a], i)
    BY <2>1, RayMulMonotone
  <2>3. RayMul(aToken.scaled[a], aToken.index[a]) \in Nat /\ RayMul(aToken.scaled[a], i) \in Nat
    BY <2>1, RayMulType
  <2> QED
    BY <2>2, <2>3, SMT DEF BalanceIncrease
<1>5. from \in Nat /\ into \in Nat /\ 0 \in Int
  BY <1>1, <1>3, <1>4, SMT
<1>6. \A k \in Tokens, b \in Borrowers :
        AddUp(k, c, b, IF k = "aToken" /\ b = u THEN from ELSE 0)
  BY <1>5, InterestTells DEF ToldOf
<1>7. /\ Len(d) \in 0 .. 2
      /\ \A k \in Tokens, b \in Borrowers :
           AddUp(k, d, b, IF k = "aToken" /\ u # v /\ b = v THEN into ELSE 0)
  <2>1. CASE u # v
    <3>1. ToldOf(InterestEvents(caller, v, into, i), "aToken", v, into)
      BY <1>5, InterestTells
    <3> QED
      BY <2>1, <3>1 DEF ToldOf
  <2>2. CASE u = v
    <3>1. Len(<< >>) \in 0 .. 2
      BY SMT
    <3> QED
      BY <2>2, <3>1, FewAddUp
  <2> QED
    BY <2>1, <2>2
<1>8. /\ Len(e) \in 0 .. 2
      /\ \A k \in Tokens, b \in Borrowers :
           AddUp(k, e, b, IF k = "aToken" THEN (IF b = v THEN n ELSE 0) - (IF b = u THEN n ELSE 0)
                          ELSE 0)
  BY <1>3, PassingTells, PairJoined
<1> HIDE DEF c, d, e
<1>9. ASSUME NEW k \in Tokens, NEW b \in Borrowers
      PROVE  AddUp(k, (c \o d) \o e, b,
                   ((IF k = "aToken" /\ b = u THEN from ELSE 0)
                      + (IF k = "aToken" /\ u # v /\ b = v THEN into ELSE 0))
                     + (IF k = "aToken" THEN (IF b = v THEN n ELSE 0) - (IF b = u THEN n ELSE 0)
                        ELSE 0))
  <2>1. PICK x, y, z : /\ x = IF k = "aToken" /\ b = u THEN from ELSE 0
                       /\ y = IF k = "aToken" /\ u # v /\ b = v THEN into ELSE 0
                       /\ z = IF k = "aToken"
                              THEN (IF b = v THEN n ELSE 0) - (IF b = u THEN n ELSE 0) ELSE 0
    OBVIOUS
  <2>2. AddUp(k, c, b, x) /\ AddUp(k, d, b, y) /\ AddUp(k, e, b, z)
    BY <1>6, <1>7, <1>8, <2>1
  <2>3. AddUp(k, c \o d, b, x + y)
    BY <1>7, <2>2, AddedUp
  <2>4. AddUp(k, (c \o d) \o e, b, (x + y) + z)
    BY <1>8, <2>2, <2>3, AddedUp
  <2> QED
    BY <2>1, <2>4
<1>10. ASSUME NEW b \in Borrowers
       PROVE  /\ AddUp("aToken", (c \o d) \o e, b, TransferTold(u, v, n, i, b))
              /\ AddUp("variableDebtToken", (c \o d) \o e, b, 0)
              /\ AddUp("stableDebtToken", (c \o d) \o e, b, 0)
  <2>1. \A k \in Tokens : k # "aToken" => AddUp(k, (c \o d) \o e, b, 0)
    <3>1. (0 + 0) + 0 = 0
      BY SMT
    <3> QED
      BY <1>9, <3>1
  <2>2. "aToken" \in Tokens /\ "variableDebtToken" \in Tokens /\ "stableDebtToken" \in Tokens
    BY DEF Tokens
  <2>3. AddUp("aToken", (c \o d) \o e, b, TransferTold(u, v, n, i, b))
    BY <1>1, <1>9, <2>2 DEF TransferTold
  <2> QED
    BY <2>1, <2>2, <2>3
<1>11. \A b \in Borrowers : Near(aToken, aToken', b, TransferTold(u, v, n, i, b))
  BY <1>1, TransferMoves
<1>12. UNCHANGED <<variableDebt, stable>>
  BY DEF Transfer
<1>13. \A b \in Borrowers : /\ Near(variableDebt, variableDebt', b, 0)
                            /\ stable'.principal[b] - stable.principal[b] = 0
  BY <1>12, Unmoved
<1> QED
  BY <1>2, <1>10, <1>11, <1>13 DEF Follow

\* A step that leaves the tokens alone, or mints only for the treasury.
LEMMA QuietFollows ==
    ASSUME ReserveIInv, aToken' = aToken, variableDebt' = variableDebt, stable' = stable
    PROVE  Follow(<< >>)
<1>1. ASSUME NEW b \in Borrowers
      PROVE  /\ Near(aToken, aToken', b, 0) /\ Near(variableDebt, variableDebt', b, 0)
             /\ stable'.principal[b] - stable.principal[b] = 0
  BY Unmoved
<1>2. ASSUME NEW b \in Borrowers, NEW k PROVE AddUp(k, << >>, b, 0)
  BY FewAddUp
<1> QED
  BY <1>1, <1>2 DEF Follow

\* The treasury is no holder whose events are added up.
LEMMA TreasuryFollows ==
    ASSUME ReserveIInv, MintToTreasury
    PROVE  Follow(<< >>)
<1>1. PICK n, i : /\ n = RayMul(reserve.accruedToTreasury, i) /\ i = getNormalizedIncome
                  /\ aToken' = ScaledMint(aToken, Treasury, n, i)
                  /\ UNCHANGED <<variableDebt, stable>>
  BY DEF MintToTreasury
<1>2. aToken \in ScaledTokens /\ i \in Nat \ {0} /\ reserve.accruedToTreasury \in Nat
  BY <1>1, Prepared DEF Reserves
<1>3. n \in Nat
  BY <1>1, <1>2, RayMulType
<1>4. Treasury \in Accounts /\ Borrowers \subseteq Accounts /\ Treasury \notin Borrowers
  BY AccountsAreFinite, ReserveParameters DEF Accounts
<1>5. ASSUME NEW b \in Borrowers
      PROVE  /\ Near(aToken, aToken', b, 0) /\ Near(variableDebt, variableDebt', b, 0)
             /\ stable'.principal[b] - stable.principal[b] = 0
  <2>1. Near(aToken, ScaledMint(aToken, Treasury, n, i), b,
             IF b = Treasury THEN n + BalanceIncrease(aToken, Treasury, i) ELSE 0)
    BY <1>2, <1>3, <1>4, NearMinted
  <2>2. b # Treasury
    BY <1>4
  <2> QED
    BY <1>1, <2>1, <2>2, Unmoved
<1>6. ASSUME NEW b \in Borrowers, NEW k PROVE AddUp(k, << >>, b, 0)
  BY FewAddUp
<1> QED
  BY <1>5, <1>6 DEF Follow

\* The events of a transaction, read by a helper or not: a supply, a withdrawal and
\* a transfer.
LEMMA SupplyStepFollows ==
    ASSUME ReserveIInv, EmitSupplySteps(Amounts) \/ EmitWithdrawAllSteps
    PROVE  \E events : Applied(events) /\ Follow(events)
<1>1. ASSUME NEW u \in Borrowers, NEW v \in Borrowers, NEW n \in Amounts, EmitSupply(u, v, n)
      PROVE  \E events : Applied(events) /\ Follow(events)
  <2>1. /\ aToken' = ScaledMint(aToken, v, n, updateState.liquidityIndex)
        /\ UNCHANGED <<variableDebt, stable>> /\ n \in Nat
    BY <1>1, AmountsType DEF EmitSupply, Supply, MintATokens
  <2>2. PICK told : told = ScaledMintEvents("aToken", aToken, u, v, n, updateState.liquidityIndex)
    OBVIOUS
  <2>3. Follow(Paying(u, aTokenAddress, n) \o told)
    BY <2>1, <2>2, ATokensTold
  <2>4. Applied(Paying(u, aTokenAddress, n) \o told)
    BY <1>1, <2>2 DEF EmitSupply, Receipt, Unread
  <2> QED
    BY <2>3, <2>4
<1>2. ASSUME NEW u \in Borrowers, NEW v \in Borrowers, NEW n \in Amounts, EmitWithdraw(u, v, n)
      PROVE  \E events : Applied(events) /\ Follow(events)
  <2>1. n = Amount(n, RayMul(aToken.scaled[u], updateState.liquidityIndex)) /\ Withdraw(u, v, n)
    BY <1>2, AmountsType DEF Amount, EmitWithdraw
  <2>2. PICK told : told = ScaledBurnEvents("aToken", aToken, u, v, n, updateState.liquidityIndex)
    OBVIOUS
  <2>3. Follow(told \o Paying(aTokenAddress, v, n))
    BY <2>1, <2>2, WithdrawFollows
  <2>4. Applied(told \o Paying(aTokenAddress, v, n))
    BY <1>2, <2>2 DEF EmitWithdraw, Receipt, Unread
  <2> QED
    BY <2>3, <2>4
<1>3. ASSUME NEW w \in Borrowers, NEW u \in Borrowers, NEW v \in Borrowers, NEW n \in Amounts,
             EmitTransfer(w, u, v, n)
      PROVE  \E events : Applied(events) /\ Follow(events)
  <2>1. Follow(TransferEvents(w, u, v, n, getNormalizedIncome))
    BY <1>3, TransferFollows DEF EmitTransfer
  <2>2. Applied(TransferEvents(w, u, v, n, getNormalizedIncome))
    BY <1>3 DEF EmitTransfer, Receipt, Unread
  <2> QED
    BY <2>1, <2>2
<1>4. ASSUME NEW u \in Borrowers, NEW v \in Borrowers, EmitWithdrawAll(u, v)
      PROVE  \E events : Applied(events) /\ Follow(events)
  <2>1. PICK n : n = RayMul(aToken.scaled[u], updateState.liquidityIndex)
    OBVIOUS
  <2>2. PICK told : told = ScaledBurnEvents("aToken", aToken, u, v, n, updateState.liquidityIndex)
    OBVIOUS
  <2>3. n = Amount(MAX, RayMul(aToken.scaled[u], updateState.liquidityIndex)) /\ Withdraw(u, v, MAX)
    BY <1>4, <2>1 DEF Amount, EmitWithdrawAll
  <2>4. Follow(told)
    BY <2>2, <2>3, WithdrawFollows
  <2>5. Applied(told)
    BY <1>4, <2>1, <2>2 DEF EmitWithdrawAll, Unread
  <2> QED
    BY <2>4, <2>5
<1> QED
  BY <1>1, <1>2, <1>3, <1>4 DEF EmitSupplySteps, EmitWithdrawAllSteps

\* The events of a loan.
LEMMA BorrowStepFollows ==
    ASSUME ReserveIInv, EmitBorrowSteps(Amounts)
    PROVE  \E events : Applied(events) /\ Follow(events)
<1>1. ASSUME NEW u \in Borrowers, NEW v \in Borrowers, NEW n \in Amounts, EmitVariableBorrow(u, v, n)
      PROVE  \E events : Applied(events) /\ Follow(events)
  <2>1. PICK told : told = ScaledMintEvents("variableDebtToken", variableDebt, u, v, n,
                                            updateState.variableBorrowIndex)
    OBVIOUS
  <2>2. Follow(told \o Paying(aTokenAddress, u, n))
    BY <1>1, <2>1, VariableBorrowFollows DEF EmitVariableBorrow
  <2>3. Applied(told \o Paying(aTokenAddress, u, n))
    BY <1>1, <2>1 DEF EmitVariableBorrow, Receipt, Unread
  <2> QED
    BY <2>2, <2>3
<1>2. ASSUME NEW u \in Borrowers, NEW v \in Borrowers, NEW n \in Amounts, EmitStableBorrow(u, v, n)
      PROVE  \E events : Applied(events) /\ Follow(events)
  <2>1. PICK told : told = StableBorrowEvents(stable, u, v, n,
                                              Minted(stable, v, n, reserve.stableBorrowRate))
    OBVIOUS
  <2>2. Follow(told \o Paying(aTokenAddress, u, n))
    BY <1>2, <2>1, StableBorrowFollows DEF EmitStableBorrow
  <2>3. Applied(told \o Paying(aTokenAddress, u, n))
    BY <1>2, <2>1 DEF EmitStableBorrow, Receipt, Unread
  <2> QED
    BY <2>2, <2>3
<1> QED
  BY <1>1, <1>2 DEF EmitBorrowSteps

\* The events of a repayment: of a part, or of all of a debt.
LEMMA RepayStepFollows ==
    ASSUME ReserveIInv, EmitRepaySteps(Amounts) \/ EmitRepayAllSteps(Amounts)
    PROVE  \E events : Applied(events) /\ Follow(events)
<1>1. ASSUME NEW u \in Borrowers, NEW v \in Borrowers, NEW n \in Amounts, NEW mode \in RateModes,
             Repay(u, v, n, mode), n <= DebtNow(v, mode)
      PROVE  Follow(DebtBurnEvents(v, mode, n) \o Paying(u, aTokenAddress, n))
  <2>1. n = IF n = MAX THEN DebtNow(v, mode) ELSE Least(n, DebtNow(v, mode))
    BY <1>1, AmountsType DEF Least
  <2>2. n \in Amounts \cup {MAX}
    OBVIOUS
  <2> QED
    BY <1>1, <2>1, <2>2, RepayFollows
<1>2. ASSUME NEW u \in Borrowers, NEW v \in Borrowers, NEW n \in Amounts, EmitRepayVariable(u, v, n)
      PROVE  \E events : Applied(events) /\ Follow(events)
  <2>1. PICK told : told = DebtBurnEvents(v, "variable", n)
    OBVIOUS
  <2>2. Repay(u, v, n, "variable") /\ "variable" \in RateModes /\ n <= DebtNow(v, "variable")
    BY <1>2 DEF EmitRepayVariable, DebtNow, DebtOf, RateModes
  <2>3. Follow(told \o Paying(u, aTokenAddress, n))
    BY <1>1, <2>1, <2>2
  <2>4. told = ScaledBurnEvents("variableDebtToken", variableDebt, v, ZERO_ADDRESS, n,
                                updateState.variableBorrowIndex)
    BY <2>1 DEF DebtBurnEvents
  <2>5. Applied(told \o Paying(u, aTokenAddress, n))
    BY <1>2, <2>4 DEF EmitRepayVariable, Receipt, Unread
  <2> QED
    BY <2>3, <2>5
<1>3. ASSUME NEW u \in Borrowers, NEW v \in Borrowers, NEW n \in Amounts, EmitRepayStable(u, v, n)
      PROVE  \E events : Applied(events) /\ Follow(events)
  <2>1. PICK told : told = DebtBurnEvents(v, "stable", n)
    OBVIOUS
  <2>2. Repay(u, v, n, "stable") /\ "stable" \in RateModes /\ n <= DebtNow(v, "stable")
    BY <1>3 DEF EmitRepayStable, DebtNow, DebtOf, RateModes
  <2>3. Follow(told \o Paying(u, aTokenAddress, n))
    BY <1>1, <2>1, <2>2
  <2>4. told = StableBurnEvents(v, n, Burnt(stable, v, n))
    BY <2>1 DEF DebtBurnEvents
  <2>5. Applied(told \o Paying(u, aTokenAddress, n))
    BY <1>3, <2>4 DEF EmitRepayStable, Receipt, Unread
  <2> QED
    BY <2>3, <2>5
<1>4. ASSUME NEW u \in Borrowers, NEW v \in Borrowers, NEW n \in Amounts \cup {MAX},
             NEW mode \in RateModes, EmitRepayAll(u, v, n, mode)
      PROVE  \E events : Applied(events) /\ Follow(events)
  <2>1. DebtNow(v, mode) \in Nat
    BY Prepared, DebtOfType DEF DebtNow
  <2>2. PICK debt : debt = DebtNow(v, mode)
    OBVIOUS
  <2>3. debt = IF n = MAX THEN DebtNow(v, mode) ELSE Least(n, DebtNow(v, mode))
    <3>1. CASE n = MAX
      BY <2>2, <3>1
    <3>2. CASE n # MAX
      <4>1. n \in Nat /\ n > debt
        BY <1>4, <2>2, <3>2, AmountsType DEF EmitRepayAll
      <4> QED
        BY <2>1, <2>2, <3>2, <4>1, SMT DEF Least
    <3> QED
      BY <3>1, <3>2
  <2>4. Follow(DebtBurnEvents(v, mode, debt))
    BY <1>4, <2>3, RepayFollows DEF EmitRepayAll
  <2>5. Applied(DebtBurnEvents(v, mode, debt))
    BY <1>4, <2>2 DEF EmitRepayAll, Unread
  <2> QED
    BY <2>4, <2>5
<1> QED
  BY <1>2, <1>3, <1>4 DEF EmitRepaySteps, EmitRepayAllSteps

\* The events of a change of the rate, and of a repayment with aTokens.
LEMMA SwapStepFollows ==
    ASSUME ReserveIInv, EmitSwapSteps(Amounts) \/ EmitRebalanceSteps
    PROVE  \E events : Applied(events) /\ Follow(events)
<1>1. ASSUME NEW u \in Borrowers, NEW mode \in RateModes, EmitSwap(u, mode)
      PROVE  \E events : Applied(events) /\ Follow(events)
  <2>1. PICK debt : debt = DebtNow(u, mode)
    OBVIOUS
  <2>2. PICK told : told = DebtBurnEvents(u, mode, debt) \o
                             IF mode = "stable"
                             THEN ScaledMintEvents("variableDebtToken", variableDebt, u, u, debt,
                                                   updateState.variableBorrowIndex)
                             ELSE StableBorrowEvents(stable, u, u, debt, stable')
    OBVIOUS
  <2>3. Applied(told) /\ SwapBorrowRateMode(u, mode)
    BY <1>1, <2>1, <2>2 DEF EmitSwap, Unread
  <2>4. Follow(told)
    BY <2>1, <2>2, <2>3, SwapFollows
  <2> QED
    BY <2>3, <2>4
<1>2. ASSUME NEW u \in Borrowers, NEW mode \in RateModes, NEW n \in Amounts \cup {MAX},
             EmitRepayWithATokens(u, n, mode)
      PROVE  \E events : Applied(events) /\ Follow(events)
  <2>1. PICK payback :
          payback = Least(Amount(n, RayMul(aToken.scaled[u], updateState.liquidityIndex)),
                          DebtNow(u, mode))
    OBVIOUS
  <2>2. PICK told : told = DebtBurnEvents(u, mode, payback)
                             \o ScaledBurnEvents("aToken", aToken, u, aTokenAddress, payback,
                                                 updateState.liquidityIndex)
    OBVIOUS
  <2>3. Applied(told) /\ RepayWithATokens(u, n, mode)
    BY <1>2, <2>1, <2>2 DEF EmitRepayWithATokens, Unread
  <2>4. Follow(told)
    BY <2>1, <2>2, <2>3, RepayWithATokensFollows
  <2> QED
    BY <2>3, <2>4
<1>3. ASSUME NEW u \in Borrowers, EmitRebalance(u)
      PROVE  \E events : Applied(events) /\ Follow(events)
  <2>1. PICK debt : debt = StableBalanceOf(stable, u)
    OBVIOUS
  <2>2. PICK burnt : burnt = Burnt(stable, u, debt)
    OBVIOUS
  <2>3. PICK told : told = StableBurnEvents(u, debt, burnt)
                             \o StableBorrowEvents(burnt, u, u, debt, stable')
    OBVIOUS
  <2>4. Applied(told) /\ RebalanceStableBorrowRate(u)
    BY <1>3, <2>1, <2>2, <2>3 DEF EmitRebalance, Unread
  <2>5. Follow(told)
    BY <2>1, <2>2, <2>3, <2>4, RebalanceFollows
  <2> QED
    BY <2>4, <2>5
<1> QED
  BY <1>1, <1>2, <1>3 DEF EmitSwapSteps, EmitRebalanceSteps

\* The events of a bridge, and of operations that emit none of a token.
LEMMA QuietStepFollows ==
    ASSUME ReserveIInv,
           \/ EmitApproveSteps(Amounts) \/ EmitBridgeSteps(Amounts) \/ Silent(CollateralSteps)
           \/ Silent(MintToTreasury) \/ Silent(FlashSteps) \/ Silent(NextBlock)
    PROVE  \E events : Applied(events) /\ Follow(events)
<1>1. ASSUME NEW u \in Borrowers, NEW n \in Amounts, EmitMintUnbacked(u, n)
      PROVE  \E events : Applied(events) /\ Follow(events)
  <2>1. /\ aToken' = ScaledMint(aToken, u, n, updateState.liquidityIndex)
        /\ UNCHANGED <<variableDebt, stable>> /\ n \in Nat
    BY <1>1, AmountsType DEF EmitMintUnbacked, MintUnbacked, MintATokens
  <2>2. PICK told : told = ScaledMintEvents("aToken", aToken, u, u, n, updateState.liquidityIndex)
    OBVIOUS
  <2>3. Follow(told)
    BY <2>1, <2>2, ATokensTold
  <2>4. Applied(told)
    BY <1>1, <2>2 DEF EmitMintUnbacked, Unread
  <2> QED
    BY <2>3, <2>4
<1>2. ASSUME Applied(<< >>), aToken' = aToken, variableDebt' = variableDebt, stable' = stable
      PROVE  \E events : Applied(events) /\ Follow(events)
  BY <1>2, QuietFollows
<1>3. CASE Silent(MintToTreasury)
  BY <1>3, TreasuryFollows DEF Silent, Unread
<1>4. CASE EmitApproveSteps(Amounts)
  BY <1>2, <1>4 DEF EmitApproveSteps, ApproveDelegation, Unread
<1>5. CASE EmitBridgeSteps(Amounts)
  BY <1>1, <1>2, <1>5 DEF EmitBridgeSteps, BackUnbacked, Unread
<1>6. CASE Silent(CollateralSteps)
  BY <1>2, <1>6 DEF Silent, CollateralSteps, SetUserUseReserveAsCollateral, Unread
<1>7. CASE Silent(FlashSteps)
  <2>1. aToken' = aToken /\ variableDebt' = variableDebt /\ stable' = stable
    BY <1>7 DEF Silent, FlashSteps, FlashLoan, FlashLoanRepayment
  <2> QED
    BY <1>2, <1>7, <2>1 DEF Silent, Unread
<1>8. CASE Silent(NextBlock)
  BY <1>2, <1>8 DEF Silent, NextBlock, Tick, Unread
<1> QED
  BY <1>3, <1>4, <1>5, <1>6, <1>7, <1>8

\* Whatever the operation is, its events tell each holder what moves.
LEMMA StepFollows ==
    ASSUME ReserveIInv, EventsNext
    PROVE  \E events : Applied(events) /\ Follow(events)
  BY SupplyStepFollows, BorrowStepFollows, RepayStepFollows, SwapStepFollows, QuietStepFollows
     DEF EventsNext

\* Who adds up the events gets whole numbers.
Ledger == fromEvents \in [Tokens -> [Borrowers -> Int]]

\* An operation adds whole numbers to them.
LEMMA LedgerKept ==
    ASSUME Ledger, NEW events, Applied(events), Follow(events)
    PROVE  Ledger'
<1>1. ASSUME NEW b \in Borrowers, NEW k \in Tokens PROVE Gains(k, events, b) \in Int
  BY DEF Follow, AddUp, Tokens
<1>2. \A k \in Tokens, b \in Borrowers : fromEvents[k][b] + Gains(k, events, b) \in Int
  BY <1>1 DEF Ledger
<1> QED
  BY <1>2 DEF Applied, Ledger

\* So it is in every state.
LEMMA LedgerAlways == EventsSpec => []Ledger
<1>1. EventsInit => Ledger
  BY SMT DEF EventsInit, Ledger
<1>2. ASSUME ReserveIInv, Ledger, [EventsNext]_<<reserveVars, eventVars>>
      PROVE  Ledger'
  <2>1. CASE UNCHANGED <<reserveVars, eventVars>>
    BY <1>2, <2>1 DEF eventVars, Ledger
  <2>2. CASE EventsNext
    BY <1>2, <2>2, StepFollows, LedgerKept
  <2> QED
    BY <1>2, <2>1, <2>2
<1> QED
  BY <1>1, <1>2, EventsOfReserve, PTL DEF EventsSpec

\* Who adds up the events that the tokens emit knows the balances of their holders,
\* up to one rounding for each operation, and a stable debt exactly: Mint and Burn
\* tell the interest once, whatever the operation is (BalancesFromEvents of module
\* TokenizationEvents).
THEOREM BalancesAreTold == EventsSpec => BalancesFromEvents
<1>1. ASSUME ReserveIInv, ReserveIInv', Ledger, EventsNext, NEW u \in Borrowers
      PROVE  /\ Off("aToken", u)' - Off("aToken", u)
                  \in -Rounding(aToken'.index[u]) .. Rounding(aToken'.index[u])
             /\ Off("variableDebtToken", u)' - Off("variableDebtToken", u)
                  \in -Rounding(variableDebt'.index[u]) .. Rounding(variableDebt'.index[u])
             /\ Off("stableDebtToken", u)' - Off("stableDebtToken", u) = 0
  <2>1. PICK events : Applied(events) /\ Follow(events)
    BY <1>1, StepFollows
  <2>2. "aToken" \in Tokens /\ "variableDebtToken" \in Tokens /\ "stableDebtToken" \in Tokens
    BY DEF Tokens
  <2>3. \A k \in Tokens : /\ fromEvents[k][u] \in Int
                          /\ fromEvents'[k][u] = fromEvents[k][u] + Gains(k, events, u)
    BY <1>1, <2>1 DEF Ledger, Applied
  <2>4. ASSUME NEW t \in ScaledTokens, NEW next \in ScaledTokens, NEW d, NEW f \in Int, NEW g,
               d \in Int, Near(t, next, u, d), g = f + d
        PROVE  (g - RayMul(next.scaled[u], next.index[u])) - (f - RayMul(t.scaled[u], t.index[u]))
                 \in -Rounding(next.index[u]) .. Rounding(next.index[u])
    <3>1. PICK x, y : x = RayMul(t.scaled[u], t.index[u]) /\ y = RayMul(next.scaled[u], next.index[u])
      OBVIOUS
    <3>2. x \in Nat /\ y \in Nat
      <4>1. u \in Accounts
        BY <1>1, AccountsAreFinite
      <4> QED
        BY <3>1, <4>1, RayMulType DEF ScaledTokens
    <3>3. (g - y) - (f - x) = d - (y - x)
      BY <2>4, <3>2, SMT
    <3> QED
      BY <2>4, <3>1, <3>3 DEF Near
  <2>5. /\ aToken \in ScaledTokens /\ aToken' \in ScaledTokens
        /\ variableDebt \in ScaledTokens /\ variableDebt' \in ScaledTokens
        /\ stable \in StableTokens /\ stable' \in StableTokens
    BY <1>1 DEF ReserveIInv, ReserveTypeOK, StableTypeOK
  <2>6. Off("aToken", u)' - Off("aToken", u)
          \in -Rounding(aToken'.index[u]) .. Rounding(aToken'.index[u])
    <3>1. PICK d : AddUp("aToken", events, u, d) /\ Near(aToken, aToken', u, d)
      BY <1>1, <2>1 DEF Follow
    <3>2. d \in Int /\ fromEvents'["aToken"][u] = fromEvents["aToken"][u] + d
      BY <2>2, <2>3, <3>1 DEF AddUp
    <3> QED
      BY <2>2, <2>3, <2>4, <2>5, <3>1, <3>2 DEF Off
  <2>7. Off("variableDebtToken", u)' - Off("variableDebtToken", u)
          \in -Rounding(variableDebt'.index[u]) .. Rounding(variableDebt'.index[u])
    <3>1. PICK d : AddUp("variableDebtToken", events, u, d) /\ Near(variableDebt, variableDebt', u, d)
      BY <1>1, <2>1 DEF Follow
    <3>2. d \in Int /\ fromEvents'["variableDebtToken"][u] = fromEvents["variableDebtToken"][u] + d
      BY <2>2, <2>3, <3>1 DEF AddUp
    <3> QED
      BY <2>2, <2>3, <2>4, <2>5, <3>1, <3>2 DEF Off
  <2>8. Off("stableDebtToken", u)' - Off("stableDebtToken", u) = 0
    <3>1. AddUp("stableDebtToken", events, u, stable'.principal[u] - stable.principal[u])
      BY <1>1, <2>1 DEF Follow
    <3>2. fromEvents'["stableDebtToken"][u]
            = fromEvents["stableDebtToken"][u] + (stable'.principal[u] - stable.principal[u])
      BY <2>2, <2>3, <3>1 DEF AddUp
    <3>3. stable'.principal[u] \in Nat /\ stable.principal[u] \in Nat
      BY <1>1, <2>5 DEF StableTokens
    <3>4. (fromEvents'["stableDebtToken"][u] - stable'.principal[u])
            - (fromEvents["stableDebtToken"][u] - stable.principal[u]) = 0
      BY <2>2, <2>3, <3>2, <3>3, SMT
    <3> QED
      BY <3>4 DEF Off
  <2> QED
    BY <2>6, <2>7, <2>8
<1>2. ASSUME ReserveIInv, ReserveIInv', Ledger, [EventsNext]_<<reserveVars, eventVars>>
      PROVE  [\A u \in Borrowers :
                LET Drift(token) == Off(token, u)' - Off(token, u)
                    AtMost(n)    == -n .. n
                IN  /\ Drift("aToken") \in AtMost(Rounding(aToken'.index[u]))
                    /\ Drift("variableDebtToken") \in AtMost(Rounding(variableDebt'.index[u]))
                    /\ Drift("stableDebtToken") = 0]_<<reserveVars, eventVars>>
  BY <1>1, <1>2
<1> QED
  BY <1>2, EventsOfReserve, LedgerAlways, PTL DEF EventsSpec, BalancesFromEvents
=============================================================================
