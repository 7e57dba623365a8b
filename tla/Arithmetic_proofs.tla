-------------------------- MODULE Arithmetic_proofs --------------------------
(***************************************************************************)
(* What the proofs need to know of numbers: what scaling to an index and   *)
(* back does, for every scale and every value, and what happens to the sum *)
(* over a finite set (a total supply, a value in base currency) when one   *)
(* of its terms changes.                                                   *)
(***************************************************************************)
EXTENDS WadRayMath, Functions, FiniteSetTheorems, TLAPS

\* Facts about the quotient that the solvers are slow to find by themselves.
LEMMA QuotientBounds ==
    ASSUME NEW n \in Nat, NEW d \in Nat \ {0}
    PROVE  /\ n \div d \in Nat
           /\ d * (n \div d) <= n
           /\ n < d * (n \div d) + d
  BY SMT

\* The bounds determine the quotient.
LEMMA QuotientUnique ==
    ASSUME NEW n \in Nat, NEW d \in Nat \ {0}, NEW q \in Nat,
           d * q <= n, n < d * q + d
    PROVE  n \div d = q
<1>1. /\ n \div d \in Nat
      /\ d * (n \div d) <= n
      /\ n < d * (n \div d) + d
  BY QuotientBounds
<1> DEFINE r == n \div d
<1> HIDE DEF r
<1>2. r \in Nat /\ d * r <= n /\ n < d * r + d
  BY <1>1 DEF r
<1>3. d * r < d * (q + 1) /\ d * q < d * (r + 1)
  BY <1>2, SMT
<1>4. r < q + 1 /\ q < r + 1
  BY <1>2, <1>3, SMT
<1>5. r = q
  BY <1>2, <1>4, SMT
<1> QED
  BY <1>5 DEF r

\* HALF_RAY is exactly half of RAY.
LEMMA RayIsEven == \E h \in Nat \ {0} : RAY = 2 * h
<1>1. RAY \in Nat /\ RAY # 0 /\ RAY % 2 = 0
  BY ScalesAreEven
<1>2. RAY \div 2 \in Nat \ {0} /\ RAY = 2 * (RAY \div 2)
  BY <1>1, SMT
<1> QED
  BY <1>2

\* rayMul of naturals is a natural.
LEMMA RayMulType ==
    ASSUME NEW a \in Nat, NEW b \in Nat
    PROVE  RayMul(a, b) \in Nat
<1>1. RAY \in Nat \ {0} /\ HALF_RAY \in Nat
  BY ScalesAreEven, SMT DEF HALF_RAY
<1>2. a * b + HALF_RAY \in Nat
  BY <1>1, SMT
<1> QED
  BY <1>1, <1>2, QuotientBounds DEF RayMul

\* rayDiv by a positive number is a natural.
LEMMA RayDivType ==
    ASSUME NEW a \in Nat, NEW b \in Nat \ {0}
    PROVE  RayDiv(a, b) \in Nat
<1>1. RAY \in Nat
  BY ScalesAreEven, SMT
<1>2. a * RAY + b \div 2 \in Nat
  BY <1>1, SMT
<1> QED
  BY <1>2, QuotientBounds DEF RayDiv

\* percentMul of naturals is a natural.
LEMMA PercentMulType ==
    ASSUME NEW v \in Nat, NEW p \in Nat
    PROVE  PercentMul(v, p) \in Nat
<1>1. PERCENTAGE_FACTOR \in Nat \ {0} /\ PERCENTAGE_FACTOR \div 2 \in Nat
  BY ScalesAreEven, SMT
<1>2. v * p + PERCENTAGE_FACTOR \div 2 \in Nat
  BY <1>1, SMT
<1> QED
  BY <1>1, <1>2, QuotientBounds DEF PercentMul

\* percentDiv by a positive number is a natural.
LEMMA PercentDivType ==
    ASSUME NEW v \in Nat, NEW p \in Nat \ {0}
    PROVE  PercentDiv(v, p) \in Nat
<1>1. PERCENTAGE_FACTOR \in Nat
  BY ScalesAreEven, SMT
<1>2. v * PERCENTAGE_FACTOR + p \div 2 \in Nat
  BY <1>1, SMT
<1> QED
  BY <1>2, QuotientBounds DEF PercentDiv

\* An index never shrinks what it scales: an index of one ray or more gives
\* a balance at least as large as the scaled balance, so that a balance of
\* zero means a scaled balance of zero (repay and liquidationCall rely on it
\* when they clear the borrowing flag because the remaining balance is zero).
LEMMA RayMulGrows ==
    ASSUME NEW s \in Nat, NEW i \in Nat, i >= RAY
    PROVE  RayMul(s, i) >= s
<1>1. PICK h \in Nat \ {0} : RAY = 2 * h
  BY RayIsEven
<1>2. RAY \in Nat \ {0} /\ HALF_RAY = h
  BY <1>1, SMT DEF HALF_RAY
<1> DEFINE q == RayMul(s, i)
<1>3. q \in Nat /\ s * i + h < RAY * q + RAY
  <2>1. s * i + h \in Nat
    BY <1>1, SMT
  <2> QED
    BY <1>2, <2>1, QuotientBounds DEF RayMul
<1> HIDE DEF q
<1>4. s * RAY <= s * i
  BY <1>2, SMT
<1>5. RAY * s < RAY * (q + 1)
  BY <1>2, <1>3, <1>4, SMT
<1>6. s < q + 1
  BY <1>2, <1>3, <1>5, SMT
<1> QED
  BY <1>3, <1>6, SMT DEF q

\* A balance is rounded to the nearest unit.
LEMMA RayMulRounds ==
    ASSUME NEW s \in Nat, NEW i \in Nat
    PROVE  2 * (s * i) - RAY <= 2 * (RAY * RayMul(s, i)) /\ 2 * (RAY * RayMul(s, i)) <= 2 * (s * i) + RAY
<1>1. PICK h \in Nat \ {0} : RAY = 2 * h
  BY RayIsEven
<1>2. RAY \in Nat \ {0} /\ HALF_RAY = h
  BY <1>1, SMT DEF HALF_RAY
<1> DEFINE q == RayMul(s, i)
           x == s * i
           y == RAY * q
<1>3. x \in Nat /\ x + h \in Nat
  BY SMT
<1>4. y <= x + h /\ x + h < y + RAY /\ y \in Nat
  <2>1. q = (x + h) \div RAY
    BY <1>2 DEF RayMul
  <2> HIDE DEF x
  <2>2. q \in Nat /\ RAY * q <= x + h /\ x + h < RAY * q + RAY
    BY <1>2, <1>3, <2>1, QuotientBounds
  <2> HIDE DEF q
  <2> QED
    BY <1>2, <2>2, SMT
<1> HIDE DEF x, y
<1>5. 2 * x - RAY <= 2 * y /\ 2 * y <= 2 * x + RAY
  BY <1>1, <1>2, <1>3, <1>4, SMT
<1> QED
  BY <1>5 DEF x, y

\* An amount is rounded to the nearest scaled unit.
LEMMA RayDivRounds ==
    ASSUME NEW n \in Nat, NEW i \in Nat \ {0}
    PROVE  /\ 2 * (n * RAY) - i <= 2 * (i * RayDiv(n, i))
           /\ 2 * (i * RayDiv(n, i)) <= 2 * (n * RAY) + i
<1> DEFINE d == RayDiv(n, i)
           x == n * RAY
           y == i * d
           h == i \div 2
<1>1. x \in Nat /\ h \in Nat /\ x + h \in Nat /\ 2 * h <= i /\ i <= 2 * h + 1
  BY ScalesAreEven, SMT
<1>2. y <= x + h /\ x + h < y + i /\ y \in Nat
  <2>1. d = (x + h) \div i
    BY DEF RayDiv
  <2> HIDE DEF x, h
  <2>2. d \in Nat /\ i * d <= x + h /\ x + h < i * d + i
    BY <1>1, <2>1, QuotientBounds
  <2> HIDE DEF d
  <2> QED
    BY <2>2, SMT
<1> HIDE DEF x, y, h
<1>3. 2 * x - i <= 2 * y /\ 2 * y <= 2 * x + i
  BY <1>1, <1>2, SMT
<1> QED
  BY <1>3 DEF x, y, d

\* Adding an amount as scaled units adds it to the balance, up to half a scaled
\* unit and the halves of the balances before and after.
LEMMA SharesRound ==
    ASSUME NEW s \in Nat, NEW n \in Nat, NEW i \in Nat \ {0}, NEW off \in Int,
           off = n + RayMul(s, i) - RayMul(s + RayDiv(n, i), i)
    PROVE  -(i + 2 * RAY) <= 2 * RAY * off /\ 2 * RAY * off <= i + 2 * RAY
<1> DEFINE d == RayDiv(n, i)
           p == RayMul(s, i)
           q == RayMul(s + d, i)
<1>1. RAY \in Nat /\ d \in Nat /\ s + d \in Nat
  BY ScalesAreEven, RayDivType, SMT
<1>2. p \in Nat /\ q \in Nat
  BY <1>1, RayMulType
<1>3. 2 * (s * i) - RAY <= 2 * (RAY * p) /\ 2 * (RAY * p) <= 2 * (s * i) + RAY
  BY RayMulRounds
<1>4. 2 * ((s + d) * i) - RAY <= 2 * (RAY * q) /\ 2 * (RAY * q) <= 2 * ((s + d) * i) + RAY
  BY <1>1, RayMulRounds
<1>5. 2 * (n * RAY) - i <= 2 * (i * d) /\ 2 * (i * d) <= 2 * (n * RAY) + i
  BY RayDivRounds
<1>6. off = n + p - q
  OBVIOUS
<1> HIDE DEF p, q, d
<1>7. /\ (s + d) * i = s * i + i * d
      /\ 2 * RAY * off = 2 * (n * RAY) + 2 * (RAY * p) - 2 * (RAY * q)
  <2>1. \A k, x, y, z \in Nat : k * (x + y - z) = x * k + k * y - k * z
    BY SMT
  <2>2. RAY * off = n * RAY + RAY * p - RAY * q
    <3>1. RAY * (n + p - q) = n * RAY + RAY * p - RAY * q
      <4>1. RAY \in Nat /\ n \in Nat /\ p \in Nat /\ q \in Nat
        BY <1>1, <1>2
      <4> QED
        BY ONLY <2>1, <4>1
    <3> QED
      BY <1>6, <3>1
  <2>3. 2 * RAY * off = 2 * (RAY * off) /\ (s + d) * i = s * i + i * d
    BY <1>1, SMT
  <2>4. n * RAY \in Int /\ RAY * p \in Int /\ RAY * q \in Int
    BY <1>1, <1>2, SMT
  <2> QED
    BY <2>2, <2>3, <2>4, SMT
<1>8. s * i \in Int /\ i * d \in Int /\ n * RAY \in Int /\ RAY * p \in Int /\ RAY * q \in Int
  BY <1>1, <1>2, SMT
<1> QED
  BY <1>1, <1>3, <1>4, <1>5, <1>7, <1>8, SMT

\* A larger dividend has no smaller quotient.
LEMMA QuotientMonotone ==
    ASSUME NEW n \in Nat, NEW m \in Nat, n <= m, NEW d \in Nat \ {0}
    PROVE  n \div d <= m \div d
<1> DEFINE p == n \div d
           q == m \div d
<1>1. p \in Nat /\ q \in Nat /\ d * p <= n /\ m < d * q + d
  BY QuotientBounds
<1> HIDE DEF p, q
<1>2. d * p < d * (q + 1)
  BY <1>1, SMT
<1>3. p < q + 1
  BY <1>1, <1>2, SMT
<1>4. p <= q
  BY <1>1, <1>3, SMT
<1> QED
  BY <1>4 DEF p, q

\* rayMul does not tell its factors apart.
LEMMA RayMulCommutes ==
    ASSUME NEW a \in Nat, NEW b \in Nat
    PROVE  RayMul(a, b) = RayMul(b, a)
<1>1. a * b = b * a
  BY SMT
<1> QED
  BY <1>1 DEF RayMul

\* A larger factor has no smaller product.
LEMMA RayMulMonotone ==
    ASSUME NEW s \in Nat, NEW a \in Nat, NEW b \in Nat, a <= b
    PROVE  RayMul(s, a) <= RayMul(s, b)
<1>1. PICK h \in Nat \ {0} : RAY = 2 * h
  BY RayIsEven
<1>2. HALF_RAY = h
  BY <1>1, SMT DEF HALF_RAY
<1>3. s * a + h \in Nat /\ s * b + h \in Nat /\ RAY \in Nat \ {0}
  BY <1>1, SMT
<1>4. s * a + h <= s * b + h
  BY SMT
<1> QED
  BY <1>2, <1>3, <1>4, QuotientMonotone DEF RayMul

\* Rounding half up does not make something out of nothing.
LEMMA RayMulZero ==
    ASSUME NEW i \in Nat
    PROVE  RayMul(0, i) = 0
<1>1. RAY \in Nat \ {0} /\ HALF_RAY \in Nat /\ HALF_RAY < RAY
  BY ScalesAreEven, SMT DEF HALF_RAY
<1>2. 0 * i + HALF_RAY = HALF_RAY
  BY <1>1, SMT
<1>3. HALF_RAY \div RAY = 0
  <2>1. RAY * 0 <= HALF_RAY /\ HALF_RAY < RAY * 0 + RAY
    BY <1>1, SMT
  <2> QED
    BY <1>1, <2>1, QuotientUnique
<1> QED
  BY <1>2, <1>3 DEF RayMul

\* A balance computed from a scaled balance, divided by the same index,
\* gives back exactly the scaled balance: burning or transferring "all of
\* it" (withdraw of the whole balance, repay of the whole debt, the switch
\* of the rate mode) leaves no dust and never exceeds the scaled balance.
THEOREM RayDivOfRayMul ==
    ASSUME NEW s \in Nat, NEW i \in Nat, i >= RAY
    PROVE  RayDiv(RayMul(s, i), i) = s
<1>1. PICK h \in Nat \ {0} : RAY = 2 * h
  BY RayIsEven
<1>2. RAY \in Nat \ {0} /\ HALF_RAY = h /\ i \in Nat \ {0}
  BY <1>1, SMT DEF HALF_RAY
<1> DEFINE q == RayMul(s, i)
<1>3. /\ q \in Nat
      /\ RAY * q <= s * i + h
      /\ s * i + h < RAY * q + RAY
  <2>1. s * i + h \in Nat
    BY <1>1, SMT
  <2> QED
    BY <1>2, <2>1, QuotientBounds DEF RayMul
<1> HIDE DEF q
<1> DEFINE g == i \div 2
<1>4. g \in Nat /\ 2 * g <= i /\ i < 2 * g + 2 /\ h <= g
  BY <1>1, <1>2, SMT
<1> HIDE DEF g
<1>5. RAY * q = q * RAY /\ s * i = i * s /\ q * RAY \in Nat /\ i * s \in Nat
  BY <1>2, <1>3, SMT
<1>6. i * s <= q * RAY + g
  BY <1>1, <1>3, <1>4, <1>5, SMT
<1>7. q * RAY + g < i * s + i
  <2>1. q * RAY <= i * s + h
    BY <1>3, <1>5, SMT
  <2>2. CASE i = RAY
    <3>1. i * s = RAY * s /\ g = h
      BY <2>2, <1>1, <1>4, SMT
    <3>2. RAY * q < RAY * (s + 1)
      BY <2>1, <3>1, <1>1, <1>3, <1>5, SMT
    <3>3. q < s + 1
      BY <3>2, <1>2, <1>3, SMT
    <3>4. q <= s
      BY <3>3, <1>3, SMT
    <3>5. RAY * q <= RAY * s
      BY <3>4, <1>2, <1>3, SMT
    <3> QED
      BY <3>1, <3>5, <2>2, <1>1, <1>5, SMT
  <2>3. CASE i # RAY
    BY <2>1, <2>3, <1>1, <1>4, <1>5, SMT
  <2> QED
    BY <2>2, <2>3
<1>8. (q * RAY + g) \div i = s
  BY <1>2, <1>4, <1>5, <1>6, <1>7, QuotientUnique
<1> QED
  BY <1>8 DEF RayDiv, q, g

\* A part of an amount, up to all of it, is no more than the amount: the fee
\* of a liquidation, the share of the debt a liquidator may cover.
LEMMA PercentMulShrinks ==
    ASSUME NEW v \in Nat, NEW p \in Nat, p <= PERCENTAGE_FACTOR
    PROVE  PercentMul(v, p) <= v
<1> DEFINE f == PERCENTAGE_FACTOR
           q == PercentMul(v, p)
<1>1. f \in Nat \ {0} /\ f \div 2 \in Nat /\ 2 * (f \div 2) <= f
  BY ScalesAreEven, SMT
<1>2. v * p + f \div 2 \in Nat
  BY <1>1, SMT
<1>3. q \in Nat /\ f * q <= v * p + f \div 2
  BY <1>1, <1>2, QuotientBounds DEF PercentMul
<1>4. v * p <= v * f
  BY <1>1, SMT
<1> HIDE DEF q
<1>5. f * q < f * (v + 1)
  <2>1. f * q <= v * f + f \div 2 /\ v * f = f * v /\ v * f \in Nat
    BY <1>1, <1>3, <1>4, SMT
  <2>2. f * (v + 1) = f * v + f
    BY <1>1, SMT
  <2> QED
    BY <1>1, <1>3, <2>1, <2>2, SMT
<1>6. q < v + 1
  BY <1>1, <1>3, <1>5, SMT
<1> QED
  BY <1>3, <1>6, SMT DEF q

\* Taking a bonus of zero or more off an amount does not make it larger.
LEMMA PercentDivShrinks ==
    ASSUME NEW v \in Nat, NEW p \in Nat, p >= PERCENTAGE_FACTOR
    PROVE  PercentDiv(v, p) <= v
<1> DEFINE f == PERCENTAGE_FACTOR
           q == PercentDiv(v, p)
<1>1. f \in Nat \ {0} /\ p \in Nat \ {0} /\ p \div 2 \in Nat /\ p \div 2 < p
  BY ScalesAreEven, SMT
<1>2. v * f + p \div 2 \in Nat
  BY <1>1, SMT
<1>3. q \in Nat /\ p * q <= v * f + p \div 2
  BY <1>1, <1>2, QuotientBounds DEF PercentDiv
<1>4. v * f <= v * p
  BY <1>1, SMT
<1> HIDE DEF q
<1>5. p * q < p * (v + 1)
  <2>1. p * q < p * v + p
    BY <1>1, <1>3, <1>4, SMT
  <2> QED
    BY <1>1, <2>1, SMT
<1>6. q < v + 1
  BY <1>1, <1>3, <1>5, SMT
<1> QED
  BY <1>3, <1>6, SMT DEF q

\* At an index of one ray scaling changes nothing.
LEMMA RayIsNeutral ==
    ASSUME NEW x \in Nat
    PROVE  RayMul(x, RAY) = x /\ RayDiv(x, RAY) = x
<1>1. PICK h \in Nat \ {0} : RAY = 2 * h
  BY RayIsEven
<1>2. RAY \in Nat \ {0} /\ RAY \div 2 = h /\ h < RAY
  BY <1>1, SMT
<1>3. /\ x * RAY + h \in Nat
      /\ RAY * x <= x * RAY + h
      /\ x * RAY + h < RAY * x + RAY
  BY <1>1, <1>2, SMT
<1>4. (x * RAY + h) \div RAY = x
  BY <1>2, <1>3, QuotientUnique
<1> QED
  BY <1>2, <1>4 DEF RayMul, RayDiv, HALF_RAY

-----------------------------------------------------------------------------
(* Sums.  A fold is a recursive function, so that facts about it need an   *)
(* induction: here over the subsets of the set summed over, by looking at  *)
(* a minimal subset of which the fact would be false.                      *)

\* Every non-empty set of natural numbers has a least element.
LEMMA LeastNumber ==
    ASSUME NEW T, T \subseteq Nat, T # {}
    PROVE  \E n \in T : \A m \in T : n <= m
<1> DEFINE R == OpToRel(<, Nat)
<1>1. IsWellFoundedOn(R, Nat)
  BY NatLessThanWellFounded, Zenon
<1>2. \A m, n \in Nat : <<m, n>> \in R <=> m < n
  BY DEF OpToRel
<1> HIDE DEF R
<1>3. PICK n \in T : \A m \in T : ~ (<<m, n>> \in R)
  BY <1>1, WFMin
<1>4. ASSUME NEW m \in T PROVE n <= m
  <2>1. m \in Nat /\ n \in Nat /\ ~ (m < n)
    BY <1>2, <1>3
  <2> QED
    BY <2>1
<1> QED
  BY <1>4

\* ... and every non-empty set of subsets of a finite set a minimal one.
LEMMA LeastSubset ==
    ASSUME NEW S, IsFiniteSet(S), NEW B, B \subseteq SUBSET S, B # {}
    PROVE  \E T \in B : \A U \in B : ~ (U \subseteq T /\ U # T)
<1>1. B \subseteq FiniteSubsetsOf(S)
  BY FS_Subset DEF FiniteSubsetsOf
<1>2. \E T \in B : \A U \in B : ~ (<<U, T>> \in StrictSubsetOrdering(S))
  BY <1>1, FS_StrictSubsetOrderingWellFounded, WFMin
<1>3. \A U, T \in B : <<U, T>> \in StrictSubsetOrdering(S) <=> U \subseteq T /\ U # T
  BY DEF StrictSubsetOrdering
<1> QED
  BY <1>2, <1>3

Picked(s) == CHOOSE x \in s : TRUE
SumStep(f, g, s) == IF s = {} THEN 0 ELSE f[Picked(s)] + g[s \ {Picked(s)}]
SumTable(f, S) == CHOOSE g : g = [s \in SUBSET S |-> SumStep(f, g, s)]

\* The sum over S is the entry of S in a table of the sums over its subsets,
\* each of them one element more than another.
LEMMA SumIsTabled == \A f, S : SumFunctionOnSet(f, S) = SumTable(f, S)[S]
BY DEF SumFunctionOnSet, FoldFunctionOnSet, MapThenFoldSet, SumTable, SumStep, Picked

\* The element a sum takes out leaves a smaller finite set.
LEMMA PickedOut ==
    ASSUME NEW s, IsFiniteSet(s), s # {}
    PROVE  /\ Picked(s) \in s
           /\ IsFiniteSet(s \ {Picked(s)})
           /\ Cardinality(s) \in Nat \ {0}
           /\ Cardinality(s \ {Picked(s)}) = Cardinality(s) - 1
<1>1. Picked(s) \in s
  BY DEF Picked
<1> QED
  BY <1>1, FS_RemoveElement, FS_CardinalityType, FS_EmptySet

\* There is such a table, for any values: it can be filled in by cardinality.
LEMMA TableExists ==
    ASSUME NEW f, NEW S, IsFiniteSet(S)
    PROVE  \E g : g = [s \in SUBSET S |-> SumStep(f, g, s)]
<1> DEFINE UpTo(n, g) == \A s \in SUBSET S : Cardinality(s) <= n => g[s] = SumStep(f, g, s)
           Next(g) == [s \in SUBSET S |-> SumStep(f, g, s)]
           Bad == {n \in Nat : ~ \E g : UpTo(n, g)}
<1>1. \A s \in SUBSET S : IsFiniteSet(s) /\ Cardinality(s) \in Nat
                            /\ Cardinality(s) <= Cardinality(S)
  BY FS_Subset, FS_CardinalityType
<1>2. UpTo(0, Next([s \in SUBSET S |-> 0]))
  <2> SUFFICES ASSUME NEW s \in SUBSET S, Cardinality(s) <= 0
               PROVE  Next([t \in SUBSET S |-> 0])[s] = SumStep(f, Next([t \in SUBSET S |-> 0]), s)
    OBVIOUS
  <2>1. s = {}
    BY <1>1, FS_EmptySet
  <2> QED
    BY <2>1 DEF SumStep
<1>3. ASSUME NEW n \in Nat, NEW g, UpTo(n, g)
      PROVE  UpTo(n + 1, Next(g))
  <2> SUFFICES ASSUME NEW s \in SUBSET S, Cardinality(s) <= n + 1
               PROVE  Next(g)[s] = SumStep(f, Next(g), s)
    OBVIOUS
  <2>1. CASE s = {}
    BY <2>1 DEF SumStep
  <2>2. CASE s # {}
    <3> DEFINE t == s \ {Picked(s)}
    <3>1. t \in SUBSET S /\ Cardinality(t) <= n
      BY <1>1, <2>2, PickedOut
    <3>2. Next(g)[t] = g[t]
      BY <1>3, <3>1
    <3> QED
      BY <2>2, <3>2 DEF SumStep
  <2> QED
    BY <2>1, <2>2
<1>4. Bad = {}
  <2> SUFFICES ASSUME Bad # {} PROVE FALSE
    OBVIOUS
  <2>1. PICK n \in Bad : \A m \in Bad : n <= m
    BY LeastNumber
  <2> HIDE DEF UpTo, Next
  <2>2. n \in Nat /\ n # 0
    BY <1>2, <2>1
  <2>3. n - 1 \in Nat /\ n - 1 \notin Bad
    BY <2>1, <2>2
  <2>4. PICK g : UpTo(n - 1, g)
    BY <2>3
  <2>5. UpTo(n - 1 + 1, Next(g))
    BY <1>3, <2>3, <2>4
  <2>6. n - 1 + 1 = n
    BY <2>2
  <2> QED
    BY <2>1, <2>5, <2>6
<1>5. Cardinality(S) \in Nat
  BY <1>1
<1> HIDE DEF UpTo
<1>6. PICK g : UpTo(Cardinality(S), g)
  BY <1>4, <1>5
<1>7. \A s \in SUBSET S : g[s] = SumStep(f, g, s)
  BY <1>1, <1>6 DEF UpTo
<1>8. \A s \in SUBSET S : SumStep(f, g, s) = SumStep(f, Next(g), s)
  <2> SUFFICES ASSUME NEW s \in SUBSET S, s # {}
               PROVE  g[s \ {Picked(s)}] = Next(g)[s \ {Picked(s)}]
    BY DEF SumStep
  <2> QED
    BY <1>7
<1> HIDE DEF Bad
<1>9. Next(g) = [s \in SUBSET S |-> SumStep(f, Next(g), s)]
  BY <1>8
<1> QED
  BY <1>9

\* Hence the chosen table satisfies its equation.
LEMMA TableEquation ==
    ASSUME NEW f, NEW S, IsFiniteSet(S), NEW s \in SUBSET S
    PROVE  SumTable(f, S)[s] = SumStep(f, SumTable(f, S), s)
<1> DEFINE g == SumTable(f, S)
<1>1. g = [t \in SUBSET S |-> SumStep(f, g, t)]
  BY TableExists DEF SumTable
<1> HIDE DEF g
<1> QED
  BY <1>1 DEF g

\* A sum depends neither on the values outside of the set it is over, nor on
\* the set the table is made for.
LEMMA SumsAgree ==
    ASSUME NEW f, NEW e, NEW S, NEW T, IsFiniteSet(S), IsFiniteSet(T),
           NEW s, s \subseteq S, s \subseteq T, \A x \in s : f[x] = e[x]
    PROVE  SumTable(f, S)[s] = SumTable(e, T)[s]
<1> DEFINE Bad == {t \in SUBSET s : SumTable(f, S)[t] # SumTable(e, T)[t]}
<1> SUFFICES ASSUME Bad # {} PROVE FALSE
  OBVIOUS
<1>a. Bad \subseteq SUBSET s
  OBVIOUS
<1> HIDE DEF Bad
<1>1. IsFiniteSet(s)
  BY FS_Subset
<1>2. PICK t \in Bad : \A u \in Bad : ~ (u \subseteq t /\ u # t)
  BY <1>a, <1>1, LeastSubset
<1>b. t \in SUBSET s
  BY <1>a
<1> USE DEF Bad
<1>3. /\ SumTable(f, S)[t] = SumStep(f, SumTable(f, S), t)
      /\ SumTable(e, T)[t] = SumStep(e, SumTable(e, T), t)
  BY TableEquation
<1>4. t # {}
  BY <1>3 DEF SumStep
<1>5. Picked(t) \in t /\ t \ {Picked(t)} \in SUBSET s /\ t \ {Picked(t)} # t
  BY <1>4 DEF Picked
<1>6. SumTable(f, S)[t \ {Picked(t)}] = SumTable(e, T)[t \ {Picked(t)}]
  BY <1>2, <1>5
<1>7. f[Picked(t)] = e[Picked(t)]
  BY <1>5
<1> QED
  BY <1>3, <1>4, <1>6, <1>7 DEF SumStep

\* Functions with the same values on a set have the same sum over it.
LEMMA SumDependsOnValues ==
    ASSUME NEW S, IsFiniteSet(S), NEW f, NEW e, \A x \in S : f[x] = e[x]
    PROVE  SumFunctionOnSet(f, S) = SumFunctionOnSet(e, S)
BY SumsAgree, SumIsTabled

\* The empty sum.
LEMMA SumOfNone == \A f : SumFunctionOnSet(f, {}) = 0
BY TableEquation, SumIsTabled, FS_EmptySet DEF SumStep

\* The equation without the table: the sum without one element.
LEMMA SumOfPicked ==
    ASSUME NEW S, IsFiniteSet(S), S # {}, NEW f
    PROVE  SumFunctionOnSet(f, S) = f[Picked(S)] + SumFunctionOnSet(f, S \ {Picked(S)})
<1>1. SumFunctionOnSet(f, S) = f[Picked(S)] + SumTable(f, S)[S \ {Picked(S)}]
  BY TableEquation, SumIsTabled DEF SumStep
<1>2. SumTable(f, S)[S \ {Picked(S)}] = SumTable(f, S \ {Picked(S)})[S \ {Picked(S)}]
  BY PickedOut, SumsAgree
<1> QED
  BY <1>1, <1>2, SumIsTabled

\* A sum of natural numbers is one.
LEMMA SumIsNat ==
    ASSUME NEW S, IsFiniteSet(S), NEW f, \A x \in S : f[x] \in Nat
    PROVE  SumFunctionOnSet(f, S) \in Nat
<1> DEFINE Bad == {t \in SUBSET S : SumFunctionOnSet(f, t) \notin Nat}
<1> SUFFICES ASSUME Bad # {} PROVE FALSE
  OBVIOUS
<1>a. Bad \subseteq SUBSET S
  OBVIOUS
<1> HIDE DEF Bad
<1>1. PICK t \in Bad : \A u \in Bad : ~ (u \subseteq t /\ u # t)
  BY <1>a, LeastSubset
<1>b. t \in SUBSET S
  BY <1>a
<1> USE DEF Bad
<1>2. IsFiniteSet(t) /\ t # {}
  <2>1. IsFiniteSet(t)
    BY <1>b, FS_Subset
  <2>2. SumFunctionOnSet(f, t) \notin Nat
    OBVIOUS
  <2> QED
    BY <2>1, <2>2, SumOfNone
<1>3. Picked(t) \in t /\ t \ {Picked(t)} \in SUBSET S /\ t \ {Picked(t)} # t
  BY <1>2, PickedOut
<1>4. SumFunctionOnSet(f, t \ {Picked(t)}) \in Nat
  BY <1>1, <1>3
<1>5. SumFunctionOnSet(f, t) = f[Picked(t)] + SumFunctionOnSet(f, t \ {Picked(t)})
  BY <1>2, SumOfPicked
<1>6. f[Picked(t)] \in Nat
  BY <1>3
<1> QED
  BY <1>4, <1>5, <1>6

\* A sum of integers is one.
LEMMA SumIsInt ==
    ASSUME NEW S, IsFiniteSet(S), NEW f, \A x \in S : f[x] \in Int
    PROVE  SumFunctionOnSet(f, S) \in Int
<1> DEFINE Bad == {t \in SUBSET S : SumFunctionOnSet(f, t) \notin Int}
<1> SUFFICES ASSUME Bad # {} PROVE FALSE
  OBVIOUS
<1>a. Bad \subseteq SUBSET S
  OBVIOUS
<1> HIDE DEF Bad
<1>1. PICK t \in Bad : \A u \in Bad : ~ (u \subseteq t /\ u # t)
  BY <1>a, LeastSubset
<1>b. t \in SUBSET S
  BY <1>a
<1> USE DEF Bad
<1>2. IsFiniteSet(t) /\ t # {}
  <2>1. IsFiniteSet(t)
    BY <1>b, FS_Subset
  <2>2. SumFunctionOnSet(f, t) \notin Int
    OBVIOUS
  <2> QED
    BY <2>1, <2>2, SumOfNone
<1>3. Picked(t) \in t /\ t \ {Picked(t)} \in SUBSET S /\ t \ {Picked(t)} # t
  BY <1>2, PickedOut
<1>4. SumFunctionOnSet(f, t \ {Picked(t)}) \in Int
  BY <1>1, <1>3
<1>5. SumFunctionOnSet(f, t) = f[Picked(t)] + SumFunctionOnSet(f, t \ {Picked(t)})
  BY <1>2, SumOfPicked
<1>6. f[Picked(t)] \in Int
  BY <1>3
<1> QED
  BY <1>4, <1>5, <1>6

\* Any element can be taken out of a sum, not only the one that is picked.
LEMMA SumOfAny ==
    ASSUME NEW S, IsFiniteSet(S), NEW f, \A x \in S : f[x] \in Int
    PROVE  \A y \in S : SumFunctionOnSet(f, S) = f[y] + SumFunctionOnSet(f, S \ {y})
<1> DEFINE Splits(t) == \A y \in t : SumFunctionOnSet(f, t) = f[y] + SumFunctionOnSet(f, t \ {y})
           Bad == {t \in SUBSET S : ~ Splits(t)}
<1> SUFFICES ASSUME Bad # {} PROVE FALSE
  OBVIOUS
<1>a. Bad \subseteq SUBSET S
  OBVIOUS
<1> HIDE DEF Bad
<1> HIDE DEF Splits
<1>1. PICK t \in Bad : \A u \in Bad : ~ (u \subseteq t /\ u # t)
  BY <1>a, LeastSubset
<1>b. t \in SUBSET S
  BY <1>a
<1> USE DEF Bad
<1> DEFINE x == Picked(t)
<1>2. IsFiniteSet(t) /\ t \subseteq S
  BY <1>b, FS_Subset
<1>3. PICK y \in t : SumFunctionOnSet(f, t) # f[y] + SumFunctionOnSet(f, t \ {y})
  BY <1>1 DEF Splits
<1>4. x \in t /\ IsFiniteSet(t \ {x}) /\ IsFiniteSet(t \ {y}) /\ IsFiniteSet((t \ {x}) \ {y})
  BY <1>2, <1>3, PickedOut, FS_RemoveElement
<1>5. SumFunctionOnSet(f, t) = f[x] + SumFunctionOnSet(f, t \ {x})
  BY <1>2, <1>3, SumOfPicked
<1>6. x # y
  BY <1>3, <1>5
<1> HIDE DEF x
<1>7. t \ {x} \notin Bad /\ t \ {y} \notin Bad
  BY <1>1, <1>3, <1>4
<1>8. Splits(t \ {x}) /\ Splits(t \ {y})
  BY <1>2, <1>7
<1>9. /\ SumFunctionOnSet(f, t \ {x}) = f[y] + SumFunctionOnSet(f, (t \ {x}) \ {y})
      /\ SumFunctionOnSet(f, t \ {y}) = f[x] + SumFunctionOnSet(f, (t \ {y}) \ {x})
  BY <1>3, <1>4, <1>6, <1>8 DEF Splits
<1>10. (t \ {x}) \ {y} = (t \ {y}) \ {x}
  OBVIOUS
<1>11. SumFunctionOnSet(f, (t \ {x}) \ {y}) \in Int /\ f[x] \in Int /\ f[y] \in Int
  BY <1>2, <1>3, <1>4, SumIsInt
<1> DEFINE rest == SumFunctionOnSet(f, (t \ {x}) \ {y})
<1>12. /\ SumFunctionOnSet(f, t) = f[x] + (f[y] + rest)
       /\ SumFunctionOnSet(f, t \ {y}) = f[x] + rest
  BY <1>5, <1>9, <1>10
<1>13. f[x] + (f[y] + rest) = f[y] + (f[x] + rest)
  <2> HIDE DEF rest
  <2>1. \A m, n, l \in Int : m + (n + l) = n + (m + l)
    BY SMT
  <2>2. rest \in Int
    BY <1>11 DEF rest
  <2> QED
    BY <1>11, <2>1, <2>2
<1> QED
  BY <1>3, <1>12, <1>13

\* What changing one value does to a sum.
LEMMA SumUpdated ==
    ASSUME NEW S, IsFiniteSet(S), NEW f \in [S -> Nat], NEW e \in [S -> Nat],
           NEW y \in S, \A x \in S \ {y} : e[x] = f[x]
    PROVE  SumFunctionOnSet(e, S) + f[y] = SumFunctionOnSet(f, S) + e[y]
<1>1. IsFiniteSet(S \ {y})
  BY FS_RemoveElement
<1>2. SumFunctionOnSet(e, S \ {y}) = SumFunctionOnSet(f, S \ {y})
  BY <1>1, SumDependsOnValues
<1>3. SumFunctionOnSet(f, S \ {y}) \in Nat
  BY <1>1, SumIsNat
<1>4. /\ SumFunctionOnSet(f, S) = f[y] + SumFunctionOnSet(f, S \ {y})
      /\ SumFunctionOnSet(e, S) = e[y] + SumFunctionOnSet(e, S \ {y})
  BY SumOfAny
<1> QED
  BY <1>2, <1>3, <1>4

\* Larger values, larger sum.
LEMMA SumIsMonotonic ==
    ASSUME NEW S, IsFiniteSet(S), NEW f, NEW e,
           \A x \in S : f[x] \in Nat /\ e[x] \in Nat /\ f[x] <= e[x]
    PROVE  SumFunctionOnSet(f, S) <= SumFunctionOnSet(e, S)
<1> DEFINE Bad == {t \in SUBSET S : ~ (SumFunctionOnSet(f, t) <= SumFunctionOnSet(e, t))}
<1> SUFFICES ASSUME Bad # {} PROVE FALSE
  OBVIOUS
<1>a. Bad \subseteq SUBSET S
  OBVIOUS
<1> HIDE DEF Bad
<1>1. PICK t \in Bad : \A u \in Bad : ~ (u \subseteq t /\ u # t)
  BY <1>a, LeastSubset
<1>b. t \in SUBSET S
  BY <1>a
<1> USE DEF Bad
<1> DEFINE x == Picked(t)
<1>2. IsFiniteSet(t) /\ t # {}
  BY <1>b, FS_Subset, SumOfNone
<1>3. x \in t /\ t \ {x} \in SUBSET S /\ t \ {x} # t /\ IsFiniteSet(t \ {x})
  BY <1>2, PickedOut
<1>4. SumFunctionOnSet(f, t \ {x}) <= SumFunctionOnSet(e, t \ {x})
  BY <1>1, <1>3
<1>5. /\ SumFunctionOnSet(f, t) = f[x] + SumFunctionOnSet(f, t \ {x})
      /\ SumFunctionOnSet(e, t) = e[x] + SumFunctionOnSet(e, t \ {x})
  BY <1>2, SumOfPicked
<1>6. /\ SumFunctionOnSet(f, t \ {x}) \in Nat /\ SumFunctionOnSet(e, t \ {x}) \in Nat
      /\ f[x] \in Nat /\ e[x] \in Nat /\ f[x] <= e[x]
  BY <1>3, SumIsNat
<1> QED
  BY <1>4, <1>5, <1>6

\* A sum over a part of a set is a sum over the whole, in which the rest
\* counts as zero.
LEMMA SumOfPart ==
    ASSUME NEW T, IsFiniteSet(T), NEW S \in SUBSET T, NEW f, \A x \in S : f[x] \in Nat,
           NEW e, \A x \in T : e[x] = IF x \in S THEN f[x] ELSE 0
    PROVE  SumFunctionOnSet(f, S) = SumFunctionOnSet(e, T)
<1> DEFINE Bad == {t \in SUBSET T : SumFunctionOnSet(f, t \cap S) # SumFunctionOnSet(e, t)}
<1> SUFFICES ASSUME Bad # {} PROVE FALSE
  <2>1. T \cap S = S /\ T \in SUBSET T
    OBVIOUS
  <2> QED
    BY <2>1
<1>a. Bad \subseteq SUBSET T
  OBVIOUS
<1> HIDE DEF Bad
<1>1. PICK t \in Bad : \A u \in Bad : ~ (u \subseteq t /\ u # t)
  BY <1>a, LeastSubset
<1>b. t \in SUBSET T
  BY <1>a
<1> USE DEF Bad
<1> DEFINE x == Picked(t)
<1>2. IsFiniteSet(t) /\ t # {}
  <2>1. {} \cap S = {}
    OBVIOUS
  <2> QED
    BY <1>b, <2>1, FS_Subset, SumOfNone
<1>3. x \in t /\ t \ {x} \in SUBSET T /\ t \ {x} # t /\ IsFiniteSet(t \cap S)
  BY <1>b, <1>2, PickedOut, FS_Subset
<1>4. SumFunctionOnSet(f, (t \ {x}) \cap S) = SumFunctionOnSet(e, t \ {x})
  BY <1>1, <1>3
<1>5. SumFunctionOnSet(e, t) = e[x] + SumFunctionOnSet(e, t \ {x})
  BY <1>2, SumOfPicked
<1>6. SumFunctionOnSet(f, (t \ {x}) \cap S) \in Nat
  <2>1. (t \ {x}) \cap S \subseteq t \cap S
    OBVIOUS
  <2> QED
    BY <1>3, <2>1, FS_Subset, SumIsNat
<1>7. SumFunctionOnSet(f, t \cap S) # SumFunctionOnSet(e, t)
  OBVIOUS
<1> HIDE DEF Bad, x
<1>8. CASE x \in S
  <2>1. x \in t \cap S /\ (t \cap S) \ {x} = (t \ {x}) \cap S
    BY <1>3, <1>8
  <2>2. SumFunctionOnSet(f, t \cap S) = f[x] + SumFunctionOnSet(f, (t \cap S) \ {x})
    BY <1>3, <2>1, SumOfAny
  <2>3. e[x] = f[x]
    BY <1>b, <1>3, <1>8
  <2> QED
    BY <1>4, <1>5, <1>7, <2>1, <2>2, <2>3
<1>9. CASE x \notin S
  <2>1. t \cap S = (t \ {x}) \cap S
    BY <1>9
  <2>2. e[x] = 0
    BY <1>b, <1>3, <1>9
  <2>3. SumFunctionOnSet(f, t \cap S) = SumFunctionOnSet(e, t \ {x})
    BY <1>4, <2>1, Zenon
  <2>4. SumFunctionOnSet(e, t \ {x}) \in Nat
    BY <1>4, <1>6
  <2> HIDE DEF x
  <2> QED
    BY <1>5, <1>7, <2>2, <2>3, <2>4
<1> QED
  BY <1>8, <1>9

\* When no value falls and the sum does not grow, no value has changed.
LEMMA EqualSums ==
    ASSUME NEW S, IsFiniteSet(S), NEW f, NEW e,
           \A x \in S : f[x] \in Nat /\ e[x] \in Nat /\ f[x] <= e[x],
           SumFunctionOnSet(e, S) <= SumFunctionOnSet(f, S)
    PROVE  \A x \in S : f[x] = e[x]
<1> TAKE x \in S
<1>1. IsFiniteSet(S \ {x})
  BY FS_RemoveElement
<1>2. /\ SumFunctionOnSet(f, S) = f[x] + SumFunctionOnSet(f, S \ {x})
      /\ SumFunctionOnSet(e, S) = e[x] + SumFunctionOnSet(e, S \ {x})
  BY SumOfAny
<1>3. SumFunctionOnSet(f, S \ {x}) <= SumFunctionOnSet(e, S \ {x})
  BY <1>1, SumIsMonotonic
<1>4. SumFunctionOnSet(f, S \ {x}) \in Nat /\ SumFunctionOnSet(e, S \ {x}) \in Nat
  BY <1>1, SumIsNat
<1> QED
  BY <1>2, <1>3, <1>4

\* Nothing summed up is nothing.
LEMMA SumOfZeros ==
    ASSUME NEW S, IsFiniteSet(S), NEW f, \A x \in S : f[x] = 0
    PROVE  SumFunctionOnSet(f, S) = 0
<1> DEFINE Bad == {t \in SUBSET S : SumFunctionOnSet(f, t) # 0}
<1> SUFFICES ASSUME Bad # {} PROVE FALSE
  OBVIOUS
<1>a. Bad \subseteq SUBSET S
  OBVIOUS
<1> HIDE DEF Bad
<1>1. PICK t \in Bad : \A u \in Bad : ~ (u \subseteq t /\ u # t)
  BY <1>a, LeastSubset
<1>b. t \in SUBSET S
  BY <1>a
<1> USE DEF Bad
<1>2. IsFiniteSet(t) /\ t # {}
  BY <1>b, FS_Subset, SumOfNone
<1>3. Picked(t) \in t /\ t \ {Picked(t)} \in SUBSET S /\ t \ {Picked(t)} # t
  BY <1>2, PickedOut
<1>4. SumFunctionOnSet(f, t \ {Picked(t)}) = 0 /\ f[Picked(t)] = 0
  BY <1>1, <1>3
<1> QED
  BY <1>2, <1>4, SumOfPicked

\* A total supply is a natural number, and follows each of the balances.
LEMMA TotalIsNat ==
    ASSUME NEW S, IsFiniteSet(S), NEW f \in [S -> Nat]
    PROVE  SumFunction(f) \in Nat
<1>1. SumFunctionOnSet(f, S) \in Nat
  BY SumIsNat
<1> QED
  BY <1>1 DEF SumFunction

\* No entry exceeds the total.
LEMMA TotalBounds ==
    ASSUME NEW S, IsFiniteSet(S), NEW f \in [S -> Nat], NEW y \in S
    PROVE  f[y] <= SumFunction(f)
<1>1. SumFunctionOnSet(f, S) = f[y] + SumFunctionOnSet(f, S \ {y})
  BY SumOfAny
<1>2. SumFunctionOnSet(f, S \ {y}) \in Nat
  BY FS_RemoveElement, SumIsNat
<1> QED
  BY <1>1, <1>2 DEF SumFunction

\* The total of no entries but zeros.
LEMMA TotalOfZeros ==
    ASSUME NEW S, IsFiniteSet(S), NEW f, f = [x \in S |-> 0]
    PROVE  SumFunction(f) = 0
<1>1. DOMAIN f = S /\ \A x \in S : f[x] = 0
  OBVIOUS
<1>2. SumFunctionOnSet(f, S) = 0
  BY <1>1, SumOfZeros
<1> QED
  BY <1>1, <1>2 DEF SumFunction

\* Writing one entry changes the total by the difference.
LEMMA TotalUpdated ==
    ASSUME NEW S, IsFiniteSet(S), NEW f \in [S -> Nat], NEW e \in [S -> Nat],
           NEW y \in S, \A x \in S \ {y} : e[x] = f[x]
    PROVE  SumFunction(e) + f[y] = SumFunction(f) + e[y]
<1>1. SumFunctionOnSet(e, S) + f[y] = SumFunctionOnSet(f, S) + e[y]
  BY SumUpdated
<1> QED
  BY <1>1 DEF SumFunction

\* Raised and lowered by an amount.
LEMMA TotalRaised ==
    ASSUME NEW S, IsFiniteSet(S), NEW f \in [S -> Nat], NEW e \in [S -> Nat],
           NEW y \in S, NEW n \in Nat, e[y] = f[y] + n, \A x \in S \ {y} : e[x] = f[x]
    PROVE  SumFunction(e) = SumFunction(f) + n
<1>1. SumFunction(e) + f[y] = SumFunction(f) + e[y]
  BY TotalUpdated
<1>2. SumFunction(e) \in Nat /\ SumFunction(f) \in Nat /\ f[y] \in Nat /\ e[y] = f[y] + n
  BY TotalIsNat
<1> QED
  BY <1>1, <1>2
=============================================================================
