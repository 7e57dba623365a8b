----------------------------- MODULE MathUtils ------------------------------
(***************************************************************************)
(* Interest over a time interval: libraries/math/MathUtils.sol.            *)
(***************************************************************************)
EXTENDS WadRayMath

CONSTANT SECONDS_PER_YEAR

ASSUME YearHasSeconds == SECONDS_PER_YEAR \in Nat \ {0}

LinearInterest(rate, elapsed) == RAY + (rate * elapsed) \div SECONDS_PER_YEAR

\* (1 + rate) ^ elapsed by the first four terms of the binomial series, each
\* rounded down.
CompoundedInterest(rate, elapsed) ==
    LET minusTwo == IF elapsed > 2 THEN elapsed - 2 ELSE 0
        squared  == RayMul(rate, rate) \div (SECONDS_PER_YEAR * SECONDS_PER_YEAR)
        cubed    == RayMul(squared, rate) \div SECONDS_PER_YEAR
        pairs    == elapsed * (elapsed - 1)
    IN  IF elapsed = 0 THEN RAY
        ELSE RAY + (rate * elapsed) \div SECONDS_PER_YEAR
                 + (pairs * squared) \div 2 + (pairs * minusTwo * cubed) \div 6
=============================================================================
