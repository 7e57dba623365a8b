--------------------------- MODULE BigNumberMath ----------------------------
(***************************************************************************)
(* The fixed-point arithmetic of the test suites, on signed numbers:       *)
(* utils/wadraymath.ts, with ethers' BigNumber, whose division drops the   *)
(* fraction, so that it rounds towards zero.                               *)
(***************************************************************************)
EXTENDS WadRayMath

\* BigNumber.div for a divisor above or below zero.
div(a, b) ==
    LET sign      == IF (a < 0) = (b < 0) THEN 1 ELSE -1
        Magnitude(n) == IF n < 0 THEN -n ELSE n
    IN  sign * (Magnitude(a) \div Magnitude(b))

\* The half of the divisor is added whatever the sign of the product.
rayMul(a, b) == div(HALF_RAY + a * b, RAY)
rayDiv(a, b) == div(div(b, 2) + a * RAY, b)
wadToRay(a) == a * (RAY \div WAD)
percentMul(a, bps) == div(PERCENTAGE_FACTOR \div 2 + a * bps, PERCENTAGE_FACTOR)
=============================================================================
