----------------------------- MODULE WadRayMath -----------------------------
(***************************************************************************)
(* Fixed-point arithmetic of libraries/math: WadRayMath, PercentageMath.   *)
(*                                                                         *)
(* All operations work on natural numbers and round half up, except where  *)
(* the code uses the plain division of Solidity, written \div here.  The   *)
(* scales (1e27, 1e18, 1e4) are parameters, so that TLC can use small ones *)
(* and the theorems of Arithmetic_proofs hold for the real ones.           *)
(*                                                                         *)
(* A multiplication that overflows 256 bits reverts in the code, and so    *)
(* does a division by zero: the callers state the second as a guard; the   *)
(* first is out of the range of the values any model uses.                 *)
(***************************************************************************)
EXTENDS Integers

CONSTANTS
    RAY,                \* 1e27: the unit of indices
    WAD,                \* 1e18: the unit of health factors
    PERCENTAGE_FACTOR   \* 1e4: 100.00%

\* The halves the code adds for rounding are exact (HALF_RAY = 0.5e27).
ASSUME ScalesAreEven ==
    \A scale \in {RAY, WAD, PERCENTAGE_FACTOR} :
        scale \in Nat /\ scale # 0 /\ scale % 2 = 0

HALF_RAY == RAY \div 2

\* a, b are rays; the result is a ray.
RayMul(a, b) == (a * b + HALF_RAY) \div RAY

\* A wrong division: it rounds down.
RayDivDown(a, b) == (a * RAY) \div b

\* The code reverts when b = 0.
RayDiv(a, b) == (a * RAY + b \div 2) \div b

\* An amount of 18 decimals as a ray (WAD_RAY_RATIO = 1e9).
WadToRay(a) == a * (RAY \div WAD)

WadDiv(a, b) == (a * WAD + b \div 2) \div b

PercentMul(value, percentage) ==
    (value * percentage + PERCENTAGE_FACTOR \div 2) \div PERCENTAGE_FACTOR

PercentDiv(value, percentage) ==
    (value * PERCENTAGE_FACTOR + percentage \div 2) \div percentage
=============================================================================
