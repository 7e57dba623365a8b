----------------------------- MODULE MCPermits ------------------------------
(***************************************************************************)
(* An instance of Permits with a few signatures.                           *)
(***************************************************************************)
EXTENDS Permits

CONSTANTS alice, bob, dai, variableDebtDai, pool

=============================================================================
