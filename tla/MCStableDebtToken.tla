------------------------ MODULE MCStableDebtToken ---------------------------
(***************************************************************************)
(* Instances of StableDebtToken.  The average rate takes a new value with  *)
(* nearly every operation, so the number of operations is bounded.         *)
(***************************************************************************)
EXTENDS StableDebtToken

CONSTANTS alice, bob

CONSTANT MaxOperations   \* bound: mints, burns and rebalances of a behaviour

VARIABLE operations      \* how many there have been

MCStableInit == StableInit /\ operations = 0

MCStableNext ==
    \/ /\ StableNext
       /\ operations' = operations + (IF stable' = stable THEN 0 ELSE 1)
       /\ operations' <= MaxOperations
    \/ /\ operations = MaxOperations   \* the end of a bounded behaviour
       /\ UNCHANGED <<now, stable, operations>>

MCStableSpec == MCStableInit /\ [][MCStableNext]_<<now, stable, operations>>
=============================================================================
