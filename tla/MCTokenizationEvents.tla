------------------------ MODULE MCTokenizationEvents ------------------------
(***************************************************************************)
(* Instances of TokenizationEvents, and of Reserve with it.  The indices   *)
(* take a new value with nearly every operation, so the number of          *)
(* operations is bounded.                                                  *)
(***************************************************************************)
EXTENDS TokenizationEvents

CONSTANTS alice, bob, treasury, maxUint, zero, theAToken

VARIABLES
    scope,       \* the kinds of operations of the behaviour, and its bounds
    operations   \* how many operations there have been

vars == <<reserveVars, eventVars, scope, operations>>

\* bounds: groups, amounts, blocks and operations.
Scopes ==
    {\* Borrowing, repaying, swapping and rebalancing at both rates.
     [groups |-> {"supply", "borrow", "repay", "withdraw all", "repay all", "swap",
                 "rebalance", "treasury"},
      amounts |-> {80}, blocks |-> 3, operations |-> 5, reading |-> FALSE],
     \* Bridges and flash loans, with operations while a loan is out.
     [groups |-> {"supply", "collateral", "borrow", "withdraw all", "bridge", "flash",
                 "treasury"},
      amounts |-> {80}, blocks |-> 2, operations |-> 5, reading |-> FALSE],
     \* Amounts of little more than the interest, sent by the helpers.
     [groups |-> {"supply", "borrow", "repay"}, amounts |-> {4, 80}, blocks |-> 3,
      operations |-> 4, reading |-> TRUE]}

\* No operator tells the users apart.
Symmetry == Permutations(Borrowers)

MCInit == EventsInit /\ scope \in Scopes /\ reading = scope.reading /\ operations = 0

Has(group) == group \in scope.groups

Operation ==
    \/ Has("supply") /\ EmitSupplySteps(scope.amounts)
    \/ Has("collateral") /\ Silent(CollateralSteps)
    \/ Has("borrow") /\ (EmitBorrowSteps(scope.amounts) \/ EmitApproveSteps({80}))
    \/ Has("repay") /\ EmitRepaySteps(scope.amounts)
    \/ Has("withdraw all") /\ EmitWithdrawAllSteps
    \/ Has("repay all") /\ EmitRepayAllSteps(scope.amounts)
    \/ Has("swap") /\ EmitSwapSteps(scope.amounts)
    \/ Has("rebalance") /\ EmitRebalanceSteps
    \/ Has("treasury") /\ Silent(MintToTreasury)
    \/ Has("bridge") /\ EmitBridgeSteps(scope.amounts)
    \/ /\ Has("flash") /\ Silent(FlashSteps)
       /\ \A i \in DOMAIN loans' : loans'[i].amount \in scope.amounts

MCNext ==
    \/ /\ now > 0 /\ operations < scope.operations
       /\ Operation
       /\ operations' = operations + 1
       /\ UNCHANGED scope
    \/ now < scope.blocks /\ Silent(NextBlock) /\ UNCHANGED <<scope, operations>>
    \/ operations = scope.operations /\ UNCHANGED vars   \* the end of a bounded behaviour

MCSpec == MCInit /\ [][MCNext]_vars
=============================================================================
