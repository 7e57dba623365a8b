----------------------------- MODULE UserFlags ------------------------------
(***************************************************************************)
(* What the configuration of a user stands for: the reserves, by their     *)
(* ids, that the user borrows, and those that are collateral.              *)
(***************************************************************************)
CONSTANT ReserveIds

VARIABLES borrowed, collateral

Init == borrowed = {} /\ collateral = {}

SetBorrowing(id, borrowing) ==
    /\ borrowed' = IF borrowing THEN borrowed \cup {id} ELSE borrowed \ {id}
    /\ UNCHANGED collateral

SetUsingAsCollateral(id, using) ==
    /\ collateral' = IF using THEN collateral \cup {id} ELSE collateral \ {id}
    /\ UNCHANGED borrowed

Next == \E id \in ReserveIds, flag \in BOOLEAN :
    SetBorrowing(id, flag) \/ SetUsingAsCollateral(id, flag)

Spec == Init /\ [][Next]_<<borrowed, collateral>>
=============================================================================
