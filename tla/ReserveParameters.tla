------------------------- MODULE ReserveParameters --------------------------
(***************************************************************************)
(* What the configuration of a reserve stands for: parameters that are set *)
(* one by one, each within the range of its own.                           *)
(***************************************************************************)
CONSTANTS Parameters, Value, Default, InRange(_, _)

VARIABLE value   \* from the parameters to their values

Init == value = [p \in Parameters |-> Default]

Set(p, v) ==
    /\ InRange(p, v)
    /\ value'[p] = v
    /\ \A q \in Parameters \ {p} : value'[q] = value[q]

Next == \E p \in Parameters, v \in Value : Set(p, v)

Spec == Init /\ [][Next]_value
=============================================================================
