------------------------- MODULE MCAdministration ---------------------------
(***************************************************************************)
(* An instance of Administration.  The registry and the market share no    *)
(* state, so it is enough that a behaviour takes the steps of one of them. *)
(***************************************************************************)
EXTENDS Administration, TLC

CONSTANTS p1, p2, p3, p4, other, zero, weth

VARIABLE scope   \* whose steps the behaviour takes

Code(kind, revision, belongsTo) ==
    [kind |-> kind, revision |-> revision, belongsTo |-> belongsTo]

\* Two revisions of each component, a pool of another market, and tokens built
\* for the first and for the second proxy, whichever of them is the pool.
MCCode ==
    (11 :> Code("POOL", 1, p1)) @@ (12 :> Code("POOL", 2, p1))
    @@ (13 :> Code("POOL", 2, other))
    @@ (21 :> Code("POOL_CONFIGURATOR", 1, zero)) @@ (22 :> Code("POOL_CONFIGURATOR", 2, zero))
    @@ (31 :> Code("TOKEN", 1, 1)) @@ (32 :> Code("TOKEN", 2, 1)) @@ (33 :> Code("TOKEN", 1, 2))

MCInit == AdministrationInit /\ scope \in {"registry", "market"}

MCNext ==
    /\ \/ scope = "registry" /\ RegistrySteps
       \/ scope = "market" /\ MarketSteps
    /\ UNCHANGED scope

MCSpec == MCInit /\ [][MCNext]_<<administrationVars, scope>>
=============================================================================
