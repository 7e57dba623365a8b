---------------------------- MODULE ProviderIds -----------------------------
(***************************************************************************)
(* What the registry of addresses providers promises, in the words of the  *)
(* code: a provider has one id, and an id belongs to one provider.         *)
(***************************************************************************)
EXTENDS Functions

CONSTANTS Providers, Ids

VARIABLE idOf   \* from the registered providers to their ids

Init == idOf = [p \in {} |-> 0]

Register(p, id) ==
    /\ p \notin DOMAIN idOf
    /\ id \notin Range(idOf)
    /\ idOf' = [q \in DOMAIN idOf \cup {p} |-> IF q = p THEN id ELSE idOf[q]]

Unregister(p) ==
    /\ p \in DOMAIN idOf
    /\ idOf' = [q \in DOMAIN idOf \ {p} |-> idOf[q]]

Next == \E p \in Providers : Unregister(p) \/ \E id \in Ids : Register(p, id)

Spec == Init /\ [][Next]_idOf
=============================================================================
