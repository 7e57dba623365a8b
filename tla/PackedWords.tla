---------------------------- MODULE PackedWords -----------------------------
(***************************************************************************)
(* The modules of words that the Pool packs and unpacks: the               *)
(* configurations of users and reserves, and the calls of a rollup.  They  *)
(* share no step, so a behaviour is of one of them.                        *)
(***************************************************************************)
EXTENDS UserConfiguration, ReserveConfiguration, L2Pool

VARIABLE scope   \* whose steps the behaviour takes

wordVars == <<userData, reserveData, l2Vars, scope>>

PackedInit ==
    /\ UserConfigurationInit /\ ReserveConfigurationInit /\ L2PoolInit
    /\ scope \in {"user", "reserve", "call"}

PackedNext ==
    \/ scope = "user" /\ UserConfigurationNext /\ UNCHANGED <<reserveData, l2Vars, scope>>
    \/ scope = "reserve" /\ ReserveConfigurationNext /\ UNCHANGED <<userData, l2Vars, scope>>
    \/ scope = "call" /\ L2PoolNext /\ UNCHANGED <<userData, reserveData, scope>>

PackedSpec == PackedInit /\ [][PackedNext]_wordVars

\* Type invariant: no bit is in use that stands for nothing, and ids are within the list.
PackedTypeOK == UserConfigurationTypeOK /\ ReserveConfigurationTypeOK /\ L2PoolTypeOK
=============================================================================
