-------------------------- MODULE MCScenarioEngine --------------------------
(***************************************************************************)
(* Instances of ScenarioEngine: all runs of a suite of up to two stories   *)
(* and one of a single story, over a few actions.                          *)
(***************************************************************************)
EXTENDS ScenarioEngine

ActionOf(name, incomplete, expected) ==
    [name |-> name, incomplete |-> incomplete, expected |-> expected]

\* bound: a deposit needs minted tokens, a withdrawal a deposit.
MCNeeds == [mint |-> {}, deposit |-> {"mint"}, withdraw |-> {"deposit"}]

MCActions ==
    {ActionOf("mint", FALSE, "success"), ActionOf("deposit", FALSE, "success"),
     ActionOf("withdraw", FALSE, "revert"), ActionOf("deposit", TRUE, "success")}

\* bound: stories of one or two actions, suites of one or two stories
Stories == UNION {[1 .. n -> MCActions] : n \in 1 .. 2}

MCRuns ==
    {<<[stories |-> first, isolated |-> i], [stories |-> <<second>>, isolated |-> FALSE]>> :
        first \in UNION {[1 .. n -> Stories] : n \in 1 .. 2}, i \in BOOLEAN,
        second \in [1 .. 1 -> MCActions]}
=============================================================================
