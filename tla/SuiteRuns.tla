----------------------------- MODULE SuiteRuns ------------------------------
(***************************************************************************)
(* What makeSuite promises: the suites are run one after the other, each   *)
(* at most once and each from the chain as it was deployed, whatever the   *)
(* ones before did to it; and none after one that fails.  One that fails   *)
(* may have failed to put the chain back.                                  *)
(***************************************************************************)
EXTENDS Naturals, Sequences

VARIABLES
    verdict,   \* the list of suites: waiting, running, passed or failed
    chain      \* the transactions mined since the deployment

Deployed == <<>>

Init ==
    /\ \A s \in DOMAIN verdict : verdict[s] = "waiting"
    /\ chain = Deployed

Start(s) ==
    /\ \A other \in 1 .. s - 1 : verdict[other] = "passed"
    /\ verdict[s] = "waiting" /\ chain = Deployed
    /\ verdict' = [verdict EXCEPT ![s] = "running"]
    /\ UNCHANGED chain

\* A suite does to the chain what it likes.
Work(s) == verdict[s] = "running" /\ UNCHANGED verdict

Finish(s) ==
    /\ verdict[s] = "running"
    /\ \/ verdict' = [verdict EXCEPT ![s] = "passed"] /\ chain' = Deployed
       \/ verdict' = [verdict EXCEPT ![s] = "failed"]

Next == \E s \in DOMAIN verdict : Start(s) \/ Work(s) \/ Finish(s)

Spec == Init /\ [][Next]_<<verdict, chain>>
=============================================================================
