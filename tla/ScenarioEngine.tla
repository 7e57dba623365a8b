--------------------------- MODULE ScenarioEngine ---------------------------
(***************************************************************************)
(* How the test suites run scenarios: test-suites/scenario.spec.ts,        *)
(* helpers/scenario-engine.ts and helpers/make-suite.ts.                   *)
(*                                                                         *)
(* A suite is a list of stories, a story a list of actions, and an action  *)
(* sends a transaction.  All suites use one chain, which is put back by    *)
(* snapshots.  Every await is for the chain's answer, and nothing else     *)
(* runs meanwhile; but the answer may be an error of the network, before   *)
(* or after the chain has done what it was asked for, in the actions and   *)
(* in the hooks.  Mocha ends the run at the first failure (bail), after    *)
(* the hooks of the suite that close it.  Why an action reverts is left    *)
(* out, as its message is compared with nothing.                           *)
(***************************************************************************)
EXTENDS Naturals, SequencesExt

CONSTANTS
    Runs,         \* the lists of suites that may be run
    Needs         \* [action -> the transactions that it succeeds after]

\* A run has a suite, and a suite a story; without one, its hooks are not run either.
ASSUME RunsAreLists ==
    \A run \in Runs :
        /\ Len(run) \in Nat \ {0} /\ DOMAIN run = 1 .. Len(run)
        /\ \A s \in DOMAIN run : LET stories == run[s].stories IN
             /\ Len(stories) \in Nat \ {0} /\ DOMAIN stories = 1 .. Len(stories)
             /\ \A i \in DOMAIN stories :
                  Len(stories[i]) \in Nat /\ DOMAIN stories[i] = 1 .. Len(stories[i])

VARIABLES
    suites,              \* the suites of this run
    at,                  \* the suite, the story in it, the action in the story
    phase,               \* before, each, story, afterEach, after, end
    failures,            \* the suites of which a test or a hook has thrown
    rejected,            \* history: the hooks whose call was answered by an error
    chain,               \* the transactions mined since the deployment
    snapshots, lastId,   \* the snapshots of the chain that are left, and the last id
    HardhatSnapshotId,   \* the one of the suite
    snapId,              \* the one of the test, where a spec takes its own
    startOfStory         \* history: the chain that the story began with

chainVars == <<chain, snapshots, lastId>>
vars == <<suites, at, phase, failures, rejected, chainVars, HardhatSnapshotId, snapId, startOfStory>>

Suite == suites[at.suite]
Story == Suite.stories[at.story]
Action == Story[at.action]

Init ==
    /\ suites \in Runs
    /\ at = [suite |-> 1, story |-> 1, action |-> 1]
    /\ phase = "before"
    /\ failures = {} /\ rejected = {}
    /\ chain = <<>> /\ snapshots = <<>> /\ lastId = 0
    /\ HardhatSnapshotId = 1   \* '0x1'
    /\ snapId = 0
    /\ startOfStory = <<>>

-----------------------------------------------------------------------------
(* The chain. *)

evmSnapshot ==
    /\ lastId' = lastId + 1
    /\ snapshots' = [id \in DOMAIN snapshots \cup {lastId'} |->
                        IF id = lastId' THEN chain ELSE snapshots[id]]
    /\ UNCHANGED chain

\* evm_revert: a snapshot is used up by it, and so are all later ones.  To revert to
\* one that is gone answers false, which nobody looks at.
evmRevert(id) ==
    /\ chain' = IF id \in DOMAIN snapshots THEN snapshots[id] ELSE chain
    /\ snapshots' = IF id \notin DOMAIN snapshots THEN snapshots
                    ELSE [older \in {i \in DOMAIN snapshots : i < id} |-> snapshots[older]]
    /\ UNCHANGED lastId

Works(c, action) == Needs[action.name] \subseteq ToSet(c)

-----------------------------------------------------------------------------
(* Suites. *)

\* A wrong snapshot: the id stays the first one.
setSnapshotOnly == evmSnapshot /\ UNCHANGED HardhatSnapshotId

setSnapshot == evmSnapshot /\ HardhatSnapshotId' = lastId'
revertHead == evmRevert(HardhatSnapshotId)

\* The call of a hook is rejected, before or after the chain has done it: the hook
\* throws, assigns no id, and mocha goes on with the hooks that close what was opened.
HookThrows(call, next) ==
    /\ call \/ UNCHANGED chainVars
    /\ phase' = next
    /\ failures' = failures \cup {at.suite}
    /\ rejected' = rejected \cup {phase}
    /\ UNCHANGED <<suites, at, HardhatSnapshotId, snapId, startOfStory>>

Before ==
    /\ phase = "before"
    /\ \/ /\ setSnapshot
          /\ phase' = "each"
          /\ UNCHANGED <<suites, at, failures, rejected, snapId, startOfStory>>
       \/ HookThrows(evmSnapshot, "after")

\* Some specs put the chain back after each test.
BeforeEach ==
    /\ phase = "each"
    /\ \/ /\ IF Suite.isolated THEN evmSnapshot /\ snapId' = lastId'
                            ELSE UNCHANGED <<chainVars, snapId>>
          /\ phase' = "story"
          /\ startOfStory' = chain
          /\ UNCHANGED <<suites, at, failures, rejected, HardhatSnapshotId>>
       \/ Suite.isolated /\ HookThrows(evmSnapshot, "afterEach")

\* A wrong hook: the snapshot of the test is left alone.
PutBackNever == UNCHANGED chainVars

PutBack == IF Suite.isolated THEN evmRevert(snapId) ELSE UNCHANGED chainVars

AfterEach ==
    /\ phase = "afterEach"
    /\ \/ /\ PutBack
          /\ IF failures # {} \/ at.story = Len(Suite.stories)
             THEN phase' = "after" /\ UNCHANGED at
             ELSE phase' = "each" /\ at' = [at EXCEPT !.story = @ + 1, !.action = 1]
          /\ UNCHANGED <<suites, failures, rejected, HardhatSnapshotId, snapId, startOfStory>>
       \/ Suite.isolated /\ HookThrows(evmRevert(snapId), "after")

Ended == failures # {} \/ at.suite = Len(suites)

After ==
    /\ phase = "after"
    /\ \/ /\ revertHead
          /\ IF Ended THEN phase' = "end" /\ UNCHANGED at
             ELSE phase' = "before" /\ at' = [suite |-> at.suite + 1, story |-> 1, action |-> 1]
          /\ UNCHANGED <<suites, failures, rejected, HardhatSnapshotId, snapId, startOfStory>>
       \/ HookThrows(revertHead, "end")

-----------------------------------------------------------------------------
(* Stories. *)

\* Actions whose expected result is not looked at.  (Nor is, without a message, that of
\* delegateBorrowAllowance; no scenario expects it to revert.)
Unchecked == {"mint", "approve"}

ExpectsSuccess(action) == action.name \in Unchecked \/ action.expected = "success"

\* A wrong assertion: nobody waits for what the one of a revert finds.
RevertNotAwaited(action) == ExpectsSuccess(action) => Works(chain, action)

\* The transaction does what is expected of it, for whatever reason it reverts.
AsExpected(action) == ExpectsSuccess(action) <=> Works(chain, action)

Mined(action) == IF Works(chain, action) THEN Append(chain, action.name) ELSE chain

\* executeAction, when nothing is thrown.
ExecuteAction ==
    /\ phase = "story" /\ at.action <= Len(Story)
    /\ ~ Action.incomplete
    /\ AsExpected(Action)
    /\ chain' = Mined(Action)
    /\ at' = [at EXCEPT !.action = @ + 1]
    /\ UNCHANGED <<suites, phase, failures, rejected, snapshots, lastId, HardhatSnapshotId, snapId, startOfStory>>

Throw(nextChain) ==
    /\ phase' = "afterEach"
    /\ failures' = failures \cup {at.suite}
    /\ chain' = nextChain
    /\ UNCHANGED <<suites, at, rejected, snapshots, lastId, HardhatSnapshotId, snapId, startOfStory>>

\* The checks of the arguments come before the transaction, the assertions after it.
ActionThrows ==
    /\ phase = "story" /\ at.action <= Len(Story)
    /\ \/ Action.incomplete /\ Throw(chain)
       \/ ~ Action.incomplete /\ ~ AsExpected(Action) /\ Throw(Mined(Action))

\* An error of the network, or an assertion on what the action read.
NetworkFails ==
    /\ phase = "story" /\ at.action <= Len(Story)
    /\ ~ Action.incomplete
    /\ \E nextChain \in {chain, Mined(Action)} : Throw(nextChain)

\* A wrong end: one action more is waited for.
StoryDoneLate == at.action > Len(Story) + 1

StoryDone == at.action > Len(Story)

StoryEnds ==
    /\ phase = "story" /\ StoryDone
    /\ phase' = "afterEach"
    /\ UNCHANGED <<suites, at, failures, rejected, chainVars, HardhatSnapshotId, snapId,
                   startOfStory>>

Next ==
    \/ Before \/ BeforeEach \/ AfterEach \/ After
    \/ ExecuteAction \/ ActionThrows \/ NetworkFails \/ StoryEnds

\* Mocha waits for every promise, and the chain answers, if only by an error.
Spec == Init /\ [][Next]_vars /\ WF_vars(Next)

-----------------------------------------------------------------------------
(* Refinement. *)

SuiteVerdict(s) ==
    CASE s > at.suite \/ (s = at.suite /\ phase = "before") -> "waiting"
      [] s = at.suite /\ phase \notin {"before", "end"} -> "running"
      [] OTHER -> IF s \in failures THEN "failed" ELSE "passed"

Promise == INSTANCE SuiteRuns WITH verdict <- [s \in DOMAIN suites |-> SuiteVerdict(s)]

-----------------------------------------------------------------------------
\* The engine keeps the promise of makeSuite: suites in order, from the chain as it
\* was deployed, none after a failure of a test or of a hook, although snapshots are
\* nested and the id of the suite is one variable for all of them.
KeepsPromise == Promise!Spec

\* The chains of a story that began with chain c, after each of its actions, as the
\* list of actions tells it.
ChainsAsTold(c, story) ==
    LET told[n \in 0 .. Len(story)] ==
            IF n = 0 THEN c
            ELSE IF ExpectsSuccess(story[n]) THEN Append(told[n - 1], story[n].name)
                 ELSE told[n - 1]
    IN  told

\* A story that passes has happened as it is told, on the chain it is told for: it saw
\* no transaction of another suite or, where a spec puts the chain back after each
\* test, of another story; no action that was to revert has succeeded, and every other
\* one has, in the order of the list.
PassedAsTold ==
    phase = "afterEach" /\ failures = {} =>
        /\ Suite.isolated \/ at.story = 1 => startOfStory = <<>>
        /\ chain = ChainsAsTold(startOfStory, Story)[Len(Story)]
        /\ \A i \in DOMAIN Story :
             Works(ChainsAsTold(startOfStory, Story)[i - 1], Story[i])
               <=> ExpectsSuccess(Story[i])

\* Whichever action or hook fails, the run ends; and the chain is then as it was
\* deployed, unless a call of the hooks of makeSuite itself was rejected: with that of
\* after() nothing puts the chain back, and with that of before() the id is an old one.
\* A rejected call of a spec's own hooks, nested in these, spoils nothing.
RunEnds ==
    <>(/\ phase = "end"
       /\ {"before", "after"} \cap rejected = {} => chain = <<>>)
=============================================================================
