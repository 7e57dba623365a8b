----------------------- MODULE ScenarioEngine_proofs ------------------------
(***************************************************************************)
(* Every run of the suites, of whatever stories and with whatever errors   *)
(* of the network in actions and hooks, keeps what makeSuite promises, and *)
(* a story that passes has happened as it is told.                         *)
(***************************************************************************)
EXTENDS ScenarioEngine, Arithmetic_proofs

-----------------------------------------------------------------------------
(* The chains that a story tells of: a recursive function, hence the same  *)
(* search for a least counterexample as with sums.                         *)

ToldStep(c, story, told, n) ==
    IF n = 0 THEN c
    ELSE IF ExpectsSuccess(story[n]) THEN Append(told[n - 1], story[n].name)
         ELSE told[n - 1]

\* There is such a function: each action adds one value to it.
LEMMA ToldExists ==
    ASSUME NEW c, NEW story, Len(story) \in Nat
    PROVE  \E told : told = [n \in 0 .. Len(story) |-> ToldStep(c, story, told, n)]
<1> DEFINE N == Len(story)
           UpTo(n, g) == \A m \in 0 .. N : m <= n => g[m] = ToldStep(c, story, g, m)
           Longer(g) == [m \in 0 .. N |-> ToldStep(c, story, g, m)]
           Bad == {n \in Nat : ~ \E g : UpTo(n, g)}
<1>1. UpTo(0, Longer(<<>>))
  BY DEF ToldStep
<1>2. ASSUME NEW n \in Nat, NEW g, UpTo(n, g)
      PROVE  UpTo(n + 1, Longer(g))
  <2> SUFFICES ASSUME NEW m \in 0 .. N, m <= n + 1
               PROVE  Longer(g)[m] = ToldStep(c, story, Longer(g), m)
    OBVIOUS
  <2>1. CASE m = 0
    BY <2>1 DEF ToldStep
  <2>2. CASE m # 0
    <3>1. m - 1 \in 0 .. N /\ m - 1 <= n
      BY <2>2
    <3>2. Longer(g)[m - 1] = g[m - 1]
      BY <1>2, <3>1
    <3> QED
      BY <2>2, <3>2 DEF ToldStep
  <2> QED
    BY <2>1, <2>2
<1>3. Bad = {}
  <2> SUFFICES ASSUME Bad # {} PROVE FALSE
    OBVIOUS
  <2>1. PICK n \in Bad : \A m \in Bad : n <= m
    BY LeastNumber
  <2> HIDE DEF UpTo, Longer
  <2>2. n \in Nat /\ n # 0
    BY <1>1, <2>1
  <2>3. n - 1 \in Nat /\ n - 1 \notin Bad
    BY <2>1, <2>2
  <2>4. PICK g : UpTo(n - 1, g)
    BY <2>3
  <2>5. UpTo(n - 1 + 1, Longer(g))
    BY <1>2, <2>3, <2>4
  <2>6. n - 1 + 1 = n
    BY <2>2
  <2> QED
    BY <2>1, <2>5, <2>6
<1> HIDE DEF UpTo
<1>4. PICK g : UpTo(N, g)
  BY <1>3
<1>5. \A m \in 0 .. N : g[m] = ToldStep(c, story, g, m)
  BY <1>4 DEF UpTo
<1>6. \A m \in 0 .. N : ToldStep(c, story, g, m) = ToldStep(c, story, Longer(g), m)
  <2> SUFFICES ASSUME NEW m \in 0 .. N, m # 0 PROVE g[m - 1] = Longer(g)[m - 1]
    BY DEF ToldStep
  <2>1. m - 1 \in 0 .. N
    OBVIOUS
  <2> QED
    BY <1>5, <2>1
<1> HIDE DEF Bad
<1>7. Longer(g) = [m \in 0 .. N |-> ToldStep(c, story, Longer(g), m)]
  BY <1>6
<1> QED
  BY <1>7

\* Hence what is told of an action follows from what is told of those before.
LEMMA ToldEquation ==
    ASSUME NEW c, NEW story, Len(story) \in Nat, NEW n \in 0 .. Len(story)
    PROVE  ChainsAsTold(c, story)[n] = ToldStep(c, story, ChainsAsTold(c, story), n)
<1> DEFINE told == ChainsAsTold(c, story)
<1>1. told = CHOOSE g : g = [m \in 0 .. Len(story) |-> ToldStep(c, story, g, m)]
  BY DEF ChainsAsTold, ToldStep
<1>2. told = [m \in 0 .. Len(story) |-> ToldStep(c, story, told, m)]
  BY <1>1, ToldExists
<1> HIDE DEF told
<1> QED
  BY <1>2 DEF told

-----------------------------------------------------------------------------
(* The invariant. *)

\* The place in the run, and which phases know of a failure.
Position ==
    /\ suites \in Runs
    /\ at \in [suite : Nat, story : Nat, action : Nat]
    /\ at.suite \in DOMAIN suites /\ at.story \in DOMAIN Suite.stories
    /\ at.action \in 1 .. Len(Story) + 1
    /\ phase \in {"before", "each", "story", "afterEach", "after", "end"}
    /\ failures \subseteq {at.suite}
    /\ phase \in {"before", "each", "story"} => failures = {}
    /\ phase \in {"before", "each"} => at.action = 1
    /\ phase = "before" => at.story = 1

FromDeployment == Suite.isolated \/ at.story = 1

\* The snapshot of the suite is kept below that of the test, each with what it was
\* taken of.
SnapshotsTaken ==
    /\ phase \in {"before", "end"} => chain = <<>>
    /\ phase \in {"each", "story", "afterEach", "after"} =>
         /\ HardhatSnapshotId \in DOMAIN snapshots
         /\ snapshots[HardhatSnapshotId] = <<>>
    /\ phase \in {"story", "afterEach"} /\ Suite.isolated =>
         /\ snapId \in DOMAIN snapshots /\ HardhatSnapshotId < snapId
         /\ snapshots[snapId] = startOfStory
    /\ phase = "each" /\ FromDeployment => chain = <<>>
    /\ phase \in {"story", "afterEach"} /\ FromDeployment => startOfStory = <<>>

\* That is so until something fails, after which no suite is begun.
SnapshotsKept ==
    /\ lastId \in Nat /\ DOMAIN snapshots \subseteq 1 .. lastId
    /\ failures = {} => SnapshotsTaken

ToldUpTo(n) ==
    /\ chain = ChainsAsTold(startOfStory, Story)[n]
    /\ \A i \in 1 .. n :
         Works(ChainsAsTold(startOfStory, Story)[i - 1], Story[i]) <=> ExpectsSuccess(Story[i])

\* A story on its way has happened as it is told up to the next action.
Telling ==
    /\ phase = "story" => ToldUpTo(at.action - 1)
    /\ phase = "afterEach" /\ failures = {} => ToldUpTo(Len(Story))

IInv == Position /\ SnapshotsKept /\ Telling

\* The lists that are run through, as numbers.
LEMMA PositionFacts ==
    ASSUME Position
    PROVE  /\ Len(suites) \in Nat \ {0} /\ DOMAIN suites = 1 .. Len(suites)
           /\ \A s \in DOMAIN suites :
                /\ Len(suites[s].stories) \in Nat \ {0}
                /\ DOMAIN suites[s].stories = 1 .. Len(suites[s].stories)
                /\ \A i \in DOMAIN suites[s].stories :
                     /\ Len(suites[s].stories[i]) \in Nat
                     /\ DOMAIN suites[s].stories[i] = 1 .. Len(suites[s].stories[i])
  BY RunsAreLists, Zenon DEF Position

\* Story and suite at hand are lists that are not empty.
LEMMA StoryFacts ==
    ASSUME Position
    PROVE  /\ Len(Story) \in Nat /\ DOMAIN Story = 1 .. Len(Story)
           /\ Len(Suite.stories) \in Nat \ {0} /\ DOMAIN Suite.stories = 1 .. Len(Suite.stories)
           /\ Len(suites) \in Nat \ {0} /\ DOMAIN suites = 1 .. Len(suites)
  BY PositionFacts DEF Position, Suite, Story

\* No step leaves the lists.
LEMMA NextPosition == Position /\ [Next]_vars => Position'
<1> SUFFICES ASSUME Position, [Next]_vars PROVE Position'
  OBVIOUS
<1> USE DEF Position, Suite, Story
<1>0. ASSUME NEW next \in {"afterEach", "after", "end"},
             phase' = next /\ failures' = failures \cup {at.suite} /\ UNCHANGED <<suites, at>>
      PROVE  Position'
  BY <1>0
<1>1. CASE Before
  BY <1>0, <1>1 DEF Before, HookThrows
<1>2. CASE BeforeEach
  BY <1>0, <1>2 DEF BeforeEach, HookThrows
<1>3. CASE AfterEach
  <2>0. CASE HookThrows(evmRevert(snapId), "after")
    BY <1>0, <2>0 DEF HookThrows
  <2> USE <1>3 DEF AfterEach
  <2>1. CASE PutBack /\ phase' = "after" /\ UNCHANGED <<suites, at, failures>>
    BY <2>1
  <2>2. CASE /\ ~ (failures # {} \/ at.story = Len(Suite.stories))
             /\ phase' = "each" /\ at' = [at EXCEPT !.story = @ + 1, !.action = 1]
             /\ UNCHANGED <<suites, failures>>
    <3>1. /\ phase' = "each" /\ at' = [at EXCEPT !.story = @ + 1, !.action = 1]
          /\ UNCHANGED <<suites, failures>>
      BY <2>2
    <3>2. at.story + 1 \in DOMAIN Suite.stories
      BY <2>2, StoryFacts
    <3>3. Len(suites[at.suite].stories[at.story + 1]) \in Nat
      BY <3>2, PositionFacts
    <3>4. at' = [suite |-> at.suite, story |-> at.story + 1, action |-> 1]
      BY <3>1
    <3> QED
      BY <2>2, <3>1, <3>2, <3>3, <3>4
  <2> QED
    BY <2>0, <2>1, <2>2
<1>4. CASE After
  <2>0. CASE HookThrows(revertHead, "end")
    BY <1>0, <2>0 DEF HookThrows
  <2>1. CASE phase = "after" /\ phase' = "end" /\ UNCHANGED <<suites, at, failures>>
    BY <2>1
  <2>2. CASE /\ ~ Ended /\ UNCHANGED <<suites, failures>>
             /\ phase' = "before" /\ at' = [suite |-> at.suite + 1, story |-> 1, action |-> 1]
    <3>1. /\ phase' = "before" /\ at' = [suite |-> at.suite + 1, story |-> 1, action |-> 1]
          /\ UNCHANGED <<suites, failures>> /\ failures = {} /\ at.suite # Len(suites)
      BY <2>2 DEF Ended
    <3>2. at.suite + 1 \in DOMAIN suites
      BY <3>1, StoryFacts
    <3>3. 1 \in DOMAIN suites[at.suite + 1].stories
      BY <3>2, PositionFacts
    <3>4. Len(suites[at.suite + 1].stories[1]) \in Nat
      BY <3>2, <3>3, PositionFacts
    <3> QED
      BY <3>1, <3>2, <3>3, <3>4
  <2> QED
    BY <1>4, <2>0, <2>1, <2>2 DEF After
<1>5. CASE ExecuteAction
  BY <1>5, StoryFacts DEF ExecuteAction
<1>6. ASSUME NEW c, Throw(c), phase = "story"
      PROVE  Position'
  BY <1>6 DEF Throw
<1>7. CASE ActionThrows
  BY <1>6, <1>7 DEF ActionThrows
<1>8. CASE NetworkFails
  BY <1>6, <1>8 DEF NetworkFails
<1>9. CASE StoryEnds
  BY <1>9 DEF StoryEnds
<1>10. CASE UNCHANGED vars
  BY <1>10 DEF vars
<1> QED
  BY <1>1, <1>2, <1>3, <1>4, <1>5, <1>7, <1>8, <1>9, <1>10 DEF Next

\* A snapshot is added above all others, and uses none up.
LEMMA SnapshotAdds ==
    ASSUME lastId \in Nat, DOMAIN snapshots \subseteq 1 .. lastId, evmSnapshot
    PROVE  /\ lastId' \in Nat /\ DOMAIN snapshots' \subseteq 1 .. lastId'
           /\ lastId' \in DOMAIN snapshots' /\ lastId' \notin DOMAIN snapshots
           /\ snapshots'[lastId'] = chain /\ chain' = chain
           /\ \A id \in DOMAIN snapshots :
                id < lastId' /\ id \in DOMAIN snapshots' /\ snapshots'[id] = snapshots[id]
  BY DEF evmSnapshot

\* Going back to one keeps those below it.
LEMMA RevertKeeps ==
    ASSUME lastId \in Nat, DOMAIN snapshots \subseteq 1 .. lastId,
           NEW id \in DOMAIN snapshots, evmRevert(id)
    PROVE  /\ lastId' = lastId /\ DOMAIN snapshots' \subseteq 1 .. lastId'
           /\ chain' = snapshots[id]
           /\ \A older \in DOMAIN snapshots : older < id =>
                older \in DOMAIN snapshots' /\ snapshots'[older] = snapshots[older]
  BY DEF evmRevert

\* Ids are numbers up to the last one, whichever call is answered by an error.
LEMMA NextIds ==
    ASSUME lastId \in Nat, DOMAIN snapshots \subseteq 1 .. lastId, [Next]_vars
    PROVE  lastId' \in Nat /\ DOMAIN snapshots' \subseteq 1 .. lastId'
<1>1. CASE evmSnapshot
  BY <1>1, SnapshotAdds
<1>2. ASSUME NEW id, evmRevert(id)
      PROVE  lastId' \in Nat /\ DOMAIN snapshots' \subseteq 1 .. lastId'
  BY <1>2 DEF evmRevert
<1>3. CASE UNCHANGED <<snapshots, lastId>>
  BY <1>3
<1>4. CASE Before
  BY <1>1, <1>3, <1>4 DEF Before, setSnapshot, HookThrows, chainVars
<1>5. CASE BeforeEach
  BY <1>1, <1>3, <1>5 DEF BeforeEach, HookThrows, chainVars
<1>6. CASE AfterEach
  BY <1>2, <1>3, <1>6 DEF AfterEach, PutBack, HookThrows, chainVars
<1>7. CASE After
  BY <1>2, <1>3, <1>7 DEF After, revertHead, HookThrows, chainVars
<1>8. CASE ExecuteAction \/ ActionThrows \/ NetworkFails \/ StoryEnds \/ UNCHANGED vars
  BY <1>3, <1>8 DEF ExecuteAction, ActionThrows, NetworkFails, Throw, StoryEnds, chainVars, vars
<1> QED
  BY <1>4, <1>5, <1>6, <1>7, <1>8 DEF Next

\* A step that fails, in an action or in a hook, is a failure of the suite.
LEMMA FailuresStay ==
    ASSUME Position, [Next]_vars
    PROVE  /\ failures \subseteq failures'
           /\ ActionThrows \/ NetworkFails => failures' # {}
           /\ \A call, next : HookThrows(call, next) => failures' # {}
<1>1. /\ ActionThrows \/ NetworkFails => failures' = failures \cup {at.suite}
      /\ \A call, next : HookThrows(call, next) => failures' = failures \cup {at.suite}
  BY DEF ActionThrows, NetworkFails, Throw, HookThrows
<1>2. failures \subseteq failures'
  BY <1>1 DEF Next, vars, Before, BeforeEach, AfterEach, After, ExecuteAction, StoryEnds
<1> QED
  BY <1>1, <1>2

\* Every step keeps the snapshots that will be gone back to.
LEMMA NextSnapshots == Position /\ SnapshotsKept /\ [Next]_vars => SnapshotsKept'
<1> SUFFICES ASSUME Position, SnapshotsKept, [Next]_vars, failures' = {}
             PROVE  SnapshotsTaken'
  BY NextIds DEF SnapshotsKept
<1>0. lastId \in Nat /\ DOMAIN snapshots \subseteq 1 .. lastId /\ SnapshotsTaken
  BY FailuresStay DEF SnapshotsKept
<1> USE <1>0 DEF SnapshotsTaken, FromDeployment
<1>1. CASE Before
  <2>1. phase' = "each" /\ setSnapshot /\ phase = "before"
    BY <1>1, FailuresStay DEF Before
  <2> QED
    BY <2>1, SnapshotAdds DEF setSnapshot
<1>2. CASE BeforeEach
  <2>0. /\ phase = "each" /\ phase' = "story" /\ startOfStory' = chain
        /\ UNCHANGED <<suites, at, HardhatSnapshotId>>
        /\ IF Suite.isolated THEN evmSnapshot /\ snapId' = lastId'
                             ELSE UNCHANGED <<chainVars, snapId>>
    BY <1>2, FailuresStay DEF BeforeEach
  <2>1. CASE Suite.isolated
    BY <2>0, <2>1, SnapshotAdds DEF Suite
  <2>2. CASE ~ Suite.isolated
    BY <2>0, <2>2 DEF Suite, chainVars
  <2> QED
    BY <2>1, <2>2
<1>3. CASE AfterEach
  <2>0. /\ phase = "afterEach" /\ PutBack
        /\ \/ phase' = "after" /\ UNCHANGED at
           \/ phase' = "each" /\ at' = [at EXCEPT !.story = @ + 1, !.action = 1]
        /\ UNCHANGED <<suites, HardhatSnapshotId, snapId, startOfStory>>
    BY <1>3, FailuresStay DEF AfterEach
  <2>1. Suite' = suites[at'.suite] /\ at'.suite = at.suite
    BY <2>0 DEF Suite, Position
  <2>2. Suite' = Suite /\ (at'.story = at.story \/ at'.story = at.story + 1)
    BY <2>0, <2>1 DEF Suite, Position
  <2>3. /\ phase = "afterEach" /\ phase' \in {"each", "after"}
        /\ HardhatSnapshotId' = HardhatSnapshotId
        /\ phase' = "each" => at'.story # 1
    <3>1. at.story \in Nat \ {0}
      BY StoryFacts DEF Position
    <3>2. phase' = "each" => at'.story = at.story + 1
      BY <2>0 DEF Position
    <3>3. at.story + 1 # 1
      BY <3>1
    <3>4. /\ phase = "afterEach" /\ phase' \in {"each", "after"}
          /\ HardhatSnapshotId' = HardhatSnapshotId
      BY <2>0
    <3> QED
      BY <3>2, <3>3, <3>4
  <2>4. CASE Suite.isolated
    <3>1. evmRevert(snapId)
      BY <2>0, <2>4 DEF PutBack
    <3> QED
      BY <2>2, <2>3, <2>4, <3>1, RevertKeeps
  <2>5. CASE ~ Suite.isolated
    <3>1. UNCHANGED chainVars
      BY <2>0, <2>5 DEF PutBack
    <3> QED
      BY <2>2, <2>3, <2>5, <3>1 DEF chainVars
  <2> QED
    BY <2>4, <2>5
<1>4. CASE After
  <2>1. phase = "after" /\ phase' \in {"end", "before"} /\ evmRevert(HardhatSnapshotId)
    BY <1>4, FailuresStay DEF After, revertHead
  <2> QED
    BY <2>1, RevertKeeps
<1>5. CASE ExecuteAction
  <2>1. /\ phase = "story" /\ at' = [at EXCEPT !.action = @ + 1]
        /\ UNCHANGED <<suites, phase, snapshots, lastId, HardhatSnapshotId, snapId, startOfStory>>
    BY <1>5 DEF ExecuteAction
  <2>2. Suite' = Suite /\ at'.story = at.story
    BY <2>1 DEF Position, Suite
  <2> QED
    BY <2>1, <2>2
<1>6. CASE ActionThrows \/ NetworkFails
  BY <1>6, FailuresStay
<1>9. CASE StoryEnds
  BY <1>9 DEF StoryEnds, chainVars, Suite
<1>10. CASE UNCHANGED vars
  BY <1>10 DEF vars, chainVars, Suite
<1> QED
  BY <1>1, <1>2, <1>3, <1>4, <1>5, <1>6, <1>9, <1>10 DEF Next

\* An action that does what is expected of it is what the story tells next.
LEMMA NextTelling == Position /\ Telling /\ [Next]_vars => Telling'
<1> SUFFICES ASSUME Position, Telling, [Next]_vars PROVE Telling'
  OBVIOUS
<1>0. ASSUME NEW call, NEW next \in {"afterEach", "after", "end"}, HookThrows(call, next)
      PROVE  Telling'
  BY <1>0 DEF HookThrows, Telling
<1>1. CASE Before
  BY <1>0, <1>1 DEF Before, Telling
<1>2. CASE BeforeEach
  <2>0. CASE HookThrows(evmSnapshot, "afterEach")
    BY <1>0, <2>0
  <2> SUFFICES ASSUME ~ HookThrows(evmSnapshot, "afterEach") PROVE Telling'
    BY <2>0
  <2>1. /\ startOfStory' = chain /\ chain' = chain /\ Story' = Story /\ at' = at /\ at.action = 1
        /\ phase' = "story"
    BY <1>2 DEF BeforeEach, chainVars, evmSnapshot, Story, Suite, Position
  <2>2. ChainsAsTold(chain, Story)[0] = chain
    BY StoryFacts, ToldEquation DEF ToldStep
  <2>3. ToldUpTo(0)'
    BY <2>1, <2>2 DEF ToldUpTo
  <2> QED
    BY <2>1, <2>3 DEF Telling
<1>3. CASE AfterEach
  BY <1>0, <1>3 DEF AfterEach, Telling
<1>4. CASE After
  BY <1>0, <1>4 DEF After, Telling
<1>5. CASE ExecuteAction
  <2> DEFINE n == at.action
             told == ChainsAsTold(startOfStory, Story)
  <2>1. /\ phase = "story" /\ phase' = "story" /\ n <= Len(Story) /\ AsExpected(Story[n])
        /\ chain' = Mined(Story[n])
        /\ at' = [at EXCEPT !.action = @ + 1]
        /\ UNCHANGED <<suites, startOfStory>>
    BY <1>5 DEF ExecuteAction, Action
  <2>2. n \in 1 .. Len(Story) /\ at'.action = n + 1 /\ Len(Story) \in Nat /\ n \in Nat
    BY <2>1, StoryFacts DEF Position
  <2>3. Story' = Story
    BY <2>1 DEF Story, Suite, Position
  <2>4. ToldUpTo(n - 1)
    BY <2>1 DEF Telling
  <2>5. told[n] = IF ExpectsSuccess(Story[n]) THEN Append(told[n - 1], Story[n].name)
                  ELSE told[n - 1]
    BY <2>2, ToldEquation DEF ToldStep
  <2>6. chain = told[n - 1]
    BY <2>4 DEF ToldUpTo
  <2>7. chain' = told[n]
    BY <2>1, <2>5, <2>6 DEF Mined, AsExpected
  <2>8. ASSUME NEW i \in 1 .. n
        PROVE  Works(told[i - 1], Story[i]) <=> ExpectsSuccess(Story[i])
    <3>1. CASE i = n
      BY <2>1, <2>6, <3>1 DEF AsExpected
    <3>2. CASE i # n
      <4>1. i \in 1 .. n - 1
        BY <2>2, <3>2
      <4> QED
        BY <2>4, <4>1 DEF ToldUpTo
    <3> QED
      BY <3>1, <3>2
  <2>9. ASSUME NEW i \in 1 .. n
        PROVE  Works(told'[i - 1], Story'[i]) <=> ExpectsSuccess(Story'[i])
    BY <2>1, <2>3, <2>8
  <2>10. at'.action - 1 = n
    BY <2>2
  <2>11. ToldUpTo(at.action - 1)'
    BY <2>1, <2>3, <2>7, <2>8, <2>10 DEF ToldUpTo
  <2> QED
    BY <2>1, <2>11 DEF Telling
<1>6. ASSUME NEW c, Throw(c), phase = "story"
      PROVE  Telling'
  BY <1>6 DEF Throw, Telling, Position
<1>7. CASE ActionThrows
  BY <1>6, <1>7 DEF ActionThrows
<1>8. CASE NetworkFails
  BY <1>6, <1>8 DEF NetworkFails
<1>9. CASE StoryEnds
  <2>1. /\ phase = "story" /\ at.action > Len(Story) /\ phase' = "afterEach"
        /\ UNCHANGED <<suites, at, chain, startOfStory>>
    BY <1>9 DEF StoryEnds, StoryDone, chainVars
  <2>2. at.action - 1 = Len(Story)
    BY <2>1, StoryFacts DEF Position
  <2>3. ToldUpTo(Len(Story))
    BY <2>1, <2>2 DEF Telling
  <2>4. Story' = Story
    BY <2>1 DEF Story, Suite
  <2>5. ToldUpTo(Len(Story))'
    BY <2>1, <2>3, <2>4 DEF ToldUpTo
  <2> QED
    BY <2>1, <2>5 DEF Telling
<1>10. CASE UNCHANGED vars
  <2>1. UNCHANGED <<suites, at, phase, failures, chain, startOfStory>>
    BY <1>10 DEF vars, chainVars
  <2>2. Story' = Story
    BY <2>1 DEF Story, Suite
  <2> QED
    BY <2>1, <2>2 DEF Telling, ToldUpTo
<1> QED
  BY <1>1, <1>2, <1>3, <1>4, <1>5, <1>7, <1>8, <1>9, <1>10 DEF Next

\* The initial state.
LEMMA InitIInv == Init => IInv
<1> SUFFICES ASSUME Init PROVE IInv
  OBVIOUS
<1>1. /\ suites \in Runs /\ at = [suite |-> 1, story |-> 1, action |-> 1]
      /\ phase = "before" /\ failures = {} /\ chain = <<>> /\ snapshots = <<>> /\ lastId = 0
  BY DEF Init
<1>2. 1 \in DOMAIN suites
  BY <1>1, RunsAreLists
<1>3. 1 \in DOMAIN suites[1].stories
  BY <1>1, <1>2, RunsAreLists
<1>4. Len(suites[1].stories[1]) \in Nat
  BY <1>1, <1>2, <1>3, RunsAreLists, Zenon
<1>5. Position
  BY <1>1, <1>2, <1>3, <1>4 DEF Position, Suite, Story
<1>6. SnapshotsKept
  BY <1>1 DEF SnapshotsKept, SnapshotsTaken
<1>7. Telling
  BY <1>1 DEF Telling
<1> QED
  BY <1>5, <1>6, <1>7 DEF IInv

\* What the hooks and executeStory keep of every run.
LEMMA EngineInductive == Spec => []IInv
<1>1. IInv /\ [Next]_vars => IInv'
  BY NextPosition, NextSnapshots, NextTelling DEF IInv
<1> QED
  BY <1>1, InitIInv, PTL DEF Spec

\* executeStory: a story that passes has happened as its actions tell it, from the
\* chain of the deployment if it is the first of its suite or its spec is isolated.
THEOREM StoriesAsTold == Spec => []PassedAsTold
<1>1. ASSUME IInv PROVE PassedAsTold
  <2>1. ASSUME phase = "afterEach", failures = {}
        PROVE  /\ Suite.isolated \/ at.story = 1 => startOfStory = <<>>
               /\ ToldUpTo(Len(Story))
    BY <1>1, <2>1 DEF IInv, SnapshotsKept, SnapshotsTaken, FromDeployment, Telling
  <2>2. DOMAIN Story = 1 .. Len(Story)
    BY <1>1, StoryFacts DEF IInv
  <2> QED
    BY <2>1, <2>2 DEF PassedAsTold, ToldUpTo
<1> QED
  BY <1>1, EngineInductive, PTL

-----------------------------------------------------------------------------
(* Refinement. *)

\* The verdicts on the suites before and after the one that is run do not depend on it.
LEMMA VerdictOfOthers ==
    ASSUME Position, NEW s \in DOMAIN suites
    PROVE  /\ s < at.suite => SuiteVerdict(s) = "passed"
           /\ s > at.suite => SuiteVerdict(s) = "waiting"
<1>1. s \in Nat /\ at.suite \in Nat
  BY StoryFacts DEF Position
<1>2. CASE s < at.suite
  <2>1. ~ (s > at.suite) /\ s # at.suite
    BY <1>1, <1>2
  <2>2. s \notin failures
    BY <2>1 DEF Position
  <2> QED
    BY <1>2, <2>1, <2>2 DEF SuiteVerdict
<1>3. CASE s > at.suite
  BY <1>1, <1>3 DEF SuiteVerdict
<1> QED
  BY <1>2, <1>3

\* The one on that which is run is by the phase.
LEMMA VerdictOfThis ==
    ASSUME Position
    PROVE  SuiteVerdict(at.suite) =
               IF phase = "before" THEN "waiting"
               ELSE IF phase # "end" THEN "running"
               ELSE IF at.suite \in failures THEN "failed" ELSE "passed"
<1>1. at.suite \in Nat /\ ~ (at.suite > at.suite)
  BY StoryFacts DEF Position
<1> QED
  BY <1>1 DEF SuiteVerdict, Position

Verdicts == [s \in DOMAIN suites |-> SuiteVerdict(s)]

\* A step that stays in the hooks and stories of one suite leaves the verdicts alone.
LEMMA WorkKeepsVerdicts ==
    ASSUME Position, Position', suites' = suites, at'.suite = at.suite,
           phase \in {"each", "story", "afterEach", "after"},
           phase' \in {"each", "story", "afterEach", "after"}
    PROVE  Verdicts' = Verdicts /\ SuiteVerdict(at.suite) = "running"
<1>1. ASSUME NEW s \in DOMAIN suites
      PROVE  SuiteVerdict(s)' = SuiteVerdict(s)
  <2>1. s \in Nat /\ at.suite \in Nat
    BY StoryFacts DEF Position
  <2>2. CASE s < at.suite
    <3>1. s \notin failures /\ s \notin failures'
      BY <2>1, <2>2 DEF Position
    <3> QED
      BY <2>1, <2>2, <3>1 DEF SuiteVerdict
  <2>3. CASE s = at.suite
    BY <2>1, <2>3 DEF SuiteVerdict
  <2>4. CASE s > at.suite
    BY <2>1, <2>4 DEF SuiteVerdict
  <2> QED
    BY <2>1, <2>2, <2>3, <2>4
<1> QED
  BY <1>1, VerdictOfThis DEF Verdicts

\* The engine implements SuiteRuns: before() starts a suite on the chain of the
\* deployment, after() ends it there, and whatever happens between them is work.
THEOREM EngineImplements == Spec => KeepsPromise
<1>1. Init => Promise!Init
  <2> SUFFICES ASSUME Init PROVE Promise!Init
    OBVIOUS
  <2>1. Position /\ at.suite = 1 /\ phase = "before" /\ chain = <<>>
    BY InitIInv DEF IInv, Init
  <2>2. ASSUME NEW s \in DOMAIN suites PROVE SuiteVerdict(s) = "waiting"
    <3>1. s \in Nat /\ (s = at.suite \/ s > at.suite)
      BY <2>1, StoryFacts
    <3> QED
      BY <2>1, <3>1, VerdictOfOthers, VerdictOfThis
  <2> QED
    BY <2>1, <2>2 DEF Promise!Init, Promise!Deployed
<1>2. ASSUME IInv, IInv', [Next]_vars
      PROVE  [Promise!Next]_<<Verdicts, chain>>
  <2>1. Position /\ Position' /\ SnapshotsKept /\ SnapshotsKept'
    BY <1>2 DEF IInv
  <2>2. /\ at.suite \in DOMAIN suites /\ at.suite \in Nat
        /\ DOMAIN suites = 1 .. Len(suites) /\ Len(suites) \in Nat
    BY <2>1, StoryFacts DEF Position
  <2>3. /\ \A s \in DOMAIN suites : s < at.suite => SuiteVerdict(s) = "passed"
        /\ \A s \in DOMAIN suites : s > at.suite => SuiteVerdict(s) = "waiting"
    BY <2>1, VerdictOfOthers
  <2>4. CASE Before
    <3>1. /\ phase = "before" /\ phase' \in {"each", "after"} /\ chain' = chain
          /\ UNCHANGED <<suites, at>> /\ failures' \subseteq failures \cup {at.suite}
      BY <2>4 DEF Before, setSnapshot, evmSnapshot, HookThrows, chainVars
    <3>2. SuiteVerdict(at.suite) = "waiting" /\ chain = <<>>
      BY <2>1, <3>1, VerdictOfThis DEF SnapshotsKept, SnapshotsTaken, Position
    <3>3. \A s \in DOMAIN suites :
              SuiteVerdict(s)' = IF s = at.suite THEN "running" ELSE SuiteVerdict(s)
      <4> SUFFICES ASSUME NEW s \in DOMAIN suites
                   PROVE  SuiteVerdict(s)' = IF s = at.suite THEN "running"
                                             ELSE SuiteVerdict(s)
        OBVIOUS
      <4>1. s \in Nat
        BY <2>2
      <4>2. s # at.suite => s \notin failures /\ s \notin failures'
        BY <2>1, <3>1 DEF Position
      <4> QED
        BY <2>2, <3>1, <4>1, <4>2 DEF SuiteVerdict
    <3>4. Verdicts' = [Verdicts EXCEPT ![at.suite] = "running"]
      BY <3>1, <3>3 DEF Verdicts
    <3>5. \A other \in 1 .. at.suite - 1 : Verdicts[other] = "passed"
      BY <2>2, <2>3 DEF Verdicts
    <3> QED
      BY <2>2, <3>1, <3>2, <3>4, <3>5
         DEF Promise!Next, Promise!Start, Promise!Deployed, Verdicts
  <2>5. CASE After
    <3>1. /\ phase = "after" /\ UNCHANGED suites
          /\ \/ phase' = "end" /\ at' = at
             \/ /\ phase' = "before" /\ at'.suite = at.suite + 1
                /\ failures = {} /\ failures' = failures
          /\ failures' = {} => failures = {} /\ evmRevert(HardhatSnapshotId)
          /\ failures' \subseteq failures \cup {at.suite}
      <4>1. CASE HookThrows(revertHead, "end")
        BY <2>5, <4>1 DEF After, HookThrows
      <4>2. CASE /\ revertHead /\ UNCHANGED <<suites, failures>>
                 /\ Ended /\ phase' = "end" /\ UNCHANGED at
        BY <2>5, <4>2 DEF After, revertHead
      <4>3. CASE /\ revertHead /\ UNCHANGED <<suites, failures>>
                 /\ ~ Ended /\ phase' = "before"
                 /\ at' = [suite |-> at.suite + 1, story |-> 1, action |-> 1]
        BY <2>5, <4>3 DEF After, revertHead, Ended
      <4> QED
        BY <2>5, <4>1, <4>2, <4>3 DEF After
    <3>2. SuiteVerdict(at.suite) = "running"
      BY <2>1, <3>1, VerdictOfThis
    <3>0. failures' = {} => chain' = <<>>
      BY <2>1, <3>1, RevertKeeps DEF SnapshotsKept, SnapshotsTaken
    <3>3. PICK v \in {"passed", "failed"} :
              /\ v = "passed" => failures' = {}
              /\ \A s \in DOMAIN suites :
                  SuiteVerdict(s)' = IF s = at.suite THEN v ELSE SuiteVerdict(s)
      <4>1. CASE phase' = "end"
        <5>1. phase' = "end" /\ at' = at
          BY <3>1, <4>1
        <5> DEFINE v == IF at.suite \in failures' THEN "failed" ELSE "passed"
        <5>2. ASSUME NEW s \in DOMAIN suites
              PROVE  SuiteVerdict(s)' = IF s = at.suite THEN v ELSE SuiteVerdict(s)
          <6>1. s \in Nat
            BY <2>2
          <6> QED
            BY <2>1, <2>2, <3>1, <5>1, <6>1 DEF SuiteVerdict, Position
        <5>3. v = "passed" => failures' = {}
          BY <2>1, <5>1 DEF Position
        <5> QED
          BY <5>2, <5>3
      <4>2. CASE phase' # "end"
        <5>1. /\ phase' = "before" /\ at'.suite = at.suite + 1 /\ failures = {}
              /\ failures' = {}
          BY <3>1, <4>2
        <5>2. ASSUME NEW s \in DOMAIN suites
              PROVE  SuiteVerdict(s)' = IF s = at.suite THEN "passed" ELSE SuiteVerdict(s)
          <6>1. s \in Nat
            BY <2>2
          <6> QED
            BY <2>2, <3>1, <5>1, <6>1 DEF SuiteVerdict
        <5> QED
          BY <5>1, <5>2
      <4> QED
        BY <4>1, <4>2
    <3>4. Verdicts' = [Verdicts EXCEPT ![at.suite] = v]
      BY <3>1, <3>3 DEF Verdicts
    <3> QED
      BY <2>2, <3>0, <3>2, <3>3, <3>4 DEF Promise!Next, Promise!Finish, Promise!Deployed, Verdicts
  <2>6. ASSUME suites' = suites, at'.suite = at.suite,
               phase \in {"each", "story", "afterEach", "after"},
               phase' \in {"each", "story", "afterEach", "after"}
        PROVE  Promise!Next
    <3>1. Verdicts' = Verdicts /\ SuiteVerdict(at.suite) = "running"
      BY <2>1, <2>6, WorkKeepsVerdicts
    <3> QED
      BY <2>2, <3>1 DEF Promise!Next, Promise!Work, Verdicts
  <2>7. CASE BeforeEach \/ AfterEach \/ ExecuteAction \/ ActionThrows \/ NetworkFails
             \/ StoryEnds
    <3>1. /\ suites' = suites /\ at'.suite = at.suite
          /\ phase \in {"each", "story", "afterEach", "after"}
          /\ phase' \in {"each", "story", "afterEach", "after"}
      <4> USE <2>1 DEF Position
      <4>1. CASE BeforeEach
        BY <4>1 DEF BeforeEach, HookThrows
      <4>2. CASE AfterEach
        BY <4>2 DEF AfterEach, HookThrows
      <4>3. CASE ExecuteAction
        BY <4>3 DEF ExecuteAction
      <4>4. CASE ActionThrows \/ NetworkFails
        BY <4>4 DEF ActionThrows, NetworkFails, Throw
      <4>5. CASE StoryEnds
        BY <4>5 DEF StoryEnds
      <4> QED
        BY <2>7, <4>1, <4>2, <4>3, <4>4, <4>5
    <3> QED
      BY <2>6, <3>1
  <2>8. CASE UNCHANGED vars
    <3>1. UNCHANGED <<suites, at, phase, failures, chain>>
      BY <2>8 DEF vars, chainVars
    <3> QED
      BY <3>1 DEF Verdicts, SuiteVerdict
  <2> QED
    BY <1>2, <2>4, <2>5, <2>7, <2>8 DEF Next
<1> QED
  BY <1>1, <1>2, EngineInductive, PTL DEF Spec, KeepsPromise, Promise!Spec, Verdicts
=============================================================================
