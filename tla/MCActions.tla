----------------------------- MODULE MCActions ------------------------------
(***************************************************************************)
(* Instances of Actions: stories of a few actions, of which each may be    *)
(* any of the kinds that the story has at its place.                       *)
(***************************************************************************)
EXTENDS Actions, Sequences, TLC

CONSTANTS alice, bob, treasury, maxUint

VARIABLES
    story,   \* the story that is told
    done     \* how many of its actions there have been

vars == <<reserveVars, actionVars, story, done>>

\* bounds: the kinds of actions at each place, the amounts, and the blocks.
Stories ==
    {\* Depositing, borrowing for oneself and for another, repaying and swapping, with
     \* interest between.
     [kinds |-> <<{"deposit"}, {"deposit", "borrow", "delegateBorrowAllowance"},
                  {"borrow", "withdraw", "setUseAsCollateral"},
                  {"deposit", "withdraw", "repay", "swapBorrowRateMode"}>>,
      amounts |-> {2000, 4000}, blocks |-> 5],
     \* Loans at stable rates beside variable debt, rebalanced, and again.
     [kinds |-> <<{"deposit"}, {"setUseAsCollateral"}, {"borrow"}, {"borrow"},
                  {"borrow", "rebalanceStableBorrowRate"}, {"rebalanceStableBorrowRate"}>>,
      amounts |-> {2000}, blocks |-> 6],
     \* Unbacked aTokens, lent out and paid interest on, and backed with a fee.
     [kinds |-> <<{"deposit", "mintUnbacked"}, {"borrow"}, {"mintUnbacked"},
                  {"backUnbacked", "withdraw"}, {"backUnbacked", "repay"}>>,
      amounts |-> {2000}, blocks |-> 6]}

\* No operator tells the users apart.
Symmetry == Permutations(Borrowers)

Within(c) == {c.amount, c.fee} \cap Amounts \subseteq story.amounts

MCInit == ActionsInit /\ story \in Stories /\ done = 0

MCNext ==
    \/ /\ done < Len(story.kinds)
       /\ done' = done + 1
       /\ \E c \in Calls : c.op \in story.kinds[done'] /\ Within(c) /\ Read(c)
       /\ UNCHANGED story
    \/ now < story.blocks /\ (Mine \/ Travel) /\ UNCHANGED <<story, done>>
    \/ (Execute \/ Reverted \/ Calculate \/ Compare) /\ UNCHANGED <<story, done>>
    \/ pc = "failed" /\ UNCHANGED vars
    \/ pc = "idle" /\ done = Len(story.kinds) /\ UNCHANGED vars
    \/ now = story.blocks /\ UNCHANGED vars   \* no later block within the bounds

MCSpec == MCInit /\ [][MCNext]_vars
=============================================================================
