------------------------------ MODULE MCQueues ------------------------------
(* Three programs over message queues for the model checker: a session runs one of them. *)
EXTENDS Newspaper, Bingo, Pastry

VARIABLE program

queuesVars == <<program, newsVars, bingoVars, pastryVars>>

Init ==
  /\ program \in {"editor", "bingo", "pastry"}
  /\ NewsInit /\ BingoInit /\ PastryInit

BingoSession(step) == program = "bingo" /\ step /\ UNCHANGED <<program, newsVars, pastryVars>>

Next ==
  \/ program = "editor" /\ NewsNext /\ UNCHANGED <<program, bingoVars, pastryVars>>
  \/ BingoSession(BingoNext)
  \/ program = "pastry" /\ PastryNext /\ UNCHANGED <<program, newsVars, bingoVars>>

\* The parent of bingo runs on, and a pending signal is delivered.
Spec ==
  /\ Init /\ [][Next]_queuesVars
  /\ WF_queuesVars(BingoSession(Deliver))
  /\ WF_queuesVars(BingoSession(HandlerStep))
  /\ WF_queuesVars(BingoSession(MainStep))
=============================================================================
