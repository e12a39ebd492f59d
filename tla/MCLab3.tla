------------------------------- MODULE MCLab3 -------------------------------
(* The three thread exercises of Lab3 for the model checker: a session runs one of them. *)
EXTENDS Students, BallThrowers, Removal

VARIABLE program

lab3Vars == <<program, studentsVars, ballsVars, removalVars>>

Init ==
  /\ program \in {"prog18", "prog19", "prog20"}
  /\ BallsInit /\ RemovalInit /\ StudentsInit

Next ==
  /\ UNCHANGED program
  /\ \/ program = "prog18" /\ BallsNext /\ UNCHANGED <<studentsVars, removalVars>>
     \/ program = "prog19" /\ RemovalNext /\ UNCHANGED <<studentsVars, ballsVars>>
     \/ program = "prog20" /\ StudentsNext /\ UNCHANGED <<ballsVars, removalVars>>

Spec == Init /\ [][Next]_lab3Vars
=============================================================================
