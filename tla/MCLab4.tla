------------------------------- MODULE MCLab4 -------------------------------
(* The two programs of Lab4 for the model checker: a session runs one of them. *)
EXTENDS AioBlocks, AioFilter

VARIABLE program

lab4Vars == <<program, archunixVars, filterVars>>

Init ==
  /\ program \in {"archunix5a", "test"}
  /\ ArchunixInit /\ FilterInit

Next ==
  /\ UNCHANGED program
  /\ \/ program = "archunix5a" /\ ArchunixNext /\ UNCHANGED filterVars
     \/ program = "test" /\ FilterNext /\ UNCHANGED archunixVars

Spec == Init /\ [][Next]_lab4Vars
=============================================================================
