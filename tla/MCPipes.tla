------------------------------- MODULE MCPipes -------------------------------
(* The programs of Lab2_1 that fork and share pipes, for the model checker: a *)
(* session runs the ring of test2, the pair of test or the children of prog22b. *)
EXTENDS Ring, ChildPipes

\* test.c: two processes and a string, of which only the length matters; here it
\* starts with three characters.
VARIABLES pipe2, rd2, wr2, at2, held2, left2
pairVars == <<pipe2, rd2, wr2, at2, held2, left2>>

Pair == INSTANCE Ring WITH CORNERS <- 2, Messages <- 0..3, First <- 3, Varied <- RmRandChar,
                           pipe <- pipe2, rd <- rd2, wr <- wr2, at <- at2,
                           held <- held2, left <- left2

VARIABLE program
labVars == <<program, ringVars, pairVars, pipesVars>>

Init ==
  /\ program \in {"test2", "test", "prog22b"}
  /\ RingInit /\ Pair!RingInit /\ PipesInit

RingSession(step) == program = "test2" /\ step /\ UNCHANGED <<program, pairVars, pipesVars>>
PairSession(step) == program = "test" /\ step /\ UNCHANGED <<program, ringVars, pipesVars>>
Prog22bSession(step) == program = "prog22b" /\ step /\ UNCHANGED <<program, ringVars, pairVars>>

Next ==
  \/ RingSession(RingNext)
  \/ PairSession(Pair!RingNext)
  \/ Prog22bSession(PipesNext)

\* Every process of a ring that is not killed runs on; of prog22b the parent.
Spec ==
  /\ Init /\ [][Next]_labVars
  /\ WF_labVars(RingSession(PrimaryStep))
  /\ \A p \in Procs : WF_labVars(RingSession(RingStep(p)))
  /\ WF_labVars(PairSession(Pair!PrimaryStep))
  /\ \A p \in Pair!Procs : WF_labVars(PairSession(Pair!RingStep(p)))
  /\ WF_labVars(Prog22bSession(ParentStep))

\* Both rings end when somebody has left, and the pair of test.c always ends: its
\* string gets shorter (test.c lines 79-90), and a partner that is killed is
\* noticed on either pipe.
RingsEnd ==
  /\ RingEnds
  /\ program = "test" ~> Pair!RingOver
=============================================================================
