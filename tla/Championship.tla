---------------------------- MODULE Championship ----------------------------
(***************************************************************************)
(* The championship server of L2_4_Graded/server.c.  main accepts          *)
(* CHAMP_LIMIT connections and creates a detached thread for each; all     *)
(* meet at a barrier of CHAMP_LIMIT + 1, main passes the numbers 1, 2, ... *)
(* through the shared id_pass to whichever thread takes it, and all meet at*)
(* the barrier again before the threads answer their clients and main ends *)
(* the process.                                                            *)
(*                                                                         *)
(* id_pass is read and written under the mutex only, so each critical      *)
(* section is one action that ends where the code unlocks or waits.        *)
(***************************************************************************)
EXTENDS Naturals, FiniteSets

CONSTANT CHAMP_LIMIT

ASSUME ChampionshipAssumption == CHAMP_LIMIT \in Nat \ {0}

Threads == 1..CHAMP_LIMIT
Main == 0
Procs == Threads \cup {Main}

VARIABLES
  accepted,   \* connections accepted so far; thread i serves the i-th one
  id_pass,    \* the number on offer, 0 when it has been taken
  given,      \* numbers main has put into id_pass
  id,         \* each thread's own number
  waiting,    \* who sleeps on cond
  barrier,    \* who waits at the barrier
  pc,
  sent        \* threads that have answered their client

champVars == <<accepted, id_pass, given, id, waiting, barrier, pc, sent>>

ChampInit ==
  /\ accepted = 0
  /\ id_pass = 0 /\ given = 0
  /\ id = [t \in Threads |-> 0]
  /\ waiting = {} /\ barrier = {}
  /\ pc = [p \in Procs |-> IF p = Main THEN "accept" ELSE "absent"]
  /\ sent = {}

\* main's return ends the process and every detached thread with it.
ProcessRunning == pc[Main] # "exit"

\* accept, then pthread_create of the thread that serves the connection.
Accept ==
  /\ pc[Main] = "accept" /\ accepted < CHAMP_LIMIT
  /\ accepted' = accepted + 1
  /\ pc' = [pc EXCEPT ![accepted + 1] = "start"]
  /\ UNCHANGED <<id_pass, given, id, waiting, barrier, sent>>

\* The number of arrivals that opens the barrier.
BarrierCountOffByOne == CHAMP_LIMIT
BarrierCount == CHAMP_LIMIT + 1

AfterBarrier(p) ==
  IF pc[p] = "meet" THEN IF p = Main THEN "close" ELSE "answer"
                    ELSE IF p = Main THEN "assign" ELSE "take"

\* p stands before a pthread_barrier_wait it has not called yet.
AtBarrier(p) ==
  /\ p \notin barrier
  /\ \/ p = Main /\ pc[p] = "accept" /\ accepted = CHAMP_LIMIT
     \/ pc[p] \in {"start", "meet"}

ArriveAndWait(p) ==
  /\ ProcessRunning /\ AtBarrier(p)
  /\ Cardinality(barrier) + 1 < BarrierCount
  /\ barrier' = barrier \cup {p}
  /\ UNCHANGED <<accepted, id_pass, given, id, waiting, pc, sent>>

ArriveLast(p) ==
  /\ ProcessRunning /\ AtBarrier(p)
  /\ Cardinality(barrier) + 1 = BarrierCount
  /\ barrier' = {}
  /\ pc' = [q \in Procs |-> IF q \in barrier \cup {p} THEN AfterBarrier(q) ELSE pc[q]]
  /\ UNCHANGED <<accepted, id_pass, given, id, waiting, sent>>

\* Everybody's position after pthread_cond_broadcast: a broadcast that reached
\* only the threads would leave main asleep.
WakenedThreads == [q \in Procs |-> IF q \in waiting \ {Main} THEN "take" ELSE pc[q]]
Wakened == [q \in Procs |-> IF q \in waiting
                            THEN IF q = Main THEN "check" ELSE "take"
                            ELSE pc[q]]

\* A thread finds no number on offer and waits on cond.
WaitForId(t) ==
  /\ ProcessRunning /\ pc[t] = "take"
  /\ id_pass = 0
  /\ waiting' = waiting \cup {t}
  /\ pc' = [pc EXCEPT ![t] = "wait"]
  /\ UNCHANGED <<accepted, id_pass, given, id, barrier, sent>>

\* *args.id_pass = 0, and its omission.
IdPassKept == id_pass
IdPassTaken == 0

\* A thread takes the number on offer and wakes everybody.
TakeId(t) ==
  /\ ProcessRunning /\ pc[t] = "take"
  /\ id_pass # 0
  /\ id' = [id EXCEPT ![t] = id_pass]
  /\ id_pass' = IdPassTaken
  /\ waiting' = {}
  /\ pc' = [Wakened EXCEPT ![t] = "meet"]
  /\ UNCHANGED <<accepted, given, barrier, sent>>

\* i < CHAMP_LIMIT, the loop of assign_id.
MoreToGiveOffByOne == given <= CHAMP_LIMIT
MoreToGive == given < CHAMP_LIMIT

\* main offers the next number, wakes everybody and waits for it to be taken.
OfferId ==
  /\ pc[Main] = "assign" /\ MoreToGive
  /\ id_pass' = given + 1
  /\ given' = given + 1
  /\ waiting' = {Main}
  /\ pc' = [Wakened EXCEPT ![Main] = "wait"]
  /\ UNCHANGED <<accepted, id, barrier, sent>>

\* main looks at id_pass again after a wakeup and, with an `if' for the
\* `while', does not.
AfterWakeupNoLoop == "assign"
AfterWakeup == IF id_pass # 0 THEN "wait" ELSE "assign"

CheckTaken ==
  /\ pc[Main] = "check"
  /\ pc' = [pc EXCEPT ![Main] = AfterWakeup]
  /\ waiting' = IF AfterWakeup = "wait" THEN waiting \cup {Main} ELSE waiting
  /\ UNCHANGED <<accepted, id_pass, given, id, barrier, sent>>

\* POSIX lets pthread_cond_wait return without a broadcast.
SpuriousWakeup(p) ==
  /\ ProcessRunning /\ p \in waiting
  /\ waiting' = waiting \ {p}
  /\ pc' = [pc EXCEPT ![p] = IF p = Main THEN "check" ELSE "take"]
  /\ UNCHANGED <<accepted, id_pass, given, id, barrier, sent>>

\* All numbers are given: main goes to the second barrier.
AssignDone ==
  /\ pc[Main] = "assign" /\ ~MoreToGive
  /\ pc' = [pc EXCEPT ![Main] = "meet"]
  /\ UNCHANGED <<accepted, id_pass, given, id, waiting, barrier, sent>>

\* The thread sends its byte, closes the connection and ends.
Answer(t) ==
  /\ ProcessRunning /\ pc[t] = "answer"
  /\ sent' = sent \cup {t}
  /\ pc' = [pc EXCEPT ![t] = "gone"]
  /\ UNCHANGED <<accepted, id_pass, given, id, waiting, barrier>>

\* close(socket) and main's return.
MainExit ==
  /\ pc[Main] = "close"
  /\ pc' = [pc EXCEPT ![Main] = "exit"]
  /\ UNCHANGED <<accepted, id_pass, given, id, waiting, barrier, sent>>

MainStep == Accept \/ OfferId \/ CheckTaken \/ AssignDone \/ MainExit
ThreadStep(t) == WaitForId(t) \/ TakeId(t) \/ Answer(t)
BarrierStep(p) == ArriveAndWait(p) \/ ArriveLast(p)

ChampNext == \/ MainStep
             \/ \E t \in Threads : ThreadStep(t)
             \/ \E p \in Procs : BarrierStep(p) \/ SpuriousWakeup(p)

ChampSpec == ChampInit /\ [][ChampNext]_champVars

\* CHAMP_LIMIT clients connect, and the scheduler runs every thread.
ChampFairSpec == /\ ChampSpec
                 /\ WF_champVars(MainStep)
                 /\ \A t \in Threads : WF_champVars(ThreadStep(t))
                 /\ \A p \in Procs : WF_champVars(BarrierStep(p))

-----------------------------------------------------------------------------
\* The types of the variables.
ChampTypeOK ==
  /\ accepted \in 0..CHAMP_LIMIT
  /\ id_pass \in 0..CHAMP_LIMIT
  /\ given \in 0..CHAMP_LIMIT
  /\ id \in [Threads -> 0..CHAMP_LIMIT]
  /\ waiting \subseteq Procs
  /\ barrier \subseteq Procs
  /\ pc \in [Procs -> {"absent", "accept", "start", "assign", "take", "wait",
                       "check", "meet", "answer", "gone", "close", "exit"}]
  /\ sent \subseteq Threads

\* No two threads leave the hand-over of id_pass (lines 86-96 and 154-162)
\* with the same number.
UniqueIds == \A s, t \in Threads : s # t /\ id[s] # 0 => id[s] # id[t]

\* The second barrier (lines 98 and 212) lets nobody through before every
\* thread has its number: nobody answers a client earlier, and main does not
\* end the process earlier.
AllNumberedBeforeAnswers ==
  (sent # {} \/ pc[Main] = "exit") => \A t \in Threads : id[t] # 0

\* The first barrier ("Championship start", lines 82 and 208) holds the
\* numbering back until the last player has connected.
NoIdBeforeStart == (given # 0 \/ waiting # {}) => accepted = CHAMP_LIMIT

\* The hand-over implements the abstract numbering: thread t's number is given
\* once, in the order 1, 2, 3, ...
Abstract == INSTANCE Numbering WITH Players <- Threads, Limit <- CHAMP_LIMIT,
                                   number <- id
ImplementsNumbering == Abstract!Spec

\* The broadcasts of lines 95 and 156 lose no wakeup: once the championship
\* can start, every player gets a number and main ends the process.
ChampionshipEnds == <>(\A t \in Threads : id[t] # 0) /\ <>(pc[Main] = "exit")
=============================================================================
