---------------------------- MODULE DetachedProofs ----------------------------
(***************************************************************************)
(* Proofs about the two servers that create detached threads, for any      *)
(* number of clients: Championship, for every CHAMP_LIMIT, and SemServer,  *)
(* for any set of clients, any number of slots and any times.              *)
(***************************************************************************)
EXTENDS Championship, SemServer, FiniteSetTheorems, TLAPS

-----------------------------------------------------------------------------
(***************************************************************************)
(* Championship: the typing invariant, the uniqueness of the numbers, what *)
(* the two barriers guarantee, and that the hand-over of id_pass implements*)
(* the abstract Numbering.                                                 *)
(*                                                                         *)
(* The properties are not inductive: that a number is not given twice rests*)
(* on where main stands while a number is on offer, and that on the two    *)
(* barriers, which are only safe because the set of arrivals is exactly the*)
(* set of those who stand before the same barrier.  ChampInv says all this.*)
(***************************************************************************)

\* Who may stand where, for each position of main.
Positions ==
  /\ pc[Main] \in {"accept", "assign", "wait", "check", "meet", "close", "exit"}
  /\ \A t \in Threads :
       /\ pc[t] = "absent" <=> t > accepted
       /\ pc[Main] = "accept" => pc[t] \in {"absent", "start"}
       /\ pc[Main] \in {"assign", "wait", "check", "meet"}
            => pc[t] \in {"take", "wait", "meet"}
       /\ pc[Main] \in {"close", "exit"} => pc[t] \in {"answer", "gone"}
       /\ pc[t] \in {"meet", "answer", "gone"} <=> id[t] # 0
  /\ pc[Main] = "accept" => given = 0 /\ waiting = {}
  /\ pc[Main] # "accept" => accepted = CHAMP_LIMIT
  /\ pc[Main] \in {"meet", "close", "exit"} => given = CHAMP_LIMIT

\* Who waits at the barrier, on cond, and who has answered.
Waits ==
  /\ \A p \in barrier : \/ p = Main /\ pc[p] = "accept" /\ accepted = CHAMP_LIMIT
                        \/ pc[p] \in {"start", "meet"}
  /\ \A p \in Procs : p \in waiting <=> pc[p] = "wait"
  /\ \A t \in sent : pc[t] = "gone"

\* The number on offer is the last one given and nobody has it.
Offer ==
  /\ \A t \in Threads : id[t] <= given
  /\ id_pass # 0 => /\ id_pass = given
                    /\ pc[Main] \in {"wait", "check"}
                    /\ \A t \in Threads : id[t] # id_pass

\* Every number given so far is on offer or held by a thread.
Covered == \A k \in 1..given : k = id_pass \/ \E t \in Threads : id[t] = k

ChampInv == ChampTypeOK /\ Positions /\ Waits /\ Offer /\ UniqueIds

-----------------------------------------------------------------------------
\* The barrier counts main and every thread.
LEMMA ProcsCardinality ==
  IsFiniteSet(Procs) /\ Cardinality(Procs) = CHAMP_LIMIT + 1
<1>1. IsFiniteSet(Threads) /\ Cardinality(Threads) = CHAMP_LIMIT
  BY FS_Interval, ChampionshipAssumption DEF Threads
<1>2. Main \notin Threads
  BY ChampionshipAssumption DEF Main, Threads
<1> QED
  BY <1>1, <1>2, FS_AddElement DEF Procs

\* The last arrival finds everybody else at the barrier (lines 82, 98, 208, 212).
LEMMA FullBarrier ==
  ASSUME ChampTypeOK, NEW p \in Procs, AtBarrier(p),
         Cardinality(barrier) + 1 = BarrierCount
  PROVE  barrier \cup {p} = Procs
<1>1. IsFiniteSet(barrier)
  BY ProcsCardinality, FS_Subset DEF ChampTypeOK
<1>2. Cardinality(barrier \cup {p}) = CHAMP_LIMIT + 1
  BY <1>1, FS_AddElement DEF AtBarrier, BarrierCount
<1>3. barrier \cup {p} \in SUBSET Procs
  BY DEF ChampTypeOK
<1> QED
  BY <1>2, <1>3, ProcsCardinality, FS_Subset

\* The typing and the structure of the state are inductive.
THEOREM ChampInductive == ChampSpec => []ChampInv
<1> USE ChampionshipAssumption DEF Main, Threads, Procs
<1>1. ChampInit => ChampInv
  BY DEF ChampInit, ChampInv, ChampTypeOK, Positions, Waits, Offer, UniqueIds
<1>2. ChampInv /\ [ChampNext]_champVars => ChampInv'
  <2> SUFFICES ASSUME ChampInv, [ChampNext]_champVars PROVE ChampInv'
    OBVIOUS
  <2> USE DEF ChampInv
  <2>1. CASE Accept
    BY <2>1 DEF Accept, ChampTypeOK, Positions, Waits, Offer, UniqueIds
  <2>2. CASE OfferId
    <3>1. ChampTypeOK'
      BY <2>2 DEF OfferId, MoreToGive, Wakened, ChampTypeOK
    <3>2. id_pass = 0 /\ id' = id /\ given' = given + 1 /\ id_pass' = given'
      BY <2>2 DEF OfferId, Offer
    <3>3. \A q \in Procs : pc'[q] = IF q = Main THEN "wait" ELSE
                                     IF q \in waiting THEN "take" ELSE pc[q]
      BY <2>2 DEF OfferId, Wakened, ChampTypeOK
    <3>4. Positions'
      BY <2>2, <3>2, <3>3 DEF OfferId, Positions, Waits, ChampTypeOK
    <3>5. Waits'
      <4>1. /\ pc[Main] = "assign" /\ waiting' = {Main}
            /\ barrier' = barrier /\ sent' = sent
        BY <2>2 DEF OfferId
      <4>2. \A q \in barrier : pc'[q] = "meet"
        BY <3>3, <4>1 DEF Positions, Waits, ChampTypeOK
      <4>3. \A q \in Procs : q \in waiting' <=> pc'[q] = "wait"
        BY <3>3, <4>1 DEF Waits
      <4>4. sent = {}
        BY <4>1 DEF Positions, Waits, ChampTypeOK
      <4> QED
        BY <4>1, <4>2, <4>3, <4>4 DEF Waits
    <3>6. Offer' /\ UniqueIds'
      BY <3>2, <3>3 DEF Offer, UniqueIds, ChampTypeOK
    <3> QED
      BY <3>1, <3>4, <3>5, <3>6
  <2>3. CASE CheckTaken
    BY <2>3 DEF CheckTaken, AfterWakeup, ChampTypeOK, Positions, Waits, Offer, UniqueIds
  <2>4. CASE AssignDone
    BY <2>4 DEF AssignDone, MoreToGive, ChampTypeOK, Positions, Waits, Offer, UniqueIds
  <2>5. CASE MainExit
    BY <2>5 DEF MainExit, ChampTypeOK, Positions, Waits, Offer, UniqueIds
  <2>6. ASSUME NEW t \in Threads, WaitForId(t) PROVE ChampInv'
    BY <2>6 DEF WaitForId, ProcessRunning, ChampTypeOK, Positions, Waits, Offer, UniqueIds
  <2>7. ASSUME NEW t \in Threads, TakeId(t) PROVE ChampInv'
    <3>1. ChampTypeOK'
      BY <2>7 DEF TakeId, IdPassTaken, Wakened, ChampTypeOK
    <3>2. /\ id_pass # 0 /\ id_pass' = 0 /\ given' = given
          /\ id' = [id EXCEPT ![t] = id_pass]
          /\ pc[t] = "take" /\ pc[Main] \in {"wait", "check"}
      BY <2>7 DEF TakeId, IdPassTaken, Offer
    <3>3. \A q \in Procs : pc'[q] = IF q = t THEN "meet" ELSE IF q \notin waiting THEN pc[q]
                                     ELSE IF q = Main THEN "check" ELSE "take"
      BY <2>7 DEF TakeId, Wakened, ChampTypeOK
    <3>4. Positions'
      BY <2>7, <3>2, <3>3 DEF TakeId, Positions, Waits, ChampTypeOK
    <3>5. Waits'
      <4>1. waiting' = {} /\ barrier' = barrier /\ sent' = sent
        BY <2>7 DEF TakeId
      <4>2. \A q \in barrier : pc'[q] = "meet"
        BY <3>2, <3>3 DEF Positions, Waits, ChampTypeOK
      <4>3. \A q \in Procs : q \in waiting' <=> pc'[q] = "wait"
        BY <3>3, <4>1 DEF Waits
      <4>4. sent = {}
        BY <3>2 DEF Positions, Waits, ChampTypeOK
      <4> QED
        BY <4>1, <4>2, <4>3, <4>4 DEF Waits
    <3>6. Offer'
      BY <3>2 DEF Offer, ChampTypeOK
    <3>7. UniqueIds'
      BY <3>2 DEF Offer, UniqueIds, ChampTypeOK
    <3> QED
      BY <3>1, <3>4, <3>5, <3>6, <3>7
  <2>8. ASSUME NEW t \in Threads, Answer(t) PROVE ChampInv'
    BY <2>8 DEF Answer, ProcessRunning, ChampTypeOK, Positions, Waits, Offer, UniqueIds
  <2>9. ASSUME NEW p \in Procs, ArriveAndWait(p) PROVE ChampInv'
    BY <2>9 DEF ArriveAndWait, AtBarrier, ProcessRunning, ChampTypeOK, Positions, Waits, Offer, UniqueIds
  <2>10. ASSUME NEW p \in Procs, ArriveLast(p) PROVE ChampInv'
    <3>1. barrier \cup {p} = Procs
      BY <2>10, FullBarrier DEF ArriveLast
    <3>2. pc' = [q \in Procs |-> AfterBarrier(q)]
      BY <2>10, <3>1 DEF ArriveLast
    <3>3. /\ UNCHANGED <<accepted, id_pass, given, id, waiting, sent>>
          /\ barrier' = {} /\ pc[Main] # "exit"
      BY <2>10 DEF ArriveLast, ProcessRunning
    <3>4. \A q \in Procs : \/ q = Main /\ pc[q] = "accept" /\ accepted = CHAMP_LIMIT
                           \/ pc[q] \in {"start", "meet"}
      BY <2>10, <3>1 DEF ArriveLast, AtBarrier, Waits
    <3>5. CASE pc[Main] = "accept"
      <4>1. \A t \in Threads : pc[t] = "start"
        BY <3>4, <3>5 DEF Positions
      <4>2. pc' = [q \in Procs |-> IF q = Main THEN "assign" ELSE "take"]
        BY <3>2, <3>5, <4>1 DEF AfterBarrier
      <4> QED
        BY <3>3, <3>4, <3>5, <4>1, <4>2 DEF ChampTypeOK, Positions, Waits, Offer, UniqueIds
    <3>6. CASE pc[Main] = "meet"
      <4>1. \A t \in Threads : pc[t] = "meet"
        BY <3>4, <3>6 DEF Positions
      <4>2. pc' = [q \in Procs |-> IF q = Main THEN "close" ELSE "answer"]
        BY <3>2, <3>6, <4>1 DEF AfterBarrier
      <4> QED
        BY <3>3, <3>4, <3>6, <4>1, <4>2 DEF ChampTypeOK, Positions, Waits, Offer, UniqueIds
    <3> QED
      BY <3>4, <3>5, <3>6 DEF Positions
  <2>11. ASSUME NEW p \in Procs, SpuriousWakeup(p) PROVE ChampInv'
    BY <2>11 DEF SpuriousWakeup, ProcessRunning, ChampTypeOK, Positions, Waits, Offer, UniqueIds
  <2>12. CASE UNCHANGED champVars
    BY <2>12 DEF champVars, ChampTypeOK, Positions, Waits, Offer, UniqueIds
  <2> QED
    BY <2>1, <2>2, <2>3, <2>4, <2>5, <2>6, <2>7, <2>8, <2>9, <2>10, <2>11, <2>12
       DEF ChampNext, MainStep, ThreadStep, BarrierStep
<1> QED
  BY <1>1, <1>2, PTL DEF ChampSpec

\* Every reachable state has the types of ChampTypeOK.
THEOREM ChampTypeCorrect == ChampSpec => []ChampTypeOK
<1> QED
  BY ChampInductive, PTL DEF ChampInv

\* No two threads take the same number from id_pass (lines 86-96, 154-162).
THEOREM IdsUnique == ChampSpec => []UniqueIds
<1> QED
  BY ChampInductive, PTL DEF ChampInv

\* Nobody passes the second barrier (lines 98, 212) before every thread has
\* its number.
THEOREM NumberedBeforeAnswers == ChampSpec => []AllNumberedBeforeAnswers
<1>1. ASSUME ChampInv PROVE AllNumberedBeforeAnswers
  <2>1. ASSUME pc[Main] \in {"close", "exit"} PROVE \A t \in Threads : id[t] # 0
    BY <1>1, <2>1 DEF ChampInv, Positions
  <2>2. ASSUME NEW s \in Threads, s \in sent PROVE pc[Main] \in {"close", "exit"}
    BY <1>1, <2>2 DEF ChampInv, Positions, Waits
  <2>3. sent \subseteq Threads
    BY <1>1 DEF ChampInv, ChampTypeOK
  <2> QED
    BY <2>1, <2>2, <2>3 DEF AllNumberedBeforeAnswers
<1> QED
  BY <1>1, ChampInductive, PTL

\* Numbering does not begin before the first barrier (lines 82, 208) opens.
THEOREM NoIdEarly == ChampSpec => []NoIdBeforeStart
<1>1. ChampInv => NoIdBeforeStart
  BY DEF ChampInv, Positions, NoIdBeforeStart
<1> QED
  BY <1>1, ChampInductive, PTL

-----------------------------------------------------------------------------
\* No number is lost on its way through id_pass.
THEOREM NoNumberLost == ChampSpec => []Covered
<1> USE ChampionshipAssumption DEF Main, Threads, Procs
<1>1. ChampInit => Covered
  BY DEF ChampInit, Covered
<1>2. ChampInv /\ Covered /\ [ChampNext]_champVars => Covered'
  <2> SUFFICES ASSUME ChampInv, Covered, [ChampNext]_champVars PROVE Covered'
    OBVIOUS
  <2>1. ASSUME NEW t \in Threads, TakeId(t) PROVE Covered'
    <3>1. id[t] = 0 /\ id \in [Threads -> 0..CHAMP_LIMIT]
      BY <2>1 DEF TakeId, ChampInv, Positions, ChampTypeOK
    <3>2. /\ id' = [id EXCEPT ![t] = id_pass]
          /\ given' = given
      BY <2>1 DEF TakeId
    <3>3. ASSUME NEW k \in 1..given PROVE \E s \in Threads : id'[s] = k
      <4>1. CASE k = id_pass
        BY <3>1, <3>2, <4>1
      <4>2. CASE k # id_pass
        <5>1. PICK s \in Threads : id[s] = k
          BY <4>2 DEF Covered
        <5>2. s # t
          BY <3>1, <5>1
        <5> QED
          BY <3>1, <3>2, <5>1, <5>2
      <4> QED
        BY <4>1, <4>2
    <3> QED
      BY <3>2, <3>3 DEF Covered
  <2>2. CASE OfferId
    <3>1. id_pass = 0 /\ given \in Nat
      BY <2>2 DEF OfferId, ChampInv, Offer, ChampTypeOK
    <3> QED
      BY <2>2, <3>1 DEF OfferId, Covered
  <2>3. CASE UNCHANGED <<id, id_pass, given>>
    BY <2>3 DEF Covered
  <2> QED
    BY <2>1, <2>2, <2>3
       DEF ChampNext, MainStep, ThreadStep, BarrierStep, champVars, Accept, CheckTaken, AssignDone,
           MainExit, WaitForId, Answer, ArriveAndWait, ArriveLast, SpuriousWakeup
<1> QED
  BY <1>1, <1>2, ChampInductive, PTL DEF ChampSpec

\* The hand-over of id_pass implements Numbering: every step of the server
\* gives the next number to one thread that has none, or changes no number.
THEOREM Refinement == ChampSpec => ImplementsNumbering
<1> USE ChampionshipAssumption DEF Main, Threads, Procs
<1>1. ChampInit => Abstract!Init
  BY DEF ChampInit, Abstract!Init
<1>2. ChampInv /\ Covered /\ [ChampNext]_champVars => [Abstract!Next]_id
  <2> SUFFICES ASSUME ChampInv, Covered, [ChampNext]_champVars PROVE [Abstract!Next]_id
    OBVIOUS
  <2>1. ASSUME NEW t \in Threads, TakeId(t) PROVE Abstract!Next
    <3>1. id[t] = 0 /\ id_pass \in 1..CHAMP_LIMIT /\ id_pass = given
      BY <2>1 DEF TakeId, ChampInv, Positions, Offer, ChampTypeOK
    <3>2. ~Abstract!Taken(id_pass)
      BY <2>1 DEF TakeId, ChampInv, Offer, Abstract!Taken
    <3>3. \A k \in 1..(id_pass - 1) : Abstract!Taken(k)
      BY <3>1 DEF Covered, Abstract!Taken
    <3>4. id' = [id EXCEPT ![t] = id_pass]
      BY <2>1 DEF TakeId
    <3>5. Abstract!Give(t, id_pass)
      BY <3>1, <3>2, <3>3, <3>4 DEF Abstract!Give
    <3> QED
      BY <3>1, <3>5 DEF Abstract!Next
  <2>2. CASE UNCHANGED id
    BY <2>2
  <2> QED
    BY <2>1, <2>2
       DEF ChampNext, MainStep, ThreadStep, BarrierStep, champVars, Accept, OfferId, CheckTaken,
           AssignDone, MainExit, WaitForId, Answer, ArriveAndWait, ArriveLast,
           SpuriousWakeup
<1> QED
  BY <1>1, <1>2, ChampInductive, NoNumberLost, PTL DEF ChampSpec, ImplementsNumbering, Abstract!Spec

-----------------------------------------------------------------------------
(***************************************************************************)
(* SemServer: slots are conserved, a refusal means a full service, and what*)
(* a client prints is what happened.                                       *)
(*                                                                         *)
(* A client's request is served or refused once (Fresh), a long sleep      *)
(* outlasts the client (Outlived), and an answer on its way was sent by the*)
(* refusal or by the thread of its own client (Answers); from these the    *)
(* verdict that a client prints follows when it receives an answer.        *)
(***************************************************************************)

\* A client that has not sent, or whose request is on its way, is not served.
Fresh == \A c \in Clients :
  /\ client[c] = "send" => c \notin requests /\ worker[c] = "none"
  /\ c \in requests => worker[c] = "none"

\* A thread that has slept longer than TIMEOUT finds its client gone.
Outlived == \A c \in Clients :
  worker[c] \in {"reply", "post", "done"} /\ req[c] > TIMEOUT => client[c] = "ended"

\* The answers on their way.
Answers == \A r \in replies :
  \/ worker[r[1]] = "refused" /\ r[2] = Deny
  \/ worker[r[1]] \in {"post", "done"} /\ r[2] = req[r[1]]

Verdicts == DeniedMeansRefused /\ ExpiredMeansSlept

IInv == TypeOK /\ SlotsConserved /\ Fresh /\ Outlived /\ Answers /\ Verdicts

-----------------------------------------------------------------------------
LEMMA BusyFinite == IsFiniteSet(Busy) /\ Cardinality(Busy) \in Nat
<1>1. Busy \in SUBSET Clients
  BY DEF Busy
<1> QED
  BY <1>1, SemServerAssumption, FS_Subset, FS_CardinalityType

\* The slots stay when the semaphore and the busy threads stay and doServer
\* does not start again.
LEMMA SlotsStay ==
  ASSUME SlotsConserved, sem' = sem, Busy' = Busy, InDoServer' => InDoServer
  PROVE  SlotsConserved'
BY DEF SlotsConserved

\* What most steps leave alone: the busy threads change only with worker.
LEMMA SameBusy ==
  ASSUME worker' = worker
  PROVE  Busy' = Busy
BY DEF Busy

-----------------------------------------------------------------------------
\* Initially every slot is free and nothing has been sent.
LEMMA InitIInv == Init => IInv
<1> SUFFICES ASSUME Init PROVE IInv
  OBVIOUS
<1>1. TypeOK
  <2>1. sem \in 0..FS_NUM
    BY SemServerAssumption DEF Init
  <2> QED
    BY <2>1 DEF Init, TypeOK
<1>2. SlotsConserved
  <2>1. Busy = {}
    BY DEF Init, Busy
  <2> QED
    BY <2>1, FS_EmptySet, SemServerAssumption DEF Init, SlotsConserved
<1>3. Fresh /\ Outlived /\ Answers /\ Verdicts
  BY DEF Init, Fresh, Outlived, Answers, Verdicts, DeniedMeansRefused, ExpiredMeansSlept
<1> QED
  BY <1>1, <1>2, <1>3 DEF IInv

\* The steps of main that touch neither a thread nor a client.
LEMMA MainIInv ==
  ASSUME IInv, Check \/ EnterRecv \/ CloseFd \/ Exit \/ Sigint
  PROVE  IInv'
<1> USE DEF Check, EnterRecv, CloseFd, Exit, Sigint, clientVars
<1>1. TypeOK'
  BY DEF IInv, TypeOK
<1>2. SlotsConserved'
  <2>1. InDoServer' => InDoServer
    BY DEF InDoServer, Running
  <2> QED
    BY <2>1, SameBusy, SlotsStay DEF IInv
<1>3. Fresh' /\ Outlived' /\ Answers' /\ Verdicts'
  BY DEF IInv, Fresh, Outlived, Answers, Verdicts, DeniedMeansRefused, ExpiredMeansSlept
<1> QED
  BY <1>1, <1>2, <1>3 DEF IInv

\* A request is given a slot and a thread.
LEMMA ServeIInv ==
  ASSUME IInv, NEW c \in Clients, Serve(c)
  PROVE  IInv'
<1> USE DEF Serve, clientVars, WorkerStart, Taken
<1>0. worker[c] = "none" /\ worker'[c] = "sleep" /\ \A d \in Clients \ {c} : worker'[d] = worker[d]
  BY DEF IInv, Fresh, TypeOK
<1>1. TypeOK'
  BY SemServerAssumption DEF IInv, TypeOK
<1>2. SlotsConserved'
  <2>1. Busy' = Busy \cup {c} /\ c \notin Busy
    BY <1>0 DEF Busy
  <2>2. Cardinality(Busy') = Cardinality(Busy) + 1
    BY <2>1, BusyFinite, FS_AddElement
  <2> QED
    BY <2>2, BusyFinite, SemServerAssumption DEF IInv, TypeOK, SlotsConserved, InDoServer
<1>3. Fresh'
  BY <1>0 DEF IInv, Fresh, TypeOK
<1>4. Outlived'
  BY <1>0 DEF IInv, Outlived
<1>5. Answers'
  BY <1>0 DEF IInv, Answers, TypeOK
<1>6. Verdicts'
  BY <1>0 DEF IInv, Verdicts, DeniedMeansRefused, ExpiredMeansSlept
<1> QED
  BY <1>1, <1>2, <1>3, <1>4, <1>5, <1>6 DEF IInv

\* A request is refused.
LEMMA RefuseIInv ==
  ASSUME IInv, NEW c \in Clients, Refuse(c)
  PROVE  IInv'
<1> USE DEF Refuse, clientVars
<1>0. worker[c] = "none" /\ worker'[c] = "refused" /\ \A d \in Clients \ {c} : worker'[d] = worker[d]
  BY DEF IInv, Fresh, TypeOK
<1>1. TypeOK'
  BY DEF IInv, TypeOK
<1>2. SlotsConserved'
  <2>1. Busy' = Busy
    BY <1>0 DEF Busy
  <2> QED
    BY <2>1, SlotsStay DEF IInv, InDoServer
<1>3. Fresh'
  BY <1>0 DEF IInv, Fresh, TypeOK
<1>4. Outlived'
  BY <1>0 DEF IInv, Outlived
<1>5. Answers'
  BY <1>0 DEF IInv, Answers, TypeOK
<1>6. Verdicts'
  BY <1>0 DEF IInv, Verdicts, DeniedMeansRefused, ExpiredMeansSlept
<1> QED
  BY <1>1, <1>2, <1>3, <1>4, <1>5, <1>6 DEF IInv

\* A thread wakes up, answers or posts.
LEMMA WorkerIInv ==
  ASSUME IInv, NEW c \in Clients, WorkerStep(c)
  PROVE  IInv'
<1>1. CASE WakeUp(c)
  <2> USE <1>1 DEF WakeUp, serverVars, clientVars, SleepTime
  <2>0. worker[c] = "sleep" /\ worker'[c] = "reply" /\ \A d \in Clients \ {c} : worker'[d] = worker[d]
    BY DEF IInv, TypeOK
  <2>1. TypeOK'
    BY DEF IInv, TypeOK
  <2>2. Busy' = Busy
    BY <2>0 DEF Busy
  <2>3. SlotsConserved'
    BY <2>2, SlotsStay DEF IInv, InDoServer
  <2>4. Fresh'
    BY <2>0 DEF IInv, Fresh
  <2>5. Outlived'
    <3>1. req[c] > TIMEOUT => client[c] = "ended"
      BY <2>0 DEF IInv, Fresh, TypeOK
    <3> QED
      BY <3>1, <2>0 DEF IInv, Outlived
  <2>6. Answers'
    BY <2>0 DEF IInv, Answers, TypeOK
  <2>7. Verdicts'
    BY <2>0 DEF IInv, Verdicts, DeniedMeansRefused, ExpiredMeansSlept
  <2> QED
    BY <2>1, <2>3, <2>4, <2>5, <2>6, <2>7 DEF IInv
<1>2. CASE Reply(c) /\ server # "closed"
  <2> USE <1>2 DEF Reply, clientVars
  <2>0. worker[c] = "reply" /\ worker'[c] = "post" /\ \A d \in Clients \ {c} : worker'[d] = worker[d]
    BY DEF IInv, TypeOK
  <2>1. TypeOK'
    BY DEF IInv, TypeOK
  <2>2. Busy' = Busy
    BY <2>0 DEF Busy
  <2>3. SlotsConserved'
    BY <2>2, SlotsStay DEF IInv, InDoServer
  <2>4. Fresh'
    BY <2>0 DEF IInv, Fresh
  <2>5. Outlived'
    BY <2>0 DEF IInv, Outlived
  <2>6. Answers'
    BY <2>0 DEF IInv, Answers, TypeOK
  <2>7. Verdicts'
    BY <2>0 DEF IInv, Verdicts, DeniedMeansRefused, ExpiredMeansSlept
  <2> QED
    BY <2>1, <2>3, <2>4, <2>5, <2>6, <2>7 DEF IInv
<1>3. CASE Reply(c) /\ server = "closed"
  <2> USE <1>3 DEF Reply, clientVars
  <2>1. TypeOK'
    BY DEF IInv, TypeOK
  <2>2. SlotsConserved'
    BY DEF SlotsConserved, InDoServer
  <2>3. Fresh' /\ Outlived' /\ Answers' /\ Verdicts'
    BY DEF IInv, Fresh, Outlived, Answers, Verdicts, DeniedMeansRefused, ExpiredMeansSlept
  <2> QED
    BY <2>1, <2>2, <2>3 DEF IInv
<1>4. CASE Post(c)
  <2> USE <1>4 DEF Post, clientVars, Posted
  <2>0. worker[c] = "post" /\ worker'[c] = "done" /\ \A d \in Clients \ {c} : worker'[d] = worker[d]
    BY DEF IInv, TypeOK
  <2>1. Cardinality(Busy') = Cardinality(Busy) - 1
    <3>1. Busy' = Busy \ {c} /\ c \in Busy
      BY <2>0 DEF Busy
    <3> QED
      BY <3>1, BusyFinite, FS_RemoveElement
  <2>2. SlotsConserved'
    <3>1. CASE InDoServer
      BY <3>1, <2>1, BusyFinite, SemServerAssumption DEF IInv, TypeOK, SlotsConserved
    <3>2. CASE ~InDoServer
      BY <3>2 DEF SlotsConserved, InDoServer
    <3> QED
      BY <3>1, <3>2
  <2>3. Cardinality(Busy') \in Nat
    <3>1. Busy' \in SUBSET Clients
      BY DEF Busy
    <3> QED
      BY <3>1, SemServerAssumption, FS_Subset, FS_CardinalityType
  <2>4. TypeOK'
    <3>1. CASE InDoServer
      <4>1. sem + Cardinality(Busy) = FS_NUM /\ sem' = sem + 1
        BY <3>1 DEF IInv, SlotsConserved
      <4>2. sem' \in 0..FS_NUM
        BY <4>1, <2>1, <2>3, BusyFinite, SemServerAssumption DEF IInv, TypeOK
      <4> QED
        BY <4>2, <3>1 DEF IInv, TypeOK
    <3>2. CASE ~InDoServer
      BY <3>2 DEF IInv, TypeOK
    <3> QED
      BY <3>1, <3>2
  <2>5. Fresh'
    BY <2>0 DEF IInv, Fresh
  <2>6. Outlived'
    BY <2>0 DEF IInv, Outlived
  <2>7. Answers'
    BY <2>0 DEF IInv, Answers, TypeOK
  <2>8. Verdicts'
    BY <2>0 DEF IInv, Verdicts, DeniedMeansRefused, ExpiredMeansSlept
  <2> QED
    BY <2>2, <2>4, <2>5, <2>6, <2>7, <2>8 DEF IInv
<1> QED
  BY <1>1, <1>2, <1>3, <1>4 DEF WorkerStep

\* A client sends, receives an answer or gives up.
LEMMA ClientIInv ==
  ASSUME IInv, NEW c \in Clients, ClientStep(c)
  PROVE  IInv'
<1>0. worker' = worker /\ sem' = sem /\ server' = server
  BY DEF ClientStep, Send, RecvReply, Alarm, serverVars
<1>1. SlotsConserved'
  BY <1>0, SameBusy, SlotsStay DEF IInv, InDoServer
<1>2. CASE Send(c)
  <2> USE <1>2 DEF Send, serverVars
  <2>1. TypeOK'
    BY DEF IInv, TypeOK
  <2>2. Fresh'
    BY DEF IInv, Fresh, TypeOK
  <2>3. Outlived' /\ Answers' /\ Verdicts'
    BY DEF IInv, Fresh, TypeOK, Outlived, Answers, Verdicts, DeniedMeansRefused, ExpiredMeansSlept
  <2> QED
    BY <1>1, <2>1, <2>2, <2>3 DEF IInv
<1>3. CASE RecvReply(c)
  <2> USE DEF RecvReply, serverVars
  <2>1. PICK r \in replies : r[1] = c /\ replies' = replies \ {r}
            /\ \E o \in {Verdict(r[2]), "timeout"} : outcome' = [outcome EXCEPT ![c] = o]
    BY <1>3
  <2>2. \/ worker[c] = "refused" /\ r[2] = Deny
        \/ worker[c] \in {"post", "done"} /\ r[2] = req[c]
    BY <2>1 DEF IInv, Answers
  <2>3. client[c] = "wait" /\ client' = [client EXCEPT ![c] = "ended"]
    BY <1>3
  <2>4. outcome'[c] \in {Verdict(r[2]), "timeout"} /\ \A d \in Clients \ {c} : outcome'[d] = outcome[d]
    BY <2>1 DEF IInv, TypeOK
  <2>5. TypeOK'
    BY <1>3, <2>1 DEF IInv, TypeOK, Verdict
  <2>6. Fresh' /\ Outlived' /\ Answers'
    BY <1>3, <2>1, <2>3 DEF IInv, Fresh, TypeOK, Outlived, Answers
  <2>7. worker[c] \in {"post", "done"} => ~(req[c] > TIMEOUT)
    BY <2>3 DEF IInv, Outlived
  <2>8. req[c] \in Nat /\ TIMEOUT \in Nat /\ TIMEOUT < Deny
    BY SemServerAssumption DEF IInv, TypeOK
  <2>9. /\ outcome'[c] = "denied" => worker[c] = "refused"
        /\ outcome'[c] = "expired" => req[c] <= TIMEOUT /\ worker[c] \in {"post", "done"}
    <3>1. CASE worker[c] = "refused"
      BY <2>2, <2>4, <3>1 DEF Verdict
    <3>2. CASE worker[c] # "refused"
      <4>1. req[c] <= TIMEOUT
        BY <2>2, <2>7, <2>8, <3>2
      <4>2. req[c] # Deny
        BY <2>8, <4>1 DEF Deny
      <4> QED
        BY <2>2, <2>4, <3>2, <4>1, <4>2 DEF Verdict
    <3> QED
      BY <3>1, <3>2
  <2>10. Verdicts'
    BY <1>0, <1>3, <2>4, <2>9 DEF IInv, Verdicts, DeniedMeansRefused, ExpiredMeansSlept
  <2> QED
    BY <1>1, <2>5, <2>6, <2>10 DEF IInv
<1>4. CASE Alarm(c)
  <2> USE <1>4 DEF Alarm, serverVars
  <2>1. TypeOK'
    BY DEF IInv, TypeOK
  <2>2. Fresh' /\ Outlived' /\ Answers' /\ Verdicts'
    BY DEF IInv, Fresh, TypeOK, Outlived, Answers, Verdicts, DeniedMeansRefused, ExpiredMeansSlept
  <2> QED
    BY <1>1, <2>1, <2>2 DEF IInv
<1> QED
  BY <1>2, <1>3, <1>4 DEF ClientStep

\* The network loses a datagram.
LEMMA LoseIInv ==
  ASSUME IInv, Lose
  PROVE  IInv'
<1> USE DEF Lose, serverVars, clientVars
<1>1. TypeOK'
  BY DEF IInv, TypeOK
<1>2. SlotsConserved'
  BY SameBusy, SlotsStay DEF IInv, InDoServer
<1>3. Fresh' /\ Outlived' /\ Answers' /\ Verdicts'
  BY DEF IInv, Fresh, Outlived, Answers, Verdicts, DeniedMeansRefused, ExpiredMeansSlept
<1> QED
  BY <1>1, <1>2, <1>3 DEF IInv

\* A step that changes nothing.
LEMMA StutterIInv ==
  ASSUME IInv, UNCHANGED vars
  PROVE  IInv'
<1> USE DEF vars
<1>1. TypeOK'
  BY DEF IInv, TypeOK
<1>2. SlotsConserved'
  BY SameBusy, SlotsStay DEF IInv, InDoServer
<1>3. Fresh' /\ Outlived' /\ Answers' /\ Verdicts'
  BY DEF IInv, Fresh, Outlived, Answers, Verdicts, DeniedMeansRefused, ExpiredMeansSlept
<1> QED
  BY <1>1, <1>2, <1>3 DEF IInv

-----------------------------------------------------------------------------
\* The inductive invariant of POSIX_sem_server.c and its clients.
THEOREM Inductive == Spec => []IInv
<1>1. Init => IInv
  BY InitIInv
<1>2. IInv /\ [Next]_vars => IInv'
  BY MainIInv, ServeIInv, RefuseIInv, WorkerIInv, ClientIInv, LoseIInv, StutterIInv
     DEF Next, ServerStep
<1> QED
  BY <1>1, <1>2, PTL DEF Spec

\* The types of the variables; the semaphore never exceeds FS_NUM (sem_post,
\* line 86).
THEOREM TypeCorrect == Spec => []TypeOK
<1>1. IInv => TypeOK
  BY DEF IInv
<1> QED
  BY <1>1, Inductive, PTL

\* No slot is lost or invented by the trywait of line 104 and the post of
\* line 86, whatever the order of the threads.
THEOREM SlotsKept == Spec => []SlotsConserved
<1>1. IInv => SlotsConserved
  BY DEF IInv
<1> QED
  BY <1>1, Inductive, PTL

\* "Service denied" (client, line 94) is printed only after a refusal, though
\* the deny value is also a time that a client may ask for.
THEOREM DeniedRefused == Spec => []DeniedMeansRefused
<1>1. IInv => DeniedMeansRefused
  BY DEF IInv, Verdicts
<1> QED
  BY <1>1, Inductive, PTL

\* "Time has expired" (client, line 96) is printed only after the sleep.
THEOREM ExpiredSlept == Spec => []ExpiredMeansSlept
<1>1. IInv => ExpiredMeansSlept
  BY DEF IInv, Verdicts
<1> QED
  BY <1>1, Inductive, PTL

\* A request is refused (lines 107-117) only while FS_NUM are being served.
THEOREM RefusedFull == Spec => RefusedOnlyWhenFull
<1>1. ASSUME IInv, Next, NEW c \in Clients, worker'[c] = "refused", worker[c] # "refused"
      PROVE  Cardinality(Busy) = FS_NUM
  <2>1. ASSUME NEW d \in Clients, Refuse(d)
        PROVE  Cardinality(Busy) = FS_NUM
    BY <1>1, <2>1, BusyFinite, SemServerAssumption
       DEF IInv, SlotsConserved, InDoServer, Refuse, Full
  <2>2. ASSUME NEW d \in Clients, Serve(d) \/ WorkerStep(d)
        PROVE  worker'[c] # "refused"
    BY <1>1, <2>2 DEF IInv, TypeOK, Serve, WorkerStart, WorkerStep, WakeUp, Reply, Post
  <2>3. ASSUME NEW d \in Clients, ClientStep(d)
        PROVE  worker' = worker
    BY <2>3 DEF ClientStep, Send, RecvReply, Alarm
  <2>4. ASSUME Check \/ EnterRecv \/ CloseFd \/ Exit \/ Sigint \/ Lose
        PROVE  worker' = worker
    BY <2>4 DEF Check, EnterRecv, CloseFd, Exit, Sigint, Lose
  <2> QED
    BY <1>1, <2>1, <2>2, <2>3, <2>4 DEF Next, ServerStep
<1>2. IInv /\ [Next]_vars =>
        [\A c \in Clients : (worker'[c] = "refused" /\ worker[c] # "refused")
            => Cardinality(Busy) = FS_NUM]_vars
  BY <1>1
<1> QED
  BY <1>2, Inductive, PTL DEF Spec, RefusedOnlyWhenFull
=============================================================================
