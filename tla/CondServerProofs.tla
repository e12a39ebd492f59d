-------------------------- MODULE CondServerProofs --------------------------
(***************************************************************************)
(* Theorems about CondServer.tla, for every pool, every set of clients and *)
(* every size of the backlog and the descriptor table.                     *)
(***************************************************************************)
EXTENDS CondServer, FiniteSetTheorems, SequenceTheorems, TLAPS

\* Where a thread owns the mutex, where idlethreads counts it, and where it
\* works on a connection.
Owning  == {"test", "wait", "reset"}
Counted == Owning \cup {"waiting", "relock", "exited"}
Busy    == {"recv", "receiving", "send", "close"}

Idle == {t \in Threads : pc[t] \in Counted}

\* The mutex and the condition variable agree with the threads' positions.
Sleepers ==
  /\ \A t \in Threads : mutex = t <=> pc[t] \in Owning
  /\ \A t \in waiting : pc[t] = "waiting"

\* Every hand-off that is announced is for an open descriptor's number, and
\* a thread takes one only while condition is set.
HandOff ==
  /\ takes + condition <= handoffs
  /\ \A t \in Threads : pc[t] = "reset" /\ work => condition = 1
  /\ main \in {"lock", "setcondition"} => mainfd \in Fds
  /\ main = "setcondition" \/ condition = 1 => socket \in Fds
  /\ \A t \in Threads : pc[t] \in Busy => clientfd[t] \in Fds

\* The type invariant without the bound of idlethreads, and what that bound
\* follows from.
Types ==
  /\ work \in BOOLEAN /\ sigint \in {"none", "pending", "taken"} /\ alive \in BOOLEAN
  /\ mutex \in Threads \cup {Free} /\ waiting \subseteq Threads
  /\ condition \in {0, 1} /\ socket \in 0..NumFds
  /\ fdtab \in [Fds -> Clients \cup {NoClient}] /\ backlog \in Seq(Clients)
  /\ main \in {"select", "lock", "setcondition", "signal", "join", "done"}
  /\ mainfd \in 0..NumFds
  /\ pc \in [Threads -> {"lock", "test", "wait", "waiting", "relock", "reset",
                         "exited", "recv", "receiving", "send", "close"}]
  /\ clientfd \in [Threads -> 0..NumFds]
  /\ peer \in [Threads -> Clients \cup {NoClient}]
  /\ cstate \in [Clients -> {"away", "connected", "sent", "read", "left", "finished"}]
  /\ answers \in [Clients -> Nat]
  /\ handoffs \in Nat /\ takes \in Nat /\ apart \in BOOLEAN

IdleCounted == idlethreads = Cardinality(Idle)

Inv == Types /\ Sleepers /\ HandOff /\ IdleCounted

-----------------------------------------------------------------------------
(* How a step changes the number of threads that idlethreads counts.       *)

LEMMA IdleFinite == IsFiniteSet(Idle) /\ Cardinality(Idle) \in 0..Cardinality(Threads)
<1>1. Idle \in SUBSET Threads
  BY DEF Idle
<1> QED
  BY <1>1, CondServerAssumption, FS_Subset, FS_CardinalityType

LEMMA IdleMore ==
  ASSUME IdleCounted, NEW t \in Threads, t \notin Idle, Idle' = Idle \cup {t},
         idlethreads' = idlethreads + 1
  PROVE  IdleCounted'
<1>1. Cardinality(Idle \cup {t}) = Cardinality(Idle) + 1
  BY IdleFinite, FS_AddElement
<1> QED
  BY <1>1 DEF IdleCounted

LEMMA IdleLess ==
  ASSUME IdleCounted, NEW t \in Idle, Idle' = Idle \ {t},
         idlethreads' = idlethreads - 1
  PROVE  IdleCounted'
<1>1. Cardinality(Idle \ {t}) = Cardinality(Idle) - 1
  BY IdleFinite, FS_RemoveElement
<1> QED
  BY <1>1 DEF IdleCounted

-----------------------------------------------------------------------------
(* Every step preserves Inv.                                               *)

\* The main thread, and the signal.
LEMMA MainKeeps ==
  ASSUME Inv, MainStep \/ Interrupt
  PROVE  Inv'
<1> USE CondServerAssumption DEF Inv, Fds, procVars, shared, threadVars, clientVars, history
<1>1. CASE TakeSigint
  <2>1. Types'
    BY <1>1 DEF TakeSigint, WorkAfterSigint, Types
  <2>2. Sleepers'
    BY <1>1 DEF TakeSigint, WorkAfterSigint, Types, Sleepers, Owning
  <2>3. HandOff'
    BY <1>1 DEF TakeSigint, WorkAfterSigint, Types, Sleepers, HandOff, Owning, Busy
  <2>4. IdleCounted'
    BY <1>1 DEF TakeSigint, WorkAfterSigint, IdleCounted, Idle
  <2> QED
    BY <2>1, <2>2, <2>3, <2>4 DEF Inv
<1>2. CASE Accept
  <2>1. Types'
    BY <1>2 DEF Accept, Types
  <2>2. Sleepers'
    BY <1>2 DEF Accept, Types, Sleepers, Owning
  <2>3. HandOff'
    BY <1>2 DEF Accept, Types, Sleepers, HandOff, Owning, Busy
  <2>4. IdleCounted'
    BY <1>2 DEF Accept, IdleCounted, Idle
  <2> QED
    BY <2>1, <2>2, <2>3, <2>4 DEF Inv
<1>3. CASE Refuse
  <2>1. Types'
    BY <1>3 DEF Refuse, NobodyIdle, Fail, Types
  <2>2. Sleepers'
    BY <1>3 DEF Refuse, NobodyIdle, Fail, Types, Sleepers, Owning
  <2>3. HandOff'
    BY <1>3 DEF Refuse, NobodyIdle, Fail, Types, Sleepers, HandOff, Owning, Busy
  <2>4. IdleCounted'
    BY <1>3 DEF Refuse, NobodyIdle, Fail, IdleCounted, Idle
  <2> QED
    BY <2>1, <2>2, <2>3, <2>4 DEF Inv
<1>4. CASE StoreSocket
  <2>1. Types'
    BY <1>4 DEF StoreSocket, NobodyIdle, Types
  <2>2. Sleepers'
    BY <1>4 DEF StoreSocket, NobodyIdle, Types, Sleepers, Owning
  <2>3. HandOff'
    BY <1>4 DEF StoreSocket, NobodyIdle, Types, Sleepers, HandOff, Owning, Busy
  <2>4. IdleCounted'
    BY <1>4 DEF StoreSocket, NobodyIdle, IdleCounted, Idle
  <2> QED
    BY <2>1, <2>2, <2>3, <2>4 DEF Inv
<1>5. CASE SetCondition
  <2>1. Types'
    BY <1>5 DEF SetCondition, Types
  <2>2. Sleepers'
    BY <1>5 DEF SetCondition, Types, Sleepers, Owning
  <2>3. HandOff'
    BY <1>5 DEF SetCondition, Types, Sleepers, HandOff, Owning, Busy
  <2>4. IdleCounted'
    BY <1>5 DEF SetCondition, IdleCounted, Idle
  <2> QED
    BY <2>1, <2>2, <2>3, <2>4 DEF Inv
<1>6. CASE Signal
  <2>1. Types'
    BY <1>6 DEF Signal, Types
  <2>2. Sleepers'
    BY <1>6 DEF Signal, Types, Sleepers, Owning
  <2>3. HandOff'
    BY <1>6 DEF Signal, Types, Sleepers, HandOff, Owning, Busy
  <2>4. IdleCounted'
    <3>1. Idle' = Idle
      BY <1>6 DEF Signal, Types, Sleepers, Idle, Counted, Owning
    <3> QED
      BY <3>1, <1>6 DEF Signal, shared, IdleCounted
  <2> QED
    BY <2>1, <2>2, <2>3, <2>4 DEF Inv
<1>7. CASE Broadcast
  <2>1. Types'
    BY <1>7 DEF Broadcast, BroadcastAll, Types
  <2>2. Sleepers'
    BY <1>7 DEF Broadcast, BroadcastAll, Types, Sleepers, Owning
  <2>3. HandOff'
    BY <1>7 DEF Broadcast, BroadcastAll, Types, Sleepers, HandOff, Owning, Busy
  <2>4. IdleCounted'
    <3>1. Idle' = Idle
      BY <1>7 DEF Broadcast, BroadcastAll, Types, Sleepers, Idle, Counted, Owning
    <3> QED
      BY <3>1, <1>7 DEF Broadcast, BroadcastAll, shared, IdleCounted
  <2> QED
    BY <2>1, <2>2, <2>3, <2>4 DEF Inv
<1>8. CASE Join
  <2>1. Types'
    BY <1>8 DEF Join, Types
  <2>2. Sleepers'
    BY <1>8 DEF Join, Types, Sleepers, Owning
  <2>3. HandOff'
    BY <1>8 DEF Join, Types, Sleepers, HandOff, Owning, Busy
  <2>4. IdleCounted'
    BY <1>8 DEF Join, IdleCounted, Idle
  <2> QED
    BY <2>1, <2>2, <2>3, <2>4 DEF Inv
<1>9. CASE Interrupt
  <2>1. Types'
    BY <1>9 DEF Interrupt, Types
  <2>2. Sleepers'
    BY <1>9 DEF Interrupt, Types, Sleepers, Owning
  <2>3. HandOff'
    BY <1>9 DEF Interrupt, Types, Sleepers, HandOff, Owning, Busy
  <2>4. IdleCounted'
    BY <1>9 DEF Interrupt, IdleCounted, Idle
  <2> QED
    BY <2>1, <2>2, <2>3, <2>4 DEF Inv
<1> QED
  BY <1>1, <1>2, <1>3, <1>4, <1>5, <1>6, <1>7, <1>8, <1>9 DEF MainStep

\* The threads of the pool.
LEMMA ThreadsKeep ==
  ASSUME Inv, NEW t \in Threads, ThreadStep(t) \/ SpuriousWakeup(t)
  PROVE  Inv'
<1> USE CondServerAssumption DEF Inv, Fds, procVars, shared, threadVars, clientVars, history
<1>1. CASE Lock(t)
  <2>1. Types'
    BY <1>1 DEF Lock, Types
  <2>2. Sleepers'
    BY <1>1 DEF Lock, Types, Sleepers, Owning
  <2>3. HandOff'
    BY <1>1 DEF Lock, Types, Sleepers, HandOff, Owning, Busy
  <2>4. IdleCounted'
    <3>1. t \notin Idle /\ Idle' = Idle \cup {t} /\ idlethreads' = idlethreads + 1
      BY <1>1 DEF Lock, Types, Idle, Counted, Owning
    <3> QED
      BY <3>1, IdleMore
  <2> QED
    BY <2>1, <2>2, <2>3, <2>4 DEF Inv
<1>2. CASE Test(t)
  <2>1. Types'
    BY <1>2 DEF Test, Types
  <2>2. Sleepers'
    BY <1>2 DEF Test, Types, Sleepers, Owning
  <2>3. HandOff'
    BY <1>2 DEF Test, Types, Sleepers, HandOff, Owning, Busy
  <2>4. IdleCounted'
    <3>1. Idle' = Idle
      BY <1>2 DEF Test, Types, Sleepers, Idle, Counted, Owning
    <3> QED
      BY <3>1, <1>2 DEF Test, shared, IdleCounted
  <2> QED
    BY <2>1, <2>2, <2>3, <2>4 DEF Inv
<1>3. CASE Wait(t)
  <2>1. Types'
    BY <1>3 DEF Wait, Types
  <2>2. Sleepers'
    BY <1>3 DEF Wait, Types, Sleepers, Owning
  <2>3. HandOff'
    BY <1>3 DEF Wait, Types, Sleepers, HandOff, Owning, Busy
  <2>4. IdleCounted'
    <3>1. Idle' = Idle
      BY <1>3 DEF Wait, Types, Sleepers, Idle, Counted, Owning
    <3> QED
      BY <3>1, <1>3 DEF Wait, shared, IdleCounted
  <2> QED
    BY <2>1, <2>2, <2>3, <2>4 DEF Inv
<1>4. CASE Relock(t)
  <2>1. Types'
    BY <1>4 DEF Relock, AfterWakeup, Types
  <2>2. Sleepers'
    BY <1>4 DEF Relock, AfterWakeup, Types, Sleepers, Owning
  <2>3. HandOff'
    BY <1>4 DEF Relock, AfterWakeup, Types, Sleepers, HandOff, Owning, Busy
  <2>4. IdleCounted'
    <3>1. Idle' = Idle
      BY <1>4 DEF Relock, AfterWakeup, Types, Sleepers, Idle, Counted, Owning
    <3> QED
      BY <3>1, <1>4 DEF Relock, AfterWakeup, shared, IdleCounted
  <2> QED
    BY <2>1, <2>2, <2>3, <2>4 DEF Inv
<1>5. CASE Exit(t)
  <2>1. Types'
    BY <1>5 DEF Exit, Consumed, Types
  <2>2. Sleepers'
    BY <1>5 DEF Exit, Consumed, Types, Sleepers, Owning
  <2>3. HandOff'
    BY <1>5 DEF Exit, Consumed, Types, Sleepers, HandOff, Owning, Busy
  <2>4. IdleCounted'
    <3>1. Idle' = Idle
      BY <1>5 DEF Exit, Consumed, Types, Sleepers, Idle, Counted, Owning
    <3> QED
      BY <3>1, <1>5 DEF Exit, Consumed, shared, IdleCounted
  <2> QED
    BY <2>1, <2>2, <2>3, <2>4 DEF Inv
<1>6. CASE TakeSocket(t)
  <2>1. Types'
    BY <1>6 DEF TakeSocket, Consumed, LeavePool, Types
  <2>2. Sleepers'
    BY <1>6 DEF TakeSocket, Consumed, LeavePool, Types, Sleepers, Owning
  <2>3. HandOff'
    BY <1>6 DEF TakeSocket, Consumed, LeavePool, Types, Sleepers, HandOff, Owning, Busy
  <2>4. IdleCounted'
    <3>1. t \in Idle /\ Idle' = Idle \ {t} /\ idlethreads' = idlethreads - 1
      BY <1>6 DEF TakeSocket, LeavePool, Types, Idle, Counted, Owning
    <3> QED
      BY <3>1, IdleLess
  <2> QED
    BY <2>1, <2>2, <2>3, <2>4 DEF Inv
<1>7. CASE EnterRecv(t)
  <2>1. Types'
    BY <1>7 DEF EnterRecv, Fail, Types, HandOff, Busy
  <2>2. Sleepers'
    BY <1>7 DEF EnterRecv, Fail, Types, Sleepers, Owning
  <2>3. HandOff'
    BY <1>7 DEF EnterRecv, Fail, Types, Sleepers, HandOff, Owning, Busy
  <2>4. IdleCounted'
    <3>1. Idle' = Idle
      BY <1>7 DEF EnterRecv, Fail, Types, Sleepers, Idle, Counted, Owning
    <3> QED
      BY <3>1, <1>7 DEF EnterRecv, Fail, shared, IdleCounted
  <2> QED
    BY <2>1, <2>2, <2>3, <2>4 DEF Inv
<1>8. CASE RecvRequest(t)
  <2>1. Types'
    BY <1>8 DEF RecvRequest, Types
  <2>2. Sleepers'
    BY <1>8 DEF RecvRequest, Types, Sleepers, Owning
  <2>3. HandOff'
    BY <1>8 DEF RecvRequest, Types, Sleepers, HandOff, Owning, Busy
  <2>4. IdleCounted'
    <3>1. Idle' = Idle
      BY <1>8 DEF RecvRequest, Types, Sleepers, Idle, Counted, Owning
    <3> QED
      BY <3>1, <1>8 DEF RecvRequest, shared, IdleCounted
  <2> QED
    BY <2>1, <2>2, <2>3, <2>4 DEF Inv
<1>9. CASE RecvShort(t)
  <2>1. Types'
    BY <1>9 DEF RecvShort, Types
  <2>2. Sleepers'
    BY <1>9 DEF RecvShort, Types, Sleepers, Owning
  <2>3. HandOff'
    BY <1>9 DEF RecvShort, Types, Sleepers, HandOff, Owning, Busy
  <2>4. IdleCounted'
    <3>1. Idle' = Idle
      BY <1>9 DEF RecvShort, Types, Sleepers, Idle, Counted, Owning
    <3> QED
      BY <3>1, <1>9 DEF RecvShort, shared, IdleCounted
  <2> QED
    BY <2>1, <2>2, <2>3, <2>4 DEF Inv
<1>10. CASE SendAnswer(t)
  <2>1. Types'
    <3>1. fdtab[clientfd[t]] # NoClient => fdtab[clientfd[t]] \in Clients
      BY <1>10 DEF SendAnswer, Types, HandOff, Busy
    <3>2. answers' \in [Clients -> Nat]
      <4>1. CASE fdtab[clientfd[t]] = NoClient
        BY <1>10, <4>1 DEF SendAnswer, Types
      <4>2. CASE fdtab[clientfd[t]] # NoClient
        <5>1. PICK c \in Clients : c = fdtab[clientfd[t]]
          BY <3>1, <4>2
        <5>2. answers' = [answers EXCEPT ![c] = @ + 1]
          BY <1>10, <4>2, <5>1 DEF SendAnswer
        <5>3. answers \in [Clients -> Nat]
          BY DEF Types
        <5> HIDE DEF Inv
        <5> QED
          BY <5>2, <5>3
      <4> QED
        BY <4>1, <4>2
    <3>3. pc' \in [Threads -> {"lock", "test", "wait", "waiting", "relock", "reset",
                               "exited", "recv", "receiving", "send", "close"}]
      <4>1. pc' = pc \/ pc' = [pc EXCEPT ![t] = "close"]
        BY <1>10 DEF SendAnswer
      <4>2. pc \in [Threads -> {"lock", "test", "wait", "waiting", "relock", "reset",
                                "exited", "recv", "receiving", "send", "close"}]
        BY DEF Types
      <4> HIDE DEF Inv
      <4> QED
        BY <4>1, <4>2
    <3> QED
      BY <1>10, <3>2, <3>3 DEF SendAnswer, Fail, Types
  <2>2. Sleepers'
    BY <1>10 DEF SendAnswer, Fail, Types, Sleepers, Owning
  <2>3. HandOff'
    BY <1>10 DEF SendAnswer, Fail, Types, Sleepers, HandOff, Owning, Busy
  <2>4. IdleCounted'
    <3>1. Idle' = Idle
      BY <1>10 DEF SendAnswer, Fail, Types, Sleepers, Idle, Counted, Owning
    <3> QED
      BY <3>1, <1>10 DEF SendAnswer, Fail, shared, IdleCounted
  <2> QED
    BY <2>1, <2>2, <2>3, <2>4 DEF Inv
<1>11. CASE Close(t)
  <2>1. Types'
    BY <1>11 DEF Close, Fail, Types
  <2>2. Sleepers'
    BY <1>11 DEF Close, Fail, Types, Sleepers, Owning
  <2>3. HandOff'
    BY <1>11 DEF Close, Fail, Types, Sleepers, HandOff, Owning, Busy
  <2>4. IdleCounted'
    <3>1. Idle' = Idle
      BY <1>11 DEF Close, Fail, Types, Sleepers, Idle, Counted, Owning
    <3> QED
      BY <3>1, <1>11 DEF Close, Fail, shared, IdleCounted
  <2> QED
    BY <2>1, <2>2, <2>3, <2>4 DEF Inv
<1>12. CASE SpuriousWakeup(t)
  <2>1. Types'
    BY <1>12 DEF SpuriousWakeup, Types
  <2>2. Sleepers'
    BY <1>12 DEF SpuriousWakeup, Types, Sleepers, Owning
  <2>3. HandOff'
    BY <1>12 DEF SpuriousWakeup, Types, Sleepers, HandOff, Owning, Busy
  <2>4. IdleCounted'
    <3>1. Idle' = Idle
      BY <1>12 DEF SpuriousWakeup, Types, Sleepers, Idle, Counted, Owning
    <3> QED
      BY <3>1, <1>12 DEF SpuriousWakeup, shared, IdleCounted
  <2> QED
    BY <2>1, <2>2, <2>3, <2>4 DEF Inv
<1> QED
  BY <1>1, <1>2, <1>3, <1>4, <1>5, <1>6, <1>7, <1>8, <1>9, <1>10, <1>11, <1>12 DEF ThreadStep

\* The clients.
LEMMA ClientsKeep ==
  ASSUME Inv, NEW c \in Clients, Connect(c) \/ ClientStep(c)
  PROVE  Inv'
<1> USE CondServerAssumption DEF Inv, Fds, procVars, shared, threadVars, clientVars, history
<1>1. CASE Connect(c)
  <2>1. Types'
    BY <1>1 DEF Connect, Types
  <2>2. Sleepers'
    BY <1>1 DEF Connect, Types, Sleepers, Owning
  <2>3. HandOff'
    BY <1>1 DEF Connect, Types, Sleepers, HandOff, Owning, Busy
  <2>4. IdleCounted'
    BY <1>1 DEF Connect, IdleCounted, Idle
  <2> QED
    BY <2>1, <2>2, <2>3, <2>4 DEF Inv
<1>2. CASE SendRequest(c)
  <2>1. Types'
    BY <1>2 DEF SendRequest, Types
  <2>2. Sleepers'
    BY <1>2 DEF SendRequest, Types, Sleepers, Owning
  <2>3. HandOff'
    BY <1>2 DEF SendRequest, Types, Sleepers, HandOff, Owning, Busy
  <2>4. IdleCounted'
    BY <1>2 DEF SendRequest, IdleCounted, Idle
  <2> QED
    BY <2>1, <2>2, <2>3, <2>4 DEF Inv
<1>3. CASE Leave(c)
  <2>1. Types'
    BY <1>3 DEF Leave, Types
  <2>2. Sleepers'
    BY <1>3 DEF Leave, Types, Sleepers, Owning
  <2>3. HandOff'
    BY <1>3 DEF Leave, Types, Sleepers, HandOff, Owning, Busy
  <2>4. IdleCounted'
    BY <1>3 DEF Leave, IdleCounted, Idle
  <2> QED
    BY <2>1, <2>2, <2>3, <2>4 DEF Inv
<1>4. CASE Finish(c)
  <2>1. Types'
    BY <1>4 DEF Finish, Types
  <2>2. Sleepers'
    BY <1>4 DEF Finish, Types, Sleepers, Owning
  <2>3. HandOff'
    BY <1>4 DEF Finish, Types, Sleepers, HandOff, Owning, Busy
  <2>4. IdleCounted'
    BY <1>4 DEF Finish, IdleCounted, Idle
  <2> QED
    BY <2>1, <2>2, <2>3, <2>4 DEF Inv
<1> QED
  BY <1>1, <1>2, <1>3, <1>4 DEF ClientStep

LEMMA StutterKeeps == Inv /\ UNCHANGED vars => Inv'
  BY DEF Inv, Types, Sleepers, HandOff, IdleCounted, Idle, vars, Owning, Counted, Busy

LEMMA InitInv == Init => Inv
<1> SUFFICES ASSUME Init PROVE Inv
  OBVIOUS
<1> USE CondServerAssumption
<1>1. Types
  BY DEF Init, Types, Fds
<1>2. Sleepers /\ HandOff
  BY DEF Init, Sleepers, HandOff, Owning, Busy
<1>3. IdleCounted
  <2>1. Idle = {}
    BY DEF Init, Idle, Counted, Owning
  <2> QED
    BY <2>1, FS_EmptySet DEF Init, IdleCounted
<1> QED
  BY <1>1, <1>2, <1>3 DEF Inv

-----------------------------------------------------------------------------
\* Inv is an inductive invariant: it holds at the start and every step of main,
\* of a thread or of a client (lines 81-146 and 193-254) keeps it.
THEOREM Inductive == Spec => []Inv
<1>1. Init => Inv
  BY InitInv
<1>2. Inv /\ [Next]_vars => Inv'
  BY MainKeeps, ThreadsKeep, ClientsKeep, StutterKeeps DEF Next
<1> QED
  BY <1>1, <1>2, PTL DEF Spec

\* Every variable keeps its type; idlethreads stays between 0 and the size of
\* the pool although it counts at lines 86 and 139 only.
THEOREM CondServerTypeCorrect == Spec => []TypeOK
<1>1. Inv => TypeOK
  BY IdleFinite DEF Inv, Types, IdleCounted, TypeOK
<1> QED
  BY <1>1, Inductive, PTL

\* At most one thread is between lock and unlock or wait (lines 83-141).
THEOREM OneOwner ==
  Spec => [](\A s, t \in Threads : {pc[s], pc[t]} \subseteq Owning => s = t)
<1>1. Inv => \A s, t \in Threads : {pc[s], pc[t]} \subseteq Owning => s = t
  BY DEF Inv, Sleepers
<1> QED
  BY <1>1, Inductive, PTL

\* idlethreads is the number of the threads that are in the pool (lines 86,
\* 139), those that have exited included.
THEOREM IdlethreadsExact == Spec => []IdleCounted
<1>1. Inv => IdleCounted
  BY DEF Inv
<1> QED
  BY <1>1, Inductive, PTL

\* No thread takes a descriptor that main did not announce (lines 137-141,
\* 216).
THEOREM TakesFollowHandOffs == Spec => []NoPhantomHandOff
<1>1. Inv => NoPhantomHandOff
  BY DEF Inv, Types, HandOff, NoPhantomHandOff
<1> QED
  BY <1>1, Inductive, PTL

\* A client is turned away (lines 207-211) only when no thread sleeps and none
\* holds or waits for a hand-off.
THEOREM RefusalsJustified == Spec => RefusedOnlyWhenBusy
<1> DEFINE Justified == /\ waiting = {}
                        /\ \A t \in Threads : pc[t] \in {"lock", "recv", "receiving",
                                                         "send", "close"}
<1>1. ASSUME Inv, Refuse PROVE Justified
  <2>1. Idle = {}
    BY <1>1, IdleFinite, FS_EmptySet DEF Refuse, NobodyIdle, Inv, IdleCounted
  <2>2. \A t \in Threads : pc[t] \notin Counted
    BY <2>1 DEF Idle
  <2> QED
    BY <1>1, <2>2 DEF Inv, Types, Sleepers, Counted, Owning
<1>2. Inv /\ [Next]_vars => [Refuse => Justified]_vars
  BY <1>1
<1> QED
  BY <1>2, Inductive, PTL DEF Spec, RefusedOnlyWhenBusy

-----------------------------------------------------------------------------
(***************************************************************************)
(* One client at a time.  A connection is in the hands of main, of the     *)
(* hand-off or of one thread, and each hand has a descriptor of its own    *)
(* that is open and not answered yet (Hands).  Main cannot hold a second   *)
(* one while a hand-off is not taken, as both clients would be outstanding.*)
(***************************************************************************)

\* A client has one connection, in the backlog or in the descriptor table, and
\* is not answered before it has left the backlog.
Connections ==
  /\ \A i, k \in DOMAIN backlog : backlog[i] = backlog[k] => i = k
  /\ \A f, g \in Fds : fdtab[f] = fdtab[g] /\ fdtab[f] # NoClient => f = g
  /\ \A i \in DOMAIN backlog : /\ answers[backlog[i]] = 0
                               /\ \A f \in Fds : fdtab[f] # backlog[i]
  /\ \A c \in Clients : cstate[c] = "away" =>
       /\ answers[c] = 0
       /\ \A i \in DOMAIN backlog : backlog[i] # c
       /\ \A f \in Fds : fdtab[f] # c

\* What a client has been told, and that nothing has failed.
Told ==
  /\ alive
  /\ \A c \in Clients : /\ cstate[c] # "left" /\ answers[c] <= 1
                        /\ answers[c] = 1 => cstate[c] \in {"read", "finished"}
                        /\ answers[c] = 0 => cstate[c] # "finished"

OneOutstanding == \A c, d \in Outstanding : c = d

\* An open descriptor whose client has no answer yet.
Unanswered(f) == fdtab[f] # NoClient /\ answers[fdtab[f]] = 0

Hands ==
  /\ main \in {"lock", "setcondition"} =>
       Unanswered(mainfd) /\ condition = 0 /\ \A t \in Threads : pc[t] \in Busy => clientfd[t] # mainfd
  /\ main = "setcondition" => socket = mainfd
  /\ condition = 1 => Unanswered(socket) /\ \A t \in Threads : pc[t] \in Busy => clientfd[t] # socket
  /\ \A t \in Threads :
       /\ pc[t] \in Busy => fdtab[clientfd[t]] # NoClient
       /\ pc[t] \in Busy \ {"close"} => answers[fdtab[clientfd[t]]] = 0
       /\ pc[t] \in {"receiving", "send"} => peer[t] = fdtab[clientfd[t]]
       /\ pc[t] = "send" => cstate[peer[t]] = "read"
  /\ \A s, t \in Threads : {pc[s], pc[t]} \subseteq Busy /\ s # t => clientfd[s] # clientfd[t]

ApartInv == Inv /\ Connections /\ (apart => Told /\ OneOutstanding /\ Hands)

\* A client with a connection and no answer is outstanding.
LEMMA HasNoAnswer ==
  ASSUME Types, Connections, Told, NEW c \in Clients, answers[c] = 0,
         (\E i \in DOMAIN backlog : backlog[i] = c) \/ (\E f \in Fds : fdtab[f] = c)
  PROVE  c \in Outstanding
<1>1. cstate[c] \in {"connected", "sent", "read"}
  BY DEF Types, Connections, Told
<1> QED
  BY <1>1 DEF Outstanding

LEMMA FewerOutstanding ==
  OneOutstanding /\ Outstanding' \subseteq Outstanding => OneOutstanding'
BY DEF OneOutstanding

\* The steps that move no connection: of main around the signal and at the end,
\* and of a thread in the pool.
LEMMA Quiet ==
  ASSUME ApartInv,
         UNCHANGED <<alive, socket, mainfd, fdtab, backlog, clientfd, peer, cstate, answers, apart>>,
         main' \in {"lock", "setcondition"} => main' = main,
         condition' = 0 \/ condition' = condition,
         \A t \in Threads : \/ pc'[t] = pc[t]
                            \/ pc[t] \notin Busy /\ pc'[t] \notin Busy
  PROVE  Connections' /\ (apart' => Told' /\ OneOutstanding' /\ Hands')
<1>1. Connections'
  BY DEF ApartInv, Connections
<1> SUFFICES ASSUME apart PROVE Told' /\ OneOutstanding' /\ Hands'
  BY <1>1
<1>2. Told /\ OneOutstanding /\ Hands
  BY DEF ApartInv
<1>3. Told'
  BY <1>2 DEF Told
<1>4. OneOutstanding'
  <2>1. Outstanding' = Outstanding
    BY DEF Outstanding
  <2> QED
    BY <1>2, <2>1, FewerOutstanding
<1>5. Hands'
  <2>1. \A t \in Threads : /\ pc'[t] \in Busy => pc[t] \in Busy /\ pc'[t] = pc[t]
                           /\ pc'[t] \in {"receiving", "send"} => pc'[t] \in Busy
    BY DEF Busy
  <2>2. \A f : Unanswered(f)' <=> Unanswered(f)
    BY DEF Unanswered
  <2>3. /\ main' \in {"lock", "setcondition"} =>
             Unanswered(mainfd)' /\ condition' = 0 /\ \A t \in Threads : pc'[t] \in Busy => clientfd'[t] # mainfd'
        /\ main' = "setcondition" => socket' = mainfd'
    BY <1>2, <2>1, <2>2 DEF Hands, Unanswered
  <2>4. condition' = 1 => Unanswered(socket)' /\ \A t \in Threads : pc'[t] \in Busy => clientfd'[t] # socket'
    BY <1>2, <2>1, <2>2 DEF Hands, Unanswered
  <2>5. \A t \in Threads :
          /\ pc'[t] \in Busy => fdtab'[clientfd'[t]] # NoClient
          /\ pc'[t] \in Busy \ {"close"} => answers'[fdtab'[clientfd'[t]]] = 0
          /\ pc'[t] \in {"receiving", "send"} => peer'[t] = fdtab'[clientfd'[t]]
          /\ pc'[t] = "send" => cstate'[peer'[t]] = "read"
    BY <1>2, <2>1 DEF Hands
  <2>6. \A s, t \in Threads : {pc'[s], pc'[t]} \subseteq Busy /\ s # t => clientfd'[s] # clientfd'[t]
    BY <1>2, <2>1 DEF Hands
  <2> QED
    BY <2>3, <2>4, <2>5, <2>6 DEF Hands
<1> QED
  BY <1>3, <1>4, <1>5

\* The main thread.
LEMMA AcceptApart ==
  ASSUME ApartInv, Accept
  PROVE  Connections' /\ (apart' => Told' /\ OneOutstanding' /\ Hands')
<1> DEFINE c == Head(backlog)
<1>1. PICK f \in Fds : /\ fdtab[f] = NoClient /\ mainfd' = f
                       /\ fdtab' = [fdtab EXCEPT ![f] = c]
  BY DEF Accept
<1>2. /\ main = "select" /\ main' = "lock" /\ backlog # <<>> /\ backlog' = Tail(backlog)
      /\ UNCHANGED <<work, sigint, alive, mutex, waiting, condition, socket, idlethreads,
                     pc, clientfd, peer, cstate, answers, apart>>
  BY DEF Accept, procVars, shared, threadVars, clientVars, history
<1>3. /\ Len(backlog) \in Nat \ {0} /\ backlog \in Seq(Clients) /\ DOMAIN backlog = 1..Len(backlog)
      /\ backlog' \in Seq(Clients) /\ Len(backlog') = Len(backlog) - 1
      /\ DOMAIN backlog' = 1..Len(backlog')
      /\ \A i \in 1..Len(backlog') : backlog'[i] = backlog[i + 1]
  BY <1>2, HeadTailProperties, EmptySeq, LenProperties DEF ApartInv, Inv, Types
<1>4. c = backlog[1] /\ 1 \in DOMAIN backlog /\ c \in Clients /\ c # NoClient
  BY <1>3, ElementOfSeq, CondServerAssumption
<1>5. \A i \in DOMAIN backlog' : i + 1 \in DOMAIN backlog /\ i + 1 # 1 /\ i \in Nat
  BY <1>3
<1>6. \A g \in Fds : fdtab'[g] = IF g = f THEN c ELSE fdtab[g]
  BY <1>1 DEF ApartInv, Inv, Types
<1>7. /\ answers[c] = 0 /\ cstate[c] # "away" /\ (\A g \in Fds : fdtab[g] # c)
      /\ \A i \in DOMAIN backlog : i # 1 => backlog[i] # c
  BY <1>4 DEF ApartInv, Connections
<1> HIDE DEF c
<1>8. Connections'
  <2>1. \A i, k \in DOMAIN backlog' : backlog'[i] = backlog'[k] => i = k
    <3> SUFFICES ASSUME NEW i \in DOMAIN backlog', NEW k \in DOMAIN backlog',
                        backlog'[i] = backlog'[k]
                 PROVE  i = k
      OBVIOUS
    <3>1. backlog[i + 1] = backlog[k + 1]
      BY <1>3
    <3>2. i + 1 = k + 1
      BY <1>5, <3>1 DEF ApartInv, Connections
    <3> QED
      BY <1>5, <3>2
  <2>2. \A g, h \in Fds : fdtab'[g] = fdtab'[h] /\ fdtab'[g] # NoClient => g = h
    BY <1>6, <1>7 DEF ApartInv, Connections
  <2>3. \A i \in DOMAIN backlog' : /\ answers'[backlog'[i]] = 0
                                   /\ \A g \in Fds : fdtab'[g] # backlog'[i]
    BY <1>2, <1>3, <1>5, <1>6, <1>7 DEF ApartInv, Connections
  <2>4. \A d \in Clients : cstate'[d] = "away" =>
          /\ answers'[d] = 0
          /\ \A i \in DOMAIN backlog' : backlog'[i] # d
          /\ \A g \in Fds : fdtab'[g] # d
    BY <1>2, <1>3, <1>5, <1>6, <1>7 DEF ApartInv, Connections
  <2> QED
    BY <2>1, <2>2, <2>3, <2>4 DEF Connections
<1> SUFFICES ASSUME apart PROVE Told' /\ OneOutstanding' /\ Hands'
  BY <1>2, <1>8
<1>9. Types /\ HandOff /\ Connections /\ Told /\ OneOutstanding /\ Hands
  BY DEF ApartInv, Inv
<1>10. Told'
  BY <1>2, <1>9 DEF Told
<1>11. OneOutstanding'
  <2>1. \A d : (\E i \in DOMAIN backlog' : backlog'[i] = d) => \E i \in DOMAIN backlog : backlog[i] = d
    BY <1>3, <1>5
  <2>2. \A d : (\E g \in Fds : fdtab'[g] = d) =>
                 d = c \/ \E g \in Fds : fdtab[g] = d
    BY <1>6
  <2>3. \E i \in DOMAIN backlog : backlog[i] = c
    BY <1>4
  <2>4. Outstanding' \subseteq Outstanding
    BY <1>2, <2>1, <2>2, <2>3 DEF Outstanding
  <2> QED
    BY <1>9, <2>4, FewerOutstanding
\* A hand-off that is not taken would be a second outstanding client.
<1>12. condition = 0
  <2> SUFFICES ASSUME condition = 1 PROVE FALSE
    BY <1>9 DEF Types
  <2>1. Unanswered(socket) /\ socket \in Fds
    BY <1>9 DEF Hands, HandOff
  <2> DEFINE d == fdtab[socket]
  <2>2. d \in Clients /\ answers[d] = 0 /\ (\E g \in Fds : fdtab[g] = d) /\ d # c
    BY <1>7, <1>9, <2>1 DEF Unanswered, Types
  <2> HIDE DEF d
  <2>3. d \in Outstanding
    BY <1>9, <2>2, HasNoAnswer
  <2>4. c \in Outstanding
    BY <1>4, <1>7, <1>9, HasNoAnswer
  <2> QED
    BY <1>9, <2>2, <2>3, <2>4 DEF OneOutstanding
<1>13. Hands'
  <2>1. \A t \in Threads : pc[t] \in Busy => clientfd[t] \in Fds /\ clientfd[t] # f
    BY <1>1, <1>9 DEF HandOff, Hands
  <2>2. Unanswered(mainfd)' /\ condition' = 0 /\ \A t \in Threads : pc'[t] \in Busy => clientfd'[t] # mainfd'
    BY <1>1, <1>2, <1>4, <1>6, <1>7, <1>12, <2>1 DEF Unanswered
  <2>3. \A t \in Threads :
          /\ pc[t] \in Busy => fdtab'[clientfd[t]] = fdtab[clientfd[t]]
          /\ pc[t] \in {"receiving", "send"} => pc[t] \in Busy
          /\ pc[t] = "send" => pc[t] \in Busy
    BY <1>6, <2>1 DEF Busy
  <2>4. \A t \in Threads :
       /\ pc'[t] \in Busy => fdtab'[clientfd'[t]] # NoClient
       /\ pc'[t] \in Busy \ {"close"} => answers'[fdtab'[clientfd'[t]]] = 0
       /\ pc'[t] \in {"receiving", "send"} => peer'[t] = fdtab'[clientfd'[t]]
       /\ pc'[t] = "send" => cstate'[peer'[t]] = "read"
    BY <1>2, <1>9, <2>3 DEF Hands
  <2>5. \A s, t \in Threads : {pc'[s], pc'[t]} \subseteq Busy /\ s # t => clientfd'[s] # clientfd'[t]
    BY <1>2, <1>9 DEF Hands
  <2> QED
    BY <1>2, <2>2, <2>4, <2>5 DEF Hands
<1> QED
  BY <1>10, <1>11, <1>13

\* Closing a descriptor: of the connection that main turns away, or of one that a
\* thread has answered.  The hands that remain hold other descriptors.
LEMMA CloseKeeps ==
  ASSUME ApartInv, NEW f \in Fds, fdtab' = [fdtab EXCEPT ![f] = NoClient],
         UNCHANGED <<backlog, cstate, answers, alive, apart>>
  PROVE  /\ Connections'
         /\ apart => Told' /\ OneOutstanding'
         /\ \A g \in Fds : g # f => fdtab'[g] = fdtab[g] /\ (Unanswered(g) => Unanswered(g)')
<1>1. \A g \in Fds : fdtab'[g] = IF g = f THEN NoClient ELSE fdtab[g]
  BY DEF ApartInv, Inv, Types
<1>2. NoClient \notin Clients /\ \A i \in DOMAIN backlog : backlog[i] \in Clients
  BY CondServerAssumption, LenProperties, ElementOfSeq DEF ApartInv, Inv, Types
<1>3. Connections'
  BY <1>1, <1>2 DEF ApartInv, Connections
<1>4. apart => Told'
  BY DEF ApartInv, Told
<1>5. apart => OneOutstanding'
  <2>1. Outstanding' \subseteq Outstanding
    BY <1>1, <1>2 DEF Outstanding
  <2> QED
    BY <2>1, FewerOutstanding DEF ApartInv
<1>6. \A g \in Fds : g # f => fdtab'[g] = fdtab[g] /\ (Unanswered(g) => Unanswered(g)')
  BY <1>1 DEF Unanswered
<1> QED
  BY <1>3, <1>4, <1>5, <1>6

LEMMA RefuseApart ==
  ASSUME ApartInv, Refuse
  PROVE  Connections' /\ (apart' => Told' /\ OneOutstanding' /\ Hands')
<1>1. /\ main = "lock" /\ mainfd \in Fds
      /\ UNCHANGED <<condition, socket, backlog, mainfd, pc, clientfd, peer, cstate, answers, apart>>
  BY DEF Refuse, ApartInv, Inv, HandOff, shared, threadVars, clientVars, history
<1>2. CASE fdtab[mainfd] = NoClient
  <2>1. ~apart
    BY <1>1, <1>2 DEF ApartInv, Hands, Unanswered
  <2>2. UNCHANGED fdtab
    BY <1>2 DEF Refuse
  <2>3. Connections'
    BY <1>1, <2>2 DEF ApartInv, Connections
  <2> QED
    BY <1>1, <2>1, <2>3
<1>3. CASE fdtab[mainfd] # NoClient
  <2>1. fdtab' = [fdtab EXCEPT ![mainfd] = NoClient] /\ main' = "select" /\ UNCHANGED alive
    BY <1>3 DEF Refuse, procVars
  <2>2. /\ Connections'
        /\ apart => Told' /\ OneOutstanding'
        /\ \A g \in Fds : g # mainfd => fdtab'[g] = fdtab[g] /\ (Unanswered(g) => Unanswered(g)')
    BY <1>1, <2>1, CloseKeeps
  <2> SUFFICES ASSUME apart PROVE Hands'
    BY <1>1, <2>2
  <2>3. HandOff /\ Hands
    BY DEF ApartInv, Inv
  <2>4. condition' = 0
    BY <1>1, <2>3 DEF Hands
  <2>5. \A t \in Threads :
          /\ pc[t] \in Busy => fdtab'[clientfd[t]] = fdtab[clientfd[t]]
          /\ pc[t] \in {"receiving", "send"} => pc[t] \in Busy
    BY <1>1, <2>2, <2>3 DEF HandOff, Hands, Busy
  <2>6. \A t \in Threads :
       /\ pc'[t] \in Busy => fdtab'[clientfd'[t]] # NoClient
       /\ pc'[t] \in Busy \ {"close"} => answers'[fdtab'[clientfd'[t]]] = 0
       /\ pc'[t] \in {"receiving", "send"} => peer'[t] = fdtab'[clientfd'[t]]
       /\ pc'[t] = "send" => cstate'[peer'[t]] = "read"
    BY <1>1, <2>3, <2>5 DEF Hands
  <2>7. \A s, t \in Threads : {pc'[s], pc'[t]} \subseteq Busy /\ s # t => clientfd'[s] # clientfd'[t]
    BY <1>1, <2>3 DEF Hands
  <2> QED
    BY <2>1, <2>4, <2>6, <2>7 DEF Hands
<1> QED
  BY <1>2, <1>3

\* The descriptor is stored, and then announced.
LEMMA HandOverApart ==
  ASSUME ApartInv, StoreSocket \/ SetCondition
  PROVE  Connections' /\ (apart' => Told' /\ OneOutstanding' /\ Hands')
<1>1. UNCHANGED <<alive, mainfd, fdtab, backlog, pc, clientfd, peer, cstate, answers, apart>>
  BY DEF StoreSocket, SetCondition, procVars, threadVars, clientVars, history
<1>2. Connections'
  BY <1>1 DEF ApartInv, Connections
<1> SUFFICES ASSUME apart PROVE Told' /\ OneOutstanding' /\ Hands'
  BY <1>1, <1>2
<1>3. Told /\ OneOutstanding /\ Hands
  BY DEF ApartInv
<1>4. Told'
  BY <1>1, <1>3 DEF Told
<1>5. OneOutstanding'
  <2>1. Outstanding' = Outstanding
    BY <1>1 DEF Outstanding
  <2> QED
    BY <1>3, <2>1, FewerOutstanding
<1>6. CASE StoreSocket
  <2>1. main = "lock" /\ main' = "setcondition" /\ socket' = mainfd /\ UNCHANGED condition
    BY <1>6 DEF StoreSocket
  <2>2. Hands'
    BY <1>1, <1>3, <2>1 DEF Hands, Unanswered
  <2> QED
    BY <1>4, <1>5, <2>2
<1>7. CASE SetCondition
  <2>1. main = "setcondition" /\ main' = "signal" /\ condition' = 1 /\ UNCHANGED socket
    BY <1>7 DEF SetCondition
  <2>2. socket = mainfd
    BY <1>3, <2>1 DEF Hands
  <2>3. Hands'
    BY <1>1, <1>3, <2>1, <2>2 DEF Hands, Unanswered
  <2> QED
    BY <1>4, <1>5, <2>3
<1> QED
  BY <1>6, <1>7

\* The steps of a thread that works on a connection and leaves the tables alone.
LEMMA TakeApart ==
  ASSUME ApartInv, NEW t \in Threads, TakeSocket(t)
  PROVE  Connections' /\ (apart' => Told' /\ OneOutstanding' /\ Hands')
<1>1. /\ pc[t] = "reset" /\ work /\ condition' = 0
      /\ clientfd' = [clientfd EXCEPT ![t] = socket] /\ pc' = [pc EXCEPT ![t] = "recv"]
      /\ UNCHANGED <<alive, main, mainfd, socket, fdtab, backlog, peer, cstate, answers, apart>>
  BY DEF TakeSocket, Consumed, procVars, clientVars
<1>2. Types /\ HandOff /\ Connections
  BY DEF ApartInv, Inv
<1>3. Connections'
  BY <1>1, <1>2 DEF Connections
<1> SUFFICES ASSUME apart PROVE Told' /\ OneOutstanding' /\ Hands'
  BY <1>1, <1>3
<1>4. Told /\ OneOutstanding /\ Hands
  BY DEF ApartInv
<1>5. Told' /\ OneOutstanding'
  <2>1. Outstanding' = Outstanding
    BY <1>1 DEF Outstanding
  <2> QED
    BY <1>1, <1>4, <2>1, FewerOutstanding DEF Told
<1>6. condition = 1 /\ pc[t] \notin Busy
  BY <1>1, <1>2 DEF HandOff, Busy
<1>7. /\ main \notin {"lock", "setcondition"}
      /\ Unanswered(socket) /\ \A s \in Threads : pc[s] \in Busy => clientfd[s] # socket
  BY <1>4, <1>6 DEF Hands
<1>8. \A s \in Threads : IF s = t THEN pc'[s] = "recv" /\ clientfd'[s] = socket
                                  ELSE pc'[s] = pc[s] /\ clientfd'[s] = clientfd[s]
  BY <1>1, <1>2 DEF Types
<1>9. \A s \in Threads :
       /\ pc'[s] \in Busy => fdtab'[clientfd'[s]] # NoClient
       /\ pc'[s] \in Busy \ {"close"} => answers'[fdtab'[clientfd'[s]]] = 0
       /\ pc'[s] \in {"receiving", "send"} => peer'[s] = fdtab'[clientfd'[s]]
       /\ pc'[s] = "send" => cstate'[peer'[s]] = "read"
  BY <1>1, <1>4, <1>7, <1>8 DEF Hands, Unanswered
<1>10. \A r, s \in Threads : {pc'[r], pc'[s]} \subseteq Busy /\ r # s => clientfd'[r] # clientfd'[s]
  BY <1>4, <1>7, <1>8 DEF Hands
<1> QED
  BY <1>1, <1>5, <1>7, <1>9, <1>10 DEF Hands

LEMMA RecvApart ==
  ASSUME ApartInv, NEW t \in Threads, EnterRecv(t) \/ RecvRequest(t) \/ RecvShort(t)
  PROVE  Connections' /\ (apart' => Told' /\ OneOutstanding' /\ Hands')
<1>1. /\ pc[t] \in {"recv", "receiving"}
      /\ UNCHANGED <<condition, main, mainfd, socket, fdtab, backlog, clientfd, answers, apart>>
  BY DEF EnterRecv, RecvRequest, RecvShort, shared, clientVars, history
<1>2. Types /\ HandOff /\ Connections
  BY DEF ApartInv, Inv
<1>3. Connections'
  <2>1. \A c \in Clients : cstate'[c] = "away" => cstate[c] = "away"
    BY <1>2 DEF EnterRecv, RecvRequest, RecvShort, clientVars, Types
  <2> QED
    BY <1>1, <1>2, <2>1 DEF Connections
<1> SUFFICES ASSUME apart PROVE Told' /\ OneOutstanding' /\ Hands'
  BY <1>1, <1>3
<1>4. Told /\ OneOutstanding /\ Hands
  BY DEF ApartInv
<1> DEFINE c == fdtab[clientfd[t]]
<1>5. /\ c # NoClient /\ c \in Clients /\ answers[c] = 0
      /\ pc[t] = "receiving" => peer[t] = c
  <2>1. pc[t] \in Busy \ {"close"} /\ clientfd[t] \in Fds
    BY <1>1, <1>2 DEF HandOff, Busy
  <2> QED
    BY <1>2, <1>4, <2>1 DEF Hands, Types
<1> HIDE DEF c
\* A client that has not been answered has not gone away.
<1>6. ~RecvShort(t)
  <2>1. cstate[c] \notin {"left", "finished"}
    BY <1>4, <1>5 DEF Told
  <2> QED
    BY <1>5, <2>1 DEF RecvShort
<1>7. /\ UNCHANGED alive
      /\ \/ /\ pc' = [pc EXCEPT ![t] = "receiving"] /\ peer' = [peer EXCEPT ![t] = c] /\ UNCHANGED cstate
         \/ /\ pc[t] = "receiving" /\ pc' = [pc EXCEPT ![t] = "send"] /\ UNCHANGED peer
            /\ cstate[c] = "sent" /\ cstate' = [cstate EXCEPT ![c] = "read"]
  <2>1. CASE EnterRecv(t)
    BY <1>5, <2>1 DEF EnterRecv, procVars, clientVars, c
  <2>2. CASE RecvRequest(t)
    <3>1. pc[t] = "receiving" /\ peer[t] = c
      BY <1>5, <2>2 DEF RecvRequest
    <3> QED
      BY <2>2, <3>1 DEF RecvRequest, procVars
  <2> QED
    BY <1>6, <2>1, <2>2
<1>8. \A d \in Clients : \/ cstate'[d] = cstate[d]
                         \/ d = c /\ cstate[d] = "sent" /\ cstate'[d] = "read"
  BY <1>2, <1>5, <1>7 DEF Types
<1>9. Told'
  BY <1>1, <1>4, <1>5, <1>7, <1>8 DEF Told
<1>10. OneOutstanding'
  <2>1. Outstanding' \subseteq Outstanding
    BY <1>1, <1>8 DEF Outstanding
  <2> QED
    BY <1>4, <2>1, FewerOutstanding
<1>11. \A s \in Threads : s # t => pc'[s] = pc[s] /\ peer'[s] = peer[s]
  BY <1>2, <1>7 DEF Types
<1>12. /\ pc[t] \in Busy /\ pc'[t] \in Busy
       /\ pc'[t] \in {"receiving", "send"} /\ peer'[t] = c
       /\ pc'[t] = "send" => cstate'[c] = "read"
  BY <1>1, <1>2, <1>5, <1>7 DEF Types, Busy
<1>13. ASSUME NEW s \in Threads
       PROVE  /\ pc'[s] \in Busy => fdtab'[clientfd'[s]] # NoClient
              /\ pc'[s] \in Busy \ {"close"} => answers'[fdtab'[clientfd'[s]]] = 0
              /\ pc'[s] \in {"receiving", "send"} => peer'[s] = fdtab'[clientfd'[s]]
              /\ pc'[s] = "send" => cstate'[peer'[s]] = "read"
  <2>1. CASE s = t
    BY <1>1, <1>5, <1>12, <2>1 DEF c
  <2>2. CASE s # t
    <3>1. /\ pc'[s] = pc[s] /\ peer'[s] = peer[s]
          /\ pc[s] = "send" => cstate[peer[s]] = "read" /\ cstate'[peer[s]] = cstate[peer[s]]
      <4>1. pc[s] = "send" => cstate[peer[s]] = "read" /\ peer[s] = fdtab[clientfd[s]]
                              /\ fdtab[clientfd[s]] # NoClient /\ clientfd[s] \in Fds
        BY <1>2, <1>4 DEF Hands, HandOff, Busy
      <4>2. pc[s] = "send" => peer[s] \in Clients
        BY <1>2, <4>1 DEF Types
      <4>3. pc[s] = "send" => cstate'[peer[s]] = cstate[peer[s]]
        BY <1>8, <4>1, <4>2
      <4> QED
        BY <1>11, <2>2, <4>1, <4>3
    <3> QED
      BY <1>1, <1>4, <3>1 DEF Hands
  <2> QED
    BY <2>1, <2>2
<1>14. \A s \in Threads : pc'[s] \in Busy <=> pc[s] \in Busy
  BY <1>11, <1>12
<1>15. \A r, s \in Threads : {pc'[r], pc'[s]} \subseteq Busy /\ r # s => clientfd'[r] # clientfd'[s]
  BY <1>1, <1>4, <1>14 DEF Hands
<1>16. Hands'
  <2>1. \A f : Unanswered(f)' <=> Unanswered(f)
    BY <1>1 DEF Unanswered
  <2>2. /\ main' \in {"lock", "setcondition"} =>
             Unanswered(mainfd)' /\ condition' = 0 /\ \A s \in Threads : pc'[s] \in Busy => clientfd'[s] # mainfd'
        /\ main' = "setcondition" => socket' = mainfd'
        /\ condition' = 1 => Unanswered(socket)' /\ \A s \in Threads : pc'[s] \in Busy => clientfd'[s] # socket'
    BY <1>1, <1>4, <1>14, <2>1 DEF Hands, Unanswered
  <2> QED
    BY <1>13, <1>15, <2>2 DEF Hands
<1> QED
  BY <1>9, <1>10, <1>16

\* The answer goes to the client of the request: nobody else holds its
\* descriptor.
LEMMA SendApart ==
  ASSUME ApartInv, NEW t \in Threads, SendAnswer(t)
  PROVE  Connections' /\ (apart' => Told' /\ OneOutstanding' /\ Hands')
<1> DEFINE c == fdtab[clientfd[t]]
<1>1. /\ pc[t] = "send" /\ UNCHANGED <<condition, main, mainfd, socket, fdtab, backlog, clientfd, peer,
                                      cstate, apart>>
  BY DEF SendAnswer, shared, history
<1>2. Types /\ HandOff /\ Connections
  BY DEF ApartInv, Inv
<1>3. clientfd[t] \in Fds /\ (c # NoClient => c \in Clients)
  BY <1>1, <1>2 DEF HandOff, Types, Busy
<1>4. c = NoClient => UNCHANGED <<answers, pc>>
  BY DEF SendAnswer
<1>5. c # NoClient => /\ answers' = [answers EXCEPT ![c] = @ + 1]
                      /\ pc' = [pc EXCEPT ![t] = "close"] /\ UNCHANGED alive
  BY DEF SendAnswer, procVars
<1>6. \A i \in DOMAIN backlog : backlog[i] \in Clients /\ backlog[i] # c
  BY <1>2, <1>3, LenProperties, ElementOfSeq DEF Types, Connections
<1>7. c # NoClient => cstate[c] # "away"
  BY <1>2, <1>3 DEF Connections
<1> HIDE DEF c
<1>8. \A d \in Clients : d # c => answers'[d] = answers[d]
  BY <1>2, <1>3, <1>4, <1>5 DEF Types
<1>9. Connections'
  <2>1. \A i \in DOMAIN backlog : answers'[backlog[i]] = answers[backlog[i]]
    BY <1>6, <1>8
  <2>2. \A d \in Clients : cstate[d] = "away" => answers'[d] = answers[d]
    BY <1>4, <1>7, <1>8
  <2> QED
    BY <1>1, <1>2, <2>1, <2>2 DEF Connections
<1> SUFFICES ASSUME apart PROVE Told' /\ OneOutstanding' /\ Hands'
  BY <1>1, <1>9
<1>10. Told /\ OneOutstanding /\ Hands
  BY DEF ApartInv
<1>11. /\ c # NoClient /\ c \in Clients /\ answers[c] = 0 /\ peer[t] = c /\ cstate[c] = "read"
  <2>1. pc[t] \in Busy \ {"close"} /\ pc[t] \in {"receiving", "send"} /\ pc[t] \in Busy
    BY <1>1 DEF Busy
  <2>2. c # NoClient /\ answers[c] = 0 /\ peer[t] = c /\ cstate[peer[t]] = "read"
    BY <1>1, <1>10, <2>1 DEF Hands, c
  <2> QED
    BY <1>3, <2>2
<1>12. answers'[c] = 1
  BY <1>2, <1>5, <1>11 DEF Types
<1>13. Told'
  BY <1>1, <1>5, <1>8, <1>10, <1>11, <1>12 DEF Told
<1>14. OneOutstanding'
  <2>1. Outstanding' \subseteq Outstanding
    BY <1>1, <1>8, <1>12 DEF Outstanding
  <2> QED
    BY <1>10, <2>1, FewerOutstanding
\* Another descriptor has another client.
<1>15. \A g \in Fds : g # clientfd[t] => fdtab[g] # c
  BY <1>2, <1>3, <1>11 DEF Connections, c
<1>16. \A g \in Fds : g # clientfd[t] /\ fdtab[g] # NoClient =>
                        fdtab[g] \in Clients /\ answers'[fdtab[g]] = answers[fdtab[g]]
  BY <1>2, <1>8, <1>15 DEF Types
<1>17. \A g \in Fds : g # clientfd[t] /\ Unanswered(g) => Unanswered(g)'
  BY <1>1, <1>16 DEF Unanswered
<1>18. /\ pc[t] \in Busy /\ pc'[t] = "close" /\ pc'[t] \in Busy
       /\ \A s \in Threads : s # t => pc'[s] = pc[s]
  BY <1>1, <1>2, <1>5, <1>11 DEF Types, Busy
<1>19. \A s \in Threads : pc'[s] \in Busy <=> pc[s] \in Busy
  BY <1>18
<1>20. \A s \in Threads : s # t /\ pc[s] \in Busy => clientfd[s] \in Fds /\ clientfd[s] # clientfd[t]
  BY <1>2, <1>10, <1>18 DEF Hands, HandOff
<1>21. Hands'
  <2>1. main' \in {"lock", "setcondition"} =>
             Unanswered(mainfd)' /\ condition' = 0 /\ \A s \in Threads : pc'[s] \in Busy => clientfd'[s] # mainfd'
    <3> SUFFICES ASSUME main \in {"lock", "setcondition"}
                 PROVE  Unanswered(mainfd)' /\ condition' = 0
                        /\ \A s \in Threads : pc'[s] \in Busy => clientfd'[s] # mainfd'
      BY <1>1
    <3>1. /\ Unanswered(mainfd) /\ condition = 0 /\ mainfd \in Fds
          /\ \A s \in Threads : pc[s] \in Busy => clientfd[s] # mainfd
      BY <1>2, <1>10 DEF Hands, HandOff
    <3>2. mainfd # clientfd[t]
      BY <1>18, <3>1
    <3> QED
      BY <1>1, <1>16, <1>19, <3>1, <3>2 DEF Unanswered
  <2>2. main' = "setcondition" => socket' = mainfd'
    BY <1>1, <1>10 DEF Hands
  <2>3. condition' = 1 => Unanswered(socket)' /\ \A s \in Threads : pc'[s] \in Busy => clientfd'[s] # socket'
    <3> SUFFICES ASSUME condition = 1
                 PROVE  Unanswered(socket)' /\ \A s \in Threads : pc'[s] \in Busy => clientfd'[s] # socket'
      BY <1>1
    <3>1. /\ Unanswered(socket) /\ socket \in Fds
          /\ \A s \in Threads : pc[s] \in Busy => clientfd[s] # socket
      BY <1>2, <1>10 DEF Hands, HandOff
    <3>2. socket # clientfd[t]
      BY <1>18, <3>1
    <3> QED
      BY <1>1, <1>16, <1>19, <3>1, <3>2 DEF Unanswered
  <2>4. ASSUME NEW s \in Threads
        PROVE  /\ pc'[s] \in Busy => fdtab'[clientfd'[s]] # NoClient
               /\ pc'[s] \in Busy \ {"close"} => answers'[fdtab'[clientfd'[s]]] = 0
               /\ pc'[s] \in {"receiving", "send"} => peer'[s] = fdtab'[clientfd'[s]]
               /\ pc'[s] = "send" => cstate'[peer'[s]] = "read"
    <3>1. CASE s = t
      BY <1>1, <1>11, <1>18, <3>1 DEF c
    <3>2. CASE s # t
      <4>1. pc[s] \in Busy => answers'[fdtab[clientfd[s]]] = answers[fdtab[clientfd[s]]]
                              /\ fdtab[clientfd[s]] # NoClient
        BY <1>10, <1>16, <1>20, <3>2 DEF Hands
      <4> QED
        BY <1>1, <1>10, <1>18, <3>2, <4>1 DEF Hands
    <3> QED
      BY <3>1, <3>2
  <2>5. \A r, s \in Threads : {pc'[r], pc'[s]} \subseteq Busy /\ r # s => clientfd'[r] # clientfd'[s]
    BY <1>1, <1>10, <1>19 DEF Hands
  <2> QED
    BY <2>1, <2>2, <2>3, <2>4, <2>5 DEF Hands
<1> QED
  BY <1>13, <1>14, <1>21

LEMMA CloseApart ==
  ASSUME ApartInv, NEW t \in Threads, Close(t)
  PROVE  Connections' /\ (apart' => Told' /\ OneOutstanding' /\ Hands')
<1>1. /\ pc[t] = "close" /\ peer' = [peer EXCEPT ![t] = NoClient]
      /\ UNCHANGED <<condition, main, mainfd, socket, backlog, clientfd, cstate, answers, apart>>
  BY DEF Close, shared, clientVars, history
<1>2. Types /\ HandOff /\ Connections
  BY DEF ApartInv, Inv
<1>3. pc[t] \in Busy /\ clientfd[t] \in Fds
  BY <1>1, <1>2 DEF HandOff, Busy
<1>4. CASE fdtab[clientfd[t]] = NoClient
  <2>1. ~apart
    BY <1>3, <1>4 DEF ApartInv, Hands
  <2>2. UNCHANGED fdtab
    BY <1>4 DEF Close
  <2>3. Connections'
    BY <1>1, <1>2, <2>2 DEF Connections
  <2> QED
    BY <1>1, <2>1, <2>3
<1>5. CASE fdtab[clientfd[t]] # NoClient
  <2>1. fdtab' = [fdtab EXCEPT ![clientfd[t]] = NoClient] /\ pc' = [pc EXCEPT ![t] = "lock"]
        /\ UNCHANGED alive
    BY <1>5 DEF Close, procVars
  <2>2. /\ Connections'
        /\ apart => Told' /\ OneOutstanding'
        /\ \A g \in Fds : g # clientfd[t] => fdtab'[g] = fdtab[g] /\ (Unanswered(g) => Unanswered(g)')
    BY <1>1, <1>3, <2>1, CloseKeeps
  <2> SUFFICES ASSUME apart PROVE Hands'
    BY <1>1, <2>2
  <2>3. Hands
    BY DEF ApartInv
  <2>4. /\ pc'[t] \notin Busy /\ pc'[t] \notin {"receiving", "send"}
        /\ \A s \in Threads : s # t => pc'[s] = pc[s] /\ peer'[s] = peer[s]
    BY <1>1, <1>2, <2>1 DEF Types, Busy
  <2>5. \A s \in Threads : s # t /\ pc[s] \in Busy =>
          fdtab'[clientfd[s]] = fdtab[clientfd[s]]
    BY <1>2, <1>3, <2>2, <2>3 DEF Hands, HandOff
  <2>6. main' \in {"lock", "setcondition"} =>
             Unanswered(mainfd)' /\ condition' = 0 /\ \A s \in Threads : pc'[s] \in Busy => clientfd'[s] # mainfd'
    <3> SUFFICES ASSUME main \in {"lock", "setcondition"}
                 PROVE  Unanswered(mainfd)' /\ condition' = 0
                        /\ \A s \in Threads : pc'[s] \in Busy => clientfd'[s] # mainfd'
      BY <1>1
    <3>1. /\ Unanswered(mainfd) /\ condition = 0 /\ mainfd \in Fds
          /\ \A s \in Threads : pc[s] \in Busy => clientfd[s] # mainfd
      BY <1>2, <2>3 DEF Hands, HandOff
    <3>2. fdtab'[mainfd] = fdtab[mainfd]
      BY <1>3, <2>2, <3>1
    <3> QED
      BY <1>1, <2>4, <3>1, <3>2 DEF Unanswered
  <2>7. condition' = 1 => Unanswered(socket)' /\ \A s \in Threads : pc'[s] \in Busy => clientfd'[s] # socket'
    <3> SUFFICES ASSUME condition = 1
                 PROVE  Unanswered(socket)' /\ \A s \in Threads : pc'[s] \in Busy => clientfd'[s] # socket'
      BY <1>1
    <3>1. /\ Unanswered(socket) /\ socket \in Fds
          /\ \A s \in Threads : pc[s] \in Busy => clientfd[s] # socket
      BY <1>2, <2>3 DEF Hands, HandOff
    <3>2. fdtab'[socket] = fdtab[socket]
      BY <1>3, <2>2, <3>1
    <3> QED
      BY <1>1, <2>4, <3>1, <3>2 DEF Unanswered
  <2>8. ASSUME NEW s \in Threads
        PROVE  /\ pc'[s] \in Busy => fdtab'[clientfd'[s]] # NoClient
               /\ pc'[s] \in Busy \ {"close"} => answers'[fdtab'[clientfd'[s]]] = 0
               /\ pc'[s] \in {"receiving", "send"} => peer'[s] = fdtab'[clientfd'[s]]
               /\ pc'[s] = "send" => cstate'[peer'[s]] = "read"
    <3>1. CASE s = t
      BY <2>4, <3>1
    <3>2. CASE s # t
      <4>1. pc[s] \in {"receiving", "send"} => pc[s] \in Busy
        BY DEF Busy
      <4> QED
        BY <1>1, <2>3, <2>4, <2>5, <3>2, <4>1 DEF Hands
    <3> QED
      BY <3>1, <3>2
  <2>9. \A r, s \in Threads : {pc'[r], pc'[s]} \subseteq Busy /\ r # s => clientfd'[r] # clientfd'[s]
    BY <1>1, <2>3, <2>4 DEF Hands
  <2>10. main' = "setcondition" => socket' = mainfd'
    BY <1>1, <2>3 DEF Hands
  <2> QED
    BY <2>6, <2>7, <2>8, <2>9, <2>10 DEF Hands
<1> QED
  BY <1>4, <1>5

\* The clients.  One connects when nobody is outstanding, or apart ends.
LEMMA ConnectApart ==
  ASSUME ApartInv, NEW c \in Clients, Connect(c)
  PROVE  Connections' /\ (apart' => Told' /\ OneOutstanding' /\ Hands')
<1>1. /\ cstate[c] = "away" /\ cstate' = [cstate EXCEPT ![c] = "connected"]
      /\ backlog' = Append(backlog, c) /\ apart' = (apart /\ Outstanding = {})
      /\ UNCHANGED <<alive, condition, main, mainfd, socket, fdtab, pc, clientfd, peer, answers>>
  BY DEF Connect, procVars, shared, threadVars
<1>2. Types /\ HandOff /\ Connections
  BY DEF ApartInv, Inv
<1>3. /\ DOMAIN backlog = 1..Len(backlog) /\ Len(backlog) \in Nat
      /\ DOMAIN backlog' = 1..(Len(backlog) + 1)
      /\ backlog'[Len(backlog) + 1] = c
      /\ \A i \in 1..Len(backlog) : backlog'[i] = backlog[i]
  BY <1>1, <1>2, AppendProperties, LenProperties DEF Types
<1>4. \A i \in DOMAIN backlog' :
        (i \in DOMAIN backlog /\ backlog'[i] = backlog[i]) \/ (i = Len(backlog) + 1 /\ backlog'[i] = c)
  BY <1>3
<1>5. /\ answers[c] = 0 /\ (\A i \in DOMAIN backlog : backlog[i] # c)
      /\ \A f \in Fds : fdtab[f] # c
  BY <1>1, <1>2 DEF Connections
<1>6. \A d \in Clients : cstate'[d] = IF d = c THEN "connected" ELSE cstate[d]
  BY <1>1, <1>2 DEF Types
<1>7. Connections'
  <2>1. \A i, k \in DOMAIN backlog' : backlog'[i] = backlog'[k] => i = k
    BY <1>2, <1>4, <1>5 DEF Connections
  <2>2. \A i \in DOMAIN backlog' : /\ answers'[backlog'[i]] = 0
                                   /\ \A f \in Fds : fdtab'[f] # backlog'[i]
    BY <1>1, <1>2, <1>4, <1>5 DEF Connections
  <2>3. \A d \in Clients : cstate'[d] = "away" =>
          /\ answers'[d] = 0
          /\ \A i \in DOMAIN backlog' : backlog'[i] # d
          /\ \A f \in Fds : fdtab'[f] # d
    BY <1>1, <1>2, <1>4, <1>6 DEF Connections
  <2> QED
    BY <1>1, <1>2, <2>1, <2>2, <2>3 DEF Connections
<1> SUFFICES ASSUME apart, Outstanding = {} PROVE Told' /\ OneOutstanding' /\ Hands'
  BY <1>1, <1>7
<1>8. Told /\ Hands
  BY DEF ApartInv
<1>9. Told'
  BY <1>1, <1>5, <1>6, <1>8 DEF Told
<1>10. OneOutstanding'
  <2>1. \A d \in Outstanding' : d = c
    <3> SUFFICES ASSUME NEW d \in Clients, d \in Outstanding', d # c PROVE FALSE
      BY DEF Outstanding
    <3>1. d \in Outstanding
      BY <1>1, <1>4, <1>6 DEF Outstanding
    <3> QED
      BY <3>1
  <2> QED
    BY <2>1 DEF OneOutstanding
<1>11. ASSUME NEW t \in Threads, pc[t] = "send" PROVE cstate'[peer[t]] = "read"
  <2>1. /\ cstate[peer[t]] = "read" /\ peer[t] = fdtab[clientfd[t]]
        /\ fdtab[clientfd[t]] # NoClient /\ clientfd[t] \in Fds
    BY <1>2, <1>8, <1>11 DEF Hands, HandOff, Busy
  <2>2. peer[t] \in Clients
    BY <1>2, <2>1 DEF Types
  <2> QED
    BY <1>1, <1>6, <2>1, <2>2
<1>12. Hands'
  <2>1. \A f : Unanswered(f)' <=> Unanswered(f)
    BY <1>1 DEF Unanswered
  <2> QED
    BY <1>1, <1>8, <1>11, <2>1 DEF Hands
<1> QED
  BY <1>9, <1>10, <1>12

\* A client that writes its request or reads its answer: its state alone changes.
LEMMA ClientApart ==
  ASSUME ApartInv, NEW c \in Clients, ClientStep(c)
  PROVE  Connections' /\ (apart' => Told' /\ OneOutstanding' /\ Hands')
<1>1. /\ UNCHANGED <<alive, condition, main, mainfd, socket, fdtab, backlog, pc, clientfd, peer, answers>>
      /\ (apart' => apart)
  BY DEF ClientStep, SendRequest, Leave, Finish, procVars, shared, threadVars, clientVars, history
<1>2. Types /\ HandOff /\ Connections
  BY DEF ApartInv, Inv
<1>3. apart' => \/ cstate[c] = "connected" /\ cstate' = [cstate EXCEPT ![c] = "sent"]
                \/ /\ cstate[c] \in {"sent", "read"} /\ answers[c] > 0
                   /\ cstate' = [cstate EXCEPT ![c] = "finished"]
  BY DEF ClientStep, SendRequest, Leave, Finish
<1>4. \A d \in Clients : cstate'[d] = "away" => cstate[d] = "away"
  BY <1>2 DEF ClientStep, SendRequest, Leave, Finish, Types
<1>5. Connections'
  BY <1>1, <1>2, <1>4 DEF Connections
<1> SUFFICES ASSUME apart, apart' PROVE Told' /\ OneOutstanding' /\ Hands'
  BY <1>1, <1>5
<1>6. Told /\ OneOutstanding /\ Hands
  BY DEF ApartInv
<1>7. /\ \A d \in Clients : d # c => cstate'[d] = cstate[d]
      /\ \/ cstate[c] = "connected" /\ cstate'[c] = "sent"
         \/ cstate[c] \in {"sent", "read"} /\ answers[c] > 0 /\ cstate'[c] = "finished"
  BY <1>2, <1>3 DEF Types
<1>8. answers[c] \in Nat /\ (answers[c] > 0 => answers[c] # 0)
  BY <1>2 DEF Types
<1>9. Told'
  <2>1. ASSUME NEW d \in Clients
        PROVE  /\ cstate'[d] # "left" /\ answers'[d] <= 1
               /\ answers'[d] = 1 => cstate'[d] \in {"read", "finished"}
               /\ answers'[d] = 0 => cstate'[d] # "finished"
    <3>1. CASE d # c
      BY <1>1, <1>6, <1>7, <3>1 DEF Told
    <3>2. CASE d = c
      BY <1>1, <1>6, <1>7, <1>8, <3>2 DEF Told
    <3> QED
      BY <3>1, <3>2
  <2> QED
    BY <1>1, <1>6, <2>1 DEF Told
<1>10. OneOutstanding'
  <2>1. Outstanding' \subseteq Outstanding
    BY <1>1, <1>7, <1>8 DEF Outstanding
  <2> QED
    BY <1>6, <2>1, FewerOutstanding
<1>11. ASSUME NEW t \in Threads, pc[t] = "send" PROVE cstate'[peer[t]] = "read"
  <2>1. /\ cstate[peer[t]] = "read" /\ peer[t] = fdtab[clientfd[t]]
        /\ fdtab[clientfd[t]] # NoClient /\ clientfd[t] \in Fds
        /\ answers[fdtab[clientfd[t]]] = 0
    BY <1>2, <1>6, <1>11 DEF Hands, HandOff, Busy
  <2>2. peer[t] \in Clients /\ peer[t] # c
    BY <1>2, <1>7, <1>8, <2>1 DEF Types
  <2> QED
    BY <1>7, <2>1, <2>2
<1>12. Hands'
  <2>1. \A f : Unanswered(f)' <=> Unanswered(f)
    BY <1>1 DEF Unanswered
  <2> QED
    BY <1>1, <1>6, <1>11, <2>1 DEF Hands
<1> QED
  BY <1>9, <1>10, <1>12

-----------------------------------------------------------------------------
\* The hands stay apart as long as the clients do: one step per action.
THEOREM ApartInductive == Spec => []ApartInv
<1>1. Init => ApartInv
  <2> SUFFICES ASSUME Init PROVE ApartInv
    OBVIOUS
  <2>1. Inv
    BY InitInv
  <2>2. DOMAIN backlog = {}
    BY EmptySeq, LenProperties DEF Init
  <2>3. Connections
    BY <2>2, CondServerAssumption DEF Init, Connections
  <2>4. Told
    BY DEF Init, Told
  <2>5. OneOutstanding
    BY <2>2, CondServerAssumption DEF Init, OneOutstanding, Outstanding
  <2>6. Hands
    BY DEF Init, Hands, Busy
  <2> QED
    BY <2>1, <2>3, <2>4, <2>5, <2>6 DEF ApartInv
<1>2. ASSUME ApartInv, [Next]_vars PROVE ApartInv'
  <2>1. Inv'
    BY <1>2, MainKeeps, ThreadsKeep, ClientsKeep, StutterKeeps DEF Next, ApartInv
  <2>2. Connections' /\ (apart' => Told' /\ OneOutstanding' /\ Hands')
    <3>1. CASE TakeSigint \/ Signal \/ Broadcast \/ Join \/ Interrupt
      <4>1. /\ UNCHANGED <<alive, socket, mainfd, fdtab, backlog, clientfd, peer, cstate, answers, apart>>
            /\ (main' \in {"lock", "setcondition"} => main' = main)
            /\ (condition' = 0 \/ condition' = condition)
        BY <3>1 DEF TakeSigint, Signal, Broadcast, Join, Interrupt, procVars, shared, threadVars,
                    clientVars, history
      <4>2. \A t \in Threads : pc'[t] = pc[t] \/ (pc[t] \notin Busy /\ pc'[t] \notin Busy)
        BY <1>2, <3>1 DEF TakeSigint, Signal, Broadcast, BroadcastAll, Join, Interrupt, threadVars, ApartInv,
                          Inv, Types, Sleepers, Busy
      <4> QED
        BY <1>2, <4>1, <4>2, Quiet
    <3>2. ASSUME NEW t \in Threads, Lock(t) \/ Test(t) \/ Wait(t) \/ Relock(t) \/ Exit(t) \/ SpuriousWakeup(t)
          PROVE  Connections' /\ (apart' => Told' /\ OneOutstanding' /\ Hands')
      <4>1. /\ UNCHANGED <<alive, socket, mainfd, fdtab, backlog, clientfd, peer, cstate, answers, apart>>
            /\ (main' \in {"lock", "setcondition"} => main' = main)
            /\ (condition' = 0 \/ condition' = condition)
        BY <3>2 DEF Lock, Test, Wait, Relock, Exit, SpuriousWakeup, Consumed, procVars, shared, clientVars,
                    history
      <4>2. \A s \in Threads : pc'[s] = pc[s] \/ (pc[s] \notin Busy /\ pc'[s] \notin Busy)
        BY <1>2, <3>2 DEF Lock, Test, Wait, Relock, Exit, SpuriousWakeup, AfterWakeup, ApartInv,
                          Inv, Types, Sleepers, Busy
      <4> QED
        BY <1>2, <4>1, <4>2, Quiet
    <3>3. CASE UNCHANGED vars
      <4>1. /\ UNCHANGED <<alive, socket, mainfd, fdtab, backlog, clientfd, peer, cstate, answers, apart,
                           main, condition, pc>>
        BY <3>3 DEF vars
      <4> QED
        BY <1>2, <4>1, Quiet
    <3> QED
      BY <1>2, <3>1, <3>2, <3>3, AcceptApart, RefuseApart, HandOverApart, TakeApart, RecvApart,
         SendApart, CloseApart, ConnectApart, ClientApart
         DEF Next, MainStep, ThreadStep
  <2> QED
    BY <2>1, <2>2 DEF ApartInv
<1> QED
  BY <1>1, <1>2, PTL DEF Spec

\* As long as clients come one after the other, each is answered at most once and
\* after its request was read, no two threads work on one descriptor, and no
\* read, write or close fails (lines 102-116, 214-216).
THEOREM OneAnswerEach == Spec => []ServedOnce
<1>1. ApartInv => ServedOnce
  BY DEF ApartInv, Told, Hands, Busy, ServedOnce
<1> QED
  BY <1>1, ApartInductive, PTL
=============================================================================
