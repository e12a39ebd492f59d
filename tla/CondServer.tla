----------------------------- MODULE CondServer -----------------------------
(***************************************************************************)
(* The file server of L2_4/POSIX_cond_server.c: a main thread that accepts *)
(* connections and hands each descriptor over to a fixed pool of threads   *)
(* through three shared integers (socket, condition, idlethreads), one     *)
(* mutex and one condition variable, and stops on SIGINT.                  *)
(*                                                                         *)
(* What a thread does while it holds the mutex is one action, except around*)
(* `condition', which main writes after it has released the mutex (lines   *)
(* 214-216): the test of `condition' and the wait or the reset that follows*)
(* it are separate actions.  Descriptors are reused by accept as the kernel*)
(* reuses them, the lowest free number first.                              *)
(***************************************************************************)
EXTENDS Naturals, FiniteSets, Sequences

CONSTANTS Threads,        \* the pool, THREAD_NUM threads
          Clients,        \* the connections that may be made
          NoClient,       \* nobody: a free descriptor, a thread without a peer
          Backlog,        \* BACKLOG, the queue given to listen()
          NumFds          \* bound: descriptors the process may open

Free == "free"

ASSUME CondServerAssumption ==
  /\ IsFiniteSet(Threads) /\ Free \notin Threads
  /\ NoClient \notin Clients
  /\ {Backlog, NumFds} \subseteq Nat \ {0}

VARIABLES work, sigint, alive,                  \* the process
          mutex, waiting,                       \* mutex owner, cond's waiters
          condition, socket, idlethreads,       \* the shared integers
          fdtab, backlog,                       \* descriptors, pending accepts
          main, mainfd,                         \* main's position, its clientfd
          pc, clientfd, peer,                   \* each thread
          cstate, answers,                      \* each client
          handoffs, takes,                      \* history: set / consumed hand-offs
          apart                                 \* history: one client at a time so far

procVars   == <<work, sigint, alive>>
shared     == <<condition, socket, idlethreads>>
threadVars == <<pc, clientfd, peer>>
clientVars == <<cstate, answers>>
history    == <<handoffs, takes, apart>>
vars == <<work, sigint, alive, mutex, waiting, condition, socket, idlethreads,
          fdtab, backlog, main, mainfd, pc, clientfd, peer, cstate, answers,
          handoffs, takes, apart>>

Fds == 1..NumFds

Init ==
  /\ work = TRUE /\ sigint = "none" /\ alive = TRUE
  /\ mutex = Free /\ waiting = {}
  /\ condition = 0 /\ socket = 0 /\ idlethreads = 0
  /\ fdtab = [f \in Fds |-> NoClient] /\ backlog = <<>>
  /\ main = "select" /\ mainfd = 0
  /\ pc = [t \in Threads |-> "lock"]
  /\ clientfd = [t \in Threads |-> 0]
  /\ peer = [t \in Threads |-> NoClient]
  /\ cstate = [c \in Clients |-> "away"]
  /\ answers = [c \in Clients |-> 0]
  /\ handoffs = 0 /\ takes = 0 /\ apart = TRUE

\* ERR: perror and exit(EXIT_FAILURE) of the whole process.
Fail == alive' = FALSE /\ UNCHANGED <<work, sigint>>

-----------------------------------------------------------------------------
(* The clients and the user.                                               *)

\* The clients the server has still to answer.
Outstanding == {c \in Clients : /\ cstate[c] \in {"connected", "sent", "read"}
                                /\ answers[c] = 0
                                /\ \/ \E i \in DOMAIN backlog : backlog[i] = c
                                   \/ \E f \in Fds : fdtab[f] = c}

Connect(c) ==
  /\ alive /\ main # "done"
  /\ cstate[c] = "away"
  /\ Len(backlog) < Backlog
  /\ cstate' = [cstate EXCEPT ![c] = "connected"]
  /\ backlog' = Append(backlog, c)
  /\ apart' = (apart /\ Outstanding = {})
  /\ UNCHANGED <<procVars, mutex, waiting, shared, fdtab, main, mainfd,
                 threadVars, answers, handoffs, takes>>

\* The client writes its whole request, the file's name in NMMAX + 1 bytes.
SendRequest(c) ==
  /\ cstate[c] = "connected"
  /\ cstate' = [cstate EXCEPT ![c] = "sent"]
  /\ UNCHANGED <<procVars, mutex, waiting, shared, fdtab, backlog, main, mainfd,
                 threadVars, answers, history>>

\* The client ends without having written a whole request.
Leave(c) ==
  /\ cstate[c] = "connected"
  /\ cstate' = [cstate EXCEPT ![c] = "left"]
  /\ apart' = FALSE
  /\ UNCHANGED <<procVars, mutex, waiting, shared, fdtab, backlog, main, mainfd,
                 threadVars, answers, handoffs, takes>>

\* The client has its answer and closes its end.  One that is turned away ends by
\* the end of file instead (POSIX_cond_client.c lines 131-135), of which the
\* server sees nothing: its descriptor is closed already.
Finish(c) ==
  /\ cstate[c] \in {"sent", "read"}
  /\ answers[c] > 0
  /\ cstate' = [cstate EXCEPT ![c] = "finished"]
  /\ UNCHANGED <<procVars, mutex, waiting, shared, fdtab, backlog, main, mainfd,
                 threadVars, answers, history>>

Interrupt ==
  /\ alive /\ sigint = "none"
  /\ sigint' = "pending"
  /\ UNCHANGED <<work, alive, mutex, waiting, shared, fdtab, backlog, main, mainfd,
                 threadVars, clientVars, history>>

-----------------------------------------------------------------------------
(* The main thread: dowork, then the end of main.                          *)

\* siginthandler: work = 0.
WorkAfterSigint == FALSE

\* pselect is the only place where SIGINT is not blocked.
TakeSigint ==
  /\ alive /\ main = "select" /\ work
  /\ sigint = "pending"
  /\ sigint' = "taken" /\ work' = WorkAfterSigint
  /\ UNCHANGED <<alive, mutex, waiting, shared, fdtab, backlog, main, mainfd,
                 threadVars, clientVars, history>>

\* pselect reports the listening socket and accept takes the oldest connection.
Accept ==
  /\ alive /\ main = "select" /\ work
  /\ backlog # <<>>
  /\ \E f \in Fds :
       /\ fdtab[f] = NoClient
       /\ \A g \in 1..(f - 1) : fdtab[g] # NoClient
       /\ mainfd' = f
       /\ fdtab' = [fdtab EXCEPT ![f] = Head(backlog)]
  /\ backlog' = Tail(backlog)
  /\ main' = "lock"
  /\ UNCHANGED <<procVars, mutex, waiting, shared, threadVars, clientVars, history>>

\* The test that decides between closing and handing over.
NobodyIdleOffByOne == idlethreads <= 1
NobodyIdle == idlethreads = 0

\* Nobody is idle: the connection is closed under the mutex.
Refuse ==
  /\ alive /\ main = "lock" /\ mutex = Free
  /\ NobodyIdle
  /\ IF fdtab[mainfd] = NoClient
     THEN Fail /\ UNCHANGED <<fdtab, main>>
     ELSE /\ fdtab' = [fdtab EXCEPT ![mainfd] = NoClient]
          /\ main' = "select"
          /\ UNCHANGED procVars
  /\ UNCHANGED <<mutex, waiting, shared, backlog, mainfd, threadVars, clientVars, history>>

\* Somebody is idle: the descriptor is stored, the mutex released again.
StoreSocket ==
  /\ alive /\ main = "lock" /\ mutex = Free
  /\ ~NobodyIdle
  /\ socket' = mainfd
  /\ main' = "setcondition"
  /\ UNCHANGED <<procVars, mutex, waiting, condition, idlethreads, fdtab, backlog,
                 mainfd, threadVars, clientVars, history>>

\* condition is set without the mutex.
SetCondition ==
  /\ alive /\ main = "setcondition"
  /\ condition' = 1
  /\ handoffs' = handoffs + 1
  /\ main' = "signal"
  /\ UNCHANGED <<procVars, mutex, waiting, socket, idlethreads, fdtab, backlog,
                 mainfd, threadVars, clientVars, takes, apart>>

\* pthread_cond_signal wakes one waiter, or nobody when there is none.
Signal ==
  /\ alive /\ main = "signal"
  /\ main' = "select"
  /\ \/ /\ waiting = {} /\ UNCHANGED <<waiting, pc>>
     \/ \E t \in waiting : /\ waiting' = waiting \ {t}
                           /\ pc' = [pc EXCEPT ![t] = "relock"]
  /\ UNCHANGED <<procVars, mutex, shared, fdtab, backlog, mainfd, clientfd, peer,
                 clientVars, history>>

\* The threads pthread_cond_broadcast wakes, and the one a signal would.
SignalOne == IF waiting = {} THEN {} ELSE {CHOOSE t \in waiting : TRUE}
BroadcastAll == waiting

\* The loop ends; pthread_cond_broadcast, also without the mutex.
Broadcast ==
  /\ alive /\ main = "select" /\ ~work
  /\ waiting' = waiting \ BroadcastAll
  /\ pc' = [t \in Threads |-> IF t \in BroadcastAll THEN "relock" ELSE pc[t]]
  /\ main' = "join"
  /\ UNCHANGED <<procVars, mutex, shared, fdtab, backlog, mainfd, clientfd, peer,
                 clientVars, history>>

Join ==
  /\ alive /\ main = "join"
  /\ \A t \in Threads : pc[t] = "exited"
  /\ main' = "done"
  /\ UNCHANGED <<procVars, mutex, waiting, shared, fdtab, backlog, mainfd,
                 threadVars, clientVars, history>>

-----------------------------------------------------------------------------
(* The pool: threadfunc and communicate.                                   *)

Lock(t) ==
  /\ alive /\ pc[t] = "lock" /\ mutex = Free
  /\ mutex' = t
  /\ idlethreads' = idlethreads + 1
  /\ pc' = [pc EXCEPT ![t] = "test"]
  /\ UNCHANGED <<procVars, waiting, condition, socket, fdtab, backlog, main, mainfd,
                 clientfd, peer, clientVars, history>>

\* while (!*condition && work)
Test(t) ==
  /\ alive /\ pc[t] = "test"
  /\ pc' = [pc EXCEPT ![t] = IF condition = 0 /\ work THEN "wait" ELSE "reset"]
  /\ UNCHANGED <<procVars, mutex, waiting, shared, fdtab, backlog, main, mainfd,
                 clientfd, peer, clientVars, history>>

\* pthread_cond_wait: the mutex is released and the thread sleeps, atomically.
Wait(t) ==
  /\ alive /\ pc[t] = "wait"
  /\ mutex' = Free
  /\ waiting' = waiting \cup {t}
  /\ pc' = [pc EXCEPT ![t] = "waiting"]
  /\ UNCHANGED <<procVars, shared, fdtab, backlog, main, mainfd, clientfd, peer,
                 clientVars, history>>

\* POSIX lets pthread_cond_wait return without a signal.
SpuriousWakeup(t) ==
  /\ alive /\ t \in waiting
  /\ waiting' = waiting \ {t}
  /\ pc' = [pc EXCEPT ![t] = "relock"]
  /\ UNCHANGED <<procVars, mutex, shared, fdtab, backlog, main, mainfd, clientfd,
                 peer, clientVars, history>>

\* The loop around pthread_cond_wait tests again, an `if' would not.
AfterWakeupNoLoop == "reset"
AfterWakeup == "test"

Relock(t) ==
  /\ alive /\ pc[t] = "relock" /\ mutex = Free
  /\ mutex' = t
  /\ pc' = [pc EXCEPT ![t] = AfterWakeup]
  /\ UNCHANGED <<procVars, waiting, shared, fdtab, backlog, main, mainfd, clientfd,
                 peer, clientVars, history>>

\* *condition = 0, and its omission.
ConsumedForgotten == condition
Consumed == 0

\* (*idlethreads)--, and its omission.
LeavePoolForgotten == idlethreads
LeavePool == idlethreads - 1

\* Out of the loop, still under the mutex: *condition = 0, and with work
\* cleared pthread_exit, whose cleanup handler unlocks the mutex.
Exit(t) ==
  /\ alive /\ pc[t] = "reset" /\ ~work
  /\ condition' = Consumed
  /\ mutex' = Free
  /\ pc' = [pc EXCEPT ![t] = "exited"]
  /\ UNCHANGED <<procVars, waiting, socket, idlethreads, fdtab, backlog, main,
                 mainfd, clientfd, peer, clientVars, history>>

\* ... otherwise the thread takes the descriptor and leaves the pool.
TakeSocket(t) ==
  /\ alive /\ pc[t] = "reset" /\ work
  /\ condition' = Consumed
  /\ idlethreads' = LeavePool
  /\ clientfd' = [clientfd EXCEPT ![t] = socket]
  /\ mutex' = Free
  /\ pc' = [pc EXCEPT ![t] = "recv"]
  /\ takes' = takes + 1
  /\ UNCHANGED <<procVars, waiting, socket, fdtab, backlog, main, mainfd, peer,
                 clientVars, handoffs, apart>>

\* recv enters the kernel: a closed descriptor is an error, an open one is
\* held until the call returns.
EnterRecv(t) ==
  /\ alive /\ pc[t] = "recv"
  /\ IF fdtab[clientfd[t]] = NoClient
     THEN Fail /\ UNCHANGED <<pc, peer>>
     ELSE /\ peer' = [peer EXCEPT ![t] = fdtab[clientfd[t]]]
          /\ pc' = [pc EXCEPT ![t] = "receiving"]
          /\ UNCHANGED procVars
  /\ UNCHANGED <<mutex, waiting, shared, fdtab, backlog, main, mainfd, clientfd,
                 clientVars, history>>

\* recv with MSG_WAITALL returns a whole request (size == NMMAX + 1).
RecvRequest(t) ==
  /\ alive /\ pc[t] = "receiving"
  /\ cstate[peer[t]] = "sent"
  /\ cstate' = [cstate EXCEPT ![peer[t]] = "read"]
  /\ pc' = [pc EXCEPT ![t] = "send"]
  /\ UNCHANGED <<procVars, mutex, waiting, shared, fdtab, backlog, main, mainfd,
                 clientfd, peer, answers, history>>

\* The peer has closed: a short read, and the answer is skipped.
RecvShort(t) ==
  /\ alive /\ pc[t] = "receiving"
  /\ cstate[peer[t]] \in {"left", "finished"}
  /\ pc' = [pc EXCEPT ![t] = "close"]
  /\ UNCHANGED <<procVars, mutex, waiting, shared, fdtab, backlog, main, mainfd,
                 clientfd, peer, clientVars, history>>

\* The file or ERRSTRING goes to whichever connection the number names now.
SendAnswer(t) ==
  /\ alive /\ pc[t] = "send"
  /\ IF fdtab[clientfd[t]] = NoClient
     THEN Fail /\ UNCHANGED <<pc, answers>>
     ELSE /\ answers' = [answers EXCEPT ![fdtab[clientfd[t]]] = @ + 1]
          /\ pc' = [pc EXCEPT ![t] = "close"]
          /\ UNCHANGED procVars
  /\ UNCHANGED <<mutex, waiting, shared, fdtab, backlog, main, mainfd, clientfd,
                 peer, cstate, history>>

Close(t) ==
  /\ alive /\ pc[t] = "close"
  /\ peer' = [peer EXCEPT ![t] = NoClient]
  /\ IF fdtab[clientfd[t]] = NoClient
     THEN Fail /\ UNCHANGED <<fdtab, pc>>
     ELSE /\ fdtab' = [fdtab EXCEPT ![clientfd[t]] = NoClient]
          /\ pc' = [pc EXCEPT ![t] = "lock"]
          /\ UNCHANGED procVars
  /\ UNCHANGED <<mutex, waiting, shared, backlog, main, mainfd, clientfd,
                 clientVars, history>>

-----------------------------------------------------------------------------
MainStep == \/ TakeSigint \/ Accept \/ Refuse \/ StoreSocket \/ SetCondition
            \/ Signal \/ Broadcast \/ Join

ThreadStep(t) == \/ Lock(t) \/ Test(t) \/ Wait(t) \/ Relock(t)
                 \/ Exit(t) \/ TakeSocket(t) \/ EnterRecv(t) \/ RecvRequest(t)
                 \/ RecvShort(t) \/ SendAnswer(t) \/ Close(t)

ClientStep(c) == SendRequest(c) \/ Leave(c) \/ Finish(c)

Next == \/ MainStep
        \/ Interrupt
        \/ \E t \in Threads : ThreadStep(t) \/ SpuriousWakeup(t)
        \/ \E c \in Clients : Connect(c) \/ ClientStep(c)

Spec == Init /\ [][Next]_vars

\* The scheduler runs every thread, the mutex is granted to every thread that
\* keeps asking, and a connected client sends its request or goes away.
FairSpec == /\ Spec
            /\ WF_vars(MainStep) /\ SF_vars(Refuse) /\ SF_vars(StoreSocket)
            /\ \A t \in Threads : /\ WF_vars(ThreadStep(t))
                                  /\ SF_vars(Lock(t)) /\ SF_vars(Relock(t))
            /\ \A c \in Clients : WF_vars(ClientStep(c))

-----------------------------------------------------------------------------
\* The types of the variables.
TypeOK ==
  /\ work \in BOOLEAN /\ sigint \in {"none", "pending", "taken"} /\ alive \in BOOLEAN
  /\ mutex \in Threads \cup {Free} /\ waiting \subseteq Threads
  /\ condition \in {0, 1} /\ socket \in 0..NumFds
  /\ idlethreads \in 0..Cardinality(Threads)
  /\ fdtab \in [Fds -> Clients \cup {NoClient}] /\ backlog \in Seq(Clients)
  /\ main \in {"select", "lock", "setcondition", "signal", "join", "done"}
  /\ mainfd \in 0..NumFds
  /\ pc \in [Threads -> {"lock", "test", "wait", "waiting", "relock", "reset",
                         "exited", "recv", "receiving", "send", "close"}]
  /\ clientfd \in [Threads -> 0..NumFds]
  /\ peer \in [Threads -> Clients \cup {NoClient}]
  /\ cstate \in [Clients -> {"away", "connected", "sent", "read", "left", "finished"}]
  /\ answers \in [Clients -> Nat]
  /\ handoffs \in Nat /\ takes \in Nat /\ apart \in BOOLEAN

\* No thread takes a descriptor that main did not announce: the hand-offs
\* consumed at lines 137-141 never outnumber those set at line 216, however
\* pthread_cond_wait wakes up.
NoPhantomHandOff == takes <= handoffs

\* When main turns a client away (lines 207-211) every thread of the pool is
\* busy with another client, about to enter the pool, or gone: none sleeps on
\* the condition variable.
RefusedOnlyWhenBusy ==
  [][Refuse => /\ waiting = {}
               /\ \A t \in Threads : pc[t] \in {"lock", "recv", "receiving",
                                                "send", "close"}]_vars

\* As long as clients come one after another and none goes away early, a
\* client gets at most one answer, only for a request the server has read, no
\* two threads work on the same descriptor (lines 102-116), and so the process
\* does not end in ERR.
ServedOnce ==
  apart =>
    /\ alive
    /\ \A c \in Clients : /\ answers[c] <= 1
                          /\ answers[c] = 1 => cstate[c] \in {"read", "finished"}
    /\ \A s, t \in Threads :
         /\ s # t
         /\ {pc[s], pc[t]} \subseteq {"recv", "receiving", "send", "close"}
         => clientfd[s] # clientfd[t]

\* The process never ends in ERR("read"), ERR("write") or ERR("close")
\* (lines 102-116): no thread uses a descriptor that is already closed.
NoErrorExit == alive

\* A thread asleep when the server stops (line 250) leaves pthread_cond_wait
\* and exits, so that it can be joined, unless ERR ends the process.
SleepersExit ==
  \A t \in Threads : (t \in waiting /\ ~work /\ main = "select" /\ alive)
                        ~> (pc[t] = "exited" \/ ~alive)
=============================================================================
