----------------------------- MODULE SemServer -----------------------------
(***************************************************************************)
(* The UDP timer service of L2_4/POSIX_sem_server.c and POSIX_sem_client.c.*)
(* A client asks to be answered after a number of seconds; the server      *)
(* sleeps for it in a detached thread, one per request and at most FS_NUM  *)
(* at once, counted by a semaphore, and answers -1 at once to those beyond.*)
(* A client waits TIMEOUT seconds.  The network may lose datagrams.        *)
(*                                                                         *)
(* Times are 16 bits wide.  The deny value -1 is the request 65535: the    *)
(* server echoes the number of seconds, so the two answers look alike.     *)
(***************************************************************************)
EXTENDS Naturals, FiniteSets

CONSTANTS Clients,
          FS_NUM,      \* slots of the service
          TIMEOUT,     \* a client's alarm, in seconds
          Times        \* the numbers of seconds clients ask for

Deny == 65535          \* htons(-1)
TimeWidth == 65536      \* uint16_t

ASSUME SemServerAssumption ==
  /\ IsFiniteSet(Clients)
  /\ FS_NUM \in Nat \ {0} /\ TIMEOUT \in Nat /\ TIMEOUT < Deny
  /\ Times \subseteq Nat /\ \A t \in Times : t < TimeWidth

VARIABLES
  sem, server, do_work,      \* the semaphore, main's position, the SIGINT flag
  worker,                    \* the thread that serves each client's request
  req, client, outcome,      \* each client: its time, position, what it prints
  requests, replies,         \* datagrams; a reply is <<client, time>>
  sigint

serverVars == <<sem, server, do_work, sigint>>
clientVars == <<client, outcome>>
vars == <<sem, server, do_work, worker, req, client, outcome, requests, replies, sigint>>

Init ==
  /\ sem = FS_NUM /\ server = "check" /\ do_work = TRUE
  /\ worker = [c \in Clients |-> "none"]
  /\ req \in [Clients -> Times]
  /\ client = [c \in Clients |-> "send"]
  /\ outcome = [c \in Clients |-> "none"]
  /\ requests = {} /\ replies = {}
  /\ sigint = FALSE

Running == server # "dead"
InDoServer == server \in {"check", "enter", "recv"}

-----------------------------------------------------------------------------
(* The main thread of the server.                                          *)

\* while (do_work); between the test and recvfrom a SIGINT only sets the flag.
Check ==
  /\ server = "check"
  /\ server' = IF do_work THEN "enter" ELSE "return"
  /\ UNCHANGED <<sem, do_work, sigint, worker, req, clientVars, requests, replies>>

EnterRecv ==
  /\ server = "enter"
  /\ server' = "recv"
  /\ UNCHANGED <<sem, do_work, sigint, worker, req, clientVars, requests, replies>>

\* The handler.  In recvfrom it is always seen as EINTR; a signal that comes with
\* a datagram, or just before the call, is one at "enter": the loop ends after
\* one more request.
Sigint ==
  /\ Running /\ ~sigint
  /\ sigint' = TRUE /\ do_work' = FALSE
  /\ server' = IF server = "recv" THEN "check" ELSE server    \* EINTR
  /\ UNCHANGED <<sem, worker, req, clientVars, requests, replies>>

\* What a new thread does first.
WorkerStart == "sleep"

\* sem_trywait takes a slot; a test of the value alone would not.
NotTaken == sem
Taken == sem - 1

\* recvfrom, sem_trywait succeeds, a detached thread gets the request.
Serve(c) ==
  /\ server = "recv" /\ c \in requests
  /\ sem > 0
  /\ sem' = Taken
  /\ worker' = [worker EXCEPT ![c] = WorkerStart]
  /\ requests' = requests \ {c}
  /\ server' = "check"
  /\ UNCHANGED <<do_work, sigint, req, clientVars, replies>>

\* sem_trywait fails with EAGAIN, the answer is -1.
Full == sem = 0

Refuse(c) ==
  /\ server = "recv" /\ c \in requests
  /\ Full
  /\ worker' = [worker EXCEPT ![c] = "refused"]
  /\ replies' = replies \cup {<<c, Deny>>}
  /\ requests' = requests \ {c}
  /\ server' = "check"
  /\ UNCHANGED <<sem, do_work, sigint, req, clientVars>>

\* doServer has returned: close(fd), then main's return ends the process and
\* the threads that are still asleep.
CloseFd ==
  /\ server = "return"
  /\ server' = "closed"
  /\ UNCHANGED <<sem, do_work, sigint, worker, req, clientVars, requests, replies>>

Exit ==
  /\ server = "closed"
  /\ server' = "dead"
  /\ UNCHANGED <<sem, do_work, sigint, worker, req, clientVars, requests, replies>>

-----------------------------------------------------------------------------
(* The thread of a request: communicateDgram.                              *)

\* ntohs gives an unsigned number of seconds; as int16_t, 65535 would be -1.
SleepTimeSigned(t) == IF t >= 32768 THEN 0 ELSE t
SleepTime(t) == t

\* The sleep ends.  A sleep of more than TIMEOUT seconds outlasts the client,
\* whose alarm is set right after its request is sent.
WakeUp(c) ==
  /\ Running /\ worker[c] = "sleep"
  /\ SleepTime(req[c]) > TIMEOUT => client[c] # "wait"
  /\ worker' = [worker EXCEPT ![c] = "reply"]
  /\ UNCHANGED <<serverVars, req, clientVars, requests, replies>>

\* sendto; on a descriptor main has closed it is ERR("sendto").
Reply(c) ==
  /\ Running /\ worker[c] = "reply"
  /\ IF server = "closed"
     THEN server' = "dead" /\ UNCHANGED <<worker, replies>>
     ELSE /\ replies' = replies \cup {<<c, req[c]>>}
          /\ worker' = [worker EXCEPT ![c] = "post"]
          /\ UNCHANGED server
  /\ UNCHANGED <<sem, do_work, sigint, req, clientVars, requests>>

\* sem_post, and its omission.  The semaphore lives in doServer's frame: once
\* doServer has returned the call works on dead memory, it leaves any value
\* and may fail, which is ERR("sem_post").
PostForgotten == sem
Posted == sem + 1

Post(c) ==
  /\ Running /\ worker[c] = "post"
  /\ worker' = [worker EXCEPT ![c] = "done"]
  /\ \/ InDoServer /\ sem' = Posted /\ UNCHANGED server
     \/ ~InDoServer /\ sem' \in 0..FS_NUM /\ server' \in {server, "dead"}
  /\ UNCHANGED <<do_work, sigint, req, clientVars, requests, replies>>

-----------------------------------------------------------------------------
(* The clients and the network.                                            *)

\* The request is sent and the alarm set.
Send(c) ==
  /\ client[c] = "send"
  /\ requests' = requests \cup {c}
  /\ client' = [client EXCEPT ![c] = "wait"]
  /\ UNCHANGED <<serverVars, worker, req, outcome, replies>>

Verdict(t) == IF t = Deny THEN "denied" ELSE "expired"

\* recv returns an answer; an alarm before line 91 still makes it a timeout.
RecvReply(c) ==
  /\ client[c] = "wait"
  /\ \E r \in replies :
       /\ r[1] = c
       /\ replies' = replies \ {r}
       /\ \E o \in {Verdict(r[2]), "timeout"} : outcome' = [outcome EXCEPT ![c] = o]
  /\ client' = [client EXCEPT ![c] = "ended"]
  /\ UNCHANGED <<serverVars, worker, req, requests>>

Alarm(c) ==
  /\ client[c] = "wait"
  /\ outcome' = [outcome EXCEPT ![c] = "timeout"]
  /\ client' = [client EXCEPT ![c] = "ended"]
  /\ UNCHANGED <<serverVars, worker, req, requests, replies>>

Lose ==
  /\ \/ \E c \in requests : requests' = requests \ {c} /\ UNCHANGED replies
     \/ \E r \in replies : replies' = replies \ {r} /\ UNCHANGED requests
  /\ UNCHANGED <<serverVars, worker, req, clientVars>>

ServerStep == Check \/ EnterRecv \/ CloseFd \/ Exit \/ \E c \in Clients : Serve(c) \/ Refuse(c)
WorkerStep(c) == WakeUp(c) \/ Reply(c) \/ Post(c)
ClientStep(c) == Send(c) \/ RecvReply(c) \/ Alarm(c)

Next == \/ ServerStep \/ Sigint \/ Lose
        \/ \E c \in Clients : WorkerStep(c) \/ ClientStep(c)

Spec == Init /\ [][Next]_vars

-----------------------------------------------------------------------------
\* The types of the variables.
TypeOK ==
  /\ sem \in 0..FS_NUM /\ do_work \in BOOLEAN /\ sigint \in BOOLEAN
  /\ server \in {"check", "enter", "recv", "return", "closed", "dead"}
  /\ worker \in [Clients -> {"none", "sleep", "reply", "post", "done", "refused"}]
  /\ req \in [Clients -> Times]
  /\ client \in [Clients -> {"send", "wait", "ended"}]
  /\ outcome \in [Clients -> {"none", "timeout", "denied", "expired"}]
  /\ requests \subseteq Clients
  /\ replies \subseteq Clients \X (Times \cup {Deny})

Busy == {c \in Clients : worker[c] \in {"sleep", "reply", "post"}}

\* The semaphore (lines 101-129) and the threads that have yet to post it
\* (line 86) add up to FS_NUM as long as doServer runs: no slot is lost or invented.
SlotsConserved == InDoServer => sem + Cardinality(Busy) = FS_NUM

\* -1 is sent (lines 111-117) only while FS_NUM requests are being served.
RefusedOnlyWhenFull ==
  [][\A c \in Clients : (worker'[c] = "refused" /\ worker[c] # "refused")
        => Cardinality(Busy) = FS_NUM]_vars

\* A client that prints "Service denied" (client, line 94) was refused, although
\* the server also sends -1 to a client that asked for 65535 seconds: that
\* answer comes when the client has long printed "Timeout".
DeniedMeansRefused == \A c \in Clients : outcome[c] = "denied" => worker[c] = "refused"

\* A client that prints "Time has expired" (client, line 96) asked for no more
\* than its own timeout and its thread has slept.
ExpiredMeansSlept ==
  \A c \in Clients : outcome[c] = "expired" =>
    req[c] <= TIMEOUT /\ worker[c] \in {"post", "done"}
=============================================================================
