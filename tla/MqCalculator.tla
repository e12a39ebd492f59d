---------------------------- MODULE MqCalculator ----------------------------
(***************************************************************************)
(* L2_2/test_server.c and test_client.c: a calculator over POSIX message   *)
(* queues.  A client puts the same two numbers on the queues s, d and m of *)
(* the server, one after the other, and waits for an answer on its own     *)
(* queue before each next one: the sum, the quotient and the remainder.    *)
(* The server opens the queue of the client it talks to, and closes it when*)
(* a message with the process id -1 says that the client leaves or has     *)
(* timed out.                                                              *)
(*                                                                         *)
(* A message is who sent it, which of his requests it is and whether       *)
(* dividing its numbers traps (SIGFPE).  All messages have the same        *)
(* priority.  The server's terminal and those of the clients are different,*)
(* so ERR, which kills the process group, ends one program.                *)
(***************************************************************************)
EXTENDS Naturals, Sequences

CONSTANTS MqClients,
          Minus1,        \* the process id -1
          MAXMSG,        \* mq_maxmsg
          MaxRequests    \* bound: pairs of numbers on a client's input

ASSUME MqAssumption ==
  /\ Minus1 \notin MqClients
  /\ MAXMSG \in Nat \ {0} /\ MaxRequests \in Nat \ {0}

\* The queues s, d and m, and the stage of the server and of each client.
Stages == 1..3

VARIABLES
  end,                   \* the SIGINT flag is set
  spc, stage, qc, msg,   \* the server: where it is, the client's queue, its buffer
  queue, linked,         \* the queues s, d, m, and whether their names exist
  cpc, cstage, cmsg, n,  \* each client
  answers, clinked,      \* each client's queue, and whether its name exists
  calm                   \* history: no time-out, error, SIGINT or second session yet

mqServer == <<spc, stage, qc, msg>>
clients == <<cpc, cstage, cmsg, n, clinked>>
mqVars == <<end, mqServer, queue, linked, clients, answers, calm>>

Goodbye == [from |-> Minus1, n |-> 0, traps |-> TRUE]
Messages == [from : MqClients, n : 0..MaxRequests, traps : BOOLEAN] \cup {Goodbye}

MqInit ==
  /\ end = FALSE
  /\ spc = "loop" /\ stage = 1 /\ qc = Minus1
  /\ msg \in {m \in Messages : m.n = 0}      \* uninitialised
  /\ queue = [s \in Stages |-> <<>>] /\ linked = TRUE
  /\ cpc = [c \in MqClients |-> "start"] /\ cstage = [c \in MqClients |-> 1]
  /\ cmsg = [c \in MqClients |-> Goodbye] /\ n = [c \in MqClients |-> 0]
  /\ answers = [c \in MqClients |-> <<>>] /\ clinked = [c \in MqClients |-> FALSE]
  /\ calm = TRUE

\* mq_send blocks while the queue is full; and a queue without a limit.
Unlimited(q) == TRUE
HasRoom(q) == Len(q) < MAXMSG

-----------------------------------------------------------------------------
(* The server.                                                             *)

\* while (end != -1), and after it close and unlink.
Loop ==
  /\ spc = "loop"
  /\ IF end THEN spc' = "ended" /\ linked' = FALSE
            ELSE spc' = "test" /\ UNCHANGED linked
  /\ UNCHANGED <<end, stage, qc, msg, queue, clients, answers, calm>>

\* if (end == 0) before a receive and before a send.
TestEnd ==
  /\ spc \in {"test", "answer"}
  /\ spc' = CASE spc = "test" -> IF end THEN "handle" ELSE "receive"
              [] spc = "answer" /\ ~end -> "send"
              [] spc = "answer" /\ end /\ stage < 3 -> "test"
              [] OTHER -> "loop"
  /\ stage' = IF spc = "answer" /\ end THEN (stage % 3) + 1 ELSE stage
  /\ UNCHANGED <<end, qc, msg, queue, linked, clients, answers, calm>>

Receive ==
  /\ spc = "receive" /\ queue[stage] # <<>>
  /\ msg' = Head(queue[stage])
  /\ queue' = [queue EXCEPT ![stage] = Tail(@)]
  /\ spc' = "handle"
  /\ UNCHANGED <<end, stage, qc, linked, clients, answers, calm>>

\* client_pid == -1: mq_close, qc = -1 and back to the loop; without the
\* assignment the next client finds the old descriptor.
ClientKept == qc' = qc
CloseClient == qc' = Minus1

HandleClosed ==
  /\ spc = "handle" /\ msg.from = Minus1
  /\ CloseClient
  /\ spc' = "loop" /\ stage' = 1
  /\ UNCHANGED <<end, msg, queue, linked, clients, answers, calm>>

\* Of the sum the server answers to the queue that is open, and opens the
\* client's when none is; the name must still exist.
HandleSum ==
  /\ spc = "handle" /\ msg.from # Minus1 /\ stage = 1
  /\ IF qc = Minus1 /\ ~end
     THEN IF clinked[msg.from] THEN qc' = msg.from /\ spc' = "answer"
                               ELSE UNCHANGED qc /\ spc' = "killed"
     ELSE UNCHANGED qc /\ spc' = "answer"
  /\ UNCHANGED <<end, stage, msg, queue, linked, clients, answers, calm>>

\* The messages that quotient and remainder are computed of: a test of
\* client_pid stands before each; and no such test.
AnyMessage == TRUE
NotClosed == msg.from # Minus1

HandleDivision ==
  /\ spc = "handle" /\ NotClosed /\ stage > 1
  /\ spc' = IF msg.traps THEN "trapped" ELSE "answer"
  /\ UNCHANGED <<end, stage, qc, msg, queue, linked, clients, answers, calm>>

\* A send that a signal interrupts is repeated.  A closed queue is ERR.
Send ==
  /\ spc = "send"
  /\ IF qc = Minus1
     THEN spc' = "killed" /\ UNCHANGED <<stage, answers>>
     ELSE /\ HasRoom(answers[qc])
          /\ answers' = [answers EXCEPT ![qc] =
                           Append(@, [from |-> msg.from, n |-> msg.n, stage |-> stage])]
          /\ spc' = IF stage < 3 THEN "test" ELSE "loop"
          /\ stage' = (stage % 3) + 1
  /\ UNCHANGED <<end, qc, msg, queue, linked, clients, calm>>

\* SIGINT.  It makes a receive that is blocked return, which the subtraction of
\* end takes for a success that left the buffer alone; one that is about to
\* block does not notice.
MqSigint ==
  /\ spc \notin {"ended", "killed", "trapped"}
  /\ \/ ~end /\ UNCHANGED spc
     \/ spc = "receive" /\ queue[stage] = <<>> /\ spc' = "handle"
  /\ end' = TRUE /\ calm' = FALSE
  /\ UNCHANGED <<stage, qc, msg, queue, linked, clients, answers>>

Server == Loop \/ TestEnd \/ Receive \/ HandleClosed \/ HandleSum \/ HandleDivision \/ Send

-----------------------------------------------------------------------------
(* A client.                                                               *)

\* The client opens the server's queues and creates its own.
Open(c) ==
  /\ cpc[c] = "start"
  /\ cpc' = [cpc EXCEPT ![c] = IF linked THEN "idle" ELSE "dead"]
  /\ clinked' = [clinked EXCEPT ![c] = linked]
  /\ UNCHANGED <<end, mqServer, queue, linked, cstage, cmsg, n, answers, calm>>

\* c has told the server a request and not yet that it leaves.
InSession(c) == n[c] > 0 /\ cpc[c] \notin {"unlink", "ended"}

ReadNumbers(c) ==
  /\ cpc[c] = "idle" /\ n[c] < MaxRequests
  /\ n' = [n EXCEPT ![c] = @ + 1]
  /\ \E t \in BOOLEAN :
       cmsg' = [cmsg EXCEPT ![c] = [from |-> c, n |-> n[c] + 1, traps |-> t]]
  /\ cpc' = [cpc EXCEPT ![c] = "send"] /\ cstage' = [cstage EXCEPT ![c] = 1]
  /\ calm' = (calm /\ \A d \in MqClients \ {c} : ~InSession(d))
  /\ UNCHANGED <<end, mqServer, queue, linked, answers, clinked>>

\* A message of c on queue s, after which c is at label l.
Put(c, s, m, l) ==
  /\ HasRoom(queue[s])
  /\ queue' = [queue EXCEPT ![s] = Append(@, m)]
  /\ cpc' = [cpc EXCEPT ![c] = l]

\* The numbers end: tell the server, and later remove the queue.
Leave(c) ==
  /\ cpc[c] = "idle"
  /\ Put(c, 1, Goodbye, "unlink")
  /\ UNCHANGED <<end, mqServer, linked, cstage, cmsg, n, clinked, answers, calm>>

Unlink(c) ==
  /\ cpc[c] = "unlink"
  /\ cpc' = [cpc EXCEPT ![c] = "ended"] /\ clinked' = [clinked EXCEPT ![c] = FALSE]
  /\ UNCHANGED <<end, mqServer, queue, linked, cstage, cmsg, n, answers, calm>>

SendStage(c) ==
  /\ cpc[c] = "send"
  /\ Put(c, cstage[c], cmsg[c], "receive")
  /\ UNCHANGED <<end, mqServer, linked, cstage, cmsg, n, clinked, answers, calm>>

\* What follows a receive, successful or not: the next stage or numbers.
NextStage(c) == cstage' = [cstage EXCEPT ![c] = (@ % 3) + 1]
NextLabel(c) == IF cstage[c] < 3 THEN "send" ELSE "idle"

GetAnswer(c) ==
  /\ cpc[c] = "receive" /\ answers[c] # <<>>
  /\ answers' = [answers EXCEPT ![c] = Tail(@)]
  /\ NextStage(c)
  /\ cpc' = [cpc EXCEPT ![c] = NextLabel(c)]
  /\ UNCHANGED <<end, mqServer, queue, linked, cmsg, n, clinked, calm>>

\* ETIMEDOUT: the message becomes the one that says -1, goes to queue s, and
\* then to the queues of the stages that are left.
TimeOut(c) ==
  /\ cpc[c] = "receive" /\ answers[c] = <<>>
  /\ cmsg' = [cmsg EXCEPT ![c] = Goodbye]
  /\ cpc' = [cpc EXCEPT ![c] = "timedout"]
  /\ calm' = FALSE
  /\ UNCHANGED <<end, mqServer, queue, linked, cstage, n, clinked, answers>>

TellTimeOut(c) ==
  /\ cpc[c] = "timedout"
  /\ Put(c, 1, Goodbye, NextLabel(c))
  /\ NextStage(c)
  /\ UNCHANGED <<end, mqServer, linked, cmsg, n, clinked, answers, calm>>

\* tv_nsec + 100000000 may be no valid time: EINVAL, and ERR ends the client
\* with its queue left behind.
InvalidTime(c) ==
  /\ cpc[c] = "receive"
  /\ cpc' = [cpc EXCEPT ![c] = "dead"]
  /\ calm' = FALSE
  /\ UNCHANGED <<end, mqServer, queue, linked, cstage, cmsg, n, clinked, answers>>

Client(c) == \/ Open(c) \/ ReadNumbers(c) \/ Leave(c) \/ Unlink(c) \/ SendStage(c)
             \/ GetAnswer(c) \/ TimeOut(c) \/ TellTimeOut(c) \/ InvalidTime(c)

MqNext == Server \/ MqSigint \/ \E c \in MqClients : Client(c)

MqSpec == MqInit /\ [][MqNext]_mqVars

-----------------------------------------------------------------------------
\* The types of the variables; no queue holds more than its limit.
MqTypeOK ==
  /\ end \in BOOLEAN /\ linked \in BOOLEAN /\ calm \in BOOLEAN
  /\ spc \in {"loop", "test", "receive", "handle", "answer", "send", "ended", "killed",
              "trapped"}
  /\ stage \in Stages /\ qc \in MqClients \cup {Minus1} /\ msg \in Messages
  /\ DOMAIN queue = Stages
  /\ \A s \in Stages : Len(queue[s]) <= MAXMSG
                       /\ \A i \in 1..Len(queue[s]) : queue[s][i] \in Messages
  /\ cpc \in [MqClients -> {"start", "idle", "send", "receive", "timedout", "unlink",
                          "ended", "dead"}]
  /\ cstage \in [MqClients -> Stages] /\ cmsg \in [MqClients -> Messages]
  /\ n \in [MqClients -> 0..MaxRequests] /\ clinked \in [MqClients -> BOOLEAN]
  /\ \A c \in MqClients : Len(answers[c]) <= MAXMSG

\* As long as clients come one after the other and nothing times out, the only
\* answer a client can find is the one to its own last message, however the
\* goodbye of one client and the first request of the next interleave, and the
\* server stays alive (server lines 102-115, client lines 94-108 and 115-143).
InStep ==
  calm =>
    /\ spc # "killed"
    /\ \A c \in MqClients : \A i \in 1..Len(answers[c]) :
         /\ cpc[c] = "receive"
         /\ answers[c][i] = [from |-> c, n |-> cmsg[c].n, stage |-> cstage[c]]

\* Whatever times out, dies or interrupts, the server never sends on the closed
\* descriptor and never divides the numbers of a -1 message (lines 102-188).
ClosedMeansLoop ==
  /\ spc = "send" => qc # Minus1
  /\ (spc = "trapped" \/ (spc = "answer" /\ stage > 1)) => msg.from # Minus1
=============================================================================
