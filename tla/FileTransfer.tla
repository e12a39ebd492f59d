---------------------------- MODULE FileTransfer ----------------------------
(***************************************************************************)
(* The file transfer over UDP: L2_3/file_server.c and file_client_udp.c.   *)
(* A client sends one numbered chunk at a time and repeats it until the    *)
(* server echoes it or the attempts are used up; the server keeps one slot *)
(* per sender in a table of MAXADDR, prints the chunk that is next for the *)
(* sender and echoes what it has already printed.  The network loses,      *)
(* duplicates and reorders datagrams.                                      *)
(***************************************************************************)
EXTENDS Naturals

CONSTANTS Clients,
          Strangers,   \* senders killed by their users after the first chunk
          MAXADDR,     \* slots of the server's table
          MaxTries,    \* datagrams a client sends for one chunk (6 in the code)
          MaxLen       \* bound: chunks in a file

ASSUME FileTransferAssumption ==
  /\ {MAXADDR, MaxTries, MaxLen} \subseteq Nat \ {0}
  /\ Clients \cap Strangers = {}

VARIABLES
  len,                \* chunks of each client's file, fixed
  con,                \* the server's table
  toServer, toClient, \* datagrams on their way, <<client, chunkNo>>
  pc, chunkNo, tries, \* each client
  out,                \* history: the number the server printed last for c
  highest             \* history: the highest number printed for c

serverVars == <<con, out, highest>>
clientVars == <<pc, chunkNo, tries>>
vars == <<len, con, toServer, toClient, pc, chunkNo, tries, out, highest>>

Slots == 1..MAXADDR
FreeSlot == [addr |-> {}, chunkNo |-> 0]     \* con[i].free

Used(addr, n) == [addr |-> {addr}, chunkNo |-> n]

Init ==
  /\ len \in [Clients -> 1..MaxLen]
  /\ con = [i \in Slots |-> FreeSlot]
  /\ toServer = {} /\ toClient = {}
  /\ pc = [c \in Clients |-> "send"]
  /\ chunkNo = [c \in Clients |-> 1]
  /\ tries = [c \in Clients |-> 0]
  /\ out = [c \in Clients |-> 0]
  /\ highest = [c \in Clients |-> 0]

-----------------------------------------------------------------------------
(* The server: one datagram from sender c with number n.                   *)

\* A received datagram leaves the network or, duplicated, stays in it.
Take(net, d) == {net, net \ {d}}

SlotOf(c) == {i \in Slots : con[i].addr = {c}}
Empty == {i \in Slots : con[i] = FreeSlot}

First(S) == {i \in S : \A j \in S : i <= j}
Last(S) == {i \in S : \A j \in S : j <= i}

\* findIndex: the sender's slot, else the last free one, else none.  Without
\* the search for the sender every datagram would get a slot of its own.
FindIndexNoSearch(c) == Last(Empty)
FindIndex(c) == IF SlotOf(c) # {} THEN First(SlotOf(c)) ELSE Last(Empty)

\* The table is full: the datagram is dropped.
NoSlot(c, n) ==
  /\ FindIndex(c) = {}
  /\ UNCHANGED <<con, toClient, out, highest>>

\* Ahead of what is expected: no answer, but the slot is the sender's now.
Ahead(c, n) ==
  \E i \in FindIndex(c) :
    /\ n > con[i].chunkNo + 1
    /\ con' = [con EXCEPT ![i] = Used(c, @.chunkNo)]
    /\ UNCHANGED <<toClient, out, highest>>

\* chunkNo == con[i].chunkNo + 1; a test for any other number but the last one
\* printed would take a delayed duplicate for news.
IsNextIfNew(known, n) == n # known /\ n <= known + 1
IsNext(known, n) == n = known + 1

\* The expected chunk is printed and echoed; after the last one the slot is free.
PrintChunk(c, n) ==
  \E i \in FindIndex(c) :
    /\ IsNext(con[i].chunkNo, n)
    /\ con' = [con EXCEPT ![i] = IF n = len[c] THEN FreeSlot
                                 ELSE Used(c, n)]
    /\ out' = [out EXCEPT ![c] = n]
    /\ highest' = [highest EXCEPT ![c] = IF n > @ THEN n ELSE @]
    /\ toClient' = toClient \cup {<<c, n>>}

\* Printed before: echoed again.
Echo(c, n) ==
  \E i \in FindIndex(c) :
    /\ n < con[i].chunkNo + 1
    /\ toClient' = toClient \cup {<<c, n>>}
    /\ UNCHANGED serverVars

Receive(c, n) ==
  /\ <<c, n>> \in toServer
  /\ toServer' \in Take(toServer, <<c, n>>)
  /\ NoSlot(c, n) \/ Ahead(c, n) \/ PrintChunk(c, n) \/ Echo(c, n)
  /\ UNCHANGED <<len, clientVars>>

-----------------------------------------------------------------------------
(* The clients.                                                            *)

\* counter++, and its omission.
NotCounted(c) == tries[c]
Counted(c) == tries[c] + 1

\* sendAndConfirm sends the chunk, arms the alarm and enters recv.  When the
\* alarm fires before recv is entered, nothing will interrupt the recv.
Send(c) ==
  /\ pc[c] = "send"
  /\ toServer' = toServer \cup {<<c, chunkNo[c]>>}
  /\ tries' = [tries EXCEPT ![c] = Counted(c)]
  /\ \E w \in {"recv", "recvnoalarm"} : pc' = [pc EXCEPT ![c] = w]
  /\ UNCHANGED <<len, serverVars, toClient, chunkNo>>

\* The chunk is not confirmed: send it again, or give the file up.
RetryForever(c) == "send"
Retry(c) == IF tries[c] < MaxTries THEN "send" ELSE "gaveup"

Alarm(c) ==
  /\ pc[c] = "recv"
  /\ pc' = [pc EXCEPT ![c] = Retry(c)]
  /\ UNCHANGED <<len, serverVars, toServer, toClient, chunkNo, tries>>

\* recv returns an echo; only that of the current chunk confirms it.
ConfirmsAny(c, n) == TRUE
Confirms(c, n) == n = chunkNo[c]

RecvEcho(c, n) ==
  /\ pc[c] \in {"recv", "recvnoalarm"}
  /\ <<c, n>> \in toClient
  /\ toClient' \in Take(toClient, <<c, n>>)
  /\ IF ~Confirms(c, n)
     THEN /\ pc' = [pc EXCEPT ![c] = Retry(c)]
          /\ UNCHANGED <<chunkNo, tries>>
     ELSE IF chunkNo[c] = len[c]
     THEN /\ pc' = [pc EXCEPT ![c] = "done"]
          /\ UNCHANGED <<chunkNo, tries>>
     ELSE /\ pc' = [pc EXCEPT ![c] = "send"]
          /\ chunkNo' = [chunkNo EXCEPT ![c] = @ + 1]
          /\ tries' = [tries EXCEPT ![c] = 0]
  /\ UNCHANGED <<len, serverVars, toServer>>

\* A client killed after the first chunk of a longer file: its datagram takes a
\* slot that nothing frees again.
Stray(s) ==
  /\ SlotOf(s) = {}
  /\ \E i \in FindIndex(s) : con' = [con EXCEPT ![i] = Used(s, 1)]
  /\ UNCHANGED <<len, toServer, toClient, clientVars, out, highest>>

-----------------------------------------------------------------------------
Lose(d) ==
  /\ d \in toServer \cup toClient
  /\ \/ toServer' = toServer \ {d} /\ UNCHANGED toClient
     \/ toClient' = toClient \ {d} /\ UNCHANGED toServer
  /\ UNCHANGED <<len, serverVars, clientVars>>

ClientStep(c) == \/ Send(c) \/ Alarm(c)
                 \/ \E n \in 1..MaxLen : RecvEcho(c, n)

Next == \/ \E c \in Clients, n \in 1..MaxLen : Receive(c, n) \/ Lose(<<c, n>>)
        \/ \E c \in Clients : ClientStep(c)
        \/ \E s \in Strangers : Stray(s)

Spec == Init /\ [][Next]_vars

\* A client process runs and its alarm fires; the network owes nothing.
FairSpec == Spec /\ \A c \in Clients : WF_vars(ClientStep(c))

-----------------------------------------------------------------------------
\* The types of the variables.
TypeOK ==
  /\ len \in [Clients -> 1..MaxLen]
  /\ con \in [Slots -> [addr : {{c} : c \in Clients \cup Strangers} \cup {{}}, chunkNo : 0..MaxLen]]
  /\ toServer \subseteq Clients \X (1..MaxLen)
  /\ toClient \subseteq Clients \X (1..MaxLen)
  /\ pc \in [Clients -> {"send", "recv", "recvnoalarm", "gaveup", "done"}]
  /\ chunkNo \in [Clients -> 1..MaxLen]
  /\ tries \in [Clients -> 0..MaxTries]
  /\ out \in [Clients -> 0..MaxLen]
  /\ highest \in [Clients -> 0..MaxLen]

\* The table never holds a sender twice (findIndex, lines 81-99), so a
\* datagram is always judged by the one counter of its sender.
OneSlotPerSender ==
  \A i, j \in Slots : con[i].addr # {} /\ con[i].addr = con[j].addr => i = j

\* The server's output for a sender never skips or swaps chunks (lines
\* 115-126): a number is followed by the next one, and only a complete file by
\* number 1 again, the reprint a lost last echo can cause.
PrintedInOrder ==
  [][\A c \in Clients : out'[c] # out[c] =>
       \/ out'[c] = out[c] + 1
       \/ out[c] = len[c] /\ out'[c] = 1]_vars

\* A client that ends its loop because every chunk was confirmed (lines
\* 109-126 of the client) has had its whole file printed.
DoneMeansPrinted == \A c \in Clients : pc[c] = "done" => highest[c] = len[c]

\* Server, clients and network together implement the stop-and-wait promise.
confirmed == [c \in Clients |-> IF pc[c] = "done" THEN len[c] ELSE chunkNo[c] - 1]
Abstract == INSTANCE StopAndWait WITH delivered <- highest
ImplementsStopAndWait == Abstract!Spec

\* A client does not retransmit for ever (lines 120-125): it confirms its whole
\* file, gives up, or sits in the recv that its alarm missed.
ClientEnds ==
  \A c \in Clients : <>[](pc[c] \in {"done", "gaveup", "recvnoalarm"})
=============================================================================
