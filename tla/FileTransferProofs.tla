-------------------------- MODULE FileTransferProofs --------------------------
(***************************************************************************)
(* Proofs about FileTransfer for every set of clients, table size, number  *)
(* of attempts and file length: typing, one slot per sender, chunks printed*)
(* in order, and that server, clients and the lossy network implement      *)
(* StopAndWait.                                                            *)
(*                                                                         *)
(* The argument: no datagram is numbered above its client's current chunk, *)
(* no echo above what the server has printed, and the client only moves on *)
(* when the echo of the current chunk is there.  So the highest number     *)
(* printed is always the current chunk or the one before it, whatever a    *)
(* freed slot makes the server print again.                                *)
(***************************************************************************)
EXTENDS FileTransfer, TLAPS

\* The client's chunk, its file and what has been printed for it.
Ends ==
  \A c \in Clients : /\ chunkNo[c] <= len[c]
                     /\ highest[c] <= chunkNo[c] /\ chunkNo[c] <= highest[c] + 1
                     /\ pc[c] = "done" => highest[c] = len[c] /\ chunkNo[c] = len[c]
                     /\ pc[c] = "send" => tries[c] < MaxTries

\* What is on its way, compared with the two ends.
Network ==
  /\ \A c \in Clients, n \in 1..MaxLen : <<c, n>> \in toServer => n <= chunkNo[c]
  /\ \A c \in Clients, n \in 1..MaxLen : <<c, n>> \in toClient => n <= highest[c]

\* What the table counts has been printed; a slot without a sender is free.
Table ==
  \A i \in Slots : /\ \A c \in Clients : con[i].addr = {c} => con[i].chunkNo <= highest[c]
                   /\ con[i].addr = {} => con[i] = FreeSlot

IInv == TypeOK /\ OneSlotPerSender /\ Ends /\ Network /\ Table

-----------------------------------------------------------------------------
\* findIndex returns the slot of the sender if it has one, else a free one.
LEMMA FindIndexCases ==
  ASSUME NEW c, NEW i \in FindIndex(c)
  PROVE  /\ i \in Slots
         /\ \/ con[i].addr = {c}
            \/ con[i] = FreeSlot /\ \A j \in Slots : con[j].addr # {c}
BY DEF FindIndex, First, Last, SlotOf, Empty

\* Giving slot i of findIndex to c keeps the table free of duplicates.
LEMMA SlotKeepsUnique ==
  ASSUME TypeOK, OneSlotPerSender, NEW c, NEW i \in FindIndex(c), NEW n,
         con' = [con EXCEPT ![i] = Used(c, n)] \/ con' = [con EXCEPT ![i] = FreeSlot]
  PROVE  OneSlotPerSender'
<1>1. \A j \in Slots : j # i => con'[j] = con[j] /\ con[j].addr # {c}
  BY FindIndexCases DEF TypeOK, OneSlotPerSender
<1>2. con'[i].addr \in {{c}, {}}
  BY FindIndexCases DEF TypeOK, Used, FreeSlot
<1> QED
  BY <1>1, <1>2 DEF OneSlotPerSender

\* Typing, the table and the numbers are inductive.
THEOREM Inductive == Spec => []IInv
<1> USE FileTransferAssumption
<1>1. Init => IInv
  BY DEF Init, IInv, TypeOK, OneSlotPerSender, Ends, Network, Table, FreeSlot
<1>2. IInv /\ [Next]_vars => IInv'
  <2> SUFFICES ASSUME IInv, [Next]_vars PROVE IInv'
    OBVIOUS
  <2> USE DEF IInv
  <2>1. ASSUME NEW c \in Clients, NEW n \in 1..MaxLen, Receive(c, n) PROVE IInv'
    <3>1. CASE NoSlot(c, n)
      BY <2>1, <3>1 DEF Receive, NoSlot, Take, clientVars, TypeOK, OneSlotPerSender, Ends, Network, Table
    <3>2. CASE Ahead(c, n)
      <4>1. PICK i \in FindIndex(c) : con' = [con EXCEPT ![i] = Used(c, @.chunkNo)]
        BY <3>2 DEF Ahead
      <4>2. /\ UNCHANGED <<len, pc, chunkNo, tries, toClient, out, highest>>
            /\ toServer' \subseteq toServer
        BY <2>1, <3>2 DEF Receive, Ahead, Take, clientVars
      <4>3. TypeOK'
        BY <4>1, <4>2, FindIndexCases DEF TypeOK, Used
      <4>4. OneSlotPerSender'
        BY <4>1, SlotKeepsUnique
      <4>5. Ends' /\ Network'
        BY <4>2 DEF Ends, Network
      <4>6. Table'
        <5>1. \A j \in Slots : j # i => con'[j] = con[j]
          BY <4>1, FindIndexCases DEF TypeOK
        <5>2. con'[i].addr = {c} /\ con'[i].chunkNo = con[i].chunkNo
          BY <4>1, FindIndexCases DEF TypeOK, Used
        <5>3. con[i].chunkNo <= highest[c]
          BY FindIndexCases DEF Table, FreeSlot, TypeOK
        <5> QED
          BY <4>2, <5>1, <5>2, <5>3 DEF Table
      <4> QED
        BY <4>3, <4>4, <4>5, <4>6
    <3>3. CASE PrintChunk(c, n)
      <4>1. PICK i \in FindIndex(c) :
              /\ n = con[i].chunkNo + 1
              /\ con' = [con EXCEPT ![i] = IF n = len[c] THEN FreeSlot ELSE Used(c, n)]
        BY <3>3 DEF PrintChunk, IsNext
      <4>2. /\ UNCHANGED <<len, pc, chunkNo, tries>>
            /\ toServer' \subseteq toServer
            /\ toClient' = toClient \cup {<<c, n>>}
            /\ out' = [out EXCEPT ![c] = n]
            /\ highest' = [highest EXCEPT ![c] = IF n > @ THEN n ELSE @]
        BY <2>1, <3>3 DEF Receive, PrintChunk, Take, clientVars
      <4>3. n <= chunkNo[c]
        BY <2>1 DEF Receive, Network
      <4>4. TypeOK'
        <5>1. con' \in [Slots -> [addr : {{d} : d \in Clients \cup Strangers} \cup {{}},
                                  chunkNo : 0..MaxLen]]
          BY <4>1, <4>2, FindIndexCases DEF TypeOK, Used, FreeSlot
        <5>2. out' \in [Clients -> 0..MaxLen] /\ highest' \in [Clients -> 0..MaxLen]
          BY <4>2 DEF TypeOK
        <5>3. toServer' \subseteq Clients \X (1..MaxLen) /\ toClient' \subseteq Clients \X (1..MaxLen)
          BY <4>2 DEF TypeOK
        <5> QED
          BY <4>2, <5>1, <5>2, <5>3 DEF TypeOK
      <4>5. OneSlotPerSender'
        BY <4>1, SlotKeepsUnique
      <4>6. Ends'
        BY <4>2, <4>3 DEF Ends, TypeOK
      <4>7. Network'
        BY <4>2 DEF Network, TypeOK
      <4>8. Table'
        <5>1. \A j \in Slots : j # i => con'[j] = con[j]
          BY <4>1, FindIndexCases DEF TypeOK
        <5>2. con'[i] = FreeSlot \/ con'[i] = Used(c, n)
          BY <4>1, FindIndexCases DEF TypeOK
        <5>3. \A d \in Clients : highest[d] <= highest'[d]
          BY <4>2 DEF TypeOK
        <5>4. n <= highest'[c]
          BY <4>2 DEF TypeOK
        <5>5. ASSUME NEW j \in Slots PROVE con'[j].addr = {} => con'[j] = FreeSlot
          BY <5>1, <5>2 DEF Table, Used
        <5>6. ASSUME NEW j \in Slots, NEW d \in Clients, con'[j].addr = {d}
              PROVE  con'[j].chunkNo <= highest'[d]
          <6>1. CASE j # i
            <7>1. con[j].addr = {d} /\ con'[j].chunkNo = con[j].chunkNo
              BY <5>1, <5>6, <6>1
            <7>2. con[j].chunkNo <= highest[d] /\ con[j].chunkNo \in Nat
              BY <7>1 DEF Table, TypeOK
            <7>3. highest[d] \in Nat /\ highest'[d] \in Nat
              BY <4>4 DEF TypeOK
            <7> QED
              BY <5>3, <7>1, <7>2, <7>3
          <6>2. CASE j = i
            BY <5>2, <5>4, <5>6, <6>2 DEF Used, FreeSlot
          <6> QED
            BY <6>1, <6>2
        <5> QED
          BY <5>5, <5>6 DEF Table
      <4> QED
        BY <4>4, <4>5, <4>6, <4>7, <4>8
    <3>4. CASE Echo(c, n)
      BY <2>1, <3>4, FindIndexCases
         DEF Receive, Echo, Take, FreeSlot, serverVars, clientVars, TypeOK, OneSlotPerSender, Ends, Network, Table
    <3> QED
      BY <2>1, <3>1, <3>2, <3>3, <3>4 DEF Receive
  <2>2. ASSUME NEW c \in Clients, NEW n \in 1..MaxLen, Lose(<<c, n>>) PROVE IInv'
    BY <2>2 DEF Lose, serverVars, clientVars, TypeOK, OneSlotPerSender, Ends, Network, Table
  <2>3. ASSUME NEW c \in Clients, Send(c) PROVE IInv'
    BY <2>3 DEF Send, Counted, serverVars, TypeOK, OneSlotPerSender, Ends, Network, Table
  <2>4. ASSUME NEW c \in Clients, Alarm(c) PROVE IInv'
    BY <2>4 DEF Alarm, Retry, serverVars, TypeOK, OneSlotPerSender, Ends, Network, Table
  <2>5. ASSUME NEW c \in Clients, NEW n \in 1..MaxLen, RecvEcho(c, n) PROVE IInv'
    <3>1. /\ UNCHANGED <<len, con, out, highest, toServer>>
          /\ toClient' \subseteq toClient
          /\ <<c, n>> \in toClient
      BY <2>5 DEF RecvEcho, Take, serverVars
    <3>2. TypeOK'
      BY <2>5, <3>1 DEF RecvEcho, Confirms, Retry, TypeOK, Ends
    <3>3. OneSlotPerSender' /\ Table'
      BY <3>1 DEF OneSlotPerSender, Table
    <3>4. CASE n # chunkNo[c]
      <4>1. chunkNo' = chunkNo /\ tries' = tries /\ pc' = [pc EXCEPT ![c] = Retry(c)]
        BY <2>5, <3>4 DEF RecvEcho, Confirms
      <4>2. Ends' /\ Network'
        BY <3>1, <4>1 DEF Retry, Ends, Network, TypeOK
      <4> QED
        BY <3>2, <3>3, <4>2
    <3>5. CASE n = chunkNo[c] /\ chunkNo[c] = len[c]
      <4>1. chunkNo' = chunkNo /\ tries' = tries /\ pc' = [pc EXCEPT ![c] = "done"]
        BY <2>5, <3>5 DEF RecvEcho, Confirms
      <4>2. highest[c] = len[c]
        BY <3>1, <3>5 DEF Network, Ends, TypeOK
      <4>3. Ends' /\ Network'
        BY <3>1, <3>5, <4>1, <4>2 DEF Ends, Network, TypeOK
      <4> QED
        BY <3>2, <3>3, <4>3
    <3>6. CASE n = chunkNo[c] /\ chunkNo[c] # len[c]
      <4>1. /\ chunkNo' = [chunkNo EXCEPT ![c] = @ + 1]
            /\ tries' = [tries EXCEPT ![c] = 0]
            /\ pc' = [pc EXCEPT ![c] = "send"]
        BY <2>5, <3>6 DEF RecvEcho, Confirms
      <4>2. highest[c] = chunkNo[c]
        BY <3>1, <3>6 DEF Network, Ends, TypeOK
      <4>3. Ends'
        <5>1. /\ chunkNo'[c] = chunkNo[c] + 1 /\ chunkNo[c] < len[c]
              /\ pc'[c] = "send" /\ tries'[c] = 0
          BY <3>6, <4>1 DEF Ends, TypeOK
        <5>2. \A d \in Clients : d # c => /\ chunkNo'[d] = chunkNo[d]
                                         /\ pc'[d] = pc[d] /\ tries'[d] = tries[d]
          BY <4>1 DEF TypeOK
        <5>3. ASSUME NEW d \in Clients
              PROVE  /\ chunkNo'[d] <= len'[d]
                     /\ highest'[d] <= chunkNo'[d] /\ chunkNo'[d] <= highest'[d] + 1
                     /\ pc'[d] = "done" => highest'[d] = len'[d] /\ chunkNo'[d] = len'[d]
                     /\ pc'[d] = "send" => tries'[d] < MaxTries
          <6>1. CASE d = c
            BY <3>1, <4>2, <5>1, <6>1 DEF TypeOK
          <6>2. CASE d # c
            BY <3>1, <5>2, <6>2 DEF Ends
          <6> QED
            BY <6>1, <6>2
        <5> QED
          BY <5>3 DEF Ends
      <4>4. Network'
        BY <3>1, <4>1 DEF Network, TypeOK
      <4> QED
        BY <3>2, <3>3, <4>3, <4>4
    <3> QED
      BY <3>4, <3>5, <3>6
  <2>6. ASSUME NEW s \in Strangers, Stray(s) PROVE IInv'
    <3>1. PICK i \in FindIndex(s) : con' = [con EXCEPT ![i] = Used(s, 1)]
      BY <2>6 DEF Stray
    <3>2. UNCHANGED <<len, toServer, toClient, pc, chunkNo, tries, out, highest>>
      BY <2>6 DEF Stray, clientVars
    <3>3. TypeOK'
      BY <3>1, <3>2, FindIndexCases DEF TypeOK, Used
    <3>4. OneSlotPerSender'
      BY <3>1, SlotKeepsUnique
    <3>5. Ends' /\ Network'
      BY <3>2 DEF Ends, Network
    <3>6. \A c \in Clients : {s} # {c}
      OBVIOUS
    <3>7. Table'
      BY <3>1, <3>2, <3>6, FindIndexCases DEF Table, TypeOK, Used
    <3> QED
      BY <3>3, <3>4, <3>5, <3>7
  <2>7. CASE UNCHANGED vars
    BY <2>7 DEF vars, TypeOK, OneSlotPerSender, Ends, Network, Table
  <2> QED
    BY <2>1, <2>2, <2>3, <2>4, <2>5, <2>6, <2>7 DEF Next, ClientStep
<1> QED
  BY <1>1, <1>2, PTL DEF Spec

\* Every reachable state has the types of TypeOK.
THEOREM TypeCorrect == Spec => []TypeOK
<1> QED
  BY Inductive, PTL DEF IInv

\* findIndex (lines 81-99) never gives a sender a second slot.
THEOREM SlotsUnique == Spec => []OneSlotPerSender
<1> QED
  BY Inductive, PTL DEF IInv

\* A client that had every chunk confirmed has had its whole file printed.
THEOREM DonePrinted == Spec => []DoneMeansPrinted
<1>1. IInv => DoneMeansPrinted
  BY DEF IInv, Ends, DoneMeansPrinted
<1> QED
  BY <1>1, Inductive, PTL

\* Server, clients and network implement StopAndWait: a print of the client's
\* current chunk delivers it, the client's advance confirms it, and every other
\* step, a reprint included, leaves both counts alone.
THEOREM Refinement == Spec => ImplementsStopAndWait
<1> USE FileTransferAssumption
<1>1. Init => Abstract!Init
  BY DEF Init, Abstract!Init, confirmed
<1>2. IInv /\ [Next]_vars => [Abstract!Next]_(Abstract!vars)
  <2> SUFFICES ASSUME IInv, [Next]_vars PROVE [Abstract!Next]_(Abstract!vars)
    OBVIOUS
  <2>1. ASSUME NEW c \in Clients, NEW n \in 1..MaxLen, Receive(c, n)
        PROVE  [Abstract!Next]_(Abstract!vars)
    <3>1. confirmed' = confirmed /\ len' = len
      BY <2>1 DEF Receive, clientVars, confirmed
    <3>2. CASE highest' = highest
      BY <3>1, <3>2 DEF Abstract!vars
    <3>3. CASE highest' # highest
      <4>1. highest' = [highest EXCEPT ![c] = IF n > @ THEN n ELSE @]
        BY <2>1, <3>3 DEF Receive, NoSlot, Ahead, PrintChunk, Echo, serverVars
      <4>2. n > highest[c] /\ n <= chunkNo[c]
        BY <2>1, <3>3, <4>1 DEF Receive, IInv, Network, TypeOK
      <4>3. n = chunkNo[c] /\ n = highest[c] + 1 /\ pc[c] # "done"
        BY <4>2 DEF IInv, Ends, TypeOK
      <4>4. highest[c] = confirmed[c] /\ highest[c] < len[c]
        <5>1. /\ chunkNo[c] \in Nat /\ highest[c] \in Nat /\ len[c] \in Nat
              /\ chunkNo[c] <= len[c]
          <6>1. MaxLen \in Nat
            OBVIOUS
          <6> QED
            BY <6>1 DEF IInv, Ends, TypeOK
        <5>2. confirmed[c] = chunkNo[c] - 1
          BY <4>3 DEF confirmed
        <5>3. highest[c] = chunkNo[c] - 1
          BY <4>3, <5>1
        <5>4. highest[c] < len[c]
          BY <5>1, <5>3
        <5> QED
          BY <5>2, <5>3, <5>4
      <4>5. highest' = [highest EXCEPT ![c] = @ + 1]
        BY <4>1, <4>2, <4>3
      <4>6. Abstract!Deliver(c)
        BY <3>1, <4>4, <4>5 DEF Abstract!Deliver
      <4> QED
        BY <4>6 DEF Abstract!Next
    <3> QED
      BY <3>2, <3>3
  <2>2. ASSUME NEW c \in Clients, NEW n \in 1..MaxLen, RecvEcho(c, n)
        PROVE  [Abstract!Next]_(Abstract!vars)
    <3>1. highest' = highest /\ len' = len /\ pc[c] # "done" /\ <<c, n>> \in toClient
      BY <2>2 DEF RecvEcho, serverVars
    <3>2. CASE n # chunkNo[c]
      <4>1. chunkNo' = chunkNo /\ pc' = [pc EXCEPT ![c] = Retry(c)]
        BY <2>2, <3>2 DEF RecvEcho, Confirms
      <4>2. \A d \in Clients : pc'[d] = "done" <=> pc[d] = "done"
        BY <3>1, <4>1 DEF Retry, IInv, TypeOK
      <4>3. confirmed' = confirmed
        BY <3>1, <4>1, <4>2 DEF confirmed
      <4> QED
        BY <3>1, <4>3 DEF Abstract!vars
    <3>3. CASE n = chunkNo[c]
      <4>1. highest[c] = chunkNo[c] /\ confirmed[c] = chunkNo[c] - 1
        BY <3>1, <3>3 DEF IInv, Network, Ends, TypeOK, confirmed
      <4>2. \A d \in Clients : d # c => chunkNo'[d] = chunkNo[d] /\ pc'[d] = pc[d]
        BY <2>2, <3>3 DEF RecvEcho, Confirms, IInv, TypeOK
      <4>3. confirmed'[c] = chunkNo[c]
        BY <2>2, <3>1, <3>3 DEF RecvEcho, Confirms, IInv, TypeOK, confirmed
      <4>4. \A d \in Clients : d # c => confirmed'[d] = confirmed[d]
        BY <3>1, <4>2 DEF confirmed
      <4>5. confirmed' = [confirmed EXCEPT ![c] = @ + 1]
        <5>1. /\ confirmed = [d \in Clients |-> confirmed[d]]
              /\ confirmed' = [d \in Clients |-> confirmed'[d]]
          BY DEF confirmed
        <5>2. confirmed'[c] = confirmed[c] + 1
          BY <4>1, <4>3 DEF IInv, TypeOK
        <5> QED
          BY <4>4, <5>1, <5>2
      <4>6. Abstract!Confirm(c)
        BY <3>1, <4>1, <4>5 DEF Abstract!Confirm, IInv, TypeOK
      <4> QED
        BY <4>6 DEF Abstract!Next
    <3> QED
      BY <3>2, <3>3
  <2>3. ASSUME NEW c \in Clients, Send(c) \/ Alarm(c)
        PROVE  UNCHANGED (Abstract!vars)
    <3>1. UNCHANGED <<len, highest, chunkNo>>
      BY <2>3 DEF Send, Alarm, serverVars
    <3>2. \A d \in Clients : pc'[d] = "done" <=> pc[d] = "done"
      BY <2>3 DEF Send, Alarm, Retry, IInv, TypeOK
    <3> QED
      BY <3>1, <3>2 DEF Abstract!vars, confirmed
  <2>4. CASE UNCHANGED <<len, highest, chunkNo, pc>>
    BY <2>4 DEF Abstract!vars, confirmed
  <2> QED
    BY <2>1, <2>2, <2>3, <2>4
       DEF Next, ClientStep, Lose, Stray, vars, serverVars, clientVars
<1> QED
  BY <1>1, <1>2, Inductive, PTL DEF Spec, ImplementsStopAndWait, Abstract!Spec

\* The slot of a sender counts what the server printed last for it, unless the
\* slot is a new one of a sender whose file is printed; without a slot nothing
\* of a file has been printed, or all.
SlotKnows ==
  \A c \in Clients :
    /\ \A i \in Slots : con[i].addr = {c} =>
         con[i].chunkNo = out[c] \/ (con[i].chunkNo = 0 /\ out[c] = len[c])
    /\ (\A i \in Slots : con[i].addr # {c}) => out[c] \in {0, len[c]}

InOrder == \A c \in Clients : out'[c] # out[c] =>
  \/ out'[c] = out[c] + 1
  \/ out[c] = len[c] /\ out'[c] = 1

\* A datagram from c that gives c the slot i, or frees it.
LEMMA OtherSlotsStay ==
  ASSUME TypeOK, OneSlotPerSender, NEW c \in Clients, NEW i \in FindIndex(c),
         con' = [con EXCEPT ![i] = Used(c, con'[i].chunkNo)] \/ con' = [con EXCEPT ![i] = FreeSlot]
  PROVE  \A d \in Clients, j \in Slots :
           /\ j # i => con'[j] = con[j]
           /\ d # c => con[i].addr # {d} /\ con'[i].addr # {d}
           /\ j # i => con[j].addr # {c}
<1>1. \A j \in Slots : j # i => con'[j] = con[j] /\ con[j].addr # {c}
  BY FindIndexCases DEF TypeOK, OneSlotPerSender
<1>2. con[i].addr \in {{c}, {}} /\ con'[i].addr \in {{c}, {}}
  BY FindIndexCases DEF TypeOK, Used, FreeSlot
<1> QED
  BY <1>1, <1>2

\* What the slot of findIndex counts.
LEMMA SlotCounts ==
  ASSUME SlotKnows, NEW c \in Clients, NEW i \in FindIndex(c)
  PROVE  con[i].chunkNo = out[c] \/ (con[i].chunkNo = 0 /\ out[c] = len[c])
<1>1. CASE con[i].addr = {c}
  BY <1>1, FindIndexCases DEF SlotKnows
<1>2. CASE con[i] = FreeSlot /\ \A j \in Slots : con[j].addr # {c}
  <2>1. con[i].chunkNo = 0
    BY <1>2 DEF FreeSlot
  <2>2. out[c] \in {0, len[c]}
    BY <1>2 DEF SlotKnows
  <2> QED
    BY <2>1, <2>2
<1> QED
  BY <1>1, <1>2, FindIndexCases

\* A received datagram is printed in its turn and keeps SlotKnows.
LEMMA ReceiveInOrder ==
  ASSUME IInv, SlotKnows, NEW c \in Clients, NEW n \in 1..MaxLen, Receive(c, n)
  PROVE  InOrder /\ SlotKnows'
<1> USE FileTransferAssumption DEF IInv
<1>1. len' = len
  BY DEF Receive
<1>2. CASE NoSlot(c, n) \/ Echo(c, n)
  BY <1>1, <1>2 DEF NoSlot, Echo, serverVars, SlotKnows, InOrder
<1>3. CASE Ahead(c, n)
  <2>1. PICK i \in FindIndex(c) : con' = [con EXCEPT ![i] = Used(c, @.chunkNo)]
    BY <1>3 DEF Ahead
  <2>2. out' = out
    BY <1>3 DEF Ahead
  <2>3. con'[i] = Used(c, con[i].chunkNo) /\ con'[i].addr = {c} /\ con'[i].chunkNo = con[i].chunkNo
    BY <2>1, FindIndexCases DEF TypeOK, Used
  <2>4. \A d \in Clients, j \in Slots : /\ j # i => con'[j] = con[j]
                                        /\ d # c => con[i].addr # {d} /\ con'[i].addr # {d}
                                        /\ j # i => con[j].addr # {c}
    BY <2>1, <2>3, OtherSlotsStay
  <2>5. con[i].chunkNo = out[c] \/ (con[i].chunkNo = 0 /\ out[c] = len[c])
    BY SlotCounts
  <2>6. i \in Slots
    BY FindIndexCases
  <2> QED
    BY <1>1, <2>2, <2>3, <2>4, <2>5, <2>6 DEF SlotKnows, InOrder
<1>4. CASE PrintChunk(c, n)
  <2>1. PICK i \in FindIndex(c) :
          /\ n = con[i].chunkNo + 1
          /\ con' = [con EXCEPT ![i] = IF n = len[c] THEN FreeSlot ELSE Used(c, n)]
    BY <1>4 DEF PrintChunk, IsNext
  <2>2. out' = [out EXCEPT ![c] = n]
    BY <1>4 DEF PrintChunk
  <2>3. con'[i] = IF n = len[c] THEN FreeSlot ELSE Used(c, n)
    BY <2>1, FindIndexCases DEF TypeOK
  <2>4. con'[i].addr = (IF n = len[c] THEN {} ELSE {c}) /\ (n # len[c] => con'[i].chunkNo = n)
    BY <2>3 DEF FreeSlot, Used
  <2>5. \A d \in Clients, j \in Slots : /\ j # i => con'[j] = con[j]
                                        /\ d # c => con[i].addr # {d} /\ con'[i].addr # {d}
                                        /\ j # i => con[j].addr # {c}
    <3>1. \/ con' = [con EXCEPT ![i] = Used(c, con'[i].chunkNo)]
          \/ con' = [con EXCEPT ![i] = FreeSlot]
      <4>1. CASE n = len[c]
        BY <2>1, <4>1
      <4>2. CASE n # len[c]
        BY <2>1, <2>4, <4>2
      <4> QED
        BY <4>1, <4>2
    <3> QED
      BY <3>1, OtherSlotsStay
  <2>6. con[i].chunkNo = out[c] \/ (con[i].chunkNo = 0 /\ out[c] = len[c])
    BY SlotCounts
  <2>7. i \in Slots /\ out[c] \in Nat /\ len[c] \in Nat
    BY FindIndexCases DEF TypeOK
  <2>8. out'[c] = n /\ \A d \in Clients : d # c => out'[d] = out[d]
    BY <2>2 DEF TypeOK
  <2>9. InOrder
    BY <2>1, <2>6, <2>7, <2>8 DEF InOrder
  <2>10. SlotKnows'
    <3>1. ASSUME NEW d \in Clients, d # c
          PROVE  /\ \A j \in Slots : con'[j].addr = {d} => con[j] = con'[j]
                 /\ (\A j \in Slots : con'[j].addr # {d}) => \A j \in Slots : con[j].addr # {d}
      BY <2>5, <2>7, <3>1
    <3>2. \A d \in Clients : d # c =>
            /\ \A j \in Slots : con'[j].addr = {d} =>
                 con'[j].chunkNo = out'[d] \/ (con'[j].chunkNo = 0 /\ out'[d] = len'[d])
            /\ (\A j \in Slots : con'[j].addr # {d}) => out'[d] \in {0, len'[d]}
      <4> SUFFICES ASSUME NEW d \in Clients, d # c
                   PROVE  /\ \A j \in Slots : con'[j].addr = {d} =>
                               con'[j].chunkNo = out'[d] \/ (con'[j].chunkNo = 0 /\ out'[d] = len'[d])
                          /\ (\A j \in Slots : con'[j].addr # {d}) => out'[d] \in {0, len'[d]}
        OBVIOUS
      <4>1. out'[d] = out[d] /\ len'[d] = len[d]
        BY <1>1, <2>8
      <4>2. /\ \A j \in Slots : con[j].addr = {d} =>
                 con[j].chunkNo = out[d] \/ (con[j].chunkNo = 0 /\ out[d] = len[d])
            /\ (\A j \in Slots : con[j].addr # {d}) => out[d] \in {0, len[d]}
        BY DEF SlotKnows
      <4>3. \A j \in Slots : con'[j].addr = {d} => con[j] = con'[j]
        BY <3>1
      <4>4. (\A j \in Slots : con'[j].addr # {d}) => \A j \in Slots : con[j].addr # {d}
        BY <3>1
      <4> QED
        BY <4>1, <4>2, <4>3, <4>4
    <3>3. /\ \A j \in Slots : con'[j].addr = {c} => con'[j].chunkNo = out'[c]
          /\ (\A j \in Slots : con'[j].addr # {c}) => out'[c] \in {0, len'[c]}
      BY <1>1, <2>4, <2>5, <2>7, <2>8
    <3> QED
      BY <3>2, <3>3 DEF SlotKnows
  <2> QED
    BY <2>9, <2>10
<1> QED
  BY <1>2, <1>3, <1>4 DEF Receive

\* The server prints each sender's chunks one after another, from the first,
\* and starts again only after the last.
THEOREM ChunksInOrder == Spec => PrintedInOrder
<1> USE FileTransferAssumption
<1>1. Init => SlotKnows
  <2>1. ASSUME Init, NEW c \in Clients PROVE out[c] = 0 /\ \A i \in Slots : con[i].addr = {}
    BY <2>1 DEF Init, FreeSlot
  <2>2. \A c \in Clients : {} # {c}
    OBVIOUS
  <2> QED
    BY <2>1, <2>2 DEF SlotKnows
<1>2. IInv /\ SlotKnows /\ [Next]_vars => InOrder /\ SlotKnows'
  <2> SUFFICES ASSUME IInv, SlotKnows, [Next]_vars PROVE InOrder /\ SlotKnows'
    OBVIOUS
  <2>1. ASSUME NEW s \in Strangers, Stray(s) PROVE InOrder /\ SlotKnows'
    <3>1. PICK i \in FindIndex(s) : con' = [con EXCEPT ![i] = Used(s, 1)]
      BY <2>1 DEF Stray
    <3>2. UNCHANGED <<len, out>>
      BY <2>1 DEF Stray
    <3>3. i \in Slots /\ con[i].addr \notin {{c} : c \in Clients}
      BY FindIndexCases DEF FreeSlot
    <3>4. con'[i].addr = {s} /\ \A j \in Slots : j # i => con'[j] = con[j]
      BY <3>1, <3>3 DEF IInv, TypeOK, Used
    <3>5. \A c \in Clients : con[i].addr # {c} /\ con'[i].addr # {c}
      BY <2>1, <3>3, <3>4, FileTransferAssumption
    <3>6. InOrder
      BY <3>2 DEF InOrder
    <3>7. SlotKnows'
      BY <3>2, <3>4, <3>5 DEF SlotKnows
    <3> QED
      BY <3>6, <3>7
  <2>2. CASE UNCHANGED <<con, len, out>>
    BY <2>2 DEF SlotKnows, InOrder
  <2> QED
    BY <2>1, <2>2, ReceiveInOrder
       DEF Next, ClientStep, Send, Alarm, RecvEcho, Lose, serverVars, vars
<1>3. [InOrder]_vars <=> InOrder \/ UNCHANGED vars
  OBVIOUS
<1> QED
  BY <1>1, <1>2, Inductive, PTL DEF Spec, PrintedInOrder, InOrder

=============================================================================
