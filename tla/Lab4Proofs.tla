----------------------------- MODULE Lab4Proofs -----------------------------
(***************************************************************************)
(* Proofs about the programs of Lab4, for any number of blocks.            *)
(*                                                                         *)
(* AioFilter: main and the notification thread have no lock; the hand-shake*)
(* over SIGIO (HandShake) says who may run, and with it both offsets agree *)
(* and the buffer holds the present block (Data).                          *)
(*                                                                         *)
(* AioBlocks: for each line of processblocks the invariant says what is in *)
(* flight and what the three buffers hold (Lines); SIGINT, after which the *)
(* waits wait no more, is the reason that the lines before it are tested.  *)
(***************************************************************************)
EXTENDS AioBlocks, AioFilter, TLAPS

-----------------------------------------------------------------------------

\* SIGIO has been sent for the present block.
Told == sigio \/ sigio_rec

\* The hand-shake of main and the notification thread: who may run when.
HandShake ==
  /\ aio_offset = current /\ ta_offset = current
  /\ reader = "read" => request = "idle"
  /\ reader \notin {"wait", "suspend", "next", "ended", "error"} =>
       notifier = "none" /\ ~sigio /\ ~sigio_rec
  /\ request \in {"idle", "queued", "refused"} /\ reader = "wait" =>
       notifier = "none" /\ ~Told
  /\ request \in {"done", "failed"} /\ reader = "wait" => (notifier = "none" <=> Told)
  /\ reader = "wait" => ~(sigio /\ sigio_rec)
  /\ reader \in {"suspend", "next"} => notifier = "none" /\ sigio_rec /\ ~sigio
  /\ reader = "suspend" => request \in {"done", "failed"}
  /\ reader = "next" => request = "idle" /\ current < NBlocks
  /\ reader = "ended" => current = NBlocks /\ notifier = "none"
  /\ notifier = "write" => seek = current

\* The buffer and the blocks on both sides of the present one.
Data ==
  /\ misread => request = "failed" \/ reader = "error"
  /\ notifier = "alter" /\ ~misread => block[1] = current
  /\ notifier \in {"lseek", "write"} /\ ~misread => block = <<current, "altered">>
  /\ reader \in {"next", "ended"} => contents[current] = <<current, "altered">>
  /\ reader \in {"wait", "suspend"} /\ request = "done" /\ (Told \/ notifier = "kill") =>
       contents[current] = <<current, "altered">>

FilterInv == FilterTypeOK /\ HandShake /\ Data /\ BlocksInPlace

\* FilterInv is inductive: one step per action, the data apart.
THEOREM FilterInductive == FilterSpec => []FilterInv
<1> USE FilterAssumption DEF FileBlocks
<1>1. FilterInit => FilterInv
  <2>1. FilterInit => FilterTypeOK
    <3>1. FilterInit => block \in (0..(NBlocks + 1)) \X {"plain", "altered"}
      BY DEF FilterInit, Garbage
    <3>2. FilterInit => contents \in [FileBlocks -> (0..(NBlocks + 1)) \X {"plain", "altered"}]
      BY DEF FilterInit
    <3>3. FilterInit => /\ current \in FileBlocks /\ aio_offset \in FileBlocks
                        /\ ta_offset \in FileBlocks /\ seek \in FileBlocks
      BY DEF FilterInit
    <3>4. FilterInit => /\ sigio_rec \in BOOLEAN /\ sigio \in BOOLEAN /\ misread \in BOOLEAN
                        /\ reader = "read" /\ request = "idle" /\ notifier = "none"
      BY DEF FilterInit
    <3> QED
      BY <3>1, <3>2, <3>3, <3>4 DEF FilterTypeOK
  <2>2. FilterInit => HandShake /\ Data
    BY DEF FilterInit, HandShake, Told, Data
  <2>3. FilterInit => BlocksInPlace
    BY DEF FilterInit, BlocksInPlace
  <2> QED
    BY <2>1, <2>2, <2>3 DEF FilterInv
<1>2. ASSUME FilterInv, [FilterNext]_filterVars PROVE FilterInv'
  <2> USE <1>2 DEF FilterInv
  <2>1. CASE AioRead
    <3>1. FilterTypeOK' /\ HandShake'
      BY <2>1 DEF AioRead, FilterTypeOK, HandShake, Told
    <3>2. Data' /\ BlocksInPlace'
      BY <2>1 DEF AioRead, FilterTypeOK, HandShake, Told, Data, BlocksInPlace
    <3> QED
      BY <3>1, <3>2
  <2>2. CASE Sigsuspend
    <3>1. FilterTypeOK' /\ HandShake'
      BY <2>2 DEF Sigsuspend, FilterTypeOK, HandShake, Told
    <3>2. Data' /\ BlocksInPlace'
      BY <2>2 DEF Sigsuspend, FilterTypeOK, HandShake, Told, Data, BlocksInPlace
    <3> QED
      BY <3>1, <3>2
  <2>3. CASE Waited
    <3>1. FilterTypeOK' /\ HandShake'
      BY <2>3 DEF Waited, FilterTypeOK, HandShake, Told
    <3>2. Data' /\ BlocksInPlace'
      BY <2>3 DEF Waited, FilterTypeOK, HandShake, Told, Data, BlocksInPlace
    <3> QED
      BY <3>1, <3>2
  <2>4. CASE SuspendRead
    <3>1. FilterTypeOK' /\ HandShake'
      BY <2>4 DEF SuspendRead, FilterTypeOK, HandShake, Told
    <3>2. Data' /\ BlocksInPlace'
      <4>1. CASE reader' = "ended"
        <5>1. current = NBlocks /\ contents[current] = <<current, "altered">> /\ request = "done"
          BY <2>4, <4>1 DEF SuspendRead, HandShake, Told, Data
        <5> QED
          BY <2>4, <4>1, <5>1 DEF SuspendRead, FilterTypeOK, HandShake, Told, Data, BlocksInPlace
      <4>2. CASE reader' # "ended"
        BY <2>4, <4>2 DEF SuspendRead, FilterTypeOK, HandShake, Told, Data, BlocksInPlace
      <4> QED
        BY <4>1, <4>2
    <3> QED
      BY <3>1, <3>2
  <2>5. CASE NextBlock
    <3>1. current' = current + 1 /\ current + 1 \in 0..NBlocks /\ current \in Nat
      BY <2>5 DEF NextBlock, FilterTypeOK, HandShake
    <3>2. aio_offset' = current' /\ ta_offset' = current'
      BY <2>5 DEF NextBlock, HandShake
    <3>3. FilterTypeOK' /\ HandShake'
      BY <2>5, <3>1, <3>2 DEF NextBlock, SigioReset, FilterTypeOK, HandShake, Told
    <3>4. Data'
      BY <2>5 DEF NextBlock, HandShake, Data
    <3>5. BlocksInPlace'
      BY <2>5, <3>1 DEF NextBlock, HandShake, Data, BlocksInPlace
    <3> QED
      BY <3>3, <3>4, <3>5
  <2>6. CASE EndRequest
    <3>1. FilterTypeOK' /\ HandShake'
      <4>1. block' \in (0..(NBlocks + 1)) \X {"plain", "altered"}
        <5>1. contents[aio_offset] \in (0..(NBlocks + 1)) \X {"plain", "altered"}
          BY DEF FilterTypeOK
        <5>2. block' = contents[aio_offset] \/ block' = block
          BY <2>6 DEF EndRequest
        <5> QED
          BY <5>1, <5>2 DEF FilterTypeOK
      <4>2. misread' \in BOOLEAN
        BY <2>6 DEF EndRequest, FilterTypeOK
      <4> QED
        BY <2>6, <4>1, <4>2 DEF EndRequest, ProcessLives, FilterTypeOK, HandShake, Told
    <3>2. Data' /\ BlocksInPlace'
      <4>1. CASE misread'
        BY <2>6, <4>1 DEF EndRequest, ProcessLives, FilterTypeOK, HandShake, Told, Data, BlocksInPlace
      <4>2. CASE ~misread'
        <5>1. block' = contents[current] /\ ~misread /\ current \in FileBlocks
          BY <2>6, <4>2 DEF EndRequest, FilterTypeOK, HandShake
        <5>2. block'[1] = current
          BY <5>1 DEF BlocksInPlace
        <5> QED
          BY <2>6, <4>2, <5>1, <5>2 DEF EndRequest, ProcessLives, FilterTypeOK, HandShake, Told, Data, BlocksInPlace
      <4> QED
        BY <4>1, <4>2
    <3> QED
      BY <3>1, <3>2
  <2>7. CASE AlterBlock
    <3>1. FilterTypeOK' /\ HandShake'
      BY <2>7 DEF AlterBlock, ProcessLives, FilterTypeOK, HandShake, Told
    <3>2. Data' /\ BlocksInPlace'
      BY <2>7 DEF AlterBlock, ProcessLives, FilterTypeOK, HandShake, Told, Data, BlocksInPlace
    <3> QED
      BY <3>1, <3>2
  <2>8. CASE Lseek
    <3>1. FilterTypeOK' /\ HandShake'
      BY <2>8 DEF Lseek, ProcessLives, FilterTypeOK, HandShake, Told
    <3>2. Data' /\ BlocksInPlace'
      BY <2>8 DEF Lseek, ProcessLives, FilterTypeOK, HandShake, Told, Data, BlocksInPlace
    <3> QED
      BY <3>1, <3>2
  <2>9. CASE WriteBlock
    <3>1. FilterTypeOK' /\ HandShake'
      BY <2>9 DEF WriteBlock, ProcessLives, FilterTypeOK, HandShake, Told
    <3>2. Data' /\ BlocksInPlace'
      <4>1. CASE reader' = "error"
        BY <2>9, <4>1 DEF WriteBlock, ProcessLives, FilterTypeOK, HandShake, Told, Data, BlocksInPlace
      <4>2. CASE reader' # "error"
        <5>1. contents' = [contents EXCEPT ![current] = block] /\ reader = "wait" /\ reader' = reader
          BY <2>9, <4>2 DEF WriteBlock, ProcessLives, HandShake
        <5>2. ~misread => block = <<current, "altered">>
          BY <2>9 DEF WriteBlock, Data
        <5>3. BlocksInPlace'
          BY <2>9, <5>1, <5>2 DEF WriteBlock, FilterTypeOK, BlocksInPlace
        <5>4. Data'
          BY <2>9, <5>1, <5>2 DEF WriteBlock, FilterTypeOK, HandShake, Data
        <5> QED
          BY <5>3, <5>4
      <4> QED
        BY <4>1, <4>2
    <3> QED
      BY <3>1, <3>2
  <2>10. CASE PthreadKill
    <3>1. FilterTypeOK' /\ HandShake'
      BY <2>10 DEF PthreadKill, ProcessLives, FilterTypeOK, HandShake, Told
    <3>2. Data' /\ BlocksInPlace'
      BY <2>10 DEF PthreadKill, ProcessLives, FilterTypeOK, HandShake, Told, Data, BlocksInPlace
    <3> QED
      BY <3>1, <3>2
  <2>11. CASE UNCHANGED filterVars
    BY <2>11 DEF filterVars, FilterTypeOK, HandShake, Told, Data, BlocksInPlace
  <2> QED
    BY <2>1, <2>2, <2>3, <2>4, <2>5, <2>6, <2>7, <2>8, <2>9, <2>10, <2>11 DEF FilterNext
<1> QED
  BY <1>1, <1>2, PTL DEF FilterSpec

\* The types of the variables, for any number of blocks.
THEOREM FilterTypeCorrect == FilterSpec => []FilterTypeOK
BY FilterInductive, PTL DEF FilterInv

\* Every block stays in its place and is altered before main goes on (test.c
\* lines 68-89, 141-155).
THEOREM FilterInPlace == FilterSpec => []BlocksInPlace
BY FilterInductive, PTL DEF FilterInv

-----------------------------------------------------------------------------
(***************************************************************************)
(* AioBlocks: processblocks with its three control blocks.                 *)
(***************************************************************************)

\* The buffers of a round: one is written, one reversed, one read.
ToWrite == curpos
ToReverse == SHIFT(curpos, 1)
ToRead == SHIFT(curpos, 2)

AllIdle == \A i \in Buffers : status[i] = "idle"

\* The requests of this round; those of an earlier one have been collected.
WriteOfRound ==
  IF j = 0 THEN status[ToWrite] = "idle" /\ written = 0
  ELSE /\ status[ToWrite] # "idle" /\ op[ToWrite] = "write" /\ offset[ToWrite] = index[1]
       /\ written = IF status[ToWrite] = "done" THEN j ELSE j - 1
ReadOfRound ==
  IF MoreToRead
  THEN /\ status[ToRead] # "idle" /\ op[ToRead] = "read" /\ offset[ToRead] = index[2]
       /\ status[ToRead] = "done" => buffer[ToRead] = "plain"
  ELSE status[ToRead] = "idle"

\* What is in flight, and in the buffers, at each line of processblocks.
AtRead0 == AllIdle /\ written = 0
AtSuspend0 ==
  /\ \A i \in Buffers : i # 1 => status[i] = "idle"
  /\ op[1] = "read" /\ written = 0 /\ (status[1] = "done" => buffer[1] = "plain")
AtFor ==
  /\ AllIdle
  /\ written = IF j = 0 THEN 0 ELSE j - 1
  /\ j > 0 => buffer[ToWrite] = "reversed"
  /\ j < Iterations => buffer[ToReverse] = "plain"
  /\ Iterations = 0 => buffer[ToWrite] = "plain"
AtRead ==
  /\ WriteOfRound /\ status[ToRead] = "idle"
  /\ status[ToReverse] = "idle" /\ buffer[ToReverse] = "plain"
AtReverse == WriteOfRound /\ ReadOfRound /\ status[ToReverse] = "idle"
AtSync == AtReverse /\ buffer[ToReverse] = "reversed"
Synced ==
  /\ written = j /\ ReadOfRound
  /\ status[ToReverse] = "idle" /\ buffer[ToReverse] = "reversed"
AtNext ==
  /\ AllIdle /\ written = j /\ buffer[ToReverse] = "reversed"
  /\ MoreToRead => buffer[ToRead] = "plain"
AtLastReverse == AllIdle /\ Iterations = 0 /\ written = 0
WrittenBefore == IF Iterations = 0 THEN 0 ELSE Iterations - 1
AtLastWrite == AllIdle /\ buffer[ToWrite] = "reversed" /\ written = WrittenBefore
AtLastWait ==
  /\ status[ToReverse] = "idle" /\ status[ToRead] = "idle"
  /\ status[ToWrite] # "idle" /\ op[ToWrite] = "write"
  /\ written = IF status[ToWrite] = "done" THEN WrittenBefore + 1 ELSE WrittenBefore
AtCleanup == AllIdle /\ written = WrittenBefore + 1

\* Until SIGINT every wait is a wait; and a call that work has allowed is made
\* whether SIGINT comes before it or not.
Tested == work \/ pc \in {"aio_read0", "aio_write", "aio_read", "aio_lastwrite"}

Lines ==
  Tested =>
    /\ pc \in {"read0", "aio_read0"} => AtRead0
    /\ pc = "suspend0" => AtSuspend0
    /\ pc \in {"for", "write", "aio_write"} => AtFor
    /\ pc \in {"read", "aio_read"} => AtRead
    /\ pc = "reverse" => AtReverse /\ buffer[ToReverse] = "plain"
    /\ pc = "reversing" => AtReverse
    /\ pc \in {"sync", "syncwrite"} => AtSync
    /\ pc = "fsync" => Synced /\ status[ToWrite] = "idle"
    /\ pc = "syncfsync" => Synced /\ op[ToWrite] = "fsync"
    /\ pc = "wait" => Synced /\ status[ToWrite] = "idle"
    /\ pc = "next" => AtNext
    /\ pc = "lastreverse" => AtLastReverse /\ buffer[ToWrite] = "plain"
    /\ pc = "lastreversing" => AtLastReverse
    /\ pc \in {"lastwrite", "aio_lastwrite"} => AtLastWrite
    /\ pc = "lastwait" => AtLastWait
    /\ pc \in {"cleanup", "ended"} => AtCleanup

\* The loop: who is in it, whether SIGINT has come or not.
Before == {"read0", "aio_read0", "suspend0"}
InRound == {"write", "aio_write", "read", "aio_read", "reverse", "reversing", "sync",
            "syncwrite", "fsync", "syncfsync", "wait", "next"}
Loop ==
  /\ j <= Iterations /\ index[1] # index[2]
  /\ pc \in Before => j = 0
  /\ j = 0 => curpos = CurposFor(Iterations)
  /\ pc \in InRound => j < Iterations
  /\ pc = "aio_read" => MoreToRead
  /\ pc \in {"write", "aio_write", "syncwrite", "fsync", "syncfsync"} => j > 0
  /\ freed => pc = "ended"

\* The requests in flight, whatever the line.
Flight ==
  /\ \A i, m \in Buffers : InFlight(i, "write") /\ InFlight(m, "write") => i = m
  /\ \A i \in Buffers : InFlight(i, "write") => written < MaxK
  /\ \A i \in Buffers : InFlight(i, "write") => buffer[i] = "reversed"

WholeFile == \A b \in Blocks : file[b] = "whole" \/ (file[b] = "freed" /\ ~work)

ArchunixInv == ArchunixTypeOK /\ Loop /\ Flight /\ NoBlockRace /\ WholeFile /\ Lines

\* The three buffers of a round are all there are, and the next round goes on
\* with the one that was reversed.
LEMMA Rotation ==
  ASSUME NEW c \in Buffers
  PROVE  /\ SHIFT(c, 1) \in Buffers /\ SHIFT(c, 2) \in Buffers
         /\ c # SHIFT(c, 1) /\ c # SHIFT(c, 2) /\ SHIFT(c, 1) # SHIFT(c, 2)
         /\ \A i \in Buffers : i = c \/ i = SHIFT(c, 1) \/ i = SHIFT(c, 2)
         /\ SHIFT(SHIFT(c, 1), 1) = SHIFT(c, 2) /\ SHIFT(SHIFT(c, 1), 2) = c
<1>1. c = 0 \/ c = 1 \/ c = 2
  BY DEF Buffers, BLOCKS
<1>2. Buffers = {0, 1, 2}
  BY DEF Buffers, BLOCKS
<1>3. /\ SHIFT(0, 1) = 1 /\ SHIFT(1, 1) = 2 /\ SHIFT(2, 1) = 0
      /\ SHIFT(0, 2) = 2 /\ SHIFT(1, 2) = 0 /\ SHIFT(2, 2) = 1
  BY DEF SHIFT, BLOCKS
<1> QED
  BY <1>1, <1>2, <1>3

\* A step that queues nothing and leaves the buffers of writes in flight alone.
LEMMA NothingQueued ==
  ASSUME Flight, NoBlockRace, WholeFile, UNCHANGED <<op, offset, file, written>>,
         work' => work,
         \A i \in Buffers : status'[i] = "queued" => status[i] = "queued",
         \A i \in Buffers : status[i] = "queued" /\ op[i] = "write" =>
                              buffer'[i] = buffer[i] \/ buffer'[i] = "reversed"
  PROVE  Flight' /\ NoBlockRace' /\ WholeFile'
<1>1. \A i \in Buffers, o \in {"read", "write"} : InFlight(i, o)' => InFlight(i, o)
  BY DEF InFlight
<1>2. Flight'
  BY <1>1 DEF Flight, InFlight
<1>3. NoBlockRace'
  BY <1>1 DEF NoBlockRace
<1>4. WholeFile'
  BY DEF WholeFile
<1> QED
  BY <1>2, <1>3, <1>4

\* A step that queues one request, which must not race with the others.
LEMMA OneQueued ==
  ASSUME ArchunixTypeOK, Flight, NoBlockRace, WholeFile,
         NEW i \in Buffers, NEW o \in {"read", "write", "fsync"}, NEW b \in Blocks,
         Queue(i, o, b),
         o = "write" => buffer[i] = "reversed" /\ written < MaxK,
         o = "write" => \A m \in Buffers : m # i => status[m] = "idle",
         o = "read" => \A m \in Buffers : m # i /\ InFlight(m, "write") => offset[m] # b
  PROVE  Flight' /\ NoBlockRace' /\ WholeFile'
<1>1. /\ status'[i] = "queued" /\ op'[i] = o /\ offset'[i] = b
      /\ \A m \in Buffers : m # i => /\ status'[m] = status[m] /\ op'[m] = op[m]
                                     /\ offset'[m] = offset[m]
      /\ UNCHANGED <<work, buffer, file, written>>
  BY DEF Queue, ArchunixTypeOK
<1>2. \A m \in Buffers, u \in {"read", "write"} :
        InFlight(m, u)' => IF m = i THEN u = o ELSE InFlight(m, u)
  BY <1>1 DEF InFlight
<1>3. o = "write" => \A m \in Buffers, u \in {"read", "write"} : InFlight(m, u)' => m = i
  BY <1>2 DEF InFlight
<1>4. Flight'
  <2>1. \A l, m \in Buffers : InFlight(l, "write")' /\ InFlight(m, "write")' => l = m
    BY <1>2, <1>3 DEF Flight
  <2>2. \A m \in Buffers : InFlight(m, "write")' => written' < MaxK /\ buffer'[m] = "reversed"
    BY <1>1, <1>2 DEF Flight
  <2> QED
    BY <2>1, <2>2 DEF Flight
<1>5. NoBlockRace'
  <2> SUFFICES ASSUME NEW l \in Buffers, NEW m \in Buffers,
                      InFlight(l, "read")', InFlight(m, "write")'
               PROVE  offset'[l] # offset'[m]
    BY DEF NoBlockRace
  <2>1. CASE o = "write"
    BY <1>2, <1>3, <2>1
  <2>2. CASE o = "read" /\ l = i
    BY <1>1, <1>2, <2>2
  <2>3. CASE o # "write" /\ (o # "read" \/ l # i)
    <3>1. l # i /\ m # i /\ InFlight(l, "read") /\ InFlight(m, "write")
      BY <1>2, <2>3
    <3> QED
      BY <1>1, <3>1 DEF NoBlockRace
  <2> QED
    BY <2>1, <2>2, <2>3
<1>6. WholeFile'
  BY <1>1 DEF WholeFile
<1> QED
  BY <1>4, <1>5, <1>6

\* The end of a request leaves the lines as they are: what was in flight has
\* been counted, or has filled the buffer that is read.
LEMMA CompleteSafe ==
  ASSUME ArchunixInv, NEW i \in Buffers, Complete(i)
  PROVE  ArchunixTypeOK' /\ Flight' /\ NoBlockRace' /\ WholeFile'
<1> USE AioBlocksAssumption DEF ArchunixInv
<1>1. /\ status[i] = "queued" /\ status' = [status EXCEPT ![i] = "done"]
      /\ UNCHANGED <<work, k, curpos, j, index, pc, op, offset, freed>>
  BY DEF Complete, locals
<1>2. \A m \in Buffers, o \in {"read", "write"} : InFlight(m, o)' => m # i /\ InFlight(m, o)
  BY <1>1 DEF InFlight, ArchunixTypeOK
<1>3. NoBlockRace'
  BY <1>1, <1>2 DEF NoBlockRace
<1>4. CASE op[i] = "write"
  <2>1. /\ InFlight(i, "write") /\ buffer[i] = "reversed" /\ written < MaxK
        /\ buffer' = buffer /\ written' = written + 1
        /\ file' = [file EXCEPT ![offset[i]] = IF freed THEN "freed" ELSE "whole"]
    BY <1>1, <1>4 DEF Complete, InFlight, Flight
  <2>2. \A m \in Buffers : ~InFlight(m, "write")'
    BY <1>2, <2>1 DEF Flight
  <2>3. Flight'
    BY <2>2 DEF Flight
  <2>4. freed => ~work
    <3>1. freed /\ work => AllIdle
      BY DEF Loop, Lines, Tested, AtCleanup
    <3> QED
      BY <1>1, <3>1 DEF AllIdle
  <2>5. WholeFile'
    BY <1>1, <2>1, <2>4 DEF WholeFile, ArchunixTypeOK
  <2>6. written' \in 0..MaxK
    BY <2>1 DEF ArchunixTypeOK
  <2>7. file' \in [Blocks -> {"whole", "zero", "plain", "half", "reversed", "freed"}]
    BY <2>1 DEF ArchunixTypeOK
  <2>8. ArchunixTypeOK'
    BY <1>1, <2>1, <2>6, <2>7 DEF ArchunixTypeOK
  <2> QED
    BY <1>3, <2>3, <2>5, <2>8
<1>5. CASE op[i] # "write"
  <2>1. /\ UNCHANGED <<file, written>>
        /\ \A m \in Buffers : m # i => buffer'[m] = buffer[m]
    BY <1>5 DEF Complete, ArchunixTypeOK
  <2>2. buffer' \in [Buffers -> {"zero", "plain", "half", "reversed"}]
    BY DEF Complete, ArchunixTypeOK
  <2>3. ArchunixTypeOK'
    BY <1>1, <2>1, <2>2 DEF ArchunixTypeOK
  <2>4. Flight'
    BY <1>2, <2>1 DEF Flight
  <2>5. WholeFile'
    BY <1>1, <2>1 DEF WholeFile
  <2> QED
    BY <1>3, <2>3, <2>4, <2>5
<1> QED
  BY <1>4, <1>5

\* The end of a request, well or not, as processblocks sees it.
Ends(i) ==
  /\ status[i] = "queued" /\ status'[i] \in {"done", "failed"}
  /\ \A m \in Buffers : m # i => status'[m] = status[m] /\ buffer'[m] = buffer[m]
  /\ IF op[i] = "read" /\ status'[i] = "done" THEN buffer'[i] = "plain" ELSE buffer'[i] = buffer[i]
  /\ written' = IF op[i] = "write" /\ status'[i] = "done" THEN written + 1 ELSE written
  /\ UNCHANGED <<work, k, curpos, j, index, pc, op, offset, freed>>

LEMMA EndKeepsLines ==
  ASSUME ArchunixTypeOK, Loop, Lines, NEW i \in Buffers, Ends(i)
  PROVE  Lines' /\ Loop'
<1>a. /\ curpos \in Buffers /\ ToReverse \in Buffers /\ ToRead \in Buffers
      /\ curpos # ToReverse /\ curpos # ToRead /\ ToReverse # ToRead
      /\ \A m \in Buffers : m = curpos \/ m = ToReverse \/ m = ToRead
  BY Rotation DEF ArchunixTypeOK, ToReverse, ToRead
<1>b. /\ UNCHANGED <<work, k, curpos, j, index, pc, op, offset, freed>>
      /\ UNCHANGED <<ToWrite, ToReverse, ToRead, Iterations, MoreToRead, WrittenBefore>>
  BY DEF Ends, ToWrite, ToReverse, ToRead, Iterations, MoreToRead, WrittenBefore
<1>c. j \in Nat /\ written \in Nat /\ WrittenBefore \in Nat
  BY AioBlocksAssumption DEF ArchunixTypeOK, WrittenBefore, Iterations
<1>1. Loop'
  BY <1>b DEF Loop, Before, InRound
<1>2. ~AllIdle
  BY DEF Ends, AllIdle
<1>3. AtSuspend0 => AtSuspend0'
  BY <1>b DEF AtSuspend0, Ends
<1>4. ASSUME WriteOfRound, i = curpos PROVE WriteOfRound'
  BY <1>b, <1>c, <1>4 DEF WriteOfRound, Ends, ToWrite
<1>5. ASSUME ReadOfRound, i = ToRead
      PROVE  /\ ReadOfRound' /\ written' = written /\ status'[curpos] = status[curpos]
             /\ status'[ToReverse] = status[ToReverse] /\ buffer'[ToReverse] = buffer[ToReverse]
  BY <1>a, <1>b, <1>5 DEF ReadOfRound, Ends
<1>6. ASSUME i = curpos
      PROVE  /\ ReadOfRound => ReadOfRound'
             /\ \A m \in {ToReverse, ToRead} : status'[m] = status[m] /\ buffer'[m] = buffer[m]
  BY <1>a, <1>b, <1>6 DEF ReadOfRound, Ends
<1>7. AtRead => AtRead'
  BY <1>a, <1>b, <1>4, <1>6 DEF AtRead, Ends
<1>8. ASSUME AtReverse PROVE AtReverse' /\ buffer'[ToReverse] = buffer[ToReverse]
  <2>1. i # ToReverse
    BY <1>8 DEF AtReverse, Ends
  <2>2. CASE i = curpos
    BY <1>4, <1>6, <1>8, <1>b, <2>2 DEF AtReverse
  <2>3. CASE i = ToRead
    <3>1. WriteOfRound'
      BY <1>5, <1>8, <1>b, <2>3 DEF AtReverse, WriteOfRound, ToWrite
    <3> QED
      BY <1>5, <1>8, <1>b, <2>3, <3>1 DEF AtReverse
  <2> QED
    BY <1>a, <2>1, <2>2, <2>3
<1>9. AtSync => AtSync'
  BY <1>8, <1>b DEF AtSync
<1>10. ASSUME Synced, status[ToWrite] = "idle" \/ op[ToWrite] = "fsync"
       PROVE  Synced' /\ (status[ToWrite] = "idle" => status'[ToWrite] = "idle")
  <2>1. i # ToReverse
    BY <1>10 DEF Synced, Ends
  <2>2. CASE i = curpos
    <3>1. status[ToWrite] # "idle" /\ written' = written
      BY <1>10, <2>2 DEF Ends, ToWrite
    <3> QED
      BY <1>6, <1>10, <1>b, <2>2, <3>1 DEF Synced
  <2>3. CASE i = ToRead
    BY <1>5, <1>10, <1>b, <2>3 DEF Synced, ToWrite
  <2> QED
    BY <1>a, <2>1, <2>2, <2>3
<1>11. AtLastWait => AtLastWait'
  BY <1>a, <1>b, <1>c DEF AtLastWait, Ends, ToWrite
<1>12. ~AtRead0 /\ ~AtFor /\ ~AtNext /\ ~AtLastReverse /\ ~AtLastWrite /\ ~AtCleanup
  BY <1>2 DEF AtRead0, AtFor, AtNext, AtLastReverse, AtLastWrite, AtCleanup
<1>13. Lines'
  BY <1>b, <1>3, <1>7, <1>8, <1>9, <1>10, <1>11, <1>12 DEF Lines, Tested
<1> QED
  BY <1>1, <1>13

\* The types, the loop and the requests at each line: one step per action.
THEOREM ArchunixInductive == ArchunixSpec => []ArchunixInv
<1> USE AioBlocksAssumption
<1>1. ArchunixInit => ArchunixInv
  <2> SUFFICES ASSUME ArchunixInit PROVE ArchunixInv
    OBVIOUS
  <2>1. curpos \in Buffers /\ k - 1 \in 0..(MaxK - 1) /\ 0 \in Buffers /\ 1 \in Buffers
    BY DEF ArchunixInit, CurposFor, Iterations, Buffers, BLOCKS
  <2>2. ArchunixTypeOK
    <3>1. index \in Blocks \X Blocks /\ 0 \in Blocks
      BY DEF ArchunixInit, Blocks
    <3>2. file \in [Blocks -> {"whole", "zero", "plain", "half", "reversed", "freed"}]
      BY DEF ArchunixInit
    <3>3. /\ status \in [Buffers -> {"idle", "queued", "done", "failed"}]
          /\ op \in [Buffers -> {"none", "read", "write", "fsync"}]
          /\ offset \in [Buffers -> Blocks]
          /\ buffer \in [Buffers -> {"zero", "plain", "half", "reversed"}]
      BY <3>1 DEF ArchunixInit
    <3>4. work \in BOOLEAN /\ k \in 1..MaxK /\ pc = "read0" /\ freed \in BOOLEAN
      BY DEF ArchunixInit
    <3>5. j \in 0..(MaxK - 1) /\ written \in 0..MaxK
      <4>1. j = 0 /\ written = 0
        BY DEF ArchunixInit
      <4> QED
        BY <4>1
    <3> QED
      BY <2>1, <3>1, <3>2, <3>3, <3>4, <3>5 DEF ArchunixTypeOK
  <2>3. Loop
    BY <2>1 DEF ArchunixInit, Loop, Iterations, MoreToRead, Before, InRound
  <2>4. Flight /\ NoBlockRace /\ WholeFile
    BY DEF ArchunixInit, Flight, NoBlockRace, WholeFile, InFlight
  <2>5. Lines
    BY DEF ArchunixInit, Lines, AtRead0, AllIdle
  <2> QED
    BY <2>2, <2>3, <2>4, <2>5 DEF ArchunixInv
<1>2. ASSUME ArchunixInv, [ArchunixNext]_archunixVars PROVE ArchunixInv'
  <2> USE <1>2 DEF ArchunixInv
  <2>a. /\ curpos \in Buffers /\ ToReverse \in Buffers /\ ToRead \in Buffers
        /\ curpos # ToReverse /\ curpos # ToRead /\ ToReverse # ToRead
        /\ \A i \in Buffers : i = curpos \/ i = ToReverse \/ i = ToRead
    BY Rotation DEF ArchunixTypeOK, ToReverse, ToRead
  <2>b. j \in Nat /\ k \in 1..MaxK /\ Iterations \in 0..(MaxK - 1) /\ Iterations = k - 1
    BY DEF ArchunixTypeOK, Iterations
  <2>1. CASE TestRead0
    <3>1. ArchunixTypeOK'
      BY <2>1 DEF TestRead0, Test, Goto, locals, aio, ArchunixTypeOK
    <3>2. Loop'
      BY <2>1 DEF TestRead0, Test, Goto, locals, aio, Loop, Iterations, MoreToRead, Before, InRound
    <3>3. Flight' /\ NoBlockRace' /\ WholeFile'
      BY <2>1, NothingQueued DEF TestRead0, Test, aio
    <3>4. Lines'
      BY <2>1 DEF TestRead0, Test, Goto, locals, aio, Lines, Tested, AtRead0, AllIdle
    <3> QED
      BY <3>1, <3>2, <3>3, <3>4
  <2>2. CASE Read0
    <3>1. PICK b \in Blocks : Queue(1, "read", b)
      BY <2>2 DEF Read0
    <3>2. AllIdle /\ pc = "aio_read0" /\ pc' = "suspend0" /\ written = 0
      BY <2>2 DEF Read0, Goto, Lines, Tested, AtRead0
    <3>3. 1 \in Buffers
      BY DEF Buffers, BLOCKS
    <3>4. ArchunixTypeOK'
      BY <3>1, <3>2 DEF Queue, locals, ArchunixTypeOK
    <3>5. Loop'
      BY <3>1, <3>2 DEF Queue, locals, Loop, Iterations, MoreToRead, Before, InRound
    <3>6. Flight' /\ NoBlockRace' /\ WholeFile'
      BY <3>1, <3>2, <3>3, OneQueued DEF AllIdle, InFlight
    <3>7. Lines'
      BY <3>1, <3>2, <3>3 DEF Queue, AllIdle, ArchunixTypeOK, Lines, AtSuspend0
    <3> QED
      BY <3>4, <3>5, <3>6, <3>7
  <2>3. CASE Suspend0
    <3>0. 1 \in Buffers
      BY DEF Buffers, BLOCKS
    <3>1. ArchunixTypeOK'
      BY <2>3 DEF Suspend0, Suspend, Goto, locals, ArchunixTypeOK
    <3>2. Loop'
      BY <2>3 DEF Suspend0, Suspend, Goto, locals, Loop, Iterations, MoreToRead, Before, InRound
    <3>3. Flight' /\ NoBlockRace' /\ WholeFile'
      BY <2>3, NothingQueued DEF Suspend0, Suspend, ArchunixTypeOK
    <3>4. ASSUME work, pc' = "for" PROVE AtFor'
      <4>1. /\ status[1] = "done" /\ status' = [status EXCEPT ![1] = "idle"] /\ AtSuspend0
            /\ UNCHANGED <<locals, buffer, written>> /\ j = 0 /\ curpos = CurposFor(Iterations)
        BY <2>3, <3>4 DEF Suspend0, Suspend, Goto, Lines, Tested, Loop, Before
      <4>2. AllIdle'
        BY <4>1, <3>0 DEF AtSuspend0, AllIdle, ArchunixTypeOK
      <4>3. buffer'[1] = "plain" /\ written' = 0 /\ j' = 0
        BY <4>1 DEF AtSuspend0, locals
      <4>4. (Iterations = 0 => curpos = 1) /\ (Iterations # 0 => ToReverse = 1)
        BY <4>1 DEF CurposFor, ToReverse, SHIFT, BLOCKS
      <4> QED
        BY <4>1, <4>2, <4>3, <4>4, <2>b DEF AtFor, locals, ToWrite, ToReverse, Iterations
    <3>5. Lines'
      BY <2>3, <3>4 DEF Suspend0, Suspend, Goto, Lines, Tested
    <3> QED
      BY <3>1, <3>2, <3>3, <3>5
  <2>4. CASE For
    <3>1. ArchunixTypeOK'
      BY <2>4 DEF For, Goto, Indexes, aio, ArchunixTypeOK
    <3>2. Loop'
      BY <2>4, <2>b DEF For, Goto, Indexes, aio, Loop, Iterations, MoreToRead, Before, InRound
    <3>3. Flight' /\ NoBlockRace' /\ WholeFile'
      BY <2>4, NothingQueued DEF For, aio
    <3>4. ASSUME work PROVE AtFor
      BY <2>4, <3>4 DEF For, Lines, Tested
    <3>5. ASSUME work, pc' = "write" PROVE AtFor'
      BY <2>4, <3>4, <3>5 DEF For, aio, AtFor, AllIdle, Iterations, ToWrite, ToReverse
    <3>6. ASSUME work, pc' = "read" PROVE AtRead'
      BY <2>4, <2>a, <2>b, <3>4, <3>6
         DEF For, Goto, aio, AtFor, AllIdle, AtRead, WriteOfRound, Iterations, ToWrite, ToReverse, ToRead
    <3>7. ASSUME work, pc' = "lastreverse" PROVE AtLastReverse' /\ buffer'[ToWrite'] = "plain"
      BY <2>4, <2>b, <3>4, <3>7
         DEF For, Goto, aio, AtFor, AllIdle, AtLastReverse, Iterations, ToWrite, Loop
    <3>8. ASSUME work, pc' = "lastwrite" PROVE AtLastWrite'
      BY <2>4, <2>b, <3>4, <3>8
         DEF For, Goto, aio, AtFor, AllIdle, AtLastWrite, WrittenBefore, Iterations, ToWrite, Loop
    <3>9. work' = work /\ pc' \in {"write", "read", "lastreverse", "lastwrite"}
      BY <2>4 DEF For, Goto
    <3> QED
      BY <3>1, <3>2, <3>3, <3>5, <3>6, <3>7, <3>8, <3>9 DEF Lines, Tested
  <2>5. CASE TestWrite
    <3>1. ArchunixTypeOK'
      BY <2>5 DEF TestWrite, Test, Goto, locals, aio, ArchunixTypeOK
    <3>2. Loop'
      BY <2>5 DEF TestWrite, Test, Goto, locals, aio, Loop, Iterations, MoreToRead, Before, InRound
    <3>3. Flight' /\ NoBlockRace' /\ WholeFile'
      BY <2>5, NothingQueued DEF TestWrite, Test, aio
    <3>4. ASSUME work PROVE AtFor' /\ pc' = "aio_write"
      BY <2>5, <3>4 DEF TestWrite, Test, Goto, locals, aio, Lines, Tested, AtFor, AllIdle,
         Iterations, ToWrite, ToReverse
    <3>5. work' = work /\ (~work => pc' = "read")
      BY <2>5 DEF TestWrite, Test, Goto
    <3> QED
      BY <3>1, <3>2, <3>3, <3>4, <3>5 DEF Lines, Tested
  <2>6. CASE Write
    <3>1. /\ Queue(curpos, "write", index[1]) /\ pc = "aio_write" /\ pc' = "read"
          /\ AtFor /\ index[1] \in Blocks /\ j > 0 /\ j < Iterations
      BY <2>6 DEF Write, Goto, Lines, Tested, Loop, InRound, ArchunixTypeOK
    <3>2. ArchunixTypeOK'
      BY <3>1, <2>a DEF Queue, locals, ArchunixTypeOK
    <3>3. Loop'
      BY <3>1 DEF Queue, locals, Loop, Iterations, MoreToRead, Before, InRound
    <3>4. Flight' /\ NoBlockRace' /\ WholeFile'
      <4>1. buffer[curpos] = "reversed" /\ written < MaxK /\ \A i \in Buffers : status[i] = "idle"
        BY <3>1, <2>b DEF AtFor, AllIdle, ToWrite
      <4> QED
        BY <3>1, <4>1, <2>a, OneQueued DEF InFlight
    <3>5. AtRead'
      BY <3>1, <2>a DEF Queue, locals, ArchunixTypeOK, AtFor, AllIdle, AtRead, WriteOfRound,
         ToWrite, ToReverse, ToRead
    <3> QED
      BY <3>1, <3>2, <3>3, <3>4, <3>5 DEF Lines
  <2>7. CASE TestRead
    <3>1. ArchunixTypeOK'
      BY <2>7 DEF TestRead, Test, Goto, locals, aio, ArchunixTypeOK
    <3>2. Loop'
      BY <2>7 DEF TestRead, Test, Goto, locals, aio, Loop, Iterations, MoreToRead, Before, InRound
    <3>3. Flight' /\ NoBlockRace' /\ WholeFile'
      BY <2>7, NothingQueued DEF TestRead, Test, aio
    <3>4. ASSUME work PROVE AtRead' /\ pc' = (IF MoreToRead THEN "aio_read" ELSE "reverse")
      BY <2>7, <3>4 DEF TestRead, Test, Goto, locals, aio, Lines, Tested, AtRead, WriteOfRound,
         ToWrite, ToReverse, ToRead
    <3>5. UNCHANGED <<work, j, k>> /\ pc' \in {"aio_read", "reverse"} /\ (~work => pc' = "reverse")
      BY <2>7 DEF TestRead, Test, Goto, locals
    <3>6. ASSUME work, pc' = "reverse" PROVE AtReverse' /\ buffer'[ToReverse'] = "plain"
      BY <3>4, <3>5, <3>6 DEF AtRead, AtReverse, ReadOfRound, MoreToRead, Iterations
    <3> QED
      BY <3>1, <3>2, <3>3, <3>4, <3>5, <3>6 DEF Lines, Tested
  <2>8. CASE Read
    <3>1. /\ Queue(ToRead, "read", index[2]) /\ pc = "aio_read" /\ pc' = "reverse"
          /\ AtRead /\ index[2] \in Blocks /\ index[1] # index[2] /\ j < Iterations
      BY <2>8 DEF Read, Goto, Lines, Tested, Loop, InRound, ArchunixTypeOK, ToRead
    <3>2. ArchunixTypeOK'
      BY <3>1, <2>a DEF Queue, locals, ArchunixTypeOK
    <3>3. Loop'
      BY <3>1 DEF Queue, locals, Loop, Iterations, MoreToRead, Before, InRound
    <3>4. Flight' /\ NoBlockRace' /\ WholeFile'
      <4>1. \A m \in Buffers : m # ToRead /\ InFlight(m, "write") => offset[m] # index[2]
        BY <3>1, <2>a DEF AtRead, WriteOfRound, InFlight, ToWrite
      <4> QED
        BY <3>1, <4>1, <2>a, OneQueued
    <3>5. /\ \A m \in Buffers : m # ToRead => /\ status'[m] = status[m] /\ op'[m] = op[m]
                                             /\ offset'[m] = offset[m]
          /\ status'[ToRead] = "queued" /\ op'[ToRead] = "read" /\ offset'[ToRead] = index[2]
          /\ UNCHANGED <<j, k, curpos, index, buffer, written>>
      BY <3>1, <2>a DEF Queue, locals, ArchunixTypeOK
    <3>6. ToRead' = ToRead /\ ToReverse' = ToReverse /\ ToWrite' = curpos
      BY <3>5 DEF ToRead, ToReverse, ToWrite
    <3>7. AtReverse' /\ buffer'[ToReverse'] = "plain"
      <4>1. WriteOfRound'
        BY <3>1, <3>5, <3>6, <2>a DEF AtRead, WriteOfRound, ToWrite
      <4>2. MoreToRead' => ReadOfRound'
        BY <3>5, <3>6 DEF ReadOfRound
      <4>3. MoreToRead'
        <5>1. MoreToRead
          BY <3>1 DEF Loop
        <5> QED
          BY <5>1, <3>5 DEF MoreToRead, Iterations
      <4> QED
        BY <3>1, <3>5, <3>6, <4>1, <4>2, <4>3, <2>a DEF AtRead, AtReverse
    <3> QED
      BY <3>1, <3>2, <3>3, <3>4, <3>7 DEF Lines
  <2>9. CASE Reverse
    <3>1. /\ pc = "reverse" /\ pc' = (IF work THEN "reversing" ELSE "sync")
          /\ buffer' = (IF work THEN [buffer EXCEPT ![ToReverse] = "half"] ELSE buffer)
          /\ UNCHANGED <<work, k, curpos, j, index, status, op, offset, freed, file, written>>
      BY <2>9 DEF Reverse, BeginReverse, Goto, locals, aio, ToReverse
    <3>2. ArchunixTypeOK'
      BY <3>1 DEF ArchunixTypeOK
    <3>3. Loop'
      BY <3>1 DEF Loop, Iterations, MoreToRead, Before, InRound
    <3>4. work => AtReverse
      BY <3>1 DEF Lines, Tested
    <3>5. \A i \in Buffers : status[i] = "queued" => buffer'[i] = buffer[i]
      BY <3>1, <3>4, <2>a DEF AtReverse, ArchunixTypeOK
    <3>6. Flight' /\ NoBlockRace' /\ WholeFile'
      BY <3>1, <3>5, NothingQueued
    <3>7. work => AtReverse'
      BY <3>1, <3>4, <2>a DEF ArchunixTypeOK, AtReverse, WriteOfRound, ReadOfRound, MoreToRead,
         Iterations, ToWrite, ToReverse, ToRead
    <3> QED
      BY <3>1, <3>2, <3>3, <3>6, <3>7 DEF Lines, Tested
  <2>10. CASE Reversed
    <3>1. /\ pc = "reversing" /\ pc' = "sync"
          /\ \/ buffer' = [buffer EXCEPT ![ToReverse] = "reversed"]
             \/ ~work /\ buffer' = buffer
          /\ UNCHANGED <<work, k, curpos, j, index, status, op, offset, freed, file, written>>
      BY <2>10 DEF Reversed, EndReverse, Goto, locals, aio, ToReverse
    <3>2. ArchunixTypeOK'
      BY <3>1 DEF ArchunixTypeOK
    <3>3. Loop'
      BY <3>1 DEF Loop, Iterations, MoreToRead, Before, InRound
    <3>4. \A i \in Buffers : buffer'[i] = buffer[i] \/ buffer'[i] = "reversed"
      BY <3>1 DEF ArchunixTypeOK
    <3>5. Flight' /\ NoBlockRace' /\ WholeFile'
      BY <3>1, <3>4, NothingQueued
    <3>6. ASSUME work PROVE AtSync'
      <4>1. AtReverse
        BY <3>1, <3>6 DEF Lines, Tested
      <4>2. buffer'[ToReverse] = "reversed" /\ buffer'[ToRead] = buffer[ToRead]
        BY <3>1, <3>6, <2>a DEF ArchunixTypeOK
      <4> QED
        BY <3>1, <4>1, <4>2 DEF AtReverse, AtSync, WriteOfRound, ReadOfRound, MoreToRead,
           Iterations, ToWrite, ToReverse, ToRead
    <3> QED
      BY <3>1, <3>2, <3>3, <3>5, <3>6 DEF Lines, Tested
  <2>11. CASE TestSync
    <3>1. ArchunixTypeOK'
      BY <2>11 DEF TestSync, Test, Goto, locals, aio, ArchunixTypeOK
    <3>2. Loop'
      BY <2>11, <2>b DEF TestSync, Test, Goto, locals, aio, Loop, Iterations, MoreToRead, Before, InRound
    <3>3. Flight' /\ NoBlockRace' /\ WholeFile'
      BY <2>11, NothingQueued DEF TestSync, Test, aio
    <3>4. ASSUME work PROVE AtSync' /\ AtSync /\ pc' = (IF j > 0 THEN "syncwrite" ELSE "wait")
      BY <2>11, <3>4 DEF TestSync, Test, Goto, locals, aio, Lines, Tested, AtSync, AtReverse,
         WriteOfRound, ReadOfRound, MoreToRead, Iterations, ToWrite, ToReverse, ToRead
    <3>5. UNCHANGED <<work, j>> /\ pc' \in {"syncwrite", "wait"} /\ (~work => pc' = "wait")
      BY <2>11 DEF TestSync, Test, Goto, locals
    <3>6. ASSUME work, j = 0 PROVE Synced' /\ status'[ToWrite'] = "idle"
      BY <3>4, <3>5, <3>6 DEF AtSync, AtReverse, WriteOfRound, Synced
    <3> QED
      BY <3>1, <3>2, <3>3, <3>4, <3>5, <3>6, <2>b DEF Lines, Tested
  <2>12. CASE SyncWrite
    <3>1. /\ pc = "syncwrite" /\ pc' \in {"fsync", "error"}
          /\ UNCHANGED <<work, k, curpos, j, index, op, offset, buffer, freed, file, written>>
          /\ status' = status \/ status' = [status EXCEPT ![curpos] = "idle"]
      BY <2>12 DEF SyncWrite, Suspend, Goto, locals
    <3>2. work /\ pc' = "fsync" =>
            status[curpos] = "done" /\ status' = [status EXCEPT ![curpos] = "idle"]
      BY <2>12 DEF SyncWrite, Suspend, Goto
    <3>3. ArchunixTypeOK'
      BY <3>1 DEF ArchunixTypeOK
    <3>4. Loop'
      BY <3>1 DEF Loop, Iterations, MoreToRead, Before, InRound
    <3>5. Flight' /\ NoBlockRace' /\ WholeFile'
      BY <3>1, NothingQueued DEF ArchunixTypeOK
    <3>6. ASSUME work, pc' = "fsync" PROVE Synced' /\ status'[ToWrite'] = "idle"
      <4>1. AtSync /\ j > 0 /\ status[curpos] = "done"
        BY <3>1, <3>2, <3>6 DEF Lines, Tested, Loop
      <4>2. /\ status'[curpos] = "idle" /\ status'[ToRead] = status[ToRead]
            /\ status'[ToReverse] = status[ToReverse]
        BY <3>2, <3>6, <2>a DEF ArchunixTypeOK
      <4>3. written = j
        BY <4>1 DEF AtSync, AtReverse, WriteOfRound, ToWrite
      <4> QED
        BY <3>1, <4>1, <4>2, <4>3 DEF AtSync, AtReverse, ReadOfRound, Synced, MoreToRead,
           Iterations, ToWrite, ToReverse, ToRead
    <3> QED
      BY <3>1, <3>3, <3>4, <3>5, <3>6 DEF Lines, Tested
  <2>13. CASE Fsync
    <3>1. /\ pc = "fsync" /\ pc' = "syncfsync"
          /\ \/ Queue(curpos, "fsync", offset[curpos])
             \/ /\ status[curpos] = "queued"
                /\ UNCHANGED <<work, locals, aio, buffer, freed, file, written>>
      BY <2>13 DEF Fsync, Goto
    <3>2. offset[curpos] \in Blocks
      BY <2>a DEF ArchunixTypeOK
    <3>3. ArchunixTypeOK'
      <4>1. status' \in [Buffers -> {"idle", "queued", "done", "failed"}]
        BY <3>1 DEF Queue, aio, ArchunixTypeOK
      <4>2. op' \in [Buffers -> {"none", "read", "write", "fsync"}]
        BY <3>1 DEF Queue, aio, ArchunixTypeOK
      <4>3. offset' \in [Buffers -> Blocks]
        BY <3>1, <3>2 DEF Queue, aio, ArchunixTypeOK
      <4>4. UNCHANGED <<work, locals, buffer, freed, file, written>>
        BY <3>1 DEF Queue
      <4> QED
        BY <3>1, <4>1, <4>2, <4>3, <4>4 DEF locals, ArchunixTypeOK
    <3>4. Loop'
      BY <3>1 DEF Queue, locals, Loop, Iterations, MoreToRead, Before, InRound
    <3>5. Flight' /\ NoBlockRace' /\ WholeFile'
      <4>1. CASE Queue(curpos, "fsync", offset[curpos])
        BY <4>1, <3>2, <2>a, OneQueued
      <4>2. CASE UNCHANGED <<work, locals, aio, buffer, freed, file, written>>
        BY <4>2, NothingQueued DEF aio
      <4> QED
        BY <3>1, <4>1, <4>2
    <3>6. ASSUME work PROVE Synced' /\ op'[ToWrite'] = "fsync"
      <4>1. Synced /\ status[curpos] = "idle"
        BY <3>1, <3>6 DEF Lines, Tested, ToWrite
      <4>2. /\ op'[curpos] = "fsync" /\ UNCHANGED <<k, curpos, j, index, buffer, written>>
            /\ \A i \in Buffers : i # curpos =>
                 status'[i] = status[i] /\ op'[i] = op[i] /\ offset'[i] = offset[i]
        BY <3>1, <4>1, <2>a DEF Queue, locals, ArchunixTypeOK
      <4> QED
        BY <4>1, <4>2, <2>a DEF Synced, ReadOfRound, MoreToRead, Iterations, ToWrite, ToReverse, ToRead
    <3>7. work' = work
      BY <3>1 DEF Queue
    <3> QED
      BY <3>1, <3>3, <3>4, <3>5, <3>6, <3>7 DEF Lines, Tested
  <2>14. CASE SyncFsync
    <3>1. /\ pc = "syncfsync" /\ pc' \in {"wait", "error"}
          /\ UNCHANGED <<work, k, curpos, j, index, op, offset, buffer, freed, file, written>>
          /\ status' = status \/ status' = [status EXCEPT ![curpos] = "idle"]
      BY <2>14 DEF SyncFsync, Suspend, Goto, locals
    <3>2. work /\ pc' = "wait" => status' = [status EXCEPT ![curpos] = "idle"]
      BY <2>14 DEF SyncFsync, Suspend, Goto
    <3>3. ArchunixTypeOK'
      BY <3>1 DEF ArchunixTypeOK
    <3>4. Loop'
      BY <3>1 DEF Loop, Iterations, MoreToRead, Before, InRound
    <3>5. Flight' /\ NoBlockRace' /\ WholeFile'
      BY <3>1, NothingQueued DEF ArchunixTypeOK
    <3>6. ASSUME work, pc' = "wait" PROVE Synced' /\ status'[ToWrite'] = "idle"
      <4>1. Synced
        BY <3>1, <3>6 DEF Lines, Tested
      <4>2. /\ status'[curpos] = "idle" /\ status'[ToRead] = status[ToRead]
            /\ status'[ToReverse] = status[ToReverse]
        BY <3>2, <3>6, <2>a DEF ArchunixTypeOK
      <4> QED
        BY <3>1, <4>1, <4>2 DEF ReadOfRound, Synced, MoreToRead, Iterations, ToWrite, ToReverse, ToRead
    <3> QED
      BY <3>1, <3>3, <3>4, <3>5, <3>6 DEF Lines, Tested
  <2>15. CASE Wait
    <3>1. /\ pc = "wait" /\ pc' \in {"next", "error"}
          /\ UNCHANGED <<work, k, curpos, j, index, op, offset, buffer, freed, file, written>>
          /\ status' = status \/ status' = [status EXCEPT ![ToRead] = "idle"]
      BY <2>15 DEF Wait, Test, Suspend, Goto, locals, aio, ToRead
    <3>2. work /\ MoreToRead /\ pc' = "next" =>
            status[ToRead] = "done" /\ status' = [status EXCEPT ![ToRead] = "idle"]
      BY <2>15 DEF Wait, Suspend, Goto, ToRead
    <3>3. ~MoreToRead => status' = status
      BY <2>15 DEF Wait, Test, aio
    <3>4. ArchunixTypeOK'
      BY <3>1 DEF ArchunixTypeOK
    <3>5. Loop'
      BY <3>1 DEF Loop, Iterations, MoreToRead, Before, InRound
    <3>6. Flight' /\ NoBlockRace' /\ WholeFile'
      BY <3>1, NothingQueued DEF ArchunixTypeOK
    <3>7. ASSUME work, pc' = "next" PROVE AtNext'
      <4>1. Synced /\ status[curpos] = "idle"
        BY <3>1, <3>7 DEF Lines, Tested, ToWrite
      <4>2. AllIdle'
        <5>1. CASE MoreToRead
          BY <3>2, <3>7, <4>1, <5>1, <2>a DEF Synced, AllIdle, ArchunixTypeOK
        <5>2. CASE ~MoreToRead
          BY <3>3, <4>1, <5>2, <2>a DEF Synced, ReadOfRound, AllIdle
        <5> QED
          BY <5>1, <5>2
      <4>3. MoreToRead => buffer[ToRead] = "plain"
        BY <3>2, <3>7, <4>1 DEF Synced, ReadOfRound
      <4> QED
        BY <3>1, <4>1, <4>2, <4>3 DEF Synced, AtNext, MoreToRead, Iterations, ToReverse, ToRead
    <3> QED
      BY <3>1, <3>4, <3>5, <3>6, <3>7 DEF Lines, Tested
  <2>16. CASE EndRound
    <3>1. /\ pc = "next" /\ pc' = "for" /\ curpos' = ToReverse /\ j' = j + 1
          /\ UNCHANGED <<work, k, index, status, op, offset, buffer, freed, file, written>>
      BY <2>16 DEF EndRound, Goto, aio, ToReverse
    <3>2. j < Iterations
      BY <3>1 DEF Loop, InRound
    <3>3. ArchunixTypeOK'
      <4>1. j + 1 \in 0..(MaxK - 1)
        BY <3>2, <2>b
      <4> QED
        BY <3>1, <4>1, <2>a DEF ArchunixTypeOK
    <3>4. Loop'
      BY <3>1, <3>2, <2>b DEF Loop, Iterations, Before, InRound
    <3>5. Flight' /\ NoBlockRace' /\ WholeFile'
      BY <3>1, NothingQueued
    <3>6. ASSUME work PROVE AtFor'
      <4>1. AtNext
        BY <3>1, <3>6 DEF Lines, Tested
      <4>2. ToReverse' = ToRead
        BY <3>1, Rotation, <2>a DEF ToReverse, ToRead
      <4>3. AllIdle' /\ written' = j /\ buffer'[ToWrite'] = "reversed"
        BY <3>1, <4>1 DEF AtNext, AllIdle, ToWrite
      <4>4. j' < Iterations' => buffer'[ToReverse'] = "plain"
        BY <3>1, <4>1, <4>2, <2>b DEF AtNext, MoreToRead, Iterations
      <4>5. Iterations' # 0 /\ j' # 0 /\ j' - 1 = j
        BY <3>1, <3>2, <2>b DEF Iterations
      <4> QED
        BY <4>3, <4>4, <4>5 DEF AtFor
    <3> QED
      BY <3>1, <3>3, <3>4, <3>5, <3>6 DEF Lines, Tested
  <2>17. CASE LastReverse
    <3>1. /\ pc = "lastreverse" /\ pc' = (IF work THEN "lastreversing" ELSE "lastwrite")
          /\ buffer' = (IF work THEN [buffer EXCEPT ![curpos] = "half"] ELSE buffer)
          /\ UNCHANGED <<work, k, curpos, j, index, status, op, offset, freed, file, written>>
      BY <2>17 DEF LastReverse, BeginReverse, Goto, locals, aio
    <3>2. ArchunixTypeOK'
      BY <3>1 DEF ArchunixTypeOK
    <3>3. Loop'
      BY <3>1 DEF Loop, Iterations, MoreToRead, Before, InRound
    <3>4. work => AtLastReverse
      BY <3>1 DEF Lines, Tested
    <3>5. \A i \in Buffers : status[i] = "queued" => buffer'[i] = buffer[i]
      BY <3>1, <3>4 DEF AtLastReverse, AllIdle
    <3>6. Flight' /\ NoBlockRace' /\ WholeFile'
      BY <3>1, <3>5, NothingQueued
    <3>7. work => AtLastReverse'
      BY <3>1, <3>4 DEF AtLastReverse, AllIdle, Iterations
    <3> QED
      BY <3>1, <3>2, <3>3, <3>6, <3>7 DEF Lines, Tested
  <2>18. CASE LastReversed
    <3>1. /\ pc = "lastreversing" /\ pc' = "lastwrite"
          /\ \/ buffer' = [buffer EXCEPT ![curpos] = "reversed"]
             \/ ~work /\ buffer' = buffer
          /\ UNCHANGED <<work, k, curpos, j, index, status, op, offset, freed, file, written>>
      BY <2>18 DEF LastReversed, EndReverse, Goto, locals, aio
    <3>2. ArchunixTypeOK'
      BY <3>1 DEF ArchunixTypeOK
    <3>3. Loop'
      BY <3>1 DEF Loop, Iterations, MoreToRead, Before, InRound
    <3>4. \A i \in Buffers : buffer'[i] = buffer[i] \/ buffer'[i] = "reversed"
      BY <3>1 DEF ArchunixTypeOK
    <3>5. Flight' /\ NoBlockRace' /\ WholeFile'
      BY <3>1, <3>4, NothingQueued
    <3>6. ASSUME work PROVE AtLastWrite'
      <4>1. AtLastReverse
        BY <3>1, <3>6 DEF Lines, Tested
      <4>2. buffer'[curpos] = "reversed"
        BY <3>1, <3>6, <2>a DEF ArchunixTypeOK
      <4> QED
        BY <3>1, <4>1, <4>2 DEF AtLastReverse, AtLastWrite, AllIdle, WrittenBefore, Iterations, ToWrite
    <3> QED
      BY <3>1, <3>2, <3>3, <3>5, <3>6 DEF Lines, Tested
  <2>19. CASE TestLastWrite
    <3>1. ArchunixTypeOK'
      BY <2>19 DEF TestLastWrite, Test, Goto, locals, aio, ArchunixTypeOK
    <3>2. Loop'
      BY <2>19 DEF TestLastWrite, Test, Goto, locals, aio, Loop, Iterations, MoreToRead, Before, InRound
    <3>3. Flight' /\ NoBlockRace' /\ WholeFile'
      BY <2>19, NothingQueued DEF TestLastWrite, Test, aio
    <3>4. ASSUME work PROVE AtLastWrite' /\ pc' = "aio_lastwrite"
      BY <2>19, <3>4 DEF TestLastWrite, Test, Goto, locals, aio, Lines, Tested, AtLastWrite,
         AllIdle, WrittenBefore, Iterations, ToWrite
    <3>5. work' = work /\ (~work => pc' = "lastwait")
      BY <2>19 DEF TestLastWrite, Test, Goto
    <3> QED
      BY <3>1, <3>2, <3>3, <3>4, <3>5 DEF Lines, Tested
  <2>20. CASE LastWrite
    <3>1. PICK b \in Blocks : Queue(curpos, "write", b)
      BY <2>20 DEF LastWrite
    <3>2. pc = "aio_lastwrite" /\ pc' = "lastwait" /\ AtLastWrite
      BY <2>20 DEF LastWrite, Goto, Lines, Tested
    <3>3. ArchunixTypeOK'
      BY <3>1, <3>2, <2>a DEF Queue, locals, ArchunixTypeOK
    <3>4. Loop'
      BY <3>1, <3>2 DEF Queue, locals, Loop, Iterations, MoreToRead, Before, InRound
    <3>5. Flight' /\ NoBlockRace' /\ WholeFile'
      <4>1. /\ buffer[curpos] = "reversed" /\ \A i \in Buffers : status[i] = "idle"
            /\ written = WrittenBefore
        BY <3>2 DEF AtLastWrite, AllIdle, ToWrite
      <4>2. written < MaxK
        BY <4>1, <2>b DEF WrittenBefore
      <4> QED
        BY <3>1, <4>1, <4>2, <2>a, OneQueued
    <3>6. AtLastWait'
      BY <3>1, <3>2, <2>a DEF Queue, locals, ArchunixTypeOK, AtLastWrite, AllIdle, AtLastWait,
         WrittenBefore, Iterations, ToWrite, ToReverse, ToRead
    <3> QED
      BY <3>2, <3>3, <3>4, <3>5, <3>6 DEF Lines
  <2>21. CASE LastWait
    <3>1. /\ pc = "lastwait" /\ pc' \in {"cleanup", "error"}
          /\ UNCHANGED <<work, k, curpos, j, index, op, offset, buffer, freed, file, written>>
          /\ status' = status \/ status' = [status EXCEPT ![curpos] = "idle"]
      BY <2>21 DEF LastWait, Suspend, Goto, locals
    <3>2. work /\ pc' = "cleanup" =>
            status[curpos] = "done" /\ status' = [status EXCEPT ![curpos] = "idle"]
      BY <2>21 DEF LastWait, Suspend, Goto
    <3>3. ArchunixTypeOK'
      BY <3>1 DEF ArchunixTypeOK
    <3>4. Loop'
      BY <3>1 DEF Loop, Iterations, MoreToRead, Before, InRound
    <3>5. Flight' /\ NoBlockRace' /\ WholeFile'
      BY <3>1, NothingQueued DEF ArchunixTypeOK
    <3>6. ASSUME work, pc' = "cleanup" PROVE AtCleanup'
      <4>1. AtLastWait
        BY <3>1, <3>6 DEF Lines, Tested
      <4>2. AllIdle'
        BY <3>2, <3>6, <4>1, <2>a DEF AtLastWait, AllIdle, ArchunixTypeOK
      <4> QED
        BY <3>1, <3>2, <3>6, <4>1, <4>2 DEF AtLastWait, AtCleanup, WrittenBefore, Iterations, ToWrite
    <3> QED
      BY <3>1, <3>3, <3>4, <3>5, <3>6 DEF Lines, Tested
  <2>22. CASE Cleanup
    <3>1. /\ pc = "cleanup" /\ pc' = "ended" /\ freed' = TRUE /\ (work => status' = status)
          /\ UNCHANGED <<work, k, curpos, j, index, op, offset, buffer, file, written>>
      BY <2>22 DEF Cleanup, Goto, locals
    <3>2. /\ status' \in [Buffers -> {"idle", "queued", "done", "failed"}]
          /\ \A i \in Buffers : status'[i] = "idle" \/ status'[i] = status[i]
      <4>1. CASE status' = status
        BY <4>1 DEF ArchunixTypeOK
      <4>2. CASE status' # status
        <5>1. PICK C \in SUBSET Buffers :
                status' = [i \in Buffers |-> IF i \in C THEN "idle" ELSE status[i]]
          BY <2>22, <4>2 DEF Cleanup
        <5>2. status \in [Buffers -> {"idle", "queued", "done", "failed"}]
          BY DEF ArchunixTypeOK
        <5> QED
          BY <5>1, <5>2
      <4> QED
        BY <4>1, <4>2
    <3>3. ArchunixTypeOK'
      BY <3>1, <3>2 DEF ArchunixTypeOK
    <3>4. Loop'
      BY <3>1 DEF Loop, Iterations, MoreToRead, Before, InRound
    <3>5. Flight' /\ NoBlockRace' /\ WholeFile'
      BY <3>1, <3>2, NothingQueued
    <3>6. work => AtCleanup'
      BY <3>1 DEF Lines, Tested, AtCleanup, AllIdle, WrittenBefore, Iterations
    <3> QED
      BY <3>1, <3>3, <3>4, <3>5, <3>6 DEF Lines, Tested
  <2>23. CASE Sigint
    <3>1. /\ work' = FALSE
          /\ UNCHANGED <<k, curpos, j, index, pc, status, op, offset, buffer, freed, file, written>>
      BY <2>23 DEF Sigint, locals, aio
    <3>2. ArchunixTypeOK' /\ Loop'
      BY <3>1 DEF ArchunixTypeOK, Loop, Iterations, MoreToRead, Before, InRound
    <3>3. Flight' /\ NoBlockRace' /\ WholeFile'
      BY <2>23, <3>1, NothingQueued DEF Sigint
    <3>4. ASSUME Tested' PROVE /\ pc \in {"aio_read0", "aio_write", "aio_read", "aio_lastwrite"}
                               /\ AtRead0' = AtRead0 /\ AtFor' = AtFor
                               /\ AtRead' = AtRead /\ AtLastWrite' = AtLastWrite
      <4>1. pc \in {"aio_read0", "aio_write", "aio_read", "aio_lastwrite"}
        BY <3>1, <3>4 DEF Tested
      <4>2. AtRead0' = AtRead0 /\ AtFor' = AtFor
        BY <3>1 DEF AtRead0, AtFor, AllIdle, Iterations, ToWrite, ToReverse
      <4>3. AtRead' = AtRead /\ AtLastWrite' = AtLastWrite
        BY <3>1 DEF AtRead, AtLastWrite, WriteOfRound, AllIdle, WrittenBefore, Iterations,
           ToWrite, ToReverse, ToRead
      <4> QED
        BY <4>1, <4>2, <4>3
    <3>5. Lines'
      BY <3>1, <3>4 DEF Lines, Tested
    <3> QED
      BY <3>2, <3>3, <3>5
  <2>24. ASSUME NEW i \in Buffers, Complete(i) PROVE ArchunixInv'
    <3>1. ArchunixTypeOK' /\ Flight' /\ NoBlockRace' /\ WholeFile'
      BY <2>24, CompleteSafe
    <3>2. Ends(i)
      BY <2>24 DEF Complete, Ends, locals, ArchunixTypeOK
    <3> QED
      BY <3>1, <3>2, EndKeepsLines
  <2>25. ASSUME NEW i \in Buffers, FailRequest(i) PROVE ArchunixInv'
    <3>1. /\ status[i] = "queued" /\ status' = [status EXCEPT ![i] = "failed"]
          /\ UNCHANGED <<work, k, curpos, j, index, pc, op, offset, buffer, freed, file, written>>
      BY <2>25 DEF FailRequest, locals
    <3>2. ArchunixTypeOK'
      BY <3>1 DEF ArchunixTypeOK
    <3>3. Flight' /\ NoBlockRace' /\ WholeFile'
      BY <3>1, NothingQueued DEF ArchunixTypeOK
    <3>4. Ends(i)
      BY <3>1 DEF Ends, ArchunixTypeOK
    <3> QED
      BY <3>2, <3>3, <3>4, EndKeepsLines
  <2>26. CASE Refused
    <3>1. /\ pc' = "error" /\ ~freed
          /\ UNCHANGED <<work, k, curpos, j, index, status, op, offset, buffer, freed, file, written>>
      BY <2>26 DEF Refused, Goto, locals, aio, Loop
    <3>2. ArchunixTypeOK' /\ Loop'
      BY <3>1 DEF ArchunixTypeOK, Loop, Iterations, MoreToRead, Before, InRound
    <3>3. Flight' /\ NoBlockRace' /\ WholeFile'
      BY <3>1, NothingQueued
    <3>4. Lines'
      BY <3>1 DEF Lines
    <3> QED
      BY <3>2, <3>3, <3>4
  <2>27. CASE UNCHANGED archunixVars
    <3>1. UNCHANGED <<work, k, curpos, j, index, pc, status, op, offset, buffer, freed, file, written>>
      BY <2>27 DEF archunixVars, locals, aio
    <3>2. ArchunixTypeOK' /\ Loop'
      BY <3>1 DEF ArchunixTypeOK, Loop, Iterations, MoreToRead, Before, InRound
    <3>3. Flight' /\ NoBlockRace' /\ WholeFile'
      BY <3>1, NothingQueued
    <3>4. UNCHANGED <<AtRead0, AtSuspend0, AtFor, AtNext, AtLastReverse, AtLastWrite, AtCleanup>>
      BY <3>1 DEF AtRead0, AtSuspend0, AtFor, AtNext, AtLastReverse, AtLastWrite, AtCleanup,
         AllIdle, WrittenBefore, MoreToRead, Iterations, ToWrite, ToReverse, ToRead
    <3>5. UNCHANGED <<AtRead, AtReverse, AtSync, Synced, AtLastWait>>
      <4>1. UNCHANGED <<WriteOfRound, ReadOfRound, ToWrite, ToReverse, ToRead, WrittenBefore>>
        BY <3>1 DEF WriteOfRound, ReadOfRound, MoreToRead, Iterations, WrittenBefore,
           ToWrite, ToReverse, ToRead
      <4> QED
        BY <3>1, <4>1 DEF AtRead, AtReverse, AtSync, Synced, AtLastWait
    <3>6. UNCHANGED <<ToWrite, ToReverse, ToRead>>
      BY <3>1 DEF ToWrite, ToReverse, ToRead
    <3>7. Lines'
      BY <3>1, <3>4, <3>5, <3>6 DEF Lines, Tested
    <3> QED
      BY <3>2, <3>3, <3>7
  <2> QED
    BY <2>1, <2>2, <2>3, <2>4, <2>5, <2>6, <2>7, <2>8, <2>9, <2>10, <2>11, <2>12, <2>13,
       <2>14, <2>15, <2>16, <2>17, <2>18, <2>19, <2>20, <2>21, <2>22, <2>23, <2>24, <2>25, <2>26, <2>27
       DEF ArchunixNext, ReadFirst, Round, WriteLast
<1> QED
  BY <1>1, <1>2, PTL DEF ArchunixSpec

-----------------------------------------------------------------------------
\* The types of the variables, for every size of the file and every k.
THEOREM ArchunixTypeCorrect == ArchunixSpec => []ArchunixTypeOK
BY ArchunixInductive, PTL DEF ArchunixInv

\* No block is read while it is written (archunix5a.c lines 170-174).
THEOREM ReadsAndWritesApart == ArchunixSpec => []NoBlockRace
BY ArchunixInductive, PTL DEF ArchunixInv

\* Only whole blocks reach the file, each reversed once since it was read
\* (lines 112-119, 151-160), except from freed buffers after SIGINT.
THEOREM OnlyWholeBlocks == ArchunixSpec => []WholeBlocks
<1>1. ArchunixInv => WholeBlocks
  BY DEF ArchunixInv, WholeFile, WholeBlocks, Lines, Tested, ToWrite, ToReverse
<1> QED
  BY <1>1, ArchunixInductive, PTL

\* Without SIGINT the program frees its buffers when nothing is in flight and
\* k - 1 blocks are written (lines 145-146, 163-190).
THEOREM EveryRoundWritten == ArchunixSpec => []AllWritten
<1>1. ASSUME ArchunixInv PROVE AllWritten
  <2>1. pc = "ended" /\ work => AllIdle /\ written = WrittenBefore + 1
    BY <1>1 DEF ArchunixInv, Lines, Tested, AtCleanup
  <2>2. k \in 1..MaxK
    BY <1>1 DEF ArchunixInv, ArchunixTypeOK
  <2>3. WrittenBefore + 1 = IF k = 1 THEN 1 ELSE k - 1
    BY <2>2, AioBlocksAssumption DEF WrittenBefore, Iterations
  <2> QED
    BY <2>1, <2>3 DEF AllWritten, AllIdle
<1> QED
  BY <1>1, ArchunixInductive, PTL

\* As long as SIGINT has not come a control block is used again only when its
\* last request has been collected (lines 103-129).
FreshStep == \A i \in Buffers :
  /\ work /\ status'[i] = "queued"
  /\ <<status[i], op[i], offset[i]>>' # <<status[i], op[i], offset[i]>>
  => status[i] = "idle"

LEMMA QueueOnIdle ==
  ASSUME ArchunixTypeOK, NEW i \in Buffers, NEW o, NEW b, Queue(i, o, b), status[i] = "idle"
  PROVE  FreshStep
<1>1. \A m \in Buffers : m # i => /\ status'[m] = status[m] /\ op'[m] = op[m]
                                   /\ offset'[m] = offset[m]
  BY DEF Queue, ArchunixTypeOK
<1> QED
  BY <1>1 DEF FreshStep

THEOREM ControlBlocksFresh == ArchunixSpec => FreshControlBlocks
<1>1. ASSUME ArchunixInv, [ArchunixNext]_archunixVars PROVE FreshStep
  <2> USE <1>1 DEF ArchunixInv
  <2>a. curpos \in Buffers /\ ToRead \in Buffers /\ 1 \in Buffers
    BY Rotation DEF ArchunixTypeOK, ToRead, Buffers, BLOCKS
  <2>b. ASSUME UNCHANGED <<op, offset>>,
               \A i \in Buffers : status'[i] = "queued" => status'[i] = status[i]
        PROVE  FreshStep
    BY <2>b DEF FreshStep
  <2>c. ~work => FreshStep
    BY DEF FreshStep
  <2>1. CASE \/ TestRead0 \/ For \/ TestWrite \/ TestRead \/ Reverse \/ Reversed \/ TestSync
             \/ EndRound \/ LastReverse \/ LastReversed \/ TestLastWrite \/ Sigint
             \/ Refused \/ UNCHANGED archunixVars
    <3>1. UNCHANGED aio
      BY <2>1 DEF TestRead0, Test, For, TestWrite, TestRead, Reverse, BeginReverse, Reversed,
         EndReverse, TestSync, EndRound, LastReverse, LastReversed, TestLastWrite, Sigint,
         Refused, archunixVars
    <3> QED
      BY <2>b, <3>1 DEF aio
  <2>2. CASE Suspend0 \/ SyncWrite \/ SyncFsync \/ Wait \/ LastWait
    <3>1. /\ UNCHANGED <<op, offset>>
          /\ status' = status \/ \E i \in Buffers : status' = [status EXCEPT ![i] = "idle"]
      BY <2>2, <2>a DEF Suspend0, SyncWrite, SyncFsync, Wait, LastWait, Suspend, Test, aio, ToRead
    <3> QED
      BY <2>b, <3>1 DEF ArchunixTypeOK
  <2>3. CASE Cleanup
    <3>1. UNCHANGED <<op, offset>> /\ (work => status' = status)
      BY <2>3 DEF Cleanup
    <3> QED
      BY <2>b, <2>c, <3>1
  <2>4. ASSUME NEW i \in Buffers, Complete(i) \/ FailRequest(i) PROVE FreshStep
    <3>1. UNCHANGED <<op, offset>> /\ \E s \in {"done", "failed"} : status' = [status EXCEPT ![i] = s]
      BY <2>4 DEF Complete, FailRequest
    <3> QED
      BY <2>b, <3>1 DEF ArchunixTypeOK
  <2>5. CASE Read0
    <3>1. status[1] = "idle"
      BY <2>5, <2>a DEF Read0, Lines, Tested, AtRead0, AllIdle
    <3> QED
      BY <2>5, <3>1, <2>a, QueueOnIdle DEF Read0
  <2>6. CASE Write
    <3>1. status[curpos] = "idle"
      BY <2>6, <2>a DEF Write, Lines, Tested, AtFor, AllIdle
    <3> QED
      BY <2>6, <3>1, <2>a, QueueOnIdle DEF Write
  <2>7. CASE Read
    <3>1. status[ToRead] = "idle"
      BY <2>7 DEF Read, Lines, Tested, AtRead
    <3> QED
      BY <2>7, <3>1, <2>a, QueueOnIdle DEF Read, ToRead
  <2>8. CASE Fsync
    <3>1. work => status[curpos] = "idle" /\ Queue(curpos, "fsync", offset[curpos])
      BY <2>8 DEF Fsync, Lines, Tested, ToWrite
    <3> QED
      BY <2>c, <3>1, <2>a, QueueOnIdle
  <2>9. CASE LastWrite
    <3>1. status[curpos] = "idle"
      BY <2>9, <2>a DEF LastWrite, Lines, Tested, AtLastWrite, AllIdle
    <3> QED
      BY <2>9, <3>1, <2>a, QueueOnIdle DEF LastWrite
  <2> QED
    BY <2>1, <2>2, <2>3, <2>4, <2>5, <2>6, <2>7, <2>8, <2>9
       DEF ArchunixNext, ReadFirst, Round, WriteLast
<1>2. FreshStep => [FreshStep]_archunixVars
  OBVIOUS
<1> QED
  BY <1>1, <1>2, ArchunixInductive, PTL DEF ArchunixSpec, FreshControlBlocks, FreshStep
=============================================================================
