------------------------------ MODULE AioBlocks ------------------------------
(***************************************************************************)
(* Lab4/archunix5a.c: blocks of a file are read, reversed and written to   *)
(* other places by asynchronous I/O.  processblocks rotates three buffers: *)
(* while one is written and one is read, the third is reversed.  SIGINT    *)
(* sets work to 0, which every function tests; cleanup cancels what can be *)
(* cancelled and frees the buffers.                                        *)
(*                                                                         *)
(* A block is not modelled byte by byte: a buffer knows whether its content*)
(* was just read, is being reversed or is reversed, a block of the file    *)
(* whether what it holds is a whole block.  A test of work and the call it *)
(* guards are two steps, SIGINT may come between them.                     *)
(***************************************************************************)
EXTENDS Naturals, FiniteSets

CONSTANTS N,        \* blocks of the file, argument n
          MaxK      \* bound: the largest argument k

ASSUME AioBlocksAssumption == N \in Nat \ {0, 1} /\ MaxK \in Nat \ {0}

BLOCKS == 3
Blocks == 0..(N - 1)
Buffers == 0..(BLOCKS - 1)

SHIFT(counter, x) == (counter + x) % BLOCKS

VARIABLES
  work,                         \* cleared by SIGINT
  k,                            \* the argument k
  pc, curpos, j, index,         \* processblocks
  status, op, offset,           \* each aiocb: state, operation, block
  buffer, freed, file,
  written                       \* history: blocks written

aio == <<status, op, offset>>
locals == <<k, curpos, j, index>>
archunixVars == <<work, locals, pc, aio, buffer, freed, file, written>>

\* iterations-- at the start of processblocks, and its omission.
IterationsKept == k
Iterations == k - 1

\* curpos = iterations == 0 ? 1 : 0
CurposFor(it) == IF it = 0 THEN 1 ELSE 0

ArchunixInit ==
  /\ work = TRUE
  /\ k \in 1..MaxK /\ pc = "read0" /\ j = 0
  /\ curpos = CurposFor(Iterations)
  /\ index = <<0, 1>>
  /\ status = [i \in Buffers |-> "idle"]
  /\ op = [i \in Buffers |-> "none"] /\ offset = [i \in Buffers |-> 0]
  /\ buffer = [i \in Buffers |-> "zero"] /\ freed = FALSE
  /\ file = [b \in Blocks |-> "whole"]
  /\ written = 0

Ended == pc \in {"ended", "error"}
Goto(l) == pc' = l

-----------------------------------------------------------------------------
(* The functions that processblocks calls.                                 *)

\* aio_read, aio_write and aio_fsync queue the request of a control block.
Queue(i, o, b) ==
  /\ status' = [status EXCEPT ![i] = "queued"]
  /\ op' = [op EXCEPT ![i] = o]
  /\ offset' = [offset EXCEPT ![i] = b]
  /\ UNCHANGED <<work, locals, buffer, freed, file, written>>

\* The call itself may fail, no request is queued and the program ends.
Refused ==
  /\ pc \in {"aio_read0", "aio_write", "aio_read", "fsync", "aio_lastwrite"}
  /\ Goto("error")
  /\ UNCHANGED <<work, locals, aio, buffer, freed, file, written>>

\* if (!work) return; before a call at label l, after which next follows.
Test(l, next) ==
  /\ Goto(IF work THEN l ELSE next)
  /\ UNCHANGED <<work, locals, aio, buffer, freed, file, written>>

\* suspend: back at once when work is 0, otherwise when the request has ended,
\* whose result it collects; a request that failed ends the program.
Suspend(i, next) ==
  /\ \/ ~work /\ Goto(next) /\ UNCHANGED status
     \/ status[i] = "done" /\ Goto(next) /\ status' = [status EXCEPT ![i] = "idle"]
     \/ status[i] = "failed" /\ Goto("error") /\ UNCHANGED status
  /\ UNCHANGED <<work, locals, op, offset, buffer, freed, file, written>>

\* reversebuffer begins, or does nothing when work is already 0.
BeginReverse(i, l, next) ==
  /\ IF work THEN buffer' = [buffer EXCEPT ![i] = "half"] /\ Goto(l)
             ELSE UNCHANGED buffer /\ Goto(next)
  /\ UNCHANGED <<work, locals, aio, freed, file, written>>

\* It ends with the buffer reversed, or wherever SIGINT met it.
EndReverse(i, next) ==
  /\ \/ buffer' = [buffer EXCEPT ![i] = "reversed"]
     \/ ~work /\ UNCHANGED buffer
  /\ Goto(next)
  /\ UNCHANGED <<work, locals, aio, freed, file, written>>

-----------------------------------------------------------------------------
(* processblocks, line by line.                                            *)

TestRead0 == pc = "read0" /\ Test("aio_read0", "suspend0")

Read0 ==
  /\ pc = "aio_read0"
  /\ \E b \in Blocks : Queue(1, "read", b)
  /\ Goto("suspend0")

Suspend0 == pc = "suspend0" /\ Suspend(1, "for")

\* getindexes: two different blocks; without the shift of the second they may
\* be the same.
IndexesAny == Blocks \X Blocks
Indexes == {p \in Blocks \X Blocks : p[1] # p[2]}

\* The head of the loop, getindexes, and whether there is something to write.
For ==
  /\ pc = "for"
  /\ IF work /\ j < Iterations
     THEN /\ index' \in Indexes
          /\ Goto(IF j > 0 THEN "write" ELSE "read")
     ELSE /\ UNCHANGED index
          /\ Goto(IF Iterations = 0 THEN "lastreverse" ELSE "lastwrite")
  /\ UNCHANGED <<work, k, curpos, j, aio, buffer, freed, file, written>>

TestWrite == pc = "write" /\ Test("aio_write", "read")

Write ==
  /\ pc = "aio_write"
  /\ Queue(curpos, "write", index[1])
  /\ Goto("read")

MoreToRead == j < Iterations - 1

TestRead == pc = "read" /\ Test(IF MoreToRead THEN "aio_read" ELSE "reverse", "reverse")

Read ==
  /\ pc = "aio_read"
  /\ Queue(SHIFT(curpos, 2), "read", index[2])
  /\ Goto("reverse")

Reverse == /\ pc = "reverse"
           /\ BeginReverse(SHIFT(curpos, 1), "reversing", "sync")
Reversed == pc = "reversing" /\ EndReverse(SHIFT(curpos, 1), "sync")

\* syncdata, for what was written in this round: wait for the write, fsync,
\* wait again.
TestSync == pc = "sync" /\ Test(IF j > 0 THEN "syncwrite" ELSE "wait", "wait")
SyncUnwaited == pc = "syncwrite" /\ Test("fsync", "fsync")
SyncWrite == pc = "syncwrite" /\ Suspend(curpos, "fsync")

\* The control block may still be that of a write in flight, when SIGINT cut the
\* wait short: the request then goes on as either operation.
Fsync ==
  /\ pc = "fsync"
  /\ \/ Queue(curpos, "fsync", offset[curpos])
     \/ status[curpos] = "queued"
        /\ UNCHANGED <<work, locals, aio, buffer, freed, file, written>>
  /\ Goto("syncfsync")

SyncFsync == pc = "syncfsync" /\ Suspend(curpos, "wait")

\* suspend for the block read in this round.
Wait ==
  /\ pc = "wait"
  /\ IF MoreToRead THEN Suspend(SHIFT(curpos, 2), "next") ELSE Test("next", "next")

EndRound ==
  /\ pc = "next"
  /\ curpos' = SHIFT(curpos, 1) /\ j' = j + 1
  /\ Goto("for")
  /\ UNCHANGED <<work, k, index, aio, buffer, freed, file, written>>

LastReverse == pc = "lastreverse" /\ BeginReverse(curpos, "lastreversing", "lastwrite")
LastReversed == pc = "lastreversing" /\ EndReverse(curpos, "lastwrite")

\* writedata tests work; a write without the test may follow a reversal that
\* SIGINT cut short.
UntestedWrite == pc = "lastwrite" /\ Goto("aio_lastwrite")
                 /\ UNCHANGED <<work, locals, aio, buffer, freed, file, written>>
TestLastWrite == pc = "lastwrite" /\ Test("aio_lastwrite", "lastwait")

LastWrite ==
  /\ pc = "aio_lastwrite"
  /\ \E b \in Blocks : Queue(curpos, "write", b)
  /\ Goto("lastwait")

LastWait == pc = "lastwait" /\ Suspend(curpos, "cleanup")

\* cleanup: aio_cancel ends the requests that have not been started, free, and
\* then the program closes the file and ends.
Cleanup ==
  /\ pc = "cleanup"
  /\ \/ work /\ UNCHANGED status
     \/ /\ ~work
        /\ \E C \in SUBSET {i \in Buffers : status[i] = "queued"} :
             status' = [i \in Buffers |-> IF i \in C THEN "idle" ELSE status[i]]
  /\ freed' = TRUE
  /\ Goto("ended")
  /\ UNCHANGED <<work, locals, op, offset, buffer, file, written>>

-----------------------------------------------------------------------------
(* The kernel's side of a request, and the user's.                         *)

\* A request ends: a read fills the buffer, a write fills the block with what
\* the buffer holds now.
Complete(i) ==
  /\ status[i] = "queued" /\ pc # "error"
  /\ status' = [status EXCEPT ![i] = "done"]
  /\ buffer' = IF op[i] = "read" THEN [buffer EXCEPT ![i] = "plain"] ELSE buffer
  /\ IF op[i] = "write"
     THEN /\ file' = [file EXCEPT ![offset[i]] =
                        CASE freed -> "freed"
                          [] ~freed /\ buffer[i] = "reversed" -> "whole"
                          [] OTHER -> buffer[i]]
          /\ written' = written + 1
     ELSE UNCHANGED <<file, written>>
  /\ UNCHANGED <<work, locals, pc, op, offset, freed>>

\* An I/O error.
FailRequest(i) ==
  /\ status[i] = "queued" /\ ~Ended
  /\ status' = [status EXCEPT ![i] = "failed"]
  /\ UNCHANGED <<work, locals, pc, op, offset, buffer, freed, file, written>>

Sigint ==
  /\ work /\ ~Ended
  /\ work' = FALSE
  /\ UNCHANGED <<locals, pc, aio, buffer, freed, file, written>>

ReadFirst == TestRead0 \/ Read0 \/ Suspend0
Round == \/ For \/ TestWrite \/ Write \/ TestRead \/ Read \/ Reverse \/ Reversed
         \/ TestSync \/ SyncWrite \/ Fsync \/ SyncFsync \/ Wait \/ EndRound
WriteLast == \/ LastReverse \/ LastReversed \/ TestLastWrite \/ LastWrite \/ LastWait

ArchunixNext == \/ ReadFirst \/ Round \/ WriteLast \/ Cleanup \/ Refused \/ Sigint
        \/ \E i \in Buffers : Complete(i) \/ FailRequest(i)

ArchunixSpec == ArchunixInit /\ [][ArchunixNext]_archunixVars

-----------------------------------------------------------------------------
\* The types of the variables.
ArchunixTypeOK ==
  /\ work \in BOOLEAN /\ k \in 1..MaxK
  /\ pc \in {"read0", "aio_read0", "suspend0", "for", "write", "aio_write", "read",
             "aio_read", "reverse", "reversing", "sync", "syncwrite", "fsync",
             "syncfsync", "wait", "next", "lastreverse", "lastreversing", "lastwrite",
             "aio_lastwrite", "lastwait", "cleanup", "ended", "error"}
  /\ curpos \in Buffers /\ j \in 0..(MaxK - 1)
  /\ index \in Blocks \X Blocks
  /\ status \in [Buffers -> {"idle", "queued", "done", "failed"}]
  /\ op \in [Buffers -> {"none", "read", "write", "fsync"}]
  /\ offset \in [Buffers -> Blocks]
  /\ buffer \in [Buffers -> {"zero", "plain", "half", "reversed"}]
  /\ freed \in BOOLEAN
  /\ file \in [Blocks -> {"whole", "zero", "plain", "half", "reversed", "freed"}]
  /\ written \in 0..MaxK

InFlight(i, o) == status[i] = "queued" /\ op[i] = o

\* No block of the file is read while it is being written (lines 170-174), so
\* what a read returns is one block and not parts of two.
NoBlockRace ==
  \A i, m \in Buffers : InFlight(i, "read") /\ InFlight(m, "write") => offset[i] # offset[m]

\* As long as SIGINT has not come, a control block is used again only after its
\* last request has ended and been collected (lines 103-129).
FreshControlBlocks ==
  [][\A i \in Buffers :
        /\ work /\ status'[i] = "queued"
        /\ <<status[i], op[i], offset[i]>>' # <<status[i], op[i], offset[i]>>
        => status[i] = "idle"]_archunixVars

\* The file holds whole blocks, each reversed once since it was read, wherever
\* SIGINT meets the program (lines 112-119, 151-160); only a write that SIGINT
\* found in flight and cleanup could not cancel may write a freed buffer.
WholeBlocks ==
  /\ \A b \in Blocks : file[b] = "whole" \/ (file[b] = "freed" /\ ~work)
  /\ work /\ pc = "reverse" => buffer[SHIFT(curpos, 1)] = "plain"
  /\ work /\ pc = "lastreverse" => buffer[curpos] = "plain"

\* Without SIGINT and I/O errors nothing is in flight when the buffers are freed
\* (lines 145-146), and k - 1 blocks have been written, one for k = 1.
AllWritten ==
  (pc = "ended" /\ work) =>
    /\ \A i \in Buffers : status[i] = "idle"
    /\ written = IF k = 1 THEN 1 ELSE k - 1
=============================================================================
