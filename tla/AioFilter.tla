------------------------------ MODULE AioFilter ------------------------------
(***************************************************************************)
(* Lab4/test.c: the blocks of a file, and what remains after them, are read*)
(* one after another by aio_read; when a read has ended, a notification    *)
(* thread alters the buffer, writes it back and sends SIGIO to main, which *)
(* waits for that before it moves both offsets on.  main and the thread    *)
(* share the buffer, ta and the file without a lock.                       *)
(*                                                                         *)
(* A block is its number and whether it is altered.  Offsets count blocks; *)
(* SIGIO is blocked in main outside sigsuspend.  Sizes are left out: a file*)
(* whose remainder is larger than a block (line 82, where the buffer of    *)
(* line 49 is blocksize long) is outside what the module claims.           *)
(***************************************************************************)
EXTENDS Naturals

CONSTANT NBlocks          \* argument n; the remainder is block n

ASSUME FilterAssumption == NBlocks \in Nat

FileBlocks == 0..NBlocks
Garbage == <<NBlocks + 1, "plain">>    \* a buffer fresh from malloc

VARIABLES
  reader, current,         \* main's position and loop variable
  sigio_rec, sigio,        \* the handler's flag; is SIGIO pending
  request, aio_offset,     \* the control block: state of its request, offset
  notifier, ta_offset, seek, \* the thread: position, ta->offset, the file's offset
  block, contents,         \* buffer and file
  misread                  \* history: a read has failed

filterVars == <<reader, current, sigio_rec, sigio, request, aio_offset, notifier,
                ta_offset, seek, block, contents, misread>>

FilterInit ==
  /\ reader = "read" /\ current = 0
  /\ sigio_rec = FALSE /\ sigio = FALSE
  /\ request = "idle" /\ aio_offset = 0
  /\ notifier = "none" /\ ta_offset = 0 /\ seek = 0
  /\ block = Garbage /\ contents = [b \in FileBlocks |-> <<b, "plain">>]
  /\ misread = FALSE

ProcessLives == reader \notin {"ended", "error"}

\* aio_read, whose refusal nobody looks at: then main waits for ever.
AioRead ==
  /\ reader = "read"
  /\ request' \in {"queued", "refused"}
  /\ reader' = "wait"
  /\ UNCHANGED <<current, sigio_rec, sigio, aio_offset, notifier, ta_offset, seek, block,
                 contents, misread>>

\* while (sigio_rec == 0) sigsuspend.
Sigsuspend ==
  /\ reader = "wait" /\ ~sigio_rec /\ sigio
  /\ sigio' = FALSE /\ sigio_rec' = TRUE
  /\ UNCHANGED <<reader, current, request, aio_offset, notifier, ta_offset, seek, block,
                 contents, misread>>

Waited ==
  /\ reader = "wait" /\ sigio_rec
  /\ reader' = "suspend"
  /\ UNCHANGED <<current, sigio_rec, sigio, request, aio_offset, notifier, ta_offset, seek,
                 block, contents, misread>>

\* suspend: a failed request is an error; after the remainder the program ends.
SuspendRead ==
  /\ reader = "suspend" /\ request \in {"done", "failed"}
  /\ reader' = IF request = "failed" THEN "error"
               ELSE IF current = NBlocks THEN "ended" ELSE "next"
  /\ request' = "idle"
  /\ UNCHANGED <<current, sigio_rec, sigio, aio_offset, notifier, ta_offset, seek, block,
                 contents, misread>>

\* sigio_rec = 0, and its omission.
SigioKept == sigio_rec
SigioReset == FALSE

NextBlock ==
  /\ reader = "next"
  /\ sigio_rec' = SigioReset
  /\ aio_offset' = aio_offset + 1 /\ ta_offset' = ta_offset + 1
  /\ current' = current + 1
  /\ reader' = "read"
  /\ UNCHANGED <<sigio, request, notifier, seek, block, contents, misread>>

\* The request ends, well or not, and its notification thread starts.
EndRequest ==
  /\ ProcessLives /\ request = "queued" /\ notifier = "none"
  /\ \/ block' = contents[aio_offset] /\ request' = "done" /\ UNCHANGED misread
     \/ request' = "failed" /\ misread' = TRUE /\ UNCHANGED block
  /\ notifier' = "alter"
  /\ UNCHANGED <<reader, current, sigio_rec, sigio, aio_offset, ta_offset, seek, contents>>

AlterBlock ==
  /\ ProcessLives /\ notifier = "alter"
  /\ block' = <<block[1], "altered">>
  /\ notifier' = "lseek"
  /\ UNCHANGED <<reader, current, sigio_rec, sigio, request, aio_offset, ta_offset, seek,
                 contents, misread>>

Lseek ==
  /\ ProcessLives /\ notifier = "lseek"
  /\ seek' = ta_offset
  /\ notifier' = "write"
  /\ UNCHANGED <<reader, current, sigio_rec, sigio, request, aio_offset, ta_offset, block,
                 contents, misread>>

\* An error of write ends the process.
WriteBlock ==
  /\ ProcessLives /\ notifier = "write"
  /\ \/ contents' = [contents EXCEPT ![seek] = block] /\ notifier' = "kill" /\ UNCHANGED reader
     \/ reader' = "error" /\ UNCHANGED <<contents, notifier>>
  /\ UNCHANGED <<current, sigio_rec, sigio, request, aio_offset, ta_offset, seek, block, misread>>

PthreadKill ==
  /\ ProcessLives /\ notifier = "kill"
  /\ sigio' = TRUE
  /\ notifier' = "none"
  /\ UNCHANGED <<reader, current, sigio_rec, request, aio_offset, ta_offset, seek, block,
                 contents, misread>>

FilterNext ==
  \/ AioRead \/ Sigsuspend \/ Waited \/ SuspendRead \/ NextBlock
  \/ EndRequest \/ AlterBlock \/ Lseek \/ WriteBlock \/ PthreadKill

FilterSpec == FilterInit /\ [][FilterNext]_filterVars

-----------------------------------------------------------------------------
\* The types of the variables.
FilterTypeOK ==
  /\ reader \in {"read", "wait", "suspend", "next", "ended", "error"} /\ current \in FileBlocks
  /\ sigio_rec \in BOOLEAN /\ sigio \in BOOLEAN
  /\ request \in {"idle", "queued", "refused", "done", "failed"}
  /\ aio_offset \in FileBlocks
  /\ notifier \in {"none", "alter", "lseek", "write", "kill"}
  /\ ta_offset \in FileBlocks /\ seek \in FileBlocks
  /\ block \in (0..(NBlocks + 1)) \X {"plain", "altered"}
  /\ contents \in [FileBlocks -> (0..(NBlocks + 1)) \X {"plain", "altered"}]
  /\ misread \in BOOLEAN

\* Every block stays in its place (lines 72-78, 151-152), whatever the order of
\* main and thread; those that main has passed are altered, and with them all
\* when it ends.  Only after a failed read another block is written there.
BlocksInPlace ==
  /\ misread \/ \A b \in FileBlocks : contents[b][1] = b
  /\ \A b \in FileBlocks : b < current \/ reader = "ended" => contents[b] = <<b, "altered">>
=============================================================================
