------------------------------ MODULE Newspaper ------------------------------
(***************************************************************************)
(* The newspaper of L2_2_Graded: reporters (reporter.c) put articles into a*)
(* POSIX message queue and leave for another newspaper when it is full; the*)
(* editor (editor.c) polls the queue, gathers articles in an array and     *)
(* prints the array each time it is complete.  SIGUSR1 puts the editor to  *)
(* sleep and wakes it up, SIGINT ends it.  It may also be killed, which    *)
(* leaves the queue behind, and be started again.                          *)
(*                                                                         *)
(* The queue is non-blocking on both sides; all messages have the same     *)
(* priority, so it is first in, first out.  An article is a pair of its    *)
(* reporter and the number of its line.                                    *)
(***************************************************************************)
EXTENDS Naturals, Sequences

CONSTANTS Reporters,
          LINES,        \* lines that a reporter reads
          MAXMSG,       \* mq_maxmsg of the queue
          BATCH,        \* articles in the editor's array
          MaxToggles,   \* bound: SIGUSR1s
          MaxKills      \* bound: times the editor is killed

ASSUME NewspaperAssumption ==
  /\ LINES \in Nat \ {0} /\ MAXMSG \in Nat \ {0} /\ BATCH \in Nat \ {0}
  /\ MaxToggles \in Nat /\ MaxKills \in Nat

Article == Reporters \X (1..LINES)
None == <<>>            \* a slot of the array that was never written

VARIABLES
  queue, linked,                  \* the messages; does the name exist
  editor, articles, offset,       \* the editor's position and variables
  sigusr1_rec, sigint_rec,
  reporter, lines,                \* each reporter's position and variable
  accepted, printed,              \* history: what mq_send took, what was printed
  takenAsleep, toggles, kills     \* history: receives since it fell asleep

queueVars == <<queue, linked>>
editorVars == <<editor, articles, offset, sigusr1_rec, sigint_rec, printed, takenAsleep>>
reporterVars == <<reporter, lines, accepted>>
newsVars == <<queueVars, editorVars, reporterVars, toggles, kills>>

NewsInit ==
  /\ queue = <<>> /\ linked = FALSE
  /\ editor = "start" /\ articles = [i \in 0..(BATCH - 1) |-> None] /\ offset = 0
  /\ sigusr1_rec = FALSE /\ sigint_rec = FALSE
  /\ reporter = [r \in Reporters |-> "open"] /\ lines = [r \in Reporters |-> LINES]
  /\ accepted = <<>> /\ printed = <<>>
  /\ takenAsleep = 0 /\ toggles = 0 /\ kills = 0

Alive == editor \in {"test", "asleep?", "receive", "count", "unlink"}

-----------------------------------------------------------------------------
(* The editor.                                                             *)

\* open_create_queue: O_CREAT without O_EXCL opens the queue that a killed
\* editor left, as it is.
Start ==
  /\ editor = "start"
  /\ linked' = TRUE /\ UNCHANGED queue
  /\ editor' = "test"
  /\ UNCHANGED <<articles, offset, sigusr1_rec, sigint_rec, printed, takenAsleep,
                 reporterVars, toggles, kills>>

\* while (!sigint_rec); afterwards the queue is closed and unlinked.
TestSigint ==
  /\ editor = "test"
  /\ editor' = IF sigint_rec THEN "unlink" ELSE "asleep?"
  /\ UNCHANGED <<queueVars, articles, offset, sigusr1_rec, sigint_rec, printed, takenAsleep,
                 reporterVars, toggles, kills>>

\* The continue of an editor that is asleep.
TestSleep ==
  /\ editor = "asleep?"
  /\ editor' = IF sigusr1_rec THEN "test" ELSE "receive"
  /\ UNCHANGED <<queueVars, articles, offset, sigusr1_rec, sigint_rec, printed, takenAsleep,
                 reporterVars, toggles, kills>>

\* offset >= 9.
LastSlot(o) == o >= BATCH - 1

\* offset = -1 before offset++, and a reset to 0 before it.
NextOffsetFromOne(o) == IF LastSlot(o) THEN 0 + 1 ELSE o + 1
NextOffset(o) == IF LastSlot(o) THEN 0 ELSE o + 1

\* A message goes to articles[offset]; lines 120-128 are still to come.
Receive ==
  /\ editor = "receive" /\ queue # <<>>
  /\ articles' = [articles EXCEPT ![offset] = Head(queue)]
  /\ queue' = Tail(queue)
  /\ takenAsleep' = IF sigusr1_rec THEN takenAsleep + 1 ELSE takenAsleep
  /\ editor' = "count"
  /\ UNCHANGED <<linked, offset, sigusr1_rec, sigint_rec, printed, reporterVars,
                 toggles, kills>>

\* The last slot prints them all, as one line; offset moves on.  An editor
\* that did not go back through its tests would read on.
ReadOn == "receive"
NextRound == "test"

Count ==
  /\ editor = "count"
  /\ printed' = IF LastSlot(offset)
                THEN printed \o [i \in 1..BATCH |-> articles[i - 1]]
                ELSE printed
  /\ offset' = NextOffset(offset)
  /\ editor' = NextRound
  /\ UNCHANGED <<queueVars, articles, sigusr1_rec, sigint_rec, takenAsleep, reporterVars,
                 toggles, kills>>

\* EAGAIN.
ReceiveNothing ==
  /\ editor = "receive" /\ queue = <<>>
  /\ editor' = "test"
  /\ UNCHANGED <<queueVars, articles, offset, sigusr1_rec, sigint_rec, printed, takenAsleep,
                 reporterVars, toggles, kills>>

Unlink ==
  /\ editor = "unlink"
  /\ linked' = FALSE
  /\ editor' = "ended"
  /\ UNCHANGED <<queue, articles, offset, sigusr1_rec, sigint_rec, printed, takenAsleep,
                 reporterVars, toggles, kills>>

Sigusr1 ==
  /\ Alive /\ toggles < MaxToggles
  /\ sigusr1_rec' = ~sigusr1_rec
  /\ takenAsleep' = 0
  /\ toggles' = toggles + 1
  /\ UNCHANGED <<queueVars, editor, articles, offset, sigint_rec, printed, reporterVars, kills>>

EditorSigint ==
  /\ Alive
  /\ sigint_rec' = TRUE
  /\ UNCHANGED <<queueVars, editor, articles, offset, sigusr1_rec, printed, takenAsleep,
                 reporterVars, toggles, kills>>

\* The process is killed, from outside or by its own ERR: its variables are
\* gone and the queue stays; another run starts from the beginning.
KillEditor ==
  /\ Alive /\ kills < MaxKills
  /\ kills' = kills + 1
  /\ editor' = "start"
  /\ articles' = [i \in 0..(BATCH - 1) |-> None] /\ offset' = 0
  /\ sigusr1_rec' = FALSE /\ sigint_rec' = FALSE /\ takenAsleep' = 0
  /\ UNCHANGED <<queueVars, printed, reporterVars, toggles>>

-----------------------------------------------------------------------------
(* The reporters.                                                          *)

\* open_queue: without the name it is ENOENT and the reporter exits.
Open(r) ==
  /\ reporter[r] = "open"
  /\ reporter' = [reporter EXCEPT ![r] = IF linked THEN "write" ELSE "ended"]
  /\ UNCHANGED <<queueVars, editorVars, lines, accepted, toggles, kills>>

\* A line is read and sent; the last of LINES ends the loop.
Send(r) ==
  /\ reporter[r] = "write" /\ Len(queue) < MAXMSG
  /\ LET article == <<r, LINES - lines[r] + 1>>
     IN  queue' = Append(queue, article) /\ accepted' = Append(accepted, article)
  /\ lines' = [lines EXCEPT ![r] = @ - 1]
  /\ reporter' = [reporter EXCEPT ![r] = IF lines[r] = 1 THEN "ended" ELSE "write"]
  /\ UNCHANGED <<linked, editorVars, toggles, kills>>

\* EAGAIN: lines = 0.
Depart(r) ==
  /\ reporter[r] = "write" /\ Len(queue) = MAXMSG
  /\ lines' = [lines EXCEPT ![r] = 0]
  /\ reporter' = [reporter EXCEPT ![r] = "ended"]
  /\ UNCHANGED <<queueVars, editorVars, accepted, toggles, kills>>

EditorStep == Start \/ TestSigint \/ TestSleep \/ Receive \/ Count \/ ReceiveNothing \/ Unlink
Signals == Sigusr1 \/ EditorSigint \/ KillEditor
ReporterStep(r) == Open(r) \/ Send(r) \/ Depart(r)

NewsNext == EditorStep \/ Signals \/ \E r \in Reporters : ReporterStep(r)

NewsSpec == NewsInit /\ [][NewsNext]_newsVars

-----------------------------------------------------------------------------
\* The types of the variables and the capacity of the queue.
NewsTypeOK ==
  /\ queue \in Seq(Article) /\ Len(queue) <= MAXMSG /\ linked \in BOOLEAN
  /\ editor \in {"start", "test", "asleep?", "receive", "count", "unlink", "ended"}
  /\ articles \in [0..(BATCH - 1) -> Article \cup {None}]
  /\ offset \in 0..(BATCH - 1)
  /\ sigusr1_rec \in BOOLEAN /\ sigint_rec \in BOOLEAN
  /\ reporter \in [Reporters -> {"open", "write", "ended"}]
  /\ lines \in [Reporters -> 0..LINES]
  /\ accepted \in Seq(Article) /\ printed \in Seq(Article)

\* The articles in the array: those counted, and the one just received.
Held == IF editor = "count" THEN offset + 1 ELSE offset
Gathered == [i \in 1..Held |-> articles[i - 1]]
InHand == printed \o Gathered \o queue

\* Every article that mq_send accepted is printed, gathered or queued, once
\* and in the order of acceptance: the array (lines 118-128) never skips,
\* overwrites or repeats a slot.  A killed editor loses the array, at most
\* BATCH articles (all of them, if it is killed after the last receive and
\* before line 123), and nothing of the queue (line 69).
NothingLost ==
  /\ kills = 0 => accepted = InHand
  /\ Len(accepted) <= Len(InHand) + kills * BATCH

\* An editor that has been put to sleep (line 113) takes at most one more
\* article, for which it had passed the test.
AsleepTakesOne == takenAsleep <= 1
=============================================================================
