-------------------------------- MODULE Ring --------------------------------
(***************************************************************************)
(* Lab2_1/test2.c: CORNERS processes in a ring of pipes pass a number round*)
(* and change it on the way.  Who receives 0 leaves; his neighbours find a *)
(* broken pipe and leave too.  Lab2_1/test.c is the ring of two that passes*)
(* a string and takes a character off it each time; its empty string is 0. *)
(*                                                                         *)
(* Process p reads pipe p; the primary is the last one.  A fork copies     *)
(* every descriptor, so whether a pipe is broken depends on who has closed *)
(* what: rd and wr are the ends each process holds.  Any process may be    *)
(* killed.                                                                 *)
(***************************************************************************)
EXTENDS Naturals, Sequences, FiniteSets

CONSTANTS CORNERS, Messages, First, Varied(_), MaxKills   \* MaxKills: bound

ASSUME RingAssumption ==
  /\ CORNERS \in Nat /\ CORNERS > 1
  /\ First \in Messages
  /\ \A m \in Messages \ {0} : Varied(m) \subseteq Messages

Procs   == 0..(CORNERS - 1)
Primary == CORNERS - 1
Out(p)  == IF p = Primary THEN 0 ELSE p + 1

VARIABLES
  pipe,      \* the messages in each pipe
  rd, wr,    \* the read and write ends each process holds
  at, held,  \* each process: its position and its variable `message'
  left       \* why it left its loop, as it prints it

ringVars == <<pipe, rd, wr, at, held, left>>

\* vary_int, whose reset at SAFETY_BOUND gives 1: any value, 0 included.
VaryInt(m) == 0..1
\* rm_rand_char: one character less.
RmRandChar(m) == {m - 1}

RingInit ==
  /\ pipe = [i \in Procs |-> <<>>]
  /\ rd = [p \in Procs |-> IF p = Primary THEN Procs ELSE {}] /\ wr = rd
  /\ at = [p \in Procs |-> IF p = Primary THEN "fork" ELSE "unborn"]
  /\ held = [p \in Procs |-> First]
  /\ left = [p \in Procs |-> "no"]

HasReader(i) == \E p \in Procs : i \in rd[p]
HasWriter(i) == \E p \in Procs : i \in wr[p]

Fork(k) ==
  /\ at[Primary] = "fork" /\ at[k] = "unborn"
  /\ \A j \in 0..(k - 1) : at[j] # "unborn"
  /\ rd' = [rd EXCEPT ![k] = rd[Primary]]
  /\ wr' = [wr EXCEPT ![k] = wr[Primary]]
  /\ at' = [at EXCEPT ![k] = "close",
                      ![Primary] = IF k = Primary - 1 THEN "close" ELSE "fork"]
  /\ UNCHANGED <<pipe, held, left>>

\* The write end that close_other_pipes spares, and plausible mistakes: the
\* process's own pipe stays open too, or none does.
KeptWithOwn(p)  == {p, Out(p)}
KeptNone(p)     == {}
KeptWriteEnd(p) == {Out(p)}

\* The descriptors are closed one at a time (test2.c lines 40-49), here in one
\* step: an end that is still held puts off an end of file, or EPIPE, of the
\* others, as all the ends do that the process holds at "close".
CloseOthers(p) ==
  /\ at[p] = "close"
  /\ rd' = [rd EXCEPT ![p] = {p}]
  /\ wr' = [wr EXCEPT ![p] = KeptWriteEnd(p)]
  /\ at' = [at EXCEPT ![p] = IF p = Primary THEN "start" ELSE "read"]
  /\ UNCHANGED <<pipe, held, left>>

\* write_to_pipe: shorter than PIPE_BUF, so written whole.
Written(p) == [pipe EXCEPT ![Out(p)] = Append(@, held[p])]

\* The first message; the result of write_to_pipe is not looked at.
Start ==
  /\ at[Primary] = "start"
  /\ pipe' = IF HasReader(Out(Primary)) THEN Written(Primary) ELSE pipe
  /\ at' = [at EXCEPT ![Primary] = "read"]
  /\ UNCHANGED <<rd, wr, held, left>>

LeaveLoop(p, why) ==
  /\ left' = [left EXCEPT ![p] = why]
  /\ at' = [at EXCEPT ![p] = "leave"]

Receive(p) ==
  /\ at[p] = "read" /\ pipe[p] # <<>>
  /\ pipe' = [pipe EXCEPT ![p] = Tail(@)]
  /\ IF Head(pipe[p]) = 0
       THEN LeaveLoop(p, "zero") /\ UNCHANGED held
       ELSE /\ \E m \in Varied(Head(pipe[p])) : held' = [held EXCEPT ![p] = m]
            /\ at' = [at EXCEPT ![p] = "write"]
            /\ UNCHANGED left
  /\ UNCHANGED <<rd, wr>>

\* read returns 0: no message and nobody who could write one.
BrokenOnRead(p) ==
  /\ at[p] = "read" /\ pipe[p] = <<>> /\ ~HasWriter(p)
  /\ LeaveLoop(p, "eof")
  /\ UNCHANGED <<pipe, rd, wr, held>>

Send(p) ==
  /\ at[p] = "write" /\ HasReader(Out(p))
  /\ pipe' = Written(p)
  /\ at' = [at EXCEPT ![p] = "read"]
  /\ UNCHANGED <<rd, wr, held, left>>

\* SIGPIPE is ignored, write fails with EPIPE.
BrokenOnWrite(p) ==
  /\ at[p] = "write" /\ ~HasReader(Out(p))
  /\ LeaveLoop(p, "epipe")
  /\ UNCHANGED <<pipe, rd, wr, held>>

\* close(rd), close(wr); a child ends, the primary waits for the children.
Close(p) ==
  /\ at[p] = "leave"
  /\ rd' = [rd EXCEPT ![p] = {}] /\ wr' = [wr EXCEPT ![p] = {}]
  /\ at' = [at EXCEPT ![p] = IF p = Primary THEN "wait" ELSE "done"]
  /\ UNCHANGED <<pipe, held, left>>

Wait ==
  /\ at[Primary] = "wait"
  /\ \A p \in Procs \ {Primary} : at[p] = "done"
  /\ at' = [at EXCEPT ![Primary] = "done"]
  /\ UNCHANGED <<pipe, rd, wr, held, left>>

Kill(p) ==
  /\ at[p] \notin {"unborn", "done"}
  /\ Cardinality({q \in Procs : left[q] = "killed"}) < MaxKills
  /\ rd' = [rd EXCEPT ![p] = {}] /\ wr' = [wr EXCEPT ![p] = {}]
  /\ at' = [at EXCEPT ![p] = "done"] /\ left' = [left EXCEPT ![p] = "killed"]
  /\ UNCHANGED <<pipe, held>>

RingStep(p) ==
  \/ CloseOthers(p) \/ Receive(p) \/ BrokenOnRead(p)
  \/ Send(p) \/ BrokenOnWrite(p) \/ Close(p)
PrimaryStep == Start \/ Wait \/ \E k \in Procs \ {Primary} : Fork(k)

RingNext == PrimaryStep \/ \E p \in Procs : RingStep(p) \/ Kill(p)

RingSpec == RingInit /\ [][RingNext]_ringVars

-----------------------------------------------------------------------------
\* The types of the variables.
RingTypeOK ==
  /\ pipe \in [Procs -> Seq(Messages)]
  /\ rd \in [Procs -> SUBSET Procs] /\ wr \in [Procs -> SUBSET Procs]
  /\ at \in [Procs -> {"unborn", "fork", "close", "start", "read", "write",
                       "leave", "wait", "done"}]
  /\ held \in [Procs -> Messages]
  /\ left \in [Procs -> {"no", "zero", "eof", "epipe", "killed"}]

\* There is one message (the primary alone writes a first one, line 131): it is
\* in one pipe, or with the one process between its read and its write.
OneMessage ==
  /\ \A i \in Procs : Len(pipe[i]) <= 1
  /\ \A i, j \in Procs : pipe[i] # <<>> /\ pipe[j] # <<>> => i = j
  /\ \A p, q \in Procs : at[p] = "write" /\ at[q] = "write" => p = q
  /\ \A i, p \in Procs : pipe[i] # <<>> => at[p] # "write"

\* A process reports a broken pipe on read (line 138) only if somebody has
\* received a 0 or was killed, whatever has been closed so far, and on write
\* (line 150) only if somebody was killed.
FirstCause ==
  /\ (\E p \in Procs : left[p] = "eof") => \E q \in Procs : left[q] \in {"zero", "killed"}
  /\ (\E p \in Procs : left[p] = "epipe") => \E q \in Procs : left[q] = "killed"

RingOver == \A p \in Procs : at[p] \in {"unborn", "done"}

\* When one process has left, all leave: no forgotten descriptor keeps a
\* read from ending (lines 40-49, 136-157).
RingEnds == (\E p \in Procs : left[p] # "no") ~> RingOver
=============================================================================
