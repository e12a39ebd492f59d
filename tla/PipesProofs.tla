----------------------------- MODULE PipesProofs -----------------------------
(***************************************************************************)
(* Proofs about the programs over pipes.                                   *)
(*                                                                         *)
(* Ring, for every number of corners, every way to change the message and  *)
(* any number of killed processes: typing, one message, and that a broken  *)
(* pipe is never reported without a cause.  A process in its loop holds the*)
(* write end of the next process's pipe and the read end of its own; before*)
(* that it, or the primary for those that are not forked, holds every end  *)
(* (Ends).  So a pipe breaks only behind a process that has left.  Unless  *)
(* somebody was killed the first to leave has taken the only message with  *)
(* it (Silence), and nobody is left to write.                              *)
(*                                                                         *)
(* ChildPipes, for every number of children and of SIGINTs: no letter is   *)
(* lost or answered twice, and what the parent reads after a header is the *)
(* data of the child that wrote it.                                        *)
(***************************************************************************)
EXTENDS Ring, ChildPipes, SequenceTheorems, FunctionTheorems, FiniteSetTheorems, TLAPS

InLoop == {"start", "read", "write", "leave"}

\* The descriptors each process holds, and who is where.
Ends ==
  /\ \A p \in Procs : at[p] \in {"fork", "start", "wait"} => p = Primary
  /\ \A p \in Procs : at[p] \in {"fork", "close"} => rd[p] = Procs /\ wr[p] = Procs
  /\ \A p \in Procs : at[p] \in InLoop => rd[p] = {p} /\ wr[p] = {Out(p)}
  /\ \A p \in Procs : at[p] = "unborn" => at[Primary] = "fork" \/ left[Primary] = "killed"
  /\ \A p \in Procs : left[p] = "no" <=> at[p] \notin {"leave", "wait", "done"}

Nothing == \A p \in Procs : pipe[p] = <<>> /\ at[p] # "write"

\* No message before the primary's first, none after the first to leave.
Silence ==
  /\ at[Primary] \in {"fork", "close", "start"} => Nothing /\ \A q \in Procs : left[q] # "zero"
  /\ (\A q \in Procs : left[q] # "killed") /\ (\E q \in Procs : left[q] # "no") => Nothing

IInv == RingTypeOK /\ OneMessage /\ Ends /\ Silence /\ FirstCause

-----------------------------------------------------------------------------
\* Out maps processes to processes, and every process has a predecessor.
LEMMA Neighbours ==
  /\ Primary \in Procs
  /\ \A p \in Procs : Out(p) \in Procs
  /\ \A i \in Procs : \E p \in Procs : Out(p) = i
<1> USE RingAssumption DEF Procs, Primary, Out
<1>1. Primary \in Procs /\ \A p \in Procs : Out(p) \in Procs
  OBVIOUS
<1>2. ASSUME NEW i \in Procs PROVE \E p \in Procs : Out(p) = i
  <2>1. CASE i = 0
    BY <2>1, <1>1
  <2>2. CASE i # 0
    <3>1. i - 1 \in Procs /\ Out(i - 1) = i
      BY <2>2
    <3> QED BY <3>1
  <2> QED BY <2>1, <2>2
<1> QED BY <1>1, <1>2

\* A pipe without a writer stands behind a process that has left, unless the
\* primary was killed before it forked it.
LEMMA Abandoned ==
  ASSUME IInv, NEW i \in Procs, ~HasWriter(i)
  PROVE  \E q \in Procs : left[q] # "no"
<1>1. PICK p \in Procs : Out(p) = i
  BY Neighbours
<1>2. CASE at[p] = "unborn"
  <2>1. at[Primary] # "fork"
    BY Neighbours DEF IInv, Ends, HasWriter
  <2> QED BY <1>2, <2>1, Neighbours DEF IInv, Ends
<1>3. CASE at[p] # "unborn"
  <2>1. at[p] \notin {"fork", "close"} \cup InLoop
    BY <1>1 DEF IInv, Ends, HasWriter
  <2> QED BY <1>3, <2>1 DEF IInv, RingTypeOK, Ends, InLoop
<1> QED BY <1>2, <1>3

\* A pipe without a reader is that of a process that has left, or that was
\* never forked.
LEMMA Deserted ==
  ASSUME IInv, NEW i \in Procs, ~HasReader(i)
  PROVE  \E q \in Procs : left[q] # "no"
<1>1. CASE at[i] = "unborn"
  <2>1. at[Primary] # "fork"
    BY Neighbours DEF IInv, Ends, HasReader
  <2> QED BY <1>1, <2>1, Neighbours DEF IInv, Ends
<1>2. CASE at[i] # "unborn"
  <2>1. at[i] \notin {"fork", "close"} \cup InLoop
    BY DEF IInv, Ends, HasReader
  <2> QED BY <1>2, <2>1 DEF IInv, RingTypeOK, Ends, InLoop
<1> QED BY <1>1, <1>2

\* Putting the message into an empty ring.
LEMMA Putting ==
  ASSUME RingTypeOK, NEW p \in Procs, \A i \in Procs : pipe[i] = <<>>,
         pipe' = Written(p)
  PROVE  /\ pipe' \in [Procs -> Seq(Messages)]
         /\ \A i \in Procs : i # Out(p) => pipe'[i] = <<>>
         /\ \A i \in Procs : Len(pipe'[i]) <= 1
<1>1. Out(p) \in Procs /\ held[p] \in Messages /\ pipe[Out(p)] = <<>>
  BY Neighbours DEF RingTypeOK
<1>2. Append(<<>>, held[p]) \in Seq(Messages) /\ Len(Append(<<>>, held[p])) = 1
  BY <1>1, EmptySeq, AppendProperties
<1>3. Len(<<>>) = 0
  BY EmptySeq
<1> QED BY <1>1, <1>2, <1>3 DEF Written, RingTypeOK

\* Taking the message out leaves the ring empty.
LEMMA Taking ==
  ASSUME IInv, NEW p \in Procs, pipe[p] # <<>>, pipe' = [pipe EXCEPT ![p] = Tail(@)]
  PROVE  /\ Head(pipe[p]) \in Messages
         /\ pipe' \in [Procs -> Seq(Messages)]
         /\ \A i \in Procs : pipe'[i] = <<>> /\ Len(pipe'[i]) = 0
         /\ \A q \in Procs : at[q] # "write"
<1>1. pipe[p] \in Seq(Messages) /\ Len(pipe[p]) <= 1
  BY DEF IInv, RingTypeOK, OneMessage
<1>2. /\ Head(pipe[p]) \in Messages /\ Tail(pipe[p]) \in Seq(Messages)
      /\ Len(Tail(pipe[p])) = Len(pipe[p]) - 1 /\ Len(pipe[p]) \in Nat
  BY <1>1, HeadTailProperties, LenProperties
<1>3. Len(pipe[p]) # 0
  BY <1>1, EmptySeq
<1>4. Tail(pipe[p]) = <<>>
  BY <1>1, <1>2, <1>3, EmptySeq
<1>5. \A i \in Procs : i # p => pipe[i] = <<>>
  BY DEF IInv, OneMessage
<1>6. pipe \in [Procs -> Seq(Messages)] /\ \A q \in Procs : at[q] # "write"
  BY DEF IInv, RingTypeOK, OneMessage
<1> QED BY <1>2, <1>4, <1>5, <1>6, EmptySeq

\* Leaving the loop keeps the descriptors in order.
LEMMA EndsLeaving ==
  ASSUME IInv, NEW p \in Procs, NEW why \in {"zero", "eof", "epipe"},
         at[p] \in {"read", "write"}, at' = [at EXCEPT ![p] = "leave"],
         left' = [left EXCEPT ![p] = why], UNCHANGED <<rd, wr>>
  PROVE  Ends'
<1>1. /\ at'[p] = "leave" /\ left'[p] = why
      /\ \A q \in Procs : q # p => at'[q] = at[q] /\ left'[q] = left[q]
  BY DEF IInv, RingTypeOK
<1>2. rd[p] = {p} /\ wr[p] = {Out(p)}
  BY DEF IInv, Ends, InLoop
<1>3. \A q \in Procs : at'[q] \in {"fork", "start", "wait"} => q = Primary
  BY <1>1 DEF IInv, Ends
<1>4. \A q \in Procs : at'[q] \in {"fork", "close"} => rd'[q] = Procs /\ wr'[q] = Procs
  BY <1>1 DEF IInv, Ends
<1>5. \A q \in Procs : at'[q] \in InLoop => rd'[q] = {q} /\ wr'[q] = {Out(q)}
  BY <1>1, <1>2 DEF IInv, Ends, InLoop
<1>6. \A q \in Procs : at'[q] = "unborn" => at'[Primary] = "fork" \/ left'[Primary] = "killed"
  <2>1. at[Primary] = "fork" \/ left[Primary] = "killed" => p # Primary
    BY DEF IInv, Ends
  <2> QED BY <1>1, <2>1, Neighbours DEF IInv, Ends
<1>7. \A q \in Procs : left'[q] = "no" <=> at'[q] \notin {"leave", "wait", "done"}
  BY <1>1 DEF IInv, Ends
<1> QED BY <1>3, <1>4, <1>5, <1>6, <1>7 DEF Ends

\* The invariant is inductive.
THEOREM Inductive == RingSpec => []IInv
<1>0. Primary \in Procs
  BY Neighbours
<1> USE <1>0 DEF InLoop, Nothing
<1>1. RingInit => IInv
  <2> SUFFICES ASSUME RingInit PROVE IInv
    OBVIOUS
  <2>1. RingTypeOK /\ OneMessage
    BY EmptySeq, RingAssumption DEF RingInit, RingTypeOK, OneMessage
  <2>2. Ends /\ Silence /\ FirstCause
    BY DEF RingInit, Ends, Silence, FirstCause
  <2> QED BY <2>1, <2>2 DEF IInv
<1>2. IInv /\ [RingNext]_ringVars => IInv'
  <2> SUFFICES ASSUME IInv, [RingNext]_ringVars PROVE IInv'
    OBVIOUS
  <2> USE DEF IInv
  <2>1. ASSUME NEW k \in Procs \ {Primary}, Fork(k) PROVE IInv'
    <3>1. RingTypeOK'
      BY <2>1 DEF Fork, RingTypeOK
    <3>2. OneMessage' /\ Silence' /\ FirstCause'
      BY <2>1 DEF Fork, OneMessage, Silence, FirstCause, RingTypeOK
    <3>3. \A p \in Procs : at'[p] = "unborn" => at'[Primary] = "fork"
      <4>1. k # Primary - 1 => at'[Primary] = "fork"
        BY <2>1 DEF Fork, RingTypeOK
      <4>2. k = Primary - 1 => \A p \in Procs \ {Primary} : p = k \/ p \in 0..(k - 1)
        BY RingAssumption DEF Procs, Primary
      <4>3. \A p \in Procs : at'[p] = "unborn" => p # k /\ p # Primary /\ at[p] = "unborn"
        BY <2>1 DEF Fork, RingTypeOK
      <4> QED BY <2>1, <4>1, <4>2, <4>3 DEF Fork
    <3>4. \A p \in Procs : at'[p] \in {"fork", "start", "wait"} => p = Primary
      BY <2>1 DEF Fork, Ends, RingTypeOK
    <3>5. \A p \in Procs : at'[p] \in {"fork", "close"} => rd'[p] = Procs /\ wr'[p] = Procs
      BY <2>1 DEF Fork, Ends, RingTypeOK
    <3>6. \A p \in Procs : at'[p] \in InLoop => rd'[p] = {p} /\ wr'[p] = {Out(p)}
      BY <2>1 DEF Fork, Ends, RingTypeOK
    <3>7. \A p \in Procs : left'[p] = "no" <=> at'[p] \notin {"leave", "wait", "done"}
      BY <2>1 DEF Fork, Ends, RingTypeOK
    <3>8. Ends'
      BY <3>3, <3>4, <3>5, <3>6, <3>7 DEF Ends
    <3> QED BY <3>1, <3>2, <3>8
  <2>2. ASSUME Start PROVE IInv'
    <3>1. \A i \in Procs : pipe[i] = <<>> /\ at[i] # "write" /\ Len(pipe[i]) <= 1
      BY <2>2 DEF Start, Silence, OneMessage
    <3>2. /\ pipe' \in [Procs -> Seq(Messages)]
          /\ \A i \in Procs : Len(pipe'[i]) <= 1
          /\ \A i \in Procs : i # Out(Primary) => pipe'[i] = <<>>
      BY <2>2, <3>1, Putting DEF Start, RingTypeOK
    <3>3. RingTypeOK' /\ OneMessage'
      BY <2>2, <3>1, <3>2 DEF Start, RingTypeOK, OneMessage
    <3>4. Ends' /\ FirstCause'
      BY <2>2 DEF Start, Ends, FirstCause, RingTypeOK
    <3>5. (\A q \in Procs : left[q] # "killed") => \A q \in Procs : left[q] = "no"
      BY <2>2 DEF Start, Silence, FirstCause, RingTypeOK
    <3>6. Silence'
      BY <2>2, <3>5 DEF Start, Silence, RingTypeOK
    <3> QED BY <3>3, <3>4, <3>6
  <2>3. ASSUME Wait PROVE IInv'
    <3>1. RingTypeOK' /\ OneMessage' /\ Ends'
      BY <2>3 DEF Wait, RingTypeOK, OneMessage, Ends
    <3>2. Silence' /\ FirstCause'
      BY <2>3 DEF Wait, RingTypeOK, Silence, FirstCause
    <3> QED BY <3>1, <3>2
  <2>4. ASSUME NEW p \in Procs, CloseOthers(p) PROVE IInv'
    <3>1. RingTypeOK' /\ OneMessage'
      BY <2>4, Neighbours DEF CloseOthers, KeptWriteEnd, RingTypeOK, OneMessage
    <3>2. Ends'
      BY <2>4 DEF CloseOthers, KeptWriteEnd, RingTypeOK, Ends
    <3>3. Silence' /\ FirstCause'
      BY <2>4 DEF CloseOthers, RingTypeOK, Silence, FirstCause
    <3> QED BY <3>1, <3>2, <3>3
  <2>5. ASSUME NEW p \in Procs, Receive(p) PROVE IInv'
    <3>1. /\ Head(pipe[p]) \in Messages
          /\ pipe' \in [Procs -> Seq(Messages)]
          /\ \A i \in Procs : pipe'[i] = <<>> /\ Len(pipe'[i]) = 0
          /\ \A q \in Procs : at[q] # "write"
      BY <2>5, Taking DEF Receive
    <3>2. at[Primary] \notin {"fork", "close", "start"}
      BY <2>5 DEF Receive, Silence
    <3>3. CASE Head(pipe[p]) = 0
      <4>1. /\ at[p] = "read" /\ at' = [at EXCEPT ![p] = "leave"]
            /\ left' = [left EXCEPT ![p] = "zero"] /\ UNCHANGED <<rd, wr, held>>
        BY <2>5, <3>3 DEF Receive, LeaveLoop
      <4>2. RingTypeOK' /\ OneMessage'
        BY <3>1, <4>1 DEF RingTypeOK, OneMessage
      <4>3. Ends'
        BY <4>1, EndsLeaving
      <4>4. FirstCause'
        <5>1. left'[p] = "zero" /\ \A q \in Procs : q # p => left'[q] = left[q]
          BY <4>1 DEF RingTypeOK
        <5>2. left[p] = "no"
          BY <4>1 DEF Ends
        <5>3. (\E q \in Procs : left'[q] = "epipe") => \E q \in Procs : left[q] = "killed"
          BY <5>1 DEF FirstCause
        <5> QED BY <5>1, <5>2, <5>3 DEF FirstCause
      <4>5. Silence'
        BY <3>1, <3>2, <4>1 DEF RingTypeOK, Silence
      <4> QED BY <4>2, <4>3, <4>4, <4>5
    <3>4. CASE Head(pipe[p]) # 0
      <4>1. (\A q \in Procs : left[q] # "killed") => \A q \in Procs : left[q] = "no"
        BY <2>5 DEF Receive, Silence
      <4>2. PICK m \in Varied(Head(pipe[p])) : held' = [held EXCEPT ![p] = m]
        BY <2>5, <3>4 DEF Receive
      <4>3. m \in Messages
        BY <3>1, <3>4, <4>2, RingAssumption
      <4>4. /\ at[p] = "read" /\ at' = [at EXCEPT ![p] = "write"]
            /\ UNCHANGED <<rd, wr, left>>
        BY <2>5, <3>4 DEF Receive
      <4>5. RingTypeOK'
        BY <3>1, <4>2, <4>3, <4>4 DEF RingTypeOK
      <4>6. OneMessage'
        BY <3>1, <4>4 DEF RingTypeOK, OneMessage
      <4>7. Ends' /\ FirstCause'
        BY <4>4 DEF RingTypeOK, Ends, FirstCause
      <4>8. Silence'
        BY <3>2, <4>1, <4>4 DEF RingTypeOK, Silence
      <4> QED BY <4>5, <4>6, <4>7, <4>8
    <3> QED BY <3>3, <3>4
  <2>6. ASSUME NEW p \in Procs, BrokenOnRead(p) PROVE IInv'
    <3>1. PICK q \in Procs : left[q] # "no"
      BY <2>6, Abandoned DEF BrokenOnRead
    <3>2. PICK r \in Procs : left[r] \in {"zero", "killed"} /\ r # p
      BY <2>6, <3>1 DEF BrokenOnRead, FirstCause, RingTypeOK, Ends
    <3>3. FirstCause'
      <4>1. left'[r] = left[r] /\ \A q2 \in Procs : left'[q2] = "epipe" => left[q2] = "epipe"
        BY <2>6, <3>2 DEF BrokenOnRead, LeaveLoop, RingTypeOK
      <4>2. \A q2 \in Procs : left[q2] = "killed" => left'[q2] = "killed"
        BY <2>6 DEF BrokenOnRead, LeaveLoop, RingTypeOK, Ends
      <4> QED BY <3>2, <4>1, <4>2 DEF FirstCause
    <3>4. /\ at[p] = "read" /\ at' = [at EXCEPT ![p] = "leave"]
          /\ left' = [left EXCEPT ![p] = "eof"] /\ UNCHANGED <<pipe, rd, wr, held>>
      BY <2>6 DEF BrokenOnRead, LeaveLoop
    <3>5. RingTypeOK' /\ OneMessage'
      BY <3>4 DEF RingTypeOK, OneMessage
    <3>6. Ends'
      BY <3>4, EndsLeaving
    <3>7. Silence'
      <4>1. at'[Primary] \in {"fork", "close", "start"} =>
              /\ \A i \in Procs : pipe'[i] = <<>> /\ at'[i] # "write"
              /\ \A i \in Procs : left'[i] # "zero"
        BY <3>4 DEF RingTypeOK, Silence
      <4>2. (\A i \in Procs : left'[i] # "killed") =>
              \A i \in Procs : pipe'[i] = <<>> /\ at'[i] # "write"
        <5>1. (\A i \in Procs : left'[i] # "killed") => \A i \in Procs : left[i] # "killed"
          BY <3>4 DEF RingTypeOK, Ends
        <5> QED BY <3>1, <3>4, <5>1 DEF RingTypeOK, Silence
      <4> QED BY <4>1, <4>2 DEF Silence
    <3> QED BY <3>3, <3>5, <3>6, <3>7
  <2>7. ASSUME NEW p \in Procs, Send(p) PROVE IInv'
    <3>1. \A i \in Procs : pipe[i] = <<>> /\ Len(pipe[i]) <= 1
      BY <2>7 DEF Send, OneMessage
    <3>2. /\ pipe' \in [Procs -> Seq(Messages)]
          /\ \A i \in Procs : Len(pipe'[i]) <= 1
          /\ \A i \in Procs : i # Out(p) => pipe'[i] = <<>>
      BY <2>7, <3>1, Putting DEF Send
    <3>3. RingTypeOK' /\ OneMessage'
      BY <2>7, <3>1, <3>2 DEF Send, RingTypeOK, OneMessage
    <3>4. Ends' /\ FirstCause'
      BY <2>7 DEF Send, Ends, FirstCause, RingTypeOK
    <3>5. Silence'
      BY <2>7 DEF Send, Silence, RingTypeOK
    <3> QED BY <3>3, <3>4, <3>5
  <2>8. ASSUME NEW p \in Procs, BrokenOnWrite(p) PROVE IInv'
    <3>1. PICK q \in Procs : left[q] = "killed" /\ q # p
      BY <2>8, Deserted, Neighbours DEF BrokenOnWrite, Silence, Ends
    <3>2. RingTypeOK' /\ OneMessage' /\ Ends'
      BY <2>8 DEF BrokenOnWrite, LeaveLoop, RingTypeOK, OneMessage, Ends
    <3>3. Silence' /\ FirstCause'
      BY <2>8, <3>1 DEF BrokenOnWrite, LeaveLoop, RingTypeOK, Silence, FirstCause
    <3> QED BY <3>2, <3>3
  <2>9. ASSUME NEW p \in Procs, Close(p) PROVE IInv'
    <3>1. RingTypeOK' /\ OneMessage' /\ Ends'
      BY <2>9 DEF Close, RingTypeOK, OneMessage, Ends
    <3>2. Silence' /\ FirstCause'
      BY <2>9 DEF Close, RingTypeOK, Silence, FirstCause
    <3> QED BY <3>1, <3>2
  <2>10. ASSUME NEW p \in Procs, Kill(p) PROVE IInv'
    <3>1. RingTypeOK' /\ OneMessage' /\ Ends'
      BY <2>10 DEF Kill, RingTypeOK, OneMessage, Ends
    <3>2. Silence' /\ FirstCause'
      BY <2>10 DEF Kill, RingTypeOK, Silence, FirstCause
    <3> QED BY <3>1, <3>2
  <2>11. CASE UNCHANGED ringVars
    <3>1. RingTypeOK' /\ OneMessage' /\ Ends'
      BY <2>11 DEF ringVars, RingTypeOK, OneMessage, Ends
    <3>2. Silence' /\ FirstCause'
      BY <2>11 DEF ringVars, RingTypeOK, Silence, FirstCause
    <3> QED BY <3>1, <3>2
  <2> QED
    BY <2>1, <2>2, <2>3, <2>4, <2>5, <2>6, <2>7, <2>8, <2>9, <2>10, <2>11
       DEF RingNext, PrimaryStep, RingStep
<1> QED BY <1>1, <1>2, PTL DEF RingSpec

-----------------------------------------------------------------------------
\* Types, for every number of corners.
THEOREM RingTypeCorrect == RingSpec => []RingTypeOK
BY Inductive, PTL DEF IInv

\* The ring carries one message (test2.c lines 131-154).
THEOREM RingCarriesOne == RingSpec => []OneMessage
BY Inductive, PTL DEF IInv

\* A broken pipe is reported on read only after a 0 or a kill, on write only
\* after a kill (test2.c lines 136-152).
THEOREM BrokenPipesHaveCause == RingSpec => []FirstCause
BY Inductive, PTL DEF IInv
-----------------------------------------------------------------------------
(***************************************************************************)
(* ChildPipes.  The parent reads two pieces for each answer, and between   *)
(* them the pipe may grow, but it always goes on with the second piece     *)
(* (Pairs); so the letters can be counted (LettersConserved).  Its errno is*)
(* ECHILD only if all children have ended (ErrnoTrue).                     *)
(***************************************************************************)

Pieces == Children \X {"head", "data"}

PipesTypeOK ==
  /\ parent \in {"create", "check", "read", "eintr", "echild", "reset", "data", "done", "killed"}
  /\ sender \in Children \cup {Parent} /\ lastSignal \in BOOLEAN
  /\ fds \subseteq Children
  /\ child \in [Children -> {"none", "forked", "read", "write", "dead"}]
  /\ req \in [Children -> Nat]
  /\ R \in Seq(Pieces)
  /\ pending \subseteq Children \cup {Parent} /\ sigints \in Nat /\ sigchld \in BOOLEAN
  /\ sent \in [Children -> Nat] /\ printed \in [Children -> Nat]

\* Header and data alternate in the common pipe, of the same child; after a
\* header the parent finds that child's data.
Pairs ==
  /\ \A i \in 1..Len(R) : R[i][2] = "head" => i < Len(R) /\ R[i + 1] = <<R[i][1], "data">>
  /\ \A i \in 1..(Len(R) - 1) : R[i][2] = "data" => R[i + 1][2] = "head"
  /\ R # <<>> /\ parent # "data" => R[1][2] = "head"
  /\ parent = "data" => R # <<>> /\ R[1] = <<sender, "data">>

\* A letter needs a signal of its own: one that has come or is still pending.
Owed == (IF Parent \in pending THEN 1 ELSE 0)
        + (IF lastSignal /\ parent # "reset" THEN 1 ELSE 0)
Signalled == \A k \in Children : sent[k] + Owed <= sigints

-----------------------------------------------------------------------------
(* The number of headers in the pipe.                                      *)

Places(s, x) == {i \in DOMAIN s : s[i] = x}

LEMMA PlacesFinite ==
  ASSUME NEW S, NEW s \in Seq(S), NEW x
  PROVE  IsFiniteSet(Places(s, x)) /\ Cardinality(Places(s, x)) \in Nat
<1>1. Len(s) \in Nat /\ Places(s, x) \subseteq 1..Len(s)
  BY LenProperties DEF Places
<1>2. IsFiniteSet(Places(s, x))
  <2>1. IsFiniteSet(1..Len(s))
    BY <1>1, FS_Interval
  <2> QED
    BY <1>1, <2>1, FS_Subset
<1> QED
  BY <1>2, FS_CardinalityType

\* Two pieces more.
LEMMA PlacesAdded ==
  ASSUME NEW S, NEW s \in Seq(S), NEW x, NEW a \in S, NEW b \in S, b # x
  PROVE  Cardinality(Places(s \o <<a, b>>, x)) =
           Cardinality(Places(s, x)) + (IF a = x THEN 1 ELSE 0)
<1> DEFINE t == s \o <<a, b>>
<1>1. <<a, b>> \in Seq(S) /\ Len(<<a, b>>) = 2 /\ Len(s) \in Nat
  BY LenProperties
<1>2. DOMAIN s = 1..Len(s) /\ DOMAIN t = 1..(Len(s) + 2)
  BY <1>1, ConcatProperties, LenProperties
<1>3. /\ \A i \in 1..Len(s) : t[i] = s[i]
      /\ t[Len(s) + 1] = a /\ t[Len(s) + 2] = b
  BY <1>1, ConcatProperties
<1>4. Len(s) + 1 \notin Places(s, x)
  BY <1>1, <1>2 DEF Places
<1> HIDE DEF t
<1>5. Places(t, x) = IF a = x THEN Places(s, x) \cup {Len(s) + 1} ELSE Places(s, x)
  BY <1>1, <1>2, <1>3 DEF Places
<1>6. IsFiniteSet(Places(s, x)) /\ Cardinality(Places(s, x)) \in Nat
  BY PlacesFinite
<1>7. Cardinality(Places(s, x) \cup {Len(s) + 1}) = Cardinality(Places(s, x)) + 1
  BY <1>4, <1>6, FS_AddElement
<1>8. Cardinality(Places(t, x)) = Cardinality(Places(s, x)) + (IF a = x THEN 1 ELSE 0)
  BY <1>5, <1>6, <1>7
<1> QED
  BY <1>8 DEF t

\* The first piece less.
LEMMA PlacesTaken ==
  ASSUME NEW S, NEW s \in Seq(S), s # <<>>, NEW x
  PROVE  Cardinality(Places(s, x)) =
           Cardinality(Places(Tail(s), x)) + (IF s[1] = x THEN 1 ELSE 0)
<1> DEFINE t == Tail(s)
           Later == Places(s, x) \ {1}
           f == [i \in Places(t, x) |-> i + 1]
<1>1. /\ t \in Seq(S) /\ Len(t) = Len(s) - 1 /\ Len(s) \in Nat \ {0}
      /\ \A i \in 1..Len(t) : t[i] = s[i + 1]
  BY HeadTailProperties, EmptySeq
<1>2. DOMAIN s = 1..Len(s) /\ DOMAIN t = 1..Len(t)
  BY <1>1, LenProperties
<1>3. IsFiniteSet(Places(s, x)) /\ IsFiniteSet(Places(t, x))
      /\ Cardinality(Places(s, x)) \in Nat /\ Cardinality(Places(t, x)) \in Nat
  BY <1>1, PlacesFinite
<1> HIDE DEF t
<1>4. f \in Bijection(Places(t, x), Later)
  <2>1. \A i \in Places(t, x) : i \in Nat /\ i + 1 \in Later
    BY <1>1, <1>2 DEF Places
  <2>2. \A m \in Later : m - 1 \in Places(t, x) /\ m \in Nat
    BY <1>1, <1>2 DEF Places
  <2>3. f \in [Places(t, x) -> Later]
    BY <2>1
  <2>4. \A i, m \in Places(t, x) : f[i] = f[m] => i = m
    BY <2>1
  <2>5. \A m \in Later : \E i \in Places(t, x) : f[i] = m
    BY <2>2
  <2> HIDE DEF f, Later
  <2> QED
    BY <2>3, <2>4, <2>5, Fun_IsBij
<1>5. Cardinality(Later) = Cardinality(Places(t, x))
  <2>1. ExistsBijection(Places(t, x), Later)
    BY <1>4 DEF ExistsBijection
  <2> QED
    BY <1>3, <2>1, FS_Bijection
<1>6. Cardinality(Later) = IF 1 \in Places(s, x) THEN Cardinality(Places(s, x)) - 1
                                                  ELSE Cardinality(Places(s, x))
  BY <1>3, FS_RemoveElement
<1>7. 1 \in Places(s, x) <=> s[1] = x
  BY <1>1, <1>2 DEF Places
<1>8. Cardinality(Places(s, x)) = Cardinality(Places(t, x)) + (IF s[1] = x THEN 1 ELSE 0)
  BY <1>3, <1>5, <1>6, <1>7
<1> QED
  BY <1>8 DEF t

-----------------------------------------------------------------------------
\* Where the letters of a child are.
Traced(k) == req[k] + (IF child[k] = "write" THEN 1 ELSE 0) + InR(k)
             + (IF parent = "data" /\ sender = k THEN 1 ELSE 0) + printed[k]
Balance == \A k \in Children :
  IF child[k] = "dead" THEN Traced(k) <= sent[k] /\ sent[k] <= Traced(k) + 1
                       ELSE Traced(k) = sent[k]

PipesInv == PipesTypeOK /\ Pairs /\ Signalled /\ Balance

LEMMA InRIsPlaces == \A k : InR(k) = Cardinality(Places(R, <<k, "head">>))
BY DEF InR, Places

LEMMA InRNat == ASSUME PipesTypeOK, NEW k \in Children PROVE InR(k) \in Nat
BY PlacesFinite, InRIsPlaces DEF PipesTypeOK

\* As long as the parent has its pairs right and R stays as it is.
LEMMA PipeKept ==
  ASSUME Pairs, UNCHANGED <<R, sender>>, parent' = "data" <=> parent = "data"
  PROVE  Pairs' /\ \A k : InR(k)' = InR(k)
BY DEF Pairs, InR

LEMMA BalanceKept ==
  ASSUME PipesTypeOK, Balance, Pairs, UNCHANGED <<R, sender, req, sent, printed>>,
         parent' = "data" <=> parent = "data",
         \A k \in Children : \/ child'[k] = child[k]
                             \/ /\ child'[k] # "write" /\ child[k] # "write"
                                /\ child'[k] # "dead" /\ child[k] # "dead"
                             \/ child'[k] = "dead" 
  PROVE  Pairs' /\ Balance'
<1>1. Pairs' /\ \A k : InR(k)' = InR(k)
  BY PipeKept
<1> SUFFICES ASSUME NEW k \in Children
             PROVE  IF child'[k] = "dead" THEN Traced(k)' <= sent'[k] /\ sent'[k] <= Traced(k)' + 1
                                          ELSE Traced(k)' = sent'[k]
  BY <1>1 DEF Balance
<1>2. InR(k) \in Nat /\ InR(k)' = InR(k) /\ req[k] \in Nat /\ printed[k] \in Nat /\ sent[k] \in Nat
  BY <1>1, InRNat DEF PipesTypeOK
<1>3. IF child[k] = "dead" THEN Traced(k) <= sent[k] /\ sent[k] <= Traced(k) + 1
                           ELSE Traced(k) = sent[k]
  BY DEF Balance
<1>4. CASE child'[k] = child[k]
  BY <1>2, <1>3, <1>4 DEF Traced
<1>5. CASE child'[k] # "write" /\ child[k] # "write" /\ child'[k] # "dead" /\ child[k] # "dead"
  BY <1>2, <1>3, <1>5 DEF Traced
<1>6. CASE child'[k] = "dead" /\ child[k] # "dead"
  BY <1>2, <1>3, <1>6 DEF Traced
<1> QED
  BY <1>4, <1>5, <1>6

\* The parent takes the first piece out.
LEMMA PieceTaken ==
  ASSUME PipesTypeOK, Pairs, R # <<>>, R' = Tail(R),
         parent' = "data" <=> R[1][2] = "head", sender' = R[1][1],
         NEW k \in Children
  PROVE  /\ R[1][1] \in Children /\ Head(R) = R[1] /\ R' \in Seq(Pieces) /\ Pairs'
         /\ InR(k) = InR(k)' + (IF R[1] = <<k, "head">> THEN 1 ELSE 0)
         /\ InR(k)' \in Nat
<1>1. /\ R \in Seq(Pieces) /\ R' \in Seq(Pieces) /\ Len(R') = Len(R) - 1
      /\ Len(R) \in Nat \ {0} /\ \A i \in 1..Len(R') : R'[i] = R[i + 1]
  BY HeadTailProperties, EmptySeq DEF PipesTypeOK
<1>2. R[1] \in Pieces /\ R[1][1] \in Children /\ R[1][2] \in {"head", "data"}
  BY <1>1, ElementOfSeq DEF Pieces
<1>3. R' # <<>> => Len(R') # 0
  BY <1>1, EmptySeq
<1>4. \A i \in 1..Len(R') : R'[i][2] = "head" => i < Len(R') /\ R'[i + 1] = <<R'[i][1], "data">>
  BY <1>1 DEF Pairs
<1>5. \A i \in 1..(Len(R') - 1) : R'[i][2] = "data" => R'[i + 1][2] = "head"
  BY <1>1 DEF Pairs
<1>6. R' # <<>> /\ parent' # "data" => R'[1][2] = "head"
  BY <1>1, <1>2, <1>3 DEF Pairs
<1>7. parent' = "data" => R' # <<>> /\ R'[1] = <<sender', "data">>
  <2>1. R[1][2] = "head" => 1 < Len(R) /\ R[2] = <<R[1][1], "data">>
    BY <1>1 DEF Pairs
  <2>2. R[1][2] = "head" => Len(R') # 0 /\ R'[1] = R[2]
    BY <1>1, <2>1
  <2>3. Len(R') # 0 => R' # <<>>
    BY EmptySeq
  <2> QED
    BY <2>1, <2>2, <2>3
<1>8. Pairs'
  BY <1>4, <1>5, <1>6, <1>7 DEF Pairs
<1>9. InR(k) = InR(k)' + (IF R[1] = <<k, "head">> THEN 1 ELSE 0) /\ InR(k)' \in Nat
  <2>1. Cardinality(Places(R, <<k, "head">>)) =
          Cardinality(Places(Tail(R), <<k, "head">>)) + (IF R[1] = <<k, "head">> THEN 1 ELSE 0)
    BY <1>1, PlacesTaken
  <2>2. InR(k)' = Cardinality(Places(Tail(R), <<k, "head">>))
    BY DEF InR, Places
  <2>3. Cardinality(Places(Tail(R), <<k, "head">>)) \in Nat
    BY <1>1, PlacesFinite
  <2> QED
    BY <2>1, <2>2, <2>3, InRIsPlaces
<1>10. Head(R) = R[1]
  BY <1>1
<1> QED
  BY <1>1, <1>2, <1>8, <1>9, <1>10

\* A child adds a pair.
LEMMA PairAdded ==
  ASSUME PipesTypeOK, Pairs, NEW c \in Children, R' = R \o <<<<c, "head">>, <<c, "data">>>>,
         UNCHANGED <<parent, sender>>, NEW k \in Children
  PROVE  /\ R' \in Seq(Pieces) /\ Pairs'
         /\ InR(k)' = InR(k) + (IF k = c THEN 1 ELSE 0)
<1> DEFINE a == <<c, "head">>
           b == <<c, "data">>
<1>1. a \in Pieces /\ b \in Pieces /\ R \in Seq(Pieces) /\ Len(R) \in Nat
  BY LenProperties DEF Pieces, PipesTypeOK
<1>2. a[1] = c /\ a[2] = "head" /\ b[1] = c /\ b[2] = "data" /\ b # <<k, "head">>
      /\ (a = <<k, "head">> <=> k = c)
  OBVIOUS
<1>3. <<a, b>> \in Seq(Pieces) /\ Len(<<a, b>>) = 2
  BY <1>1
<1>4. /\ R' \in Seq(Pieces) /\ Len(R') = Len(R) + 2
      /\ \A i \in 1..Len(R) : R'[i] = R[i]
      /\ R'[Len(R) + 1] = a /\ R'[Len(R) + 2] = b
  BY <1>1, <1>3, ConcatProperties
<1>14. R' = R \o <<a, b>>
  OBVIOUS
<1> HIDE DEF a, b
<1>5. InR(k)' = InR(k) + (IF k = c THEN 1 ELSE 0)
  <2> DEFINE x == <<k, "head">>
  <2>a. b # x
    BY <1>2
  <2> HIDE DEF x
  <2>b. Cardinality(Places(R \o <<a, b>>, x)) = Cardinality(Places(R, x)) + (IF a = x THEN 1 ELSE 0)
    BY <1>1, <2>a, PlacesAdded
  <2>1. Cardinality(Places(R \o <<a, b>>, <<k, "head">>)) =
          Cardinality(Places(R, <<k, "head">>)) + (IF a = <<k, "head">> THEN 1 ELSE 0)
    BY <2>b DEF x
  <2>2. InR(k)' = Cardinality(Places(R \o <<a, b>>, <<k, "head">>))
    BY <1>14 DEF InR, Places
  <2> QED
    BY <1>2, <2>1, <2>2, InRIsPlaces
<1>6. R = <<>> => Len(R) = 0
  BY EmptySeq
<1>7. Len(R') # 0 /\ (R' = <<>> => Len(R') = 0)
  BY <1>1, <1>4, EmptySeq
<1>8. \A i \in 1..Len(R') : R'[i][2] = "head" => i < Len(R') /\ R'[i + 1] = <<R'[i][1], "data">>
  <2>1. R'[Len(R) + 2] = <<R'[Len(R) + 1][1], "data">> /\ R'[Len(R) + 2][2] # "head"
    BY <1>2, <1>4 DEF b
  <2>2. \A i \in 1..Len(R) : R[i][2] = "head" => i < Len(R) /\ R[i + 1] = <<R[i][1], "data">>
    BY DEF Pairs
  <2>3. \A i \in 1..Len(R') : i \in 1..Len(R) \/ i = Len(R) + 1 \/ i = Len(R) + 2
    BY <1>1, <1>4
  <2>4. \A i \in 1..Len(R) : i < Len(R) => i + 1 \in 1..Len(R)
    BY <1>1
  <2> QED
    BY <1>1, <1>4, <2>1, <2>2, <2>3, <2>4
<1>9. \A i \in 1..(Len(R') - 1) : R'[i][2] = "data" => R'[i + 1][2] = "head"
  <2> SUFFICES ASSUME NEW i \in 1..(Len(R') - 1), R'[i][2] = "data" PROVE R'[i + 1][2] = "head"
    OBVIOUS
  <2>1. CASE i < Len(R)
    <3>1. i \in 1..(Len(R) - 1) /\ R'[i] = R[i] /\ R'[i + 1] = R[i + 1]
      BY <1>1, <1>4, <2>1
    <3> QED
      BY <3>1 DEF Pairs
  <2>2. CASE i = Len(R)
    BY <1>2, <1>4, <2>2
  <2>3. CASE i > Len(R)
    <3>1. i = Len(R) + 1
      BY <1>1, <1>4, <2>3
    <3> QED
      BY <1>2, <1>4, <3>1
  <2> QED
    BY <1>1, <2>1, <2>2, <2>3
<1>10. R # <<>> => R'[1] = R[1]
  BY <1>1, <1>4, EmptySeq
<1>11. R' # <<>> /\ parent' # "data" => R'[1][2] = "head"
  <2>1. CASE R = <<>>
    BY <1>2, <1>4, <1>6, <2>1
  <2>2. CASE R # <<>>
    BY <1>10, <2>2 DEF Pairs
  <2> QED
    BY <2>1, <2>2
<1>12. parent' = "data" => R' # <<>> /\ R'[1] = <<sender', "data">>
  BY <1>7, <1>10 DEF Pairs
<1>13. Pairs'
  BY <1>8, <1>9, <1>11, <1>12 DEF Pairs
<1> QED
  BY <1>4, <1>5, <1>13

LEMMA OwedNat == Owed \in Nat
BY DEF Owed

LEMMA SignalledKept ==
  ASSUME PipesTypeOK, Signalled, sent' = sent, NEW d \in Nat, sigints' = sigints + d,
         Owed' <= Owed + d
  PROVE  Signalled'
<1>1. sigints \in Nat /\ (\A k \in Children : sent[k] \in Nat)
  BY DEF PipesTypeOK
<1>2. Owed \in Nat /\ Owed' \in Nat
  BY DEF Owed
<1>3. ASSUME NEW k \in Children PROVE sent'[k] + Owed' <= sigints'
  <2>1. sent[k] \in Nat /\ sent'[k] = sent[k]
    BY <1>1
  <2>2. sent[k] + Owed <= sigints
    BY DEF Signalled
  <2> HIDE DEF Owed
  <2> QED
    BY <1>1, <1>2, <2>1, <2>2
<1> QED
  BY <1>3 DEF Signalled

\* A handler leaves the parent where it is, or cuts its read short.
LEMMA Interrupted == \A p \in AfterSignal : p = parent \/ (parent = "read" /\ p = "eintr")
BY DEF AfterSignal

\* The count of the letters is inductive: one step per action.
THEOREM PipesInductive == PipesSpec => []PipesInv
<1>1. PipesInit => PipesInv
  <2> SUFFICES ASSUME PipesInit PROVE PipesInv
    OBVIOUS
  <2>1. R = <<>> /\ R \in Seq(Pieces) /\ Len(R) = 0
    BY EmptySeq DEF PipesInit
  <2>2. PipesTypeOK
    BY <2>1 DEF PipesInit, PipesTypeOK
  <2>3. Pairs
    BY <2>1 DEF PipesInit, Pairs
  <2>4. Signalled
    BY DEF PipesInit, Signalled, Owed
  <2>5. \A k : InR(k) = 0
    <3>1. \A k : Places(R, <<k, "head">>) = {}
      BY <2>1, LenProperties DEF Places
    <3> QED
      BY <3>1, InRIsPlaces, FS_EmptySet
  <2>6. Balance
    BY <2>5 DEF PipesInit, Balance, Traced
  <2> QED
    BY <2>2, <2>3, <2>4, <2>6 DEF PipesInv
<1>2. ASSUME PipesInv, [PipesNext]_pipesVars PROVE PipesInv'
  <2> USE <1>2 DEF PipesInv
  <2>1. CASE Sigint
    <3>1. /\ sigints' = sigints + 1 /\ pending \subseteq pending'
          /\ UNCHANGED <<parent, sender, lastSignal, fds, child, req, R, sigchld, sent, printed>>
      BY <2>1 DEF Sigint, parentVars, childVars
    <3>2. pending' \subseteq Children \cup {Parent}
      BY <2>1 DEF Sigint, Catching, PipesTypeOK
    <3>3. PipesTypeOK'
      BY <3>1, <3>2 DEF PipesTypeOK
    <3>4. Pairs' /\ Balance'
      BY <3>1, BalanceKept
    <3>5. Signalled'
      <4>1. Owed' <= Owed + 1
        BY <3>1 DEF Owed
      <4> QED
        BY <3>1, <4>1, SignalledKept
    <3> QED
      BY <3>3, <3>4, <3>5
  <2>2. CASE SigHandler
    <3>1. /\ Parent \in pending /\ pending' = pending \ {Parent} /\ lastSignal' = TRUE
          /\ (parent' = parent \/ (parent = "read" /\ parent' = "eintr"))
          /\ UNCHANGED <<sender, fds, child, req, R, sigints, sigchld, sent, printed>>
      <4>1. parent' \in AfterSignal
        BY <2>2 DEF SigHandler
      <4>2. parent' = parent \/ (parent = "read" /\ parent' = "eintr")
        BY <4>1, Interrupted
      <4> QED
        BY <2>2, <4>2 DEF SigHandler, childVars
    <3>2. PipesTypeOK'
      BY <3>1 DEF PipesTypeOK
    <3>3. Pairs' /\ Balance'
      BY <3>1, BalanceKept
    <3>4. Signalled'
      <4>1. Owed' <= Owed + 0 /\ sigints' = sigints + 0
        BY <3>1 DEF Owed, PipesTypeOK
      <4> QED
        BY <3>1, <4>1, SignalledKept
    <3> QED
      BY <3>2, <3>3, <3>4
  <2>3. ASSUME NEW c \in Children, SigKillme(c) PROVE PipesInv'
    <3>1. /\ pending' = pending \ {c} /\ sigchld' \in {sigchld, TRUE}
          /\ (child' = child \/ child' = [child EXCEPT ![c] = "dead"])
          /\ UNCHANGED <<parent, sender, lastSignal, fds, req, R, sigints, sent, printed>>
      BY <2>3 DEF SigKillme, parentVars
    <3>2. PipesTypeOK'
      BY <3>1 DEF PipesTypeOK
    <3>3. Pairs' /\ Balance'
      <4>1. \A k \in Children : child'[k] = child[k] \/ child'[k] = "dead"
        BY <3>1 DEF PipesTypeOK
      <4> QED
        BY <3>1, <4>1, BalanceKept
    <3>4. Signalled'
      <4>1. Owed' <= Owed + 0 /\ sigints' = sigints + 0
        BY <3>1 DEF Owed, PipesTypeOK
      <4> QED
        BY <3>1, <4>1, SignalledKept
    <3> QED
      BY <3>2, <3>3, <3>4
  <2>4. ASSUME NEW c \in Children, CreateChild(c) \/ ChildReady(c) PROVE PipesInv'
    <3>1. /\ child[c] \in {"none", "forked"} /\ fds' \in {fds, fds \cup {c}}
          /\ \E s \in {"forked", "read"} : child' = [child EXCEPT ![c] = s]
          /\ UNCHANGED <<parent, sender, lastSignal, req, R, pending, sigints, sigchld, sent, printed>>
      BY <2>4 DEF CreateChild, ChildReady, parentVars
    <3>2. PipesTypeOK'
      BY <3>1 DEF PipesTypeOK
    <3>3. Pairs' /\ Balance'
      <4>1. \A k \in Children : \/ child'[k] = child[k]
                                \/ /\ child'[k] # "write" /\ child[k] # "write"
                                   /\ child'[k] # "dead" /\ child[k] # "dead"
        BY <3>1 DEF PipesTypeOK
      <4> QED
        BY <3>1, <4>1, BalanceKept
    <3>4. Signalled'
      BY <3>1 DEF Signalled, Owed
    <3> QED
      BY <3>2, <3>3, <3>4
  <2>5. ASSUME NEW c \in Children, ReadLetter(c) PROVE PipesInv'
    <3>1. /\ child[c] = "read" /\ req[c] > 0
          /\ req' = [req EXCEPT ![c] = @ - 1] /\ child' = [child EXCEPT ![c] = "write"]
          /\ UNCHANGED <<parent, sender, lastSignal, fds, R, pending, sigints, sigchld, sent, printed>>
      BY <2>5 DEF ReadLetter, parentVars
    <3>2. PipesTypeOK'
      BY <3>1 DEF PipesTypeOK
    <3>3. Pairs' /\ \A k : InR(k)' = InR(k)
      BY <3>1, PipeKept
    <3>4. Signalled'
      BY <3>1 DEF Signalled, Owed
    <3>5. ASSUME NEW k \in Children PROVE Traced(k)' = Traced(k) /\ (child'[k] = "dead" <=> child[k] = "dead")
      <4>1. InR(k) \in Nat /\ req[k] \in Nat /\ printed[k] \in Nat
        BY InRNat DEF PipesTypeOK
      <4>2. CASE k = c
        <5>1. req'[k] = req[k] - 1 /\ child'[k] = "write" /\ child[k] = "read"
          BY <3>1, <4>2 DEF PipesTypeOK
        <5> QED
          BY <3>1, <3>3, <4>1, <5>1 DEF Traced
      <4>3. CASE k # c
        <5>1. req'[k] = req[k] /\ child'[k] = child[k]
          BY <3>1, <4>3 DEF PipesTypeOK
        <5> QED
          BY <3>1, <3>3, <5>1 DEF Traced
      <4> QED
        BY <4>2, <4>3
    <3>6. Balance'
      BY <3>1, <3>5 DEF Balance
    <3> QED
      BY <3>2, <3>3, <3>4, <3>6
  <2>6. ASSUME NEW c \in Children, Answer(c) PROVE PipesInv'
    <3>1. /\ child[c] = "write" /\ child' = [child EXCEPT ![c] = "read"]
          /\ R' = R \o <<<<c, "head">>, <<c, "data">>>>
          /\ UNCHANGED <<parent, sender, lastSignal, fds, req, pending, sigints, sigchld, sent, printed>>
      BY <2>6 DEF Answer, parentVars
    <3>2. /\ R' \in Seq(Pieces) /\ Pairs'
          /\ \A k \in Children : InR(k)' = InR(k) + (IF k = c THEN 1 ELSE 0)
      BY <2>6, <3>1, PairAdded
    <3>3. PipesTypeOK'
      BY <3>1, <3>2 DEF PipesTypeOK
    <3>4. Signalled'
      BY <3>1 DEF Signalled, Owed
    <3>5. ASSUME NEW k \in Children PROVE Traced(k)' = Traced(k) /\ (child'[k] = "dead" <=> child[k] = "dead")
      <4>1. InR(k) \in Nat /\ req[k] \in Nat /\ printed[k] \in Nat
        BY InRNat DEF PipesTypeOK
      <4>2. CASE k = c
        <5>1. child'[k] = "read" /\ child[k] = "write"
          BY <3>1, <4>2 DEF PipesTypeOK
        <5>2. InR(k)' = InR(k) + 1
          BY <3>2, <4>2
        <5> DEFINE rest == IF parent = "data" /\ sender = k THEN 1 ELSE 0
        <5>3. Traced(k) = req[k] + 1 + InR(k) + rest + printed[k]
          BY <5>1 DEF Traced
        <5>4. Traced(k)' = req[k] + 0 + InR(k)' + rest + printed[k]
          BY <3>1, <5>1 DEF Traced
        <5>5. rest \in Nat
          OBVIOUS
        <5>6. Traced(k)' = Traced(k)
          <6> HIDE DEF rest
          <6> QED
            BY <4>1, <5>2, <5>3, <5>4, <5>5
        <5> QED
          BY <5>1, <5>6
      <4>3. CASE k # c
        <5>1. child'[k] = child[k]
          BY <3>1, <4>3 DEF PipesTypeOK
        <5> QED
          BY <3>1, <3>2, <4>1, <4>3, <5>1 DEF Traced
      <4> QED
        BY <4>2, <4>3
    <3>6. Balance'
      BY <3>1, <3>5 DEF Balance
    <3> QED
      BY <3>2, <3>3, <3>4, <3>6
  <2>7. CASE StartParent \/ NoSignal \/ NobodyLeft \/ EndOfFile
    <3>1. /\ parent \in {"create", "check", "read"} /\ parent' \in {"check", "read", "reset", "done"}
          /\ UNCHANGED <<sender, lastSignal, fds, child, req, R, pending, sigints, sigchld, sent, printed>>
          /\ parent \in {"create", "check", "read"} => parent # "reset"
      BY <2>7 DEF StartParent, NoSignal, NobodyLeft, EndOfFile, childVars
    <3>2. PipesTypeOK'
      BY <3>1 DEF PipesTypeOK
    <3>3. Pairs' /\ Balance'
      BY <3>1, BalanceKept
    <3>4. Signalled'
      <4>1. Owed' <= Owed + 0 /\ sigints' = sigints + 0
        BY <3>1 DEF Owed, PipesTypeOK
      <4> QED
        BY <3>1, <4>1, SignalledKept
    <3> QED
      BY <3>2, <3>3, <3>4
  <2>8. ASSUME NEW c \in Children, SendLetter(c) PROVE PipesInv'
    <3>1. /\ parent = "check" /\ parent' = "reset" /\ lastSignal = TRUE /\ fds' \subseteq fds
          /\ UNCHANGED <<sender, lastSignal, child, R, pending, sigints, sigchld, printed>>
          /\ \/ child[c] = "dead" /\ UNCHANGED <<req, sent>>
             \/ /\ child[c] # "dead"
                /\ req' = [req EXCEPT ![c] = @ + 1] /\ sent' = [sent EXCEPT ![c] = @ + 1]
      BY <2>8 DEF SendLetter, PipesTypeOK
    <3>2. PipesTypeOK'
      <4>1. /\ req \in [Children -> Nat] /\ req[c] + 1 \in Nat
            /\ sent \in [Children -> Nat] /\ sent[c] + 1 \in Nat
        BY DEF PipesTypeOK
      <4>2. req' \in [Children -> Nat]
        BY <3>1, <4>1
      <4>3. sent' \in [Children -> Nat]
        BY <3>1, <4>1
      <4> QED
        BY <3>1, <4>2, <4>3 DEF PipesTypeOK
    <3>3. Pairs' /\ \A k : InR(k)' = InR(k)
      BY <3>1, PipeKept
    <3>4. Signalled'
      <4>1. Owed = Owed' + 1 /\ Owed' \in Nat
        BY <3>1 DEF Owed
      <4>2. \A k \in Children : sent[k] \in Nat /\ (sent'[k] = sent[k] \/ sent'[k] = sent[k] + 1)
        BY <3>1 DEF PipesTypeOK
      <4>3. sigints' = sigints /\ sigints \in Nat
        BY <3>1 DEF PipesTypeOK
      <4>4. ASSUME NEW k \in Children PROVE sent'[k] + Owed' <= sigints'
        <5>1. sent[k] + Owed <= sigints
          BY DEF Signalled
        <5> QED
          BY <4>1, <4>2, <4>3, <5>1
      <4> QED
        BY <4>4 DEF Signalled
    <3>5. ASSUME NEW k \in Children
          PROVE  IF child'[k] = "dead" THEN Traced(k)' <= sent'[k] /\ sent'[k] <= Traced(k)' + 1
                                       ELSE Traced(k)' = sent'[k]
      <4>1. InR(k) \in Nat /\ req[k] \in Nat /\ printed[k] \in Nat /\ sent[k] \in Nat
        BY InRNat DEF PipesTypeOK
      <4>2. IF child[k] = "dead" THEN Traced(k) <= sent[k] /\ sent[k] <= Traced(k) + 1
                                 ELSE Traced(k) = sent[k]
        BY DEF Balance
      <4>3. CASE k = c /\ child[c] # "dead"
        <5>1. req'[k] = req[k] + 1 /\ sent'[k] = sent[k] + 1
          BY <3>1, <4>3 DEF PipesTypeOK
        <5> QED
          BY <3>1, <3>3, <4>1, <4>2, <4>3, <5>1 DEF Traced
      <4>4. CASE k # c \/ child[c] = "dead"
        <5>1. req'[k] = req[k] /\ sent'[k] = sent[k]
          BY <3>1, <4>4 DEF PipesTypeOK
        <5> QED
          BY <3>1, <3>3, <4>1, <4>2, <5>1 DEF Traced
      <4> QED
        BY <4>3, <4>4
    <3>6. Balance'
      BY <3>5 DEF Balance
    <3> QED
      BY <3>2, <3>3, <3>4, <3>6
  <2>9. CASE Reset
    <3>1. /\ parent = "reset" /\ parent' = "read" /\ lastSignal' = FALSE
          /\ UNCHANGED <<sender, fds, child, req, R, pending, sigints, sigchld, sent, printed>>
      BY <2>9 DEF Reset, SignalReset, childVars
    <3>2. PipesTypeOK'
      BY <3>1 DEF PipesTypeOK
    <3>3. Pairs' /\ Balance'
      BY <3>1, BalanceKept
    <3>4. Signalled'
      BY <3>1 DEF Signalled, Owed
    <3> QED
      BY <3>2, <3>3, <3>4
  <2>10. CASE ReadHeader
    <3>1. /\ parent = "read" /\ parent' = "data" /\ R # <<>> /\ R' = Tail(R) /\ sender' = Head(R)[1]
          /\ UNCHANGED <<lastSignal, fds, child, req, pending, sigints, sigchld, sent, printed>>
      BY <2>10 DEF ReadHeader, AfterHeader, childVars
    <3>2. R[1][2] = "head" /\ Head(R) = R[1] /\ R[1] \in Pieces
      <4>1. R \in Seq(Pieces) /\ Len(R) \in Nat \ {0}
        BY <3>1, EmptySeq DEF PipesTypeOK
      <4>2. Head(R) = R[1] /\ R[1] \in Pieces
        BY <4>1, ElementOfSeq
      <4> QED
        BY <3>1, <4>2 DEF Pairs
    <3>3. ASSUME NEW k \in Children
          PROVE  /\ R[1][1] \in Children /\ R' \in Seq(Pieces) /\ Pairs' /\ InR(k)' \in Nat
                 /\ InR(k) = InR(k)' + (IF R[1] = <<k, "head">> THEN 1 ELSE 0)
      BY <3>1, <3>2, PieceTaken
    <3>4. R[1][1] \in Children
      BY <3>2 DEF Pieces
    <3>5. PipesTypeOK'
      BY <3>1, <3>2, <3>3, <3>4 DEF PipesTypeOK
    <3>6. Signalled'
      BY <3>1 DEF Signalled, Owed
    <3>7. ASSUME NEW k \in Children PROVE Traced(k)' = Traced(k)
      <4>1. /\ InR(k)' \in Nat /\ req[k] \in Nat /\ printed[k] \in Nat
            /\ InR(k) = InR(k)' + (IF sender' = k THEN 1 ELSE 0)
        <5>1. R[1] = <<k, "head">> <=> R[1][1] = k
          BY <3>2 DEF Pieces
        <5> QED
          BY <3>1, <3>2, <3>3, <5>1 DEF PipesTypeOK
      <4>2. child'[k] = child[k] /\ req'[k] = req[k] /\ printed'[k] = printed[k]
        BY <3>1
      <4>3. Traced(k) = req[k] + (IF child[k] = "write" THEN 1 ELSE 0) + InR(k) + 0 + printed[k]
        BY <3>1 DEF Traced
      <4>4. Traced(k)' = req[k] + (IF child[k] = "write" THEN 1 ELSE 0) + InR(k)'
                         + (IF sender' = k THEN 1 ELSE 0) + printed[k]
        BY <3>1, <4>2 DEF Traced
      <4> QED
        BY <4>1, <4>3, <4>4
    <3>8. Balance'
      BY <3>1, <3>7 DEF Balance
    <3> QED
      BY <3>3, <3>4, <3>5, <3>6, <3>8
  <2>11. CASE ReadData
    <3>1. /\ parent = "data" /\ parent' = "check" /\ R # <<>> /\ R' = Tail(R)
          /\ printed' = [printed EXCEPT ![sender] = @ + 1]
          /\ UNCHANGED <<sender, lastSignal, fds, child, req, pending, sigints, sigchld, sent>>
      BY <2>11 DEF ReadData, childVars
    <3>2. R[1] = <<sender, "data">> /\ R[1][1] = sender /\ R[1][2] = "data" /\ R[1][2] # "head"
      BY <3>1 DEF Pairs
    <3>3. sender \in Children
      <4>1. R \in Seq(Pieces) /\ Len(R) \in Nat \ {0}
        BY <3>1, EmptySeq DEF PipesTypeOK
      <4>2. R[1] \in Pieces
        BY <4>1, ElementOfSeq
      <4> QED
        BY <3>2, <4>2 DEF Pieces
    <3>4. ASSUME NEW k \in Children
          PROVE  R' \in Seq(Pieces) /\ Pairs' /\ InR(k)' \in Nat /\ InR(k) = InR(k)'
      <4>1. R[1] # <<k, "head">>
        BY <3>2
      <4>2. parent' = "data" <=> R[1][2] = "head"
        BY <3>1, <3>2
      <4>3. sender' = R[1][1]
        BY <3>1, <3>2
      <4>4. /\ R' \in Seq(Pieces) /\ Pairs' /\ InR(k)' \in Nat
            /\ InR(k) = InR(k)' + (IF R[1] = <<k, "head">> THEN 1 ELSE 0)
        BY <3>1, <4>2, <4>3, PieceTaken
      <4> QED
        BY <4>1, <4>4
    <3>5. PipesTypeOK'
      BY <3>1, <3>3, <3>4 DEF PipesTypeOK
    <3>6. Signalled'
      BY <3>1 DEF Signalled, Owed
    <3>7. ASSUME NEW k \in Children PROVE Traced(k)' = Traced(k)
      <4>1. InR(k)' \in Nat /\ InR(k) = InR(k)' /\ req[k] \in Nat /\ printed[k] \in Nat
        BY <3>4 DEF PipesTypeOK
      <4>2. printed'[k] = IF sender = k THEN printed[k] + 1 ELSE printed[k]
        BY <3>1, <3>3 DEF PipesTypeOK
      <4>3. child'[k] = child[k] /\ req'[k] = req[k] /\ sender' = sender
        BY <3>1
      <4>4. Traced(k) = req[k] + (IF child[k] = "write" THEN 1 ELSE 0) + InR(k)
                        + (IF sender = k THEN 1 ELSE 0) + printed[k]
        BY <3>1 DEF Traced
      <4>5. Traced(k)' = req[k] + (IF child[k] = "write" THEN 1 ELSE 0) + InR(k)' + 0 + printed'[k]
        BY <3>1, <4>3 DEF Traced
      <4> QED
        BY <4>1, <4>2, <4>4, <4>5
    <3>8. Balance'
      BY <3>1, <3>7 DEF Balance
    <3> QED
      BY <3>3, <3>4, <3>5, <3>6, <3>8
  <2>12. CASE UNCHANGED pipesVars
    <3>1. UNCHANGED <<parent, sender, lastSignal, fds, child, req, R, pending, sigints, sigchld,
                      sent, printed>>
      BY <2>12 DEF pipesVars, parentVars, childVars
    <3>2. Pairs' /\ Balance'
      BY <3>1, BalanceKept
    <3> QED
      BY <3>1, <3>2 DEF PipesTypeOK, Signalled, Owed
  <2>13. CASE SigchldHandler \/ TestErrno \/ ErrKills
    <3>1. /\ parent' = parent
             \/ /\ parent \in {"read", "eintr", "echild"}
                /\ parent' \in {"eintr", "echild", "check", "killed"}
          /\ sigchld' \in {sigchld, FALSE}
          /\ child' = child \/ child' = [k \in Children |-> "dead"]
          /\ UNCHANGED <<sender, lastSignal, fds, req, R, pending, sigints, sent, printed>>
      <4>1. CASE SigchldHandler
        <5>1. /\ child' = child /\ sigchld' = FALSE
              /\ UNCHANGED <<sender, lastSignal, fds, req, R, pending, sigints, sent, printed>>
          BY <4>1 DEF SigchldHandler, childVars
        <5>2. HandlerErrno(parent) \in {parent, "echild"}
          BY DEF HandlerErrno
        <5>3. CASE parent \in {"eintr", "echild"}
          BY <4>1, <5>1, <5>2, <5>3 DEF SigchldHandler
        <5>4. CASE parent \notin {"eintr", "echild"}
          <6>1. parent' \in AfterSignal
            BY <4>1, <5>4 DEF SigchldHandler
          <6> QED
            BY <5>1, <6>1, Interrupted
        <5> QED
          BY <5>3, <5>4
      <4>2. CASE TestErrno
        BY <4>2 DEF TestErrno, childVars
      <4>3. CASE ErrKills
        BY <4>3 DEF ErrKills
      <4> QED
        BY <2>13, <4>1, <4>2, <4>3
    <3>2. PipesTypeOK'
      BY <3>1 DEF PipesTypeOK
    <3>3. Pairs' /\ Balance'
      <4>1. \A k \in Children : child'[k] = child[k] \/ child'[k] = "dead"
        BY <3>1
      <4>2. parent' = "data" <=> parent = "data"
        BY <3>1
      <4> QED
        BY <3>1, <4>1, <4>2, BalanceKept
    <3>4. Signalled'
      <4>1. Owed' <= Owed + 0 /\ sigints' = sigints + 0
        BY <3>1 DEF Owed, PipesTypeOK
      <4> QED
        BY <3>1, <4>1, SignalledKept
    <3> QED
      BY <3>2, <3>3, <3>4
  <2> QED
    BY <2>1, <2>2, <2>3, <2>4, <2>5, <2>6, <2>7, <2>8, <2>9, <2>10, <2>11, <2>12, <2>13
       DEF PipesNext, ParentStep, ChildStep
<1> QED
  BY <1>1, <1>2, PTL DEF PipesSpec

\* No letter is lost by a living child and none is answered twice; and there is
\* at most one for each SIGINT (prog22b.c lines 63-70, 82-108).
THEOREM LettersAccounted == PipesSpec => []LettersConserved
<1>1. ASSUME PipesInv PROVE LettersConserved
  <2>1. ASSUME NEW k \in Children PROVE sent[k] <= sigints
    <3>1. sent[k] \in Nat /\ sigints \in Nat /\ sent[k] + Owed <= sigints
      BY <1>1 DEF PipesInv, PipesTypeOK, Signalled
    <3> QED
      BY <3>1, OwedNat
  <2>2. \A k \in Children : IF child[k] = "dead" THEN Traced(k) <= sent[k] /\ sent[k] <= Traced(k) + 1
                                                 ELSE Traced(k) = sent[k]
    BY <1>1 DEF PipesInv, Balance
  <2> QED
    BY <2>1, <2>2 DEF LettersConserved, Traced
<1> QED
  BY <1>1, PipesInductive, PTL

\* What the parent reads after a header is the data of the same child, whatever
\* the others have written and whatever signals have come (lines 98-108).
DataOfSender == parent = "data" => R # <<>> /\ R[1] = <<sender, "data">>

THEOREM DataFollowsHeader == PipesSpec => []DataOfSender
<1>1. PipesInv => DataOfSender
  BY DEF PipesInv, Pairs, DataOfSender
<1> QED
  BY <1>1, PipesInductive, PTL

\* errno is ECHILD only when waitpid has found no child any more.
ErrnoTrue == parent = "echild" => AllDead

LEMMA ErrnoInductive == PipesSpec => []ErrnoTrue
<1>1. PipesInit => ErrnoTrue
  BY DEF PipesInit, ErrnoTrue
<1>2. ASSUME PipesInv, ErrnoTrue, [PipesNext]_pipesVars PROVE ErrnoTrue'
  <2> SUFFICES ASSUME parent' = "echild" PROVE AllDead'
    BY DEF ErrnoTrue
  <2>1. CASE SigchldHandler
    <3>1. child' = child
      BY <2>1 DEF SigchldHandler, childVars
    <3>2. CASE parent \in {"eintr", "echild"}
      <4>1. HandlerErrno(parent) = "echild"
        BY <2>1, <3>2 DEF SigchldHandler
      <4>2. AllDead
        BY <1>2, <4>1 DEF HandlerErrno, ErrnoTrue
      <4> QED
        BY <3>1, <4>2 DEF AllDead
    <3>3. CASE parent \notin {"eintr", "echild"}
      <4>1. parent' \in AfterSignal
        BY <2>1, <3>3 DEF SigchldHandler
      <4> QED
        BY <3>3, <4>1, Interrupted
    <3> QED
      BY <3>2, <3>3
  <2>2. CASE SigHandler
    <3>1. child' = child /\ parent' \in AfterSignal
      BY <2>2 DEF SigHandler, childVars
    <3>2. parent = "echild"
      BY <3>1, Interrupted
    <3> QED
      BY <1>2, <3>1, <3>2 DEF ErrnoTrue, AllDead
  <2>3. ASSUME NEW k \in Children, SigKillme(k) PROVE AllDead'
    <3>1. parent' = parent /\ (child' = child \/ child' = [child EXCEPT ![k] = "dead"])
      BY <2>3 DEF SigKillme, parentVars
    <3>2. AllDead /\ child \in [Children -> {"none", "forked", "read", "write", "dead"}]
      BY <1>2, <3>1 DEF ErrnoTrue, PipesInv, PipesTypeOK
    <3> QED
      BY <3>1, <3>2 DEF AllDead
  <2>4. CASE ParentStep
    <3>1. parent # "echild"
      BY <2>4 DEF ParentStep, StartParent, NoSignal, NobodyLeft, Reset, ReadHeader, ReadData, EndOfFile,
                  TestErrno, ErrKills, CreateChild, SendLetter
    <3>2. parent' # "echild"
      BY <2>4, <3>1 DEF ParentStep, StartParent, NoSignal, NobodyLeft, Reset, ReadHeader, ReadData,
                        EndOfFile, TestErrno, ErrKills, CreateChild, SendLetter, AfterHeader
    <3> QED
      BY <3>2
  <2>5. ASSUME NEW k \in Children, ChildStep(k) PROVE AllDead'
    <3>1. parent' = parent /\ child[k] # "dead"
      BY <2>5 DEF ChildStep, ChildReady, ReadLetter, Answer, parentVars
    <3> QED
      BY <1>2, <3>1 DEF ErrnoTrue, AllDead
  <2>6. CASE Sigint \/ UNCHANGED pipesVars
    <3>1. parent' = parent /\ child' = child
      BY <2>6 DEF Sigint, pipesVars, parentVars, childVars
    <3> QED
      BY <1>2, <3>1 DEF ErrnoTrue, AllDead
  <2> QED
    BY <1>2, <2>1, <2>2, <2>3, <2>4, <2>5, <2>6 DEF PipesNext
<1> QED
  BY <1>1, <1>2, PipesInductive, PTL DEF PipesSpec

\* The ERR of line 102 never takes a living child with it.
THEOREM NobodyElseKilled == PipesSpec => KilledAlone
<1>1. ASSUME ErrnoTrue, [PipesNext]_pipesVars, parent' = "killed", parent # "killed"
      PROVE  AllDead
  <2>1. CASE ErrKills
    BY <1>1, <2>1 DEF ErrKills, ErrnoTrue
  <2>2. CASE SigHandler \/ SigchldHandler
    <3>1. parent' \in AfterSignal \/ parent' = HandlerErrno(parent)
      BY <2>2 DEF SigHandler, SigchldHandler
    <3>2. parent' # "killed"
      BY <1>1, <3>1, Interrupted DEF HandlerErrno
    <3> QED
      BY <1>1, <3>2
  <2>3. ASSUME NEW k \in Children, SigKillme(k) \/ ChildStep(k) \/ CreateChild(k) \/ SendLetter(k)
        PROVE  AllDead
    BY <1>1, <2>3 DEF SigKillme, ChildStep, ChildReady, ReadLetter, Answer, CreateChild, SendLetter,
                      parentVars
  <2>4. CASE Sigint \/ UNCHANGED pipesVars
    BY <1>1, <2>4 DEF Sigint, pipesVars, parentVars
  <2>5. CASE StartParent \/ NoSignal \/ NobodyLeft \/ Reset \/ ReadHeader \/ ReadData \/ EndOfFile
             \/ TestErrno
    BY <1>1, <2>5 DEF StartParent, NoSignal, NobodyLeft, Reset, ReadHeader, ReadData, EndOfFile,
                      TestErrno, AfterHeader
  <2> QED
    BY <1>1, <2>1, <2>2, <2>3, <2>4, <2>5 DEF PipesNext, ParentStep
<1>2. ErrnoTrue /\ [PipesNext]_pipesVars
      => [parent' = "killed" /\ parent # "killed" => AllDead]_pipesVars
  BY <1>1
<1> QED
  BY <1>2, ErrnoInductive, PTL DEF PipesSpec, KilledAlone
=============================================================================
