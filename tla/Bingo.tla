-------------------------------- MODULE Bingo --------------------------------
(***************************************************************************)
(* L2_2/bingo.c: the parent puts random numbers into the blocking queue    *)
(* pout; children draw them until one matches or their life is over, put   *)
(* their result into the non-blocking queue pin and exit.  The parent      *)
(* prints the results in the handler of mq_notify's signal and counts the  *)
(* children that are left in the handler of SIGCHLD.                       *)
(*                                                                         *)
(* Each handler blocks its own signal only, so one may run inside the      *)
(* other, and both leave errno changed.  Both queues are new and empty.    *)
(* What is in pin is the set of children it comes from, each sends once; of*)
(* pout only the number of messages matters.                               *)
(***************************************************************************)
EXTENDS Naturals, FiniteSets

CONSTANTS Children, BINGO_MAXMSG, LIFE_SPAN

ASSUME BingoAssumption ==
  /\ IsFiniteSet(Children)
  /\ BINGO_MAXMSG \in Nat \ {0} /\ LIFE_SPAN \in Nat \ {0}

VARIABLES
  pin, pout, registered,     \* the queues; is mq_notify's request pending on pin
  player, life,              \* each child: its position and its variable life
  children_left,             \* the counter
  caller,                      \* the parent's position outside its handlers
  mq, chld, top, errno,      \* the handlers' positions, who runs, errno
  signals,                   \* pending signals of the parent
  announced                    \* history: children whose result was printed

queues == <<pin, pout, registered>>
players == <<player, life>>
handlers == <<mq, chld, top>>
bingoVars == <<queues, players, children_left, caller, handlers, errno,
               signals, announced>>

BingoInit ==
  /\ pin = {} /\ pout = 0 /\ registered = FALSE
  /\ player = [c \in Children |-> "none"] /\ life = [c \in Children |-> 0]
  /\ children_left = 0 /\ caller = "create"
  /\ mq = "off" /\ chld = "off" /\ top = "caller" /\ errno = "other"
  /\ signals = {} /\ announced = {}

\* ERR, which kills the whole group.
KillGroup == caller' = "killed"
GroupLives == caller # "killed"

-----------------------------------------------------------------------------
(* Signals: whenever one is delivered, or a handler returns, all that are  *)
(* pending and not blocked get a frame, SIGRTMIN the topmost.              *)

Deliverable(m, c) == {s \in signals : IF s = "RTMIN" THEN m = "off" ELSE c = "off"}

\* The handlers' positions m, c after the delivery; t runs if there is none.
Enter(m, c, t) ==
  LET D == Deliverable(m, c)
  IN  /\ mq' = IF "RTMIN" \in D THEN "notify" ELSE m
      /\ chld' = IF "CHLD" \in D THEN "waitpid" ELSE c
      /\ top' = IF "RTMIN" \in D THEN "mq" ELSE IF "CHLD" \in D THEN "chld" ELSE t
      /\ signals' = signals \ D

\* A parent that is blocked in mq_send gets EINTR afterwards.
Deliver ==
  /\ caller \notin {"killed", "ended"}
  /\ Deliverable(mq, chld) # {}
  /\ Enter(mq, chld, top)
  /\ caller' \in IF top = "caller" /\ caller = "send" /\ pout = BINGO_MAXMSG
               THEN {"send", "interrupted"} ELSE {caller}
  /\ UNCHANGED <<queues, players, children_left, errno, announced>>

MqReturns ==
  /\ GroupLives /\ top = "mq" /\ mq = "return"
  /\ Enter("off", chld, IF chld = "off" THEN "caller" ELSE "chld")
  /\ UNCHANGED <<queues, players, children_left, caller, errno, announced>>

ChldReturns ==
  /\ GroupLives /\ top = "chld" /\ chld = "return"
  /\ Enter(mq, "off", IF mq = "off" THEN "caller" ELSE "mq")
  /\ UNCHANGED <<queues, players, children_left, caller, errno, announced>>

-----------------------------------------------------------------------------
(* mq_handler.                                                             *)

\* mq_notify asks for one signal only; the handler asks again, or forgets to.
NotReregistered == FALSE
Reregistered == TRUE

Notify ==
  /\ GroupLives /\ top = "mq" /\ mq = "notify"
  /\ registered' = Reregistered
  /\ mq' = "receive"
  /\ UNCHANGED <<pin, pout, players, children_left, caller, chld, top, errno,
                 signals, announced>>

ReceiveResult ==
  /\ GroupLives /\ top = "mq" /\ mq = "receive"
  /\ \/ \E c \in pin :
          /\ pin' = pin \ {c} /\ announced' = announced \cup {c}
          /\ UNCHANGED <<mq, errno>>
     \/ /\ pin = {} /\ errno' = "EAGAIN" /\ mq' = "errno"
        /\ UNCHANGED <<pin, announced>>
  /\ UNCHANGED <<pout, registered, players, children_left, caller, chld, top, signals>>

\* errno == EAGAIN, unless a SIGCHLD has come in between.
TestReceive ==
  /\ GroupLives /\ top = "mq" /\ mq = "errno"
  /\ IF errno = "EAGAIN" THEN mq' = "return" /\ UNCHANGED caller
                         ELSE KillGroup /\ UNCHANGED mq
  /\ UNCHANGED <<queues, players, children_left, chld, top, errno, signals, announced>>

-----------------------------------------------------------------------------
(* sigchld_handler.                                                        *)

Reapable == {c \in Children : player[c] = "zombie"}
Running == {c \in Children : player[c] \in {"draw", "send", "exit"}}

\* SIGCHLDs merge, so it goes on until there is nobody to reap; or would reap
\* one child for each signal.
ReapsOne == "return"
ReapsOn == "waitpid"

Waitpid ==
  /\ GroupLives /\ top = "chld" /\ chld = "waitpid"
  /\ \/ \E c \in Reapable :
          /\ player' = [player EXCEPT ![c] = "reaped"]
          /\ children_left' = children_left - 1
          /\ chld' = ReapsOn /\ UNCHANGED errno
     \/ /\ Reapable = {} /\ UNCHANGED <<player, children_left>>
        /\ IF Running # {} THEN chld' = "return" /\ UNCHANGED errno
                           ELSE chld' = "errno" /\ errno' = "ECHILD"
  /\ UNCHANGED <<queues, life, caller, mq, top, signals, announced>>

TestWaitpid ==
  /\ GroupLives /\ top = "chld" /\ chld = "errno"
  /\ IF errno = "ECHILD" THEN chld' = "return" /\ UNCHANGED caller
                         ELSE KillGroup /\ UNCHANGED chld
  /\ UNCHANGED <<queues, players, children_left, mq, top, errno, signals, announced>>

-----------------------------------------------------------------------------
(* The parent outside its handlers.                                        *)

Fork(c) ==
  /\ caller = "create" /\ top = "caller" /\ player[c] = "none"
  /\ \E l \in 1..LIFE_SPAN : life' = [life EXCEPT ![c] = l]
  /\ player' = [player EXCEPT ![c] = "draw"]
  /\ children_left' = children_left + 1
  /\ UNCHANGED <<queues, caller, handlers, errno, signals, announced>>

\* The first mq_notify, when all are forked.
Register ==
  /\ caller = "create" /\ top = "caller" /\ \A c \in Children : player[c] # "none"
  /\ registered' = TRUE
  /\ caller' = "test"
  /\ UNCHANGED <<pin, pout, players, children_left, handlers, errno, signals, announced>>

TestLeft ==
  /\ caller = "test" /\ top = "caller"
  /\ caller' = IF children_left # 0 THEN "send" ELSE "ended"
  /\ UNCHANGED <<queues, players, children_left, handlers, errno, signals, announced>>

\* mq_send and sleep, which returns some time.
SendNumber ==
  /\ caller = "send" /\ top = "caller" /\ pout < BINGO_MAXMSG
  /\ pout' = pout + 1
  /\ caller' = "test"
  /\ UNCHANGED <<pin, registered, players, children_left, handlers, errno,
                 signals, announced>>

Interrupted ==
  /\ caller = "interrupted" /\ top = "caller"
  /\ errno' = "EINTR" /\ caller' = "retry"
  /\ UNCHANGED <<queues, players, children_left, handlers, signals, announced>>

\* TEMP_FAILURE_RETRY looks at errno, which a handler may have changed again.
Retry ==
  /\ caller = "retry" /\ top = "caller"
  /\ IF errno = "EINTR" THEN caller' = "send" ELSE KillGroup
  /\ UNCHANGED <<queues, players, children_left, handlers, errno, signals, announced>>

-----------------------------------------------------------------------------
(* A child.                                                                *)

Draw(c) ==
  /\ GroupLives /\ player[c] = "draw" /\ pout > 0
  /\ pout' = pout - 1
  /\ life' = [life EXCEPT ![c] = @ - 1]
  /\ \E bingo \in BOOLEAN :
       player' = [player EXCEPT ![c] = IF bingo \/ life[c] = 1 THEN "send" ELSE "draw"]
  /\ UNCHANGED <<pin, registered, children_left, caller, handlers, errno,
                 signals, announced>>

\* A message that comes to the empty queue uses the registration up; a queue
\* that is full is EAGAIN, an error.
SendResult(c) ==
  /\ GroupLives /\ player[c] = "send"
  /\ IF Cardinality(pin) < BINGO_MAXMSG
     THEN /\ pin' = pin \cup {c}
          /\ player' = [player EXCEPT ![c] = "exit"]
          /\ IF pin = {} /\ registered
               THEN registered' = FALSE /\ signals' = signals \cup {"RTMIN"}
               ELSE UNCHANGED <<registered, signals>>
          /\ UNCHANGED caller
     ELSE KillGroup /\ UNCHANGED <<pin, player, registered, signals>>
  /\ UNCHANGED <<pout, life, children_left, handlers, errno, announced>>

Exit(c) ==
  /\ GroupLives /\ player[c] = "exit"
  /\ player' = [player EXCEPT ![c] = "zombie"]
  /\ signals' = signals \cup {"CHLD"}
  /\ UNCHANGED <<queues, life, children_left, caller, handlers, errno, announced>>

HandlerStep == MqReturns \/ ChldReturns \/ Notify \/ ReceiveResult \/ TestReceive \/ Waitpid \/ TestWaitpid
MainStep == Register \/ TestLeft \/ SendNumber \/ Interrupted \/ Retry
PlayerStep(c) == Draw(c) \/ SendResult(c) \/ Exit(c)

BingoNext ==
  \/ Deliver \/ HandlerStep \/ MainStep
  \/ \E c \in Children : Fork(c) \/ PlayerStep(c)

BingoSpec == BingoInit /\ [][BingoNext]_bingoVars

-----------------------------------------------------------------------------
\* The types of the variables.
BingoTypeOK ==
  /\ pin \subseteq Children /\ pout \in 0..BINGO_MAXMSG /\ registered \in BOOLEAN
  /\ player \in [Children -> {"none", "draw", "send", "exit", "zombie", "reaped"}]
  /\ life \in [Children -> 0..LIFE_SPAN]
  /\ children_left \in Nat
  /\ caller \in {"create", "test", "send", "interrupted", "retry", "ended", "killed"}
  /\ mq \in {"off", "notify", "receive", "errno", "return"}
  /\ chld \in {"off", "waitpid", "errno", "return"}
  /\ top \in {"caller", "mq", "chld"}
  /\ errno \in {"other", "EAGAIN", "ECHILD", "EINTR"}
  /\ signals \subseteq {"RTMIN", "CHLD"} /\ announced \subseteq Children

\* When the parent says that it terminates (line 128) it has printed the result
\* of every child: neither the registration that lasts for one message (lines
\* 41, 187) nor signals that merge leave a result behind.
AllPrinted == caller = "ended" => announced = Children

AllExited == \A c \in Children : player[c] \in {"zombie", "reaped"}

\* When all children have exited, the parent counts them down to 0 (line 82)
\* and leaves its loop, or it was already sending to a queue that nobody empties
\* any more, or a handler inside the other has changed errno (lines 50, 78, 122).
BingoEnds ==
  AllExited ~> \/ caller \in {"ended", "killed"}
               \/ children_left = 0 /\ caller = "send" /\ pout = BINGO_MAXMSG
=============================================================================
