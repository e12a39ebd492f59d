---------------------------- MODULE QueuesProofs ----------------------------
(***************************************************************************)
(* Proofs about bingo, the pastry shop and the newspaper, for any number of*)
(* children, customers and reporters and any limits of the queues.         *)
(***************************************************************************)
EXTENDS Newspaper, Bingo, Pastry, FiniteSetTheorems, SequenceTheorems, TLAPS

-----------------------------------------------------------------------------
(***************************************************************************)
(* Bingo. The counter of children is exact, a result that waits in pin     *)
(* always has a signal or a handler on its way, and so every result is     *)
(* printed before the parent ends.                                         *)
(***************************************************************************)

Left == {c \in Children : player[c] \in {"draw", "send", "exit", "zombie"}}

\* Before the first mq_notify no number has been sent and no child can move.
NothingYet ==
  caller = "create" => pout = 0 /\ pin = {} /\ \A c \in Children : player[c] \in {"none", "draw"}

Working == caller \notin {"create", "killed"}

AllForked == Working => \A c \in Children : player[c] # "none"

\* The request is registered, has become a signal, or is about to be renewed.
RequestAlive == Working => registered \/ "RTMIN" \in signals \/ mq = "notify"

\* A result in pin is about to be received.
ResultNoticed ==
  Working /\ pin # {} => "RTMIN" \in signals \/ mq \in {"notify", "receive"}

FramesMatch ==
  /\ top = "caller" <=> mq = "off" /\ chld = "off"
  /\ top = "mq" => mq # "off"
  /\ top = "chld" => chld # "off"

LifeLeft == \A c \in Children : player[c] = "draw" => life[c] > 0

Sent == \A c \in Children :
          player[c] \in {"exit", "zombie", "reaped"} => c \in pin \/ c \in announced

\* Outside the handlers no result of a reaped child is left in pin.
ReapedPrinted ==
  caller # "killed" /\ top = "caller" => \A c \in pin : player[c] # "reaped"

BingoInv ==
  /\ BingoTypeOK
  /\ children_left = Cardinality(Left)
  /\ NothingYet /\ AllForked /\ RequestAlive /\ ResultNoticed
  /\ FramesMatch /\ LifeLeft /\ Sent /\ ReapedPrinted /\ AllPrinted

-----------------------------------------------------------------------------
\* The children that are left are finitely many.
LEMMA LeftFinite == IsFiniteSet(Left) /\ Cardinality(Left) \in Nat
  BY BingoAssumption, FS_Subset, FS_CardinalityType DEF Left

\* A child that stays among those left, or among those that are not, changes
\* nothing in their number; fork adds one, waitpid takes one away.
LEMMA LeftSame ==
  ASSUME player \in [Children -> {"none", "draw", "send", "exit", "zombie", "reaped"}],
         NEW c \in Children, NEW q,
         player[c] \in {"draw", "send", "exit", "zombie"},
         q \in {"draw", "send", "exit", "zombie"},
         player' = [player EXCEPT ![c] = q]
  PROVE  Left' = Left
  BY DEF Left

LEMMA LeftOneMore ==
  ASSUME player \in [Children -> {"none", "draw", "send", "exit", "zombie", "reaped"}],
         NEW c \in Children, player[c] = "none", player' = [player EXCEPT ![c] = "draw"]
  PROVE  Cardinality(Left') = Cardinality(Left) + 1
<1>1. Left' = Left \cup {c} /\ c \notin Left
  BY DEF Left
<1> QED BY <1>1, LeftFinite, FS_AddElement

LEMMA LeftOneLess ==
  ASSUME player \in [Children -> {"none", "draw", "send", "exit", "zombie", "reaped"}],
         NEW c \in Children, player[c] = "zombie", player' = [player EXCEPT ![c] = "reaped"]
  PROVE  /\ Cardinality(Left') = Cardinality(Left) - 1
         /\ Cardinality(Left) > 0
<1>1. Left' = Left \ {c} /\ c \in Left
  BY DEF Left
<1>2. Left # {}
  BY <1>1
<1>3. Cardinality(Left) # 0
  BY <1>2, LeftFinite, FS_EmptySet
<1> QED BY <1>1, <1>3, LeftFinite, FS_RemoveElement

\* When the counter is 0 nobody is left.
LEMMA NobodyLeft ==
  ASSUME children_left = Cardinality(Left), children_left = 0
  PROVE  Left = {}
  BY LeftFinite, FS_EmptySet

-----------------------------------------------------------------------------
\* The invariant holds at the start.
LEMMA InitInv == BingoInit => BingoInv
<1> SUFFICES ASSUME BingoInit PROVE BingoInv
  OBVIOUS
<1>1. Left = {}
  BY DEF BingoInit, Left
<1>2. children_left = Cardinality(Left)
  BY <1>1, FS_EmptySet DEF BingoInit
<1>3. BingoTypeOK
  <2>1. 0 \in 0..LIFE_SPAN /\ 0 \in 0..BINGO_MAXMSG
    BY BingoAssumption
  <2>2. life \in [Children -> 0..LIFE_SPAN]
    BY <2>1 DEF BingoInit
  <2> QED BY <2>1, <2>2 DEF BingoInit, BingoTypeOK
<1> QED BY <1>2, <1>3 DEF BingoInv, BingoInit, NothingYet, AllForked, RequestAlive,
     ResultNoticed, FramesMatch, LifeLeft, Sent, ReapedPrinted, AllPrinted, Working

\* A delivery, and the return of a handler.
LEMMA DeliveryStep ==
  ASSUME BingoInv, Deliver \/ MqReturns \/ ChldReturns
  PROVE  BingoInv'
<1> USE DEF BingoInv
<1>1. Left' = Left /\ children_left' = children_left
  BY DEF Deliver, MqReturns, ChldReturns, Left, players
<1>2. UNCHANGED <<queues, players, children_left, errno, announced>>
  BY DEF Deliver, MqReturns, ChldReturns
<1>3. CASE Deliver
  <2>1. BingoTypeOK'
    BY <1>3 DEF Deliver, Enter, Deliverable, BingoTypeOK, queues, players
  <2>2. NothingYet' /\ AllForked' /\ LifeLeft' /\ Sent' /\ AllPrinted'
    BY <1>3 DEF Deliver, NothingYet, AllForked, LifeLeft, Sent, AllPrinted, Working, queues, players
  <2>3. RequestAlive' /\ ResultNoticed'
    BY <1>3 DEF Deliver, Enter, Deliverable, BingoTypeOK, RequestAlive, ResultNoticed, Working, queues, players
  <2>4. FramesMatch' /\ ReapedPrinted'
    BY <1>3 DEF Deliver, Enter, Deliverable, BingoTypeOK, FramesMatch, ReapedPrinted, queues, players
  <2> QED BY <1>1, <2>1, <2>2, <2>3, <2>4
<1>4. CASE MqReturns
  <2>1. BingoTypeOK'
    BY <1>4 DEF MqReturns, Enter, Deliverable, BingoTypeOK, queues, players
  <2>2. NothingYet' /\ AllForked' /\ LifeLeft' /\ Sent' /\ AllPrinted'
    BY <1>4 DEF MqReturns, NothingYet, AllForked, LifeLeft, Sent, AllPrinted, Working, queues, players
  <2>3. RequestAlive' /\ ResultNoticed'
    BY <1>4 DEF MqReturns, Enter, Deliverable, BingoTypeOK, RequestAlive, ResultNoticed, Working, queues, players
  <2>4. FramesMatch'
    BY <1>4 DEF MqReturns, Enter, Deliverable, BingoTypeOK, FramesMatch
  <2>5. ReapedPrinted'
    BY <1>4, <2>4 DEF MqReturns, Enter, Deliverable, BingoTypeOK, NothingYet, ResultNoticed, FramesMatch,
       ReapedPrinted, Working, queues, players
  <2> QED BY <1>1, <2>1, <2>2, <2>3, <2>4, <2>5
<1>5. CASE ChldReturns
  <2>1. BingoTypeOK'
    BY <1>5 DEF ChldReturns, Enter, Deliverable, BingoTypeOK, queues, players
  <2>2. NothingYet' /\ AllForked' /\ LifeLeft' /\ Sent' /\ AllPrinted'
    BY <1>5 DEF ChldReturns, NothingYet, AllForked, LifeLeft, Sent, AllPrinted, Working, queues, players
  <2>3. RequestAlive' /\ ResultNoticed'
    BY <1>5 DEF ChldReturns, Enter, Deliverable, BingoTypeOK, RequestAlive, ResultNoticed, Working, queues, players
  <2>4. FramesMatch'
    BY <1>5 DEF ChldReturns, Enter, Deliverable, BingoTypeOK, FramesMatch
  <2>5. ReapedPrinted'
    BY <1>5, <2>4 DEF ChldReturns, Enter, Deliverable, BingoTypeOK, NothingYet, ResultNoticed, FramesMatch,
       ReapedPrinted, Working, queues, players
  <2> QED BY <1>1, <2>1, <2>2, <2>3, <2>4, <2>5
<1> QED BY <1>3, <1>4, <1>5

\* The handlers' own work.
LEMMA HandlerWork ==
  ASSUME BingoInv, Notify \/ ReceiveResult \/ TestReceive \/ Waitpid \/ TestWaitpid
  PROVE  BingoInv'
<1> USE DEF BingoInv
<1>1. CASE Notify
  <2>1. Left' = Left
    BY <1>1 DEF Notify, Left, players
  <2> QED BY <1>1, <2>1 DEF Notify, Reregistered, BingoTypeOK, NothingYet, AllForked, RequestAlive, ResultNoticed,
       FramesMatch, LifeLeft, Sent, ReapedPrinted, AllPrinted, Working, players
<1>2. CASE ReceiveResult
  <2>1. Left' = Left /\ children_left' = children_left
    BY <1>2 DEF ReceiveResult, Left, players
  <2>2. BingoTypeOK' /\ NothingYet' /\ AllForked' /\ FramesMatch' /\ ReapedPrinted' /\ AllPrinted'
    BY <1>2 DEF ReceiveResult, BingoTypeOK, NothingYet, AllForked, FramesMatch, ReapedPrinted, AllPrinted, Working, players
  <2>3. RequestAlive' /\ ResultNoticed'
    BY <1>2 DEF ReceiveResult, BingoTypeOK, RequestAlive, ResultNoticed, Working, players
  <2>4. LifeLeft' /\ Sent'
    BY <1>2 DEF ReceiveResult, BingoTypeOK, LifeLeft, Sent, players
  <2> QED BY <2>1, <2>2, <2>3, <2>4
<1>3. CASE TestReceive
  <2>1. Left' = Left /\ children_left' = children_left
    BY <1>3 DEF TestReceive, Left, players
  <2> QED BY <1>3, <2>1 DEF TestReceive, KillGroup, GroupLives, BingoTypeOK, NothingYet, AllForked, RequestAlive,
       ResultNoticed, FramesMatch, LifeLeft, Sent, ReapedPrinted, AllPrinted, Working, players, queues
<1>4. CASE Waitpid
  <2>1. CASE \E c \in Reapable :
               /\ player' = [player EXCEPT ![c] = "reaped"]
               /\ children_left' = children_left - 1
               /\ chld' = ReapsOn /\ UNCHANGED errno
    <3>1. PICK c \in Reapable :
               /\ player' = [player EXCEPT ![c] = "reaped"]
               /\ children_left' = children_left - 1
               /\ chld' = ReapsOn /\ UNCHANGED errno
      BY <2>1
    <3>2. c \in Children /\ player[c] = "zombie"
      BY DEF Reapable
    <3>3. children_left' = Cardinality(Left)' /\ children_left' \in Nat
      <4>1. player \in [Children -> {"none", "draw", "send", "exit", "zombie", "reaped"}]
        BY DEF BingoTypeOK
      <4>2. Cardinality(Left') = Cardinality(Left) - 1 /\ Cardinality(Left) > 0
        BY <3>1, <3>2, <4>1, LeftOneLess
      <4> QED BY <3>1, <4>2, LeftFinite
    <3>4. UNCHANGED <<pin, pout, registered, life, caller, mq, top, signals, announced>> /\ top = "chld"
      BY <1>4 DEF Waitpid, queues
    <3> QED BY <3>1, <3>2, <3>3, <3>4 DEF ReapsOn, BingoTypeOK, NothingYet, AllForked, RequestAlive, ResultNoticed,
         FramesMatch, LifeLeft, Sent, ReapedPrinted, AllPrinted, Working
  <2>2. CASE UNCHANGED <<player, children_left>> /\ chld' \in {"return", "errno"} /\ errno' \in {errno, "ECHILD"}
    <3>1. Left' = Left
      BY <2>2 DEF Left
    <3> QED BY <1>4, <2>2, <3>1 DEF Waitpid, BingoTypeOK, NothingYet, AllForked, RequestAlive, ResultNoticed,
         FramesMatch, LifeLeft, Sent, ReapedPrinted, AllPrinted, Working, queues
  <2> QED BY <1>4, <2>1, <2>2 DEF Waitpid
<1>5. CASE TestWaitpid
  <2>1. Left' = Left /\ children_left' = children_left
    BY <1>5 DEF TestWaitpid, Left, players
  <2> QED BY <1>5, <2>1 DEF TestWaitpid, KillGroup, GroupLives, BingoTypeOK, NothingYet, AllForked, RequestAlive,
       ResultNoticed, FramesMatch, LifeLeft, Sent, ReapedPrinted, AllPrinted, Working, players, queues
<1> QED BY <1>1, <1>2, <1>3, <1>4, <1>5

\* The parent outside its handlers.
LEMMA ParentWork ==
  ASSUME BingoInv, MainStep \/ \E c \in Children : Fork(c)
  PROVE  BingoInv'
<1> USE DEF BingoInv
<1>1. ASSUME NEW c \in Children, Fork(c) PROVE BingoInv'
  <2>1. children_left' = Cardinality(Left)' /\ children_left' \in Nat
    <3>1. player \in [Children -> {"none", "draw", "send", "exit", "zombie", "reaped"}]
      BY DEF BingoTypeOK
    <3>2. Cardinality(Left') = Cardinality(Left) + 1
      BY <1>1, <3>1, LeftOneMore DEF Fork
    <3> QED BY <1>1, <3>2, LeftFinite DEF Fork
  <2>2. BingoTypeOK'
    BY <1>1, <2>1 DEF Fork, BingoTypeOK, queues, handlers
  <2> QED BY <1>1, <2>1, <2>2, BingoAssumption DEF Fork, BingoTypeOK, NothingYet, AllForked, RequestAlive, ResultNoticed,
       FramesMatch, LifeLeft, Sent, ReapedPrinted, AllPrinted, Working, queues, handlers
<1>2. CASE MainStep
  <2>1. Left' = Left /\ children_left' = children_left
    BY <1>2 DEF MainStep, Register, TestLeft, SendNumber, Interrupted, Retry, Left, players
  <2>2. CASE TestLeft
    <3>1. AllPrinted'
      <4> SUFFICES ASSUME caller' = "ended", NEW c \in Children PROVE c \in announced'
        BY <2>2 DEF TestLeft, AllPrinted, BingoTypeOK
      <4>1. Left = {} /\ caller = "test" /\ top = "caller"
        BY <2>2, NobodyLeft DEF TestLeft
      <4>2. player[c] = "reaped"
        BY <4>1 DEF Left, AllForked, Working, BingoTypeOK
      <4> QED BY <2>2, <4>1, <4>2 DEF TestLeft, Sent, ReapedPrinted
    <3> QED BY <2>1, <2>2, <3>1 DEF TestLeft, BingoTypeOK, NothingYet, AllForked, RequestAlive, ResultNoticed,
         FramesMatch, LifeLeft, Sent, ReapedPrinted, Working, queues, players, handlers
  <2>3. CASE Register
    BY <2>1, <2>3 DEF Register, BingoTypeOK, NothingYet, AllForked, RequestAlive, ResultNoticed,
       FramesMatch, LifeLeft, Sent, ReapedPrinted, AllPrinted, Working, players, handlers
  <2>4. CASE SendNumber
    BY <2>1, <2>4, BingoAssumption DEF SendNumber, BingoTypeOK, NothingYet, AllForked, RequestAlive, ResultNoticed,
       FramesMatch, LifeLeft, Sent, ReapedPrinted, AllPrinted, Working, players, handlers
  <2>5. CASE Interrupted \/ Retry
    BY <2>1, <2>5 DEF Interrupted, Retry, KillGroup, BingoTypeOK, NothingYet, AllForked, RequestAlive, ResultNoticed,
       FramesMatch, LifeLeft, Sent, ReapedPrinted, AllPrinted, Working, queues, players, handlers
  <2> QED BY <1>2, <2>2, <2>3, <2>4, <2>5 DEF MainStep
<1> QED BY <1>1, <1>2

\* A child's steps.
LEMMA ChildWork ==
  ASSUME BingoInv, NEW c \in Children, PlayerStep(c)
  PROVE  BingoInv'
<1> USE DEF BingoInv
<1>1. CASE Draw(c)
  <2>1. PICK q \in {"send", "draw"} : player' = [player EXCEPT ![c] = q]
    BY <1>1 DEF Draw
  <2>2. Left' = Left /\ children_left' = children_left
    BY <1>1, <2>1, LeftSame DEF Draw, BingoTypeOK
  <2>3. pout' \in 0..BINGO_MAXMSG
    BY <1>1, BingoAssumption DEF Draw, BingoTypeOK
  <2>4. life' \in [Children -> 0..LIFE_SPAN] /\ LifeLeft'
    <3>1. life \in [Children -> 0..LIFE_SPAN] /\ life[c] \in 1..LIFE_SPAN /\ life' = [life EXCEPT ![c] = @ - 1]
      BY <1>1, BingoAssumption DEF Draw, LifeLeft, BingoTypeOK
    <3>2. life'[c] = 0 => player'[c] = "send"
      BY <1>1, <3>1 DEF Draw, BingoTypeOK
    <3> QED BY <1>1, <3>1, <3>2, <2>1, BingoAssumption DEF LifeLeft, BingoTypeOK
  <2> QED BY <1>1, <2>1, <2>2, <2>3, <2>4 DEF Draw, BingoTypeOK, NothingYet, AllForked, RequestAlive, ResultNoticed,
       FramesMatch, Sent, ReapedPrinted, AllPrinted, Working, handlers
<1>2. CASE SendResult(c)
  <2>1. CASE Cardinality(pin) < BINGO_MAXMSG
    <3>1. Left' = Left /\ children_left' = children_left
      BY <1>2, <2>1, LeftSame DEF SendResult, BingoTypeOK
    <3>5. pin' \in SUBSET Children /\ registered' \in BOOLEAN
      BY <1>2, <2>1 DEF SendResult, BingoTypeOK
    <3>6. signals' \subseteq {"RTMIN", "CHLD"}
      BY <1>2, <2>1 DEF SendResult, BingoTypeOK
    <3>7. /\ UNCHANGED <<pout, life, children_left, caller, handlers, errno, announced>>
          /\ player' = [player EXCEPT ![c] = "exit"]
      BY <1>2, <2>1 DEF SendResult
    <3>8. BingoTypeOK'
      BY <3>5, <3>6, <3>7 DEF BingoTypeOK, handlers
    <3>2. BingoTypeOK' /\ FramesMatch' /\ AllPrinted'
      BY <3>7, <3>8 DEF FramesMatch, AllPrinted, handlers
    <3>4. LifeLeft' /\ Sent' /\ ReapedPrinted'
      BY <1>2, <2>1 DEF SendResult, BingoTypeOK, LifeLeft, Sent, ReapedPrinted, handlers
    <3>3. NothingYet' /\ AllForked' /\ RequestAlive' /\ ResultNoticed'
      BY <1>2, <2>1 DEF SendResult, BingoTypeOK, NothingYet, AllForked, RequestAlive, ResultNoticed, Working, handlers
    <3> QED BY <3>1, <3>2, <3>3, <3>4
  <2>2. CASE ~(Cardinality(pin) < BINGO_MAXMSG)
    <3>1. Left' = Left /\ children_left' = children_left
      BY <1>2, <2>2 DEF SendResult, Left
    <3> QED BY <1>2, <2>2, <3>1 DEF SendResult, KillGroup, BingoTypeOK, NothingYet, AllForked, RequestAlive,
         ResultNoticed, FramesMatch, LifeLeft, Sent, ReapedPrinted, AllPrinted, Working, handlers
  <2> QED BY <2>1, <2>2
<1>3. CASE Exit(c)
  <2>1. Left' = Left /\ children_left' = children_left
    BY <1>3, LeftSame DEF Exit, BingoTypeOK
  <2> QED BY <1>3, <2>1 DEF Exit, GroupLives, BingoTypeOK, NothingYet, AllForked, RequestAlive, ResultNoticed,
       FramesMatch, LifeLeft, Sent, ReapedPrinted, AllPrinted, Working, queues, handlers
<1> QED BY <1>1, <1>2, <1>3 DEF PlayerStep

\* The strengthened invariant of bingo, one lemma per actor.
THEOREM BingoInductive == BingoSpec => []BingoInv
<1>1. ASSUME BingoInv, [BingoNext]_bingoVars PROVE BingoInv'
  <2>1. CASE UNCHANGED bingoVars
    BY <1>1, <2>1 DEF bingoVars, queues, players, handlers, BingoInv, Left, BingoTypeOK, NothingYet, AllForked,
       RequestAlive, ResultNoticed, FramesMatch, LifeLeft, Sent, ReapedPrinted, AllPrinted, Working
  <2>2. CASE BingoNext
    BY <1>1, <2>2, DeliveryStep, HandlerWork, ParentWork, ChildWork DEF BingoNext, HandlerStep
  <2> QED BY <1>1, <2>1, <2>2
<1> QED BY <1>1, InitInv, PTL DEF BingoSpec

\* The types of bingo's variables, for any children and queue limit.
THEOREM BingoTypeCorrect == BingoSpec => []BingoTypeOK
<1>1. BingoInv => BingoTypeOK
  BY DEF BingoInv
<1> QED BY <1>1, BingoInductive, PTL

\* The counter of the two handlers and fork (lines 82, 142) is the number of
\* children that have not been waited for.
THEOREM ChildrenCounted == BingoSpec => [](children_left = Cardinality(Left))
<1>1. BingoInv => children_left = Cardinality(Left)
  BY DEF BingoInv
<1> QED BY <1>1, BingoInductive, PTL

\* A result in pin has a signal or a handler that will receive it (lines 41-67).
THEOREM ResultsNoticed == BingoSpec => []ResultNoticed
<1>1. BingoInv => ResultNoticed
  BY DEF BingoInv
<1> QED BY <1>1, BingoInductive, PTL

\* The parent ends (line 128) only when all results are printed.
THEOREM EverythingPrinted == BingoSpec => []AllPrinted
<1>1. BingoInv => AllPrinted
  BY DEF BingoInv
<1> QED BY <1>1, BingoInductive, PTL

-----------------------------------------------------------------------------
(***************************************************************************)
(* Pastry. The cookies made for signals and those still owed never exceed  *)
(* two per signal, because the loop stores no more than what it has loaded *)
(* (CountDown); a client that has not left has missed fewer than MISSES    *)
(* times (MayFail).                                                        *)
(***************************************************************************)

\* In the loop that counts usr1_rec down: a loaded value is never above the
\* counter, and a cookie that is about to be baked is still owed.
CountDown ==
  /\ server \in {"load", "store", "bake"} => usr1_rec >= 0
  /\ server = "store" => copy \in 0..usr1_rec
  /\ server = "bake" => extra + 1 + usr1_rec <= 2 * sigusr1s

\* A client that has not left may still fail once more.
MayFail == \A c \in Customers : customer[c] # "left" => fail_count[c] < MISSES

PastryInv == PastryTypeOK /\ CountDown /\ MayFail /\ NoFreeCookies

\* PastryInv is inductive.
THEOREM PastryInductive == PastrySpec => []PastryInv
<1> USE PastryAssumption
<1>1. PastryInit => PastryInv
  <2>1. PastryInit => PastryTypeOK
    <3>1. PastryInit => /\ customer \in [Customers -> {"open", "take", "request", "left"}]
                        /\ fail_count \in [Customers -> 0..MISSES]
      BY DEF PastryInit, MISSES
    <3>2. PastryInit => /\ requests \in 0..PASTRY_MAXMSG /\ cookies \in 0..PASTRY_MAXMSG
                        /\ sigusr1s \in 0..MaxSigusr1s
      BY DEF PastryInit
    <3>3. PastryInit => usr1_rec \in Int /\ copy \in Int /\ extra \in Nat
      BY DEF PastryInit
    <3>4. PastryInit => int_rec \in BOOLEAN /\ server = "initial"
      BY DEF PastryInit
    <3> QED
      BY <3>1, <3>2, <3>3, <3>4 DEF PastryTypeOK
  <2>2. PastryInit => CountDown /\ MayFail
    BY DEF PastryInit, CountDown, MayFail, MISSES
  <2>3. PastryInit => NoFreeCookies
    BY DEF PastryInit, NoFreeCookies
  <2> QED
    BY <2>1, <2>2, <2>3 DEF PastryInv
<1>2. ASSUME PastryInv, [PastryNext]_pastryVars PROVE PastryInv'
  <2> USE <1>2 DEF PastryInv, mqs, flags, customers, history
  <2>1. CASE InitialRequest \/ TestSigintRec \/ CheckSigusr1 \/ ReceiveRequest \/ RandomAdd
    BY <2>1 DEF InitialRequest, TestSigintRec, CheckSigusr1, ReceiveRequest, RandomAdd, Room,
                Signalled, PastryTypeOK, CountDown, MayFail, NoFreeCookies
  <2>2. CASE LoadRec
    BY <2>2 DEF LoadRec, PastryTypeOK, CountDown, MayFail, NoFreeCookies
  <2>3. CASE StoreRec
    BY <2>3 DEF StoreRec, PastryTypeOK, CountDown, MayFail, NoFreeCookies
  <2>4. CASE BakeExtra
    BY <2>4 DEF BakeExtra, Room, PastryTypeOK, CountDown, MayFail, NoFreeCookies
  <2>5. CASE Sigusr1Handler
    BY <2>5 DEF Sigusr1Handler, PastryTypeOK, CountDown, MayFail, NoFreeCookies
  <2>6. CASE SigintHandler
    BY <2>6 DEF SigintHandler, PastryTypeOK, CountDown, MayFail, NoFreeCookies
  <2>7. ASSUME NEW c \in Customers, CustomerStep(c) PROVE PastryInv'
    BY <2>7 DEF CustomerStep, OpenQueues, TakeCookie, AddRequest, Room, MISSES,
                PastryTypeOK, CountDown, MayFail, NoFreeCookies
  <2>8. CASE UNCHANGED pastryVars
    BY <2>8 DEF pastryVars, PastryTypeOK, CountDown, MayFail, NoFreeCookies
  <2> QED
    BY <2>1, <2>2, <2>3, <2>4, <2>5, <2>6, <2>7, <2>8 DEF PastryNext, ServerStep
<1> QED
  BY <1>1, <1>2, PTL DEF PastrySpec

\* The types of the pastry shop's variables, for any limits of the queues.
THEOREM PastryTypeCorrect == PastrySpec => []PastryTypeOK
BY PastryInductive, PTL DEF PastryInv

\* No SIGUSR1 makes the server bake more than two cookies (lines 30, 55-71).
THEOREM CookiesOrdered == PastrySpec => []NoFreeCookies
BY PastryInductive, PTL DEF PastryInv

-----------------------------------------------------------------------------
(***************************************************************************)
(* Newspaper.  The first Held slots of the array hold articles (Filled),   *)
(* and moving one from the queue to the array (Receive), or the array to   *)
(* the paper (Count), leaves their concatenation as it is.                 *)
(***************************************************************************)

\* The first Held slots have been written since the array was last printed.
Filled == \A i \in 0..(Held - 1) : articles[i] \in Article

\* An editor that is asleep and about to receive has taken nothing yet.
FirstSinceAsleep ==
  /\ takenAsleep > 0 => sigusr1_rec
  /\ editor = "receive" /\ sigusr1_rec => takenAsleep = 0

\* A reporter that writes has lines left; this types the next article.
Writing == \A r \in Reporters :
  /\ reporter[r] = "write" => lines[r] > 0
  /\ reporter[r] = "open" => lines[r] = LINES

NewsInv ==
  /\ NewsTypeOK /\ takenAsleep \in Nat /\ kills \in Nat
  /\ Filled /\ Writing /\ FirstSinceAsleep /\ NothingLost /\ AsleepTakesOne

-----------------------------------------------------------------------------
\* The first of q goes to the end of g.
LEMMA MovedOn ==
  ASSUME NEW S, NEW g \in Seq(S), NEW h \in Seq(S), NEW q \in Seq(S), q # <<>>,
         Len(h) = Len(g) + 1, h[Len(g) + 1] = Head(q),
         \A i \in 1..Len(g) : h[i] = g[i]
  PROVE  h \o Tail(q) = g \o q
<1>1. Head(q) \in S /\ Tail(q) \in Seq(S) /\ Len(Tail(q)) = Len(q) - 1
      /\ \A i \in 1..Len(Tail(q)) : Tail(q)[i] = q[i + 1]
  BY HeadTailProperties
<1>2. Head(q) = q[1]
  OBVIOUS
<1>3. Len(g) \in Nat /\ Len(q) \in Nat /\ Len(q) >= 1
  BY LenProperties, EmptySeq
<1>4. /\ h \o Tail(q) \in Seq(S) /\ Len(h \o Tail(q)) = Len(g) + Len(q)
      /\ \A i \in 1..(Len(g) + Len(q)) :
           (h \o Tail(q))[i] = IF i <= Len(g) + 1 THEN h[i] ELSE Tail(q)[i - (Len(g) + 1)]
  <2>1. Len(h) + Len(Tail(q)) = Len(g) + Len(q)
    BY <1>1, <1>3
  <2>2. /\ h \o Tail(q) \in Seq(S) /\ Len(h \o Tail(q)) = Len(h) + Len(Tail(q))
        /\ \A i \in 1..(Len(h) + Len(Tail(q))) :
             (h \o Tail(q))[i] = IF i <= Len(h) THEN h[i] ELSE Tail(q)[i - Len(h)]
    BY <1>1, ConcatProperties
  <2> QED
    BY <2>1, <2>2
<1>5. /\ g \o q \in Seq(S) /\ Len(g \o q) = Len(g) + Len(q)
      /\ \A i \in 1..(Len(g) + Len(q)) :
           (g \o q)[i] = IF i <= Len(g) THEN g[i] ELSE q[i - Len(g)]
  BY ConcatProperties
<1>6. ASSUME NEW i \in 1..(Len(g) + Len(q)) PROVE (h \o Tail(q))[i] = (g \o q)[i]
  <2>1. CASE i <= Len(g)
    BY <1>3, <1>4, <1>5, <2>1
  <2>2. CASE i = Len(g) + 1
    BY <1>2, <1>3, <1>4, <1>5, <2>2
  <2>3. CASE i > Len(g) + 1
    <3>1. i - (Len(g) + 1) \in 1..Len(Tail(q)) /\ (i - (Len(g) + 1)) + 1 = i - Len(g)
      BY <1>1, <1>3, <2>3
    <3> QED
      BY <1>1, <1>3, <1>4, <1>5, <2>3, <3>1
  <2> QED
    BY <1>3, <2>1, <2>2, <2>3
<1> QED
  BY <1>4, <1>5, <1>6, SeqEqual

\* Gathered is a sequence of Held articles.
LEMMA GatheredSeq ==
  ASSUME NewsTypeOK, Filled
  PROVE  /\ Held \in 0..BATCH
         /\ Gathered \in Seq(Article) /\ Len(Gathered) = Held
         /\ \A i \in 1..Held : Gathered[i] = articles[i - 1]
<1> USE NewspaperAssumption
<1>1. Held \in 0..BATCH
  BY DEF NewsTypeOK, Held
<1>2. \A i \in 1..Held : articles[i - 1] \in Article
  BY <1>1 DEF Filled
<1>3. Gathered \in [1..Held -> Article]
  BY <1>2 DEF Gathered
<1> QED
  BY <1>1, <1>3 DEF Gathered

LEMMA InHandLen ==
  ASSUME NewsTypeOK, Filled
  PROVE  /\ printed \o Gathered \in Seq(Article) /\ InHand \in Seq(Article)
         /\ Len(InHand) = Len(printed) + Held + Len(queue)
<1>1. printed \in Seq(Article) /\ queue \in Seq(Article)
  BY DEF NewsTypeOK
<1>2. printed \o Gathered \in Seq(Article) /\ Len(printed \o Gathered) = Len(printed) + Held
  BY <1>1, GatheredSeq, ConcatProperties
<1> QED
  BY <1>1, <1>2, ConcatProperties DEF InHand

\* Steps that touch neither the articles nor the kills.
LEMMA SameInHands ==
  ASSUME NewsInv, UNCHANGED <<queue, printed, articles, offset, accepted, kills>>, Held' = Held
  PROVE  Filled' /\ NothingLost'
BY DEF NewsInv, Filled, NothingLost, InHand, Gathered

\* A received article stays in hand.
LEMMA ReceiveKeeps ==
  ASSUME NewsInv, Receive
  PROVE  NewsInv'
<1> USE NewspaperAssumption DEF NewsInv
<1>1. /\ offset \in 0..(BATCH - 1) /\ Held = offset /\ Held' = offset + 1
      /\ queue \in Seq(Article) /\ queue # <<>> /\ printed \in Seq(Article)
  BY DEF Receive, NewsTypeOK, Held
<1>2. /\ Head(queue) \in Article /\ Tail(queue) \in Seq(Article) /\ Len(Tail(queue)) = Len(queue) - 1
  BY <1>1, HeadTailProperties
<1>3. /\ articles' \in [0..(BATCH - 1) -> Article \cup {None}]
      /\ articles'[offset] = Head(queue)
      /\ \A i \in 0..(offset - 1) : articles'[i] = articles[i]
  BY <1>1, <1>2 DEF Receive, NewsTypeOK
<1>4. Filled'
  BY <1>1, <1>2, <1>3 DEF Filled
<1>5. /\ Gathered' \in Seq(Article) /\ Len(Gathered') = Len(Gathered) + 1
      /\ Gathered'[Len(Gathered) + 1] = Head(queue)
      /\ \A i \in 1..Len(Gathered) : Gathered'[i] = Gathered[i]
  <2>1. Gathered' = [i \in 1..(offset + 1) |-> articles'[i - 1]]
    BY <1>1 DEF Gathered
  <2>2. \A i \in 1..(offset + 1) : articles'[i - 1] \in Article
    BY <1>1, <1>4 DEF Filled
  <2>3. Gathered' \in [1..(offset + 1) -> Article]
    BY <2>1, <2>2
  <2>4. Gathered' \in Seq(Article) /\ Len(Gathered') = offset + 1
    BY <1>1, <2>1, <2>3
  <2>5. \A i \in 1..offset : Gathered'[i] = articles[i - 1]
    BY <1>1, <1>3, <2>1
  <2>6. Gathered'[offset + 1] = Head(queue)
    BY <1>1, <1>3, <2>1
  <2>7. Len(Gathered) = offset /\ \A i \in 1..offset : Gathered[i] = articles[i - 1]
    BY <1>1, GatheredSeq
  <2> QED
    BY <2>4, <2>5, <2>6, <2>7
<1>6. InHand' = InHand
  <2>1. Gathered \in Seq(Article)
    BY GatheredSeq
  <2>2. Gathered' \o Tail(queue) = Gathered \o queue
    BY <1>1, <1>5, <2>1, MovedOn
  <2>3. (printed \o Gathered') \o Tail(queue) = (printed \o Gathered) \o queue
    <3>1. ASSUME NEW k \in Seq(Article), NEW t \in Seq(Article)
          PROVE  (printed \o k) \o t = printed \o (k \o t)
      BY <1>1, ConcatAssociative
    <3>2. (printed \o Gathered') \o Tail(queue) = printed \o (Gathered' \o Tail(queue))
      BY <1>2, <1>5, <3>1
    <3>3. (printed \o Gathered) \o queue = printed \o (Gathered \o queue)
      BY <1>1, <2>1, <3>1
    <3> QED
      BY <2>2, <3>2, <3>3
  <2>4. queue' = Tail(queue) /\ printed' = printed
    BY DEF Receive
  <2> QED
    BY <2>3, <2>4 DEF InHand
<1>7. NothingLost'
  BY <1>6 DEF NothingLost, Receive, reporterVars
<1>8. NewsTypeOK'
  BY <1>1, <1>2, <1>3 DEF NewsTypeOK, Receive, reporterVars
<1>9. (takenAsleep \in Nat /\ FirstSinceAsleep /\ AsleepTakesOne /\ kills \in Nat)'
  BY DEF Receive, FirstSinceAsleep, AsleepTakesOne
<1>10. Writing'
  BY DEF Receive, Writing, reporterVars
<1> QED
  BY <1>4, <1>7, <1>8, <1>9, <1>10

\* A counted article stays in hand: in the array, or printed with all of it.
LEMMA CountKeeps ==
  ASSUME NewsInv, Count
  PROVE  NewsInv'
<1> USE NewspaperAssumption DEF NewsInv
<1>1. /\ offset \in 0..(BATCH - 1) /\ Held = offset + 1 /\ Held' = offset'
      /\ UNCHANGED <<queue, articles, accepted, kills>>
      /\ printed \in Seq(Article) /\ queue \in Seq(Article)
  BY DEF Count, NewsTypeOK, Held, NextRound, queueVars, reporterVars
<1>2. Gathered \in Seq(Article)
  BY GatheredSeq
<1>3. /\ offset' \in 0..(BATCH - 1) /\ printed' \in Seq(Article) /\ Filled'
      /\ printed' \o Gathered' = printed \o Gathered
  <2>1. CASE LastSlot(offset)
    <3>1. offset + 1 = BATCH /\ offset' = 0
      BY <1>1, <2>1 DEF Count, LastSlot, NextOffset
    <3>2. Gathered = [i \in 1..BATCH |-> articles[i - 1]]
      BY <1>1, <3>1 DEF Gathered
    <3>3. printed' = printed \o Gathered
      BY <2>1, <3>2 DEF Count
    <3>4. printed' \in Seq(Article)
      BY <1>1, <1>2, <3>3, ConcatProperties
    <3>5. Gathered' = <<>> /\ Filled'
      BY <1>1, <3>1 DEF Gathered, Filled
    <3>6. printed' \o Gathered' = printed'
      BY <3>4, <3>5, ConcatEmptySeq
    <3>7. offset' \in 0..(BATCH - 1)
      BY <3>1
    <3> QED
      BY <3>3, <3>4, <3>5, <3>6, <3>7
  <2>2. CASE ~LastSlot(offset)
    <3>1. offset' = offset + 1 /\ offset' \in 0..(BATCH - 1) /\ printed' = printed
      BY <1>1, <2>2 DEF Count, LastSlot, NextOffset
    <3>2. Held' = Held
      BY <1>1, <3>1
    <3>3. Gathered' = Gathered /\ Filled'
      BY <1>1, <3>2 DEF Gathered, Filled
    <3> QED
      BY <1>1, <3>1, <3>3
  <2> QED
    BY <2>1, <2>2
<1>4. InHand' = InHand
  BY <1>1, <1>3 DEF InHand
<1>5. NothingLost'
  BY <1>1, <1>4 DEF NothingLost
<1>6. NewsTypeOK' /\ Writing'
  BY <1>3 DEF NewsTypeOK, Writing, Count, queueVars, reporterVars, NextRound
<1>7. (takenAsleep \in Nat /\ FirstSinceAsleep /\ AsleepTakesOne /\ kills \in Nat)'
  BY DEF Count, NextRound, FirstSinceAsleep, AsleepTakesOne
<1> QED
  BY <1>3, <1>5, <1>6, <1>7

\* A sent article is in hand behind all others.
LEMMA SendKeeps ==
  ASSUME NewsInv, NEW r \in Reporters, Send(r)
  PROVE  NewsInv'
<1> USE NewspaperAssumption DEF NewsInv
<1> DEFINE a == <<r, LINES - lines[r] + 1>>
<1>1. lines[r] \in 1..LINES /\ a \in Article
  BY DEF Send, Writing, NewsTypeOK, Article
<1>2. queue \in Seq(Article) /\ accepted \in Seq(Article)
  BY DEF NewsTypeOK
<1>3. queue' = Append(queue, a) /\ accepted' = Append(accepted, a)
  BY DEF Send
<1> HIDE DEF a
<1>4. /\ queue' \in Seq(Article) /\ Len(queue') = Len(queue) + 1
      /\ accepted' \in Seq(Article) /\ Len(accepted') = Len(accepted) + 1
  BY <1>1, <1>2, <1>3
<1>5. UNCHANGED <<editor, articles, offset, sigusr1_rec, sigint_rec, printed, takenAsleep,
                  linked, toggles, kills>>
  BY DEF Send, editorVars
<1>6. NewsTypeOK'
  <2>1. Len(queue') <= MAXMSG
    BY <1>2, <1>4 DEF Send
  <2>2. lines' \in [Reporters -> 0..LINES] /\ reporter' \in [Reporters -> {"open", "write", "ended"}]
    BY <1>1 DEF Send, NewsTypeOK
  <2> QED
    BY <1>4, <1>5, <2>1, <2>2 DEF NewsTypeOK
<1>7. Filled' /\ FirstSinceAsleep' /\ AsleepTakesOne' /\ takenAsleep' \in Nat /\ kills' \in Nat
  BY <1>5 DEF Filled, Held, FirstSinceAsleep, AsleepTakesOne
<1>8. Writing'
  BY <1>1 DEF Send, Writing, NewsTypeOK
<1>9. Gathered' = Gathered
  BY <1>5 DEF Gathered, Held
<1>10. InHand' = Append(InHand, a)
  <2>1. Append(queue, a) = queue \o <<a>> /\ Append(InHand, a) = InHand \o <<a>>
    BY <1>1, <1>2, InHandLen, AppendIsConcat
  <2>2. (printed \o Gathered) \o (queue \o <<a>>) = ((printed \o Gathered) \o queue) \o <<a>>
    <3>1. <<a>> \in Seq(Article)
      BY <1>1
    <3>2. printed \o Gathered \in Seq(Article) /\ queue \in Seq(Article)
      BY <1>2, InHandLen
    <3>3. ASSUME NEW k \in Seq(Article), NEW q \in Seq(Article), NEW t \in Seq(Article)
          PROVE  k \o (q \o t) = (k \o q) \o t
      BY ConcatAssociative
    <3> QED
      BY <3>1, <3>2, <3>3
  <2> QED
    BY <1>3, <1>5, <1>9, <2>1, <2>2 DEF InHand
<1>11. Len(InHand') = Len(InHand) + 1 /\ Len(InHand) \in Nat
  BY <1>1, <1>10, InHandLen
<1>12. NothingLost'
  <2>1. kills' = 0 => accepted' = InHand'
    BY <1>3, <1>5, <1>10 DEF NothingLost
  <2>2. Len(accepted') <= Len(InHand') + kills' * BATCH
    <3>1. Len(accepted) <= Len(InHand) + kills * BATCH
      BY DEF NothingLost
    <3>2. kills * BATCH \in Int /\ Len(accepted) \in Nat
      BY <1>2
    <3> QED
      BY <1>4, <1>5, <1>11, <3>1, <3>2
  <2> QED
    BY <2>1, <2>2 DEF NothingLost
<1> QED
  BY <1>6, <1>7, <1>8, <1>12

\* A killed editor loses the articles in its array, at most BATCH.
LEMMA KillLoses ==
  ASSUME NewsInv, KillEditor
  PROVE  NewsInv'
<1> USE NewspaperAssumption DEF NewsInv
<1>1. /\ UNCHANGED <<queue, printed, accepted>>
      /\ kills' = kills + 1 /\ Held' = 0 /\ Gathered' = <<>>
  BY DEF KillEditor, queueVars, reporterVars, Gathered, Held
<1>2. NewsTypeOK' /\ Writing'
  <2>1. /\ articles' \in [0..(BATCH - 1) -> Article \cup {None}]
        /\ offset' \in 0..(BATCH - 1)
        /\ editor' = "start" /\ sigusr1_rec' = FALSE /\ sigint_rec' = FALSE
    BY DEF KillEditor
  <2>2. UNCHANGED <<queue, linked, reporter, lines, accepted, printed>>
    BY DEF KillEditor, queueVars, reporterVars
  <2> QED
    BY <2>1, <2>2 DEF NewsTypeOK, Writing
<1>3. Filled' /\ FirstSinceAsleep' /\ AsleepTakesOne' /\ takenAsleep' \in Nat /\ kills' \in Nat
  BY <1>1 DEF KillEditor, Filled, FirstSinceAsleep, AsleepTakesOne
<1>4. Len(InHand') = Len(printed) + Len(queue)
  <2>1. printed \in Seq(Article) /\ queue \in Seq(Article)
    BY DEF NewsTypeOK
  <2>2. printed \o <<>> = printed
    BY <2>1, ConcatEmptySeq
  <2> QED
    BY <1>1, <2>1, <2>2, ConcatProperties DEF InHand
<1>5. Len(InHand) = Len(printed) + Held + Len(queue) /\ Held <= BATCH /\ Held \in Nat
  BY InHandLen, GatheredSeq
<1>6. Len(accepted) <= Len(InHand') + (kills + 1) * BATCH
  <2>1. Len(accepted) <= Len(InHand) + kills * BATCH
    BY DEF NothingLost
  <2>2. (kills + 1) * BATCH = kills * BATCH + BATCH
    OBVIOUS
  <2>3. /\ kills * BATCH \in Int /\ Len(accepted) \in Nat /\ Len(printed) \in Nat
        /\ Len(queue) \in Nat
    BY DEF NewsTypeOK
  <2> QED
    BY <1>4, <1>5, <2>1, <2>2, <2>3
<1>7. NothingLost'
  BY <1>1, <1>6 DEF NothingLost
<1> QED
  BY <1>2, <1>3, <1>7

\* NewsInv is inductive.
THEOREM NewsInductive == NewsSpec => []NewsInv
<1> USE NewspaperAssumption
<1>1. NewsInit => NewsInv
  <2> SUFFICES ASSUME NewsInit PROVE NewsInv
    OBVIOUS
  <2>1. NewsTypeOK /\ Writing
    BY DEF NewsInit, NewsTypeOK, Writing
  <2>2. takenAsleep \in Nat /\ kills = 0 /\ Filled /\ FirstSinceAsleep /\ AsleepTakesOne
    BY DEF NewsInit, Filled, Held, FirstSinceAsleep, AsleepTakesOne
  <2>3. Gathered = <<>>
    BY DEF NewsInit, Gathered, Held
  <2>4. InHand = <<>> /\ accepted = <<>>
    BY <2>3 DEF NewsInit, InHand
  <2>5. NothingLost
    BY <2>2, <2>4 DEF NothingLost
  <2> QED
    BY <2>1, <2>2, <2>5 DEF NewsInv
<1>2. NewsInv /\ [NewsNext]_newsVars => NewsInv'
  <2> SUFFICES ASSUME NewsInv, [NewsNext]_newsVars PROVE NewsInv'
    OBVIOUS
  <2> USE DEF NewsInv
  <2>1. CASE Start \/ TestSigint \/ TestSleep \/ ReceiveNothing \/ Unlink
    <3>1. UNCHANGED <<queue, printed, articles, offset, accepted, kills, takenAsleep, sigusr1_rec>>
      BY <2>1 DEF Start, TestSigint, TestSleep, ReceiveNothing, Unlink, queueVars, reporterVars
    <3>2. NewsTypeOK' /\ Writing'
      BY <2>1 DEF Start, TestSigint, TestSleep, ReceiveNothing, Unlink, queueVars, reporterVars,
                  NewsTypeOK, Writing
    <3>3. FirstSinceAsleep' /\ AsleepTakesOne'
      BY <2>1 DEF Start, TestSigint, TestSleep, ReceiveNothing, Unlink, FirstSinceAsleep,
                  AsleepTakesOne
    <3>4. Held' = Held
      BY <2>1 DEF Start, TestSigint, TestSleep, ReceiveNothing, Unlink, Held
    <3> QED
      BY <3>1, <3>2, <3>3, <3>4, SameInHands
  <2>2. CASE Sigusr1 \/ EditorSigint
    <3>1. UNCHANGED <<queue, printed, articles, offset, accepted, kills>>
      BY <2>2 DEF Sigusr1, EditorSigint, queueVars, reporterVars
    <3>2. NewsTypeOK' /\ Writing'
      BY <2>2 DEF Sigusr1, EditorSigint, queueVars, reporterVars, NewsTypeOK, Writing
    <3>3. FirstSinceAsleep' /\ AsleepTakesOne' /\ takenAsleep' \in Nat
      BY <2>2 DEF Sigusr1, EditorSigint, FirstSinceAsleep, AsleepTakesOne
    <3>4. Held' = Held
      BY <2>2 DEF Sigusr1, EditorSigint, Held
    <3> QED
      BY <3>1, <3>2, <3>3, <3>4, SameInHands
  <2>3. ASSUME NEW r \in Reporters, Open(r) \/ Depart(r) PROVE NewsInv'
    <3>1. UNCHANGED <<queue, printed, articles, offset, accepted, kills, takenAsleep,
                      sigusr1_rec, editor, linked, sigint_rec>>
      BY <2>3 DEF Open, Depart, queueVars, editorVars
    <3>2. Writing'
      BY <2>3 DEF Open, Depart, Writing, NewsTypeOK
    <3>3. NewsTypeOK'
      <4>1. reporter' \in [Reporters -> {"open", "write", "ended"}] /\ lines' \in [Reporters -> 0..LINES]
        <5>1. CASE Open(r)
          BY <5>1 DEF Open, NewsTypeOK
        <5>2. CASE Depart(r)
          BY <5>2 DEF Depart, NewsTypeOK
        <5> QED
          BY <2>3, <5>1, <5>2
      <4> QED
        BY <3>1, <4>1 DEF NewsTypeOK
    <3>4. FirstSinceAsleep' /\ AsleepTakesOne' /\ Held' = Held
      BY <3>1 DEF FirstSinceAsleep, AsleepTakesOne, Held
    <3> QED
      BY <3>1, <3>2, <3>3, <3>4, SameInHands
  <2>4. CASE UNCHANGED newsVars
    <3>1. UNCHANGED <<queue, printed, articles, offset, accepted, kills, takenAsleep,
                      sigusr1_rec, editor, linked, sigint_rec, reporter, lines>>
      BY <2>4 DEF newsVars, queueVars, editorVars, reporterVars
    <3> QED
      BY <3>1, SameInHands DEF NewsTypeOK, Writing, FirstSinceAsleep, AsleepTakesOne, Held
  <2> QED
    BY <2>1, <2>2, <2>3, <2>4, ReceiveKeeps, CountKeeps, SendKeeps, KillLoses
       DEF NewsNext, EditorStep, Signals, ReporterStep
<1> QED
  BY <1>1, <1>2, PTL DEF NewsSpec

\* Every reachable state of the newspaper has the types of NewsTypeOK.
THEOREM NewsTypeCorrect == NewsSpec => []NewsTypeOK
BY NewsInductive, PTL DEF NewsInv

\* The array never skips, overwrites or repeats an article, and a killed editor
\* loses no more than the articles in its array, at most BATCH.
THEOREM NoArticleLost == NewsSpec => []NothingLost
BY NewsInductive, PTL DEF NewsInv

\* An editor that is put to sleep takes at most one more article.
THEOREM SleepersTakeOne == NewsSpec => []AsleepTakesOne
BY NewsInductive, PTL DEF NewsInv
=============================================================================
