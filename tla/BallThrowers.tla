---------------------------- MODULE BallThrowers ----------------------------
(***************************************************************************)
(* Lab3/prog18.c: detached threads throw balls into bins.  A thrower takes *)
(* a ball from those waiting, drops it into a bin and counts it as thrown, *)
(* each counter and each bin under a mutex of its own.  The main thread    *)
(* looks at the count of balls thrown once a second; when all are, it reads*)
(* the bins WITHOUT their mutexes, prints the total and exits.             *)
(*                                                                         *)
(* Each critical section is two steps, the load of the value and the store *)
(* that ends with the unlock, so a missing lock would show.                *)
(***************************************************************************)
EXTENDS Integers, FiniteSets

CONSTANTS Throwers, Bins, BallsCount

ASSUME BallThrowersAssumption ==
  /\ IsFiniteSet(Throwers) /\ IsFiniteSet(Bins) /\ Bins # {}
  /\ BallsCount \in Nat \ {0}

VARIABLES
  ballsWaiting, ballsThrown, bins,
  thrower, loaded, binno,        \* each thrower: position, the value it loaded, its bin
  poller, bt,                 \* the main thread and its copy of ballsThrown
  unread, realBallsCount    \* the bins main has yet to add, and their sum so far

counters == <<ballsWaiting, ballsThrown, bins>>
throwerVars == <<thrower, loaded, binno>>
mainVars == <<poller, bt, unread, realBallsCount>>
ballsVars == <<counters, throwerVars, mainVars>>

\* make_throwers: every thread at the head of its loop.
MadeThrowers ==
  /\ thrower = [t \in Throwers |-> "idle"] /\ loaded = [t \in Throwers |-> 0]
  /\ binno \in [Throwers -> Bins]

BallsInit ==
  /\ ballsWaiting = BallsCount /\ ballsThrown = 0 /\ bins = [b \in Bins |-> 0]
  /\ MadeThrowers
  /\ poller = "poll" /\ bt = 0 /\ unread = Bins /\ realBallsCount = 0

-----------------------------------------------------------------------------
(* The throwers.  A mutex is held by the thrower that is in the section.   *)

At(l) == {t \in Throwers : thrower[t] = l}

NeverHeld == TRUE          \* as if the threads did not lock
FreeWaiting == At("take") = {}
FreeThrown  == At("count") = {}
FreeBin(b)  == \A t \in At("drop") : binno[t] # b

\* pthread_mutex_lock(pmxBallsWaiting) and the test of line 125.
LockWaiting(t) ==
  /\ thrower[t] = "idle" /\ FreeWaiting
  /\ loaded' = [loaded EXCEPT ![t] = ballsWaiting]
  /\ thrower' = [thrower EXCEPT ![t] = "take"]
  /\ UNCHANGED <<counters, binno, mainVars>>

\* The test, and one that lets the last thrower take a ball too many.
SomeLeftOffByOne(n) == n >= 0
SomeLeft(n) == n > 0

\* A ball is taken, or there is none and the thread ends; then the unlock.
Take(t) ==
  /\ thrower[t] = "take"
  /\ ballsWaiting' = IF SomeLeft(loaded[t]) THEN loaded[t] - 1 ELSE ballsWaiting
  /\ thrower' = [thrower EXCEPT ![t] = IF SomeLeft(loaded[t]) THEN "throw" ELSE "done"]
  /\ UNCHANGED <<ballsThrown, bins, loaded, binno, mainVars>>

\* throwBall, and the lock of the bin it returns; without the lock two
\* throwers load the same value.
NoLock(b) == TRUE
BinLock(b) == FreeBin(b)

LockBin(t) ==
  /\ thrower[t] = "throw"
  /\ \E b \in Bins :
       /\ BinLock(b)
       /\ binno' = [binno EXCEPT ![t] = b]
       /\ loaded' = [loaded EXCEPT ![t] = bins[b]]
  /\ thrower' = [thrower EXCEPT ![t] = "drop"]
  /\ UNCHANGED <<counters, mainVars>>

Drop(t) ==
  /\ thrower[t] = "drop"
  /\ bins' = [bins EXCEPT ![binno[t]] = loaded[t] + 1]
  /\ thrower' = [thrower EXCEPT ![t] = "dropped"]
  /\ UNCHANGED <<ballsWaiting, ballsThrown, loaded, binno, mainVars>>

LockThrown(t) ==
  /\ thrower[t] = "dropped" /\ FreeThrown
  /\ loaded' = [loaded EXCEPT ![t] = ballsThrown]
  /\ thrower' = [thrower EXCEPT ![t] = "count"]
  /\ UNCHANGED <<counters, binno, mainVars>>

Count(t) ==
  /\ thrower[t] = "count"
  /\ ballsThrown' = loaded[t] + 1
  /\ thrower' = [thrower EXCEPT ![t] = "idle"]
  /\ UNCHANGED <<ballsWaiting, bins, loaded, binno, mainVars>>

-----------------------------------------------------------------------------
(* The main thread.                                                        *)

\* What main compares with ballsCount: the balls that are counted as thrown,
\* not those that have left the waiting ones.
Gone == BallsCount - ballsWaiting
Progress == ballsThrown

\* sleep(1), then bt = ballsThrown under the mutex; while (bt < ballsCount).
Poll ==
  /\ poller = "poll" /\ FreeThrown
  /\ bt' = Progress
  /\ poller' = IF bt' < BallsCount THEN "poll" ELSE "read"
  /\ UNCHANGED <<counters, throwerVars, unread, realBallsCount>>

\* realBallsCount += bins[i], without the mutex of the bin.
ReadBin ==
  /\ poller = "read"
  /\ \E b \in unread :
       /\ realBallsCount' = realBallsCount + bins[b]
       /\ unread' = unread \ {b}
  /\ UNCHANGED <<counters, throwerVars, poller, bt>>

\* The total is printed and exit ends the process with its throwers.
Finish ==
  /\ poller = "read" /\ unread = {}
  /\ poller' = "printed"
  /\ UNCHANGED <<counters, throwerVars, bt, unread, realBallsCount>>

ThrowerStep(t) ==
  /\ poller # "printed"
  /\ \/ LockWaiting(t) \/ Take(t) \/ LockBin(t) \/ Drop(t) \/ LockThrown(t) \/ Count(t)
MainStep == Poll \/ ReadBin \/ Finish

BallsNext == MainStep \/ \E t \in Throwers : ThrowerStep(t)

BallsSpec == BallsInit /\ [][BallsNext]_ballsVars

-----------------------------------------------------------------------------
\* The types of the variables.
BallsTypeOK ==
  /\ ballsWaiting \in 0..BallsCount /\ ballsThrown \in 0..BallsCount
  /\ bins \in [Bins -> Nat]
  /\ thrower \in [Throwers -> {"idle", "take", "throw", "drop", "dropped", "count", "done"}]
  /\ loaded \in [Throwers -> Nat] /\ binno \in [Throwers -> Bins]
  /\ poller \in {"poll", "read", "printed"} /\ bt \in 0..BallsCount
  /\ unread \subseteq Bins /\ realBallsCount \in Nat

InHand == At("throw") \cup At("drop") \cup At("dropped") \cup At("count")

\* Every ball is waiting, in the hand of one thrower or counted as thrown
\* (lines 124-138): none is taken twice and no update is lost.
BallsConserved == ballsWaiting + Cardinality(InHand) + ballsThrown = BallsCount

\* The unlocked loop over the bins (lines 70-73) is safe: no thrower is about to
\* write a bin or to take another ball while main reads them.
ReadsAlone == poller # "poll" => InHand = {} /\ ballsWaiting = 0

\* The total that main prints (line 78) is the number of balls it was asked
\* to throw: no bin lost an increment and main read none too early.
TotalExact == poller = "printed" => realBallsCount = BallsCount
=============================================================================
