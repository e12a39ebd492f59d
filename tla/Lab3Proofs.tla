----------------------------- MODULE Lab3Proofs -----------------------------
(***************************************************************************)
(* Proofs about the thread exercises of Lab3, for every set of students,   *)
(* of throwers and of bins, every number of balls and every size of the    *)
(* array.                                                                  *)
(***************************************************************************)
EXTENDS Students, BallThrowers, Removal, FiniteSetTheorems, TLAPS

-----------------------------------------------------------------------------
(***************************************************************************)
(* Students. The counters are compared with the cardinality of the set of  *)
(* students in the year; each step adds one student to one such set,       *)
(* removes one from one, or changes none, and the library's theorems on    *)
(* finite sets turn that into the step of the counter.                     *)
(***************************************************************************)

\* StudentsTypeOK without the bounds on the counts.
StudentsTypes ==
  /\ values \in [0..Engineer -> Int]
  /\ doing \in [Student -> {"enter", "asleep", "awake", "kicked", "engineer"}]
  /\ year \in [Student -> 0..Engineer]
  /\ cancelled \subseteq Student /\ removed \subseteq Student
  /\ present \in Int
  /\ kicker \in {"kicking", "joining", "done"} /\ joined \subseteq Student
  /\ printed \in [0..Engineer -> Int]

\* Where a student can be, who has been joined, and what was printed.
StudentsShape ==
  /\ \A s \in Student : /\ doing[s] \in {"asleep", "awake"} => year[s] \in Years
                        /\ doing[s] = "engineer" => year[s] = Engineer
                        /\ doing[s] = "kicked" => s \in removed
  /\ cancelled = removed
  /\ joined \subseteq Ended
  /\ kicker = "done" => joined = Student /\ printed = values
  /\ kicker # "done" => printed = [y \in 0..Engineer |-> 0]

StudentsInv == StudentsTypes /\ StudentsShape /\ CountersExact /\ PresentExact

-----------------------------------------------------------------------------
\* The students of a year are finitely many.
LEMMA InYearFinite ==
  ASSUME NEW y
  PROVE  IsFiniteSet(InYear(y)) /\ Cardinality(InYear(y)) \in 0..Cardinality(Student)
<1>1. InYear(y) \in SUBSET Student
  BY DEF InYear
<1> QED
  BY <1>1, StudentsAssumption, FS_Subset, FS_CardinalityType

\* The counters follow a student that enters year y.
LEMMA Entering ==
  ASSUME StudentsTypes, CountersExact, NEW y \in 0..Engineer, NEW s,
         s \notin InYear(y), InYear(y)' = InYear(y) \cup {s},
         \A z \in 0..Engineer : z # y => InYear(z)' = InYear(z),
         values' = [values EXCEPT ![y] = @ + 1]
  PROVE  CountersExact'
<1>1. Cardinality(InYear(y)') = Cardinality(InYear(y)) + 1
  BY InYearFinite, FS_AddElement
<1>2. values'[y] = Cardinality(InYear(y)')
  BY <1>1 DEF CountersExact, StudentsTypes
<1>3. \A z \in 0..Engineer : z # y => values'[z] = Cardinality(InYear(z)')
  BY DEF CountersExact, StudentsTypes
<1> QED
  BY <1>2, <1>3 DEF CountersExact

\* The counters follow a student that leaves year y.
LEMMA Leaving ==
  ASSUME StudentsTypes, CountersExact, NEW y \in 0..Engineer, NEW s,
         s \in InYear(y), InYear(y)' = InYear(y) \ {s},
         \A z \in 0..Engineer : z # y => InYear(z)' = InYear(z),
         values' = [values EXCEPT ![y] = @ - 1]
  PROVE  CountersExact'
<1>1. Cardinality(InYear(y)') = Cardinality(InYear(y)) - 1
  BY InYearFinite, FS_RemoveElement
<1>2. values'[y] = Cardinality(InYear(y)')
  BY <1>1 DEF CountersExact, StudentsTypes
<1>3. \A z \in 0..Engineer : z # y => values'[z] = Cardinality(InYear(z)')
  BY DEF CountersExact, StudentsTypes
<1> QED
  BY <1>2, <1>3 DEF CountersExact

\* The counters stay when nobody enters or leaves a year.
LEMMA Staying ==
  ASSUME CountersExact, values' = values,
         \A y \in 0..Engineer : InYear(y)' = InYear(y)
  PROVE  CountersExact'
BY DEF CountersExact

\* StudentsTypes, shape and the counters are inductive.
THEOREM StudentsInductive == StudentsSpec => []StudentsInv
<1> USE StudentsAssumption DEF Engineer, Years
<1>1. StudentsInit => StudentsInv
  <2> SUFFICES ASSUME StudentsInit PROVE StudentsInv
    OBVIOUS
  <2>1. \A y \in 0..Engineer : InYear(y) = {}
    BY DEF StudentsInit, InYear
  <2>2. CountersExact
    BY <2>1, FS_EmptySet DEF StudentsInit, CountersExact
  <2>3. Student \ removed = Student /\ Cardinality(Student) \in Nat
    BY FS_CardinalityType DEF StudentsInit
  <2> QED
    BY <2>2, <2>3 DEF StudentsInit, StudentsInv, StudentsTypes, StudentsShape, PresentExact
<1>2. StudentsInv /\ [StudentsNext]_studentsVars => StudentsInv'
  <2> SUFFICES ASSUME StudentsInv, [StudentsNext]_studentsVars PROVE StudentsInv'
    OBVIOUS
  <2> USE DEF StudentsInv
  <2>1. ASSUME NEW s \in Student, Enter(s) PROVE StudentsInv'
    <3>1. StudentsTypes' /\ StudentsShape'
      BY <2>1 DEF Enter, listVars, StudentsTypes, StudentsShape, Ended
    <3>2. CountersExact'
      <4>1. s \notin InYear(year[s]) /\ InYear(year[s])' = InYear(year[s]) \cup {s}
        BY <2>1 DEF Enter, InYear, StudentsTypes
      <4>2. \A z \in 0..Engineer : z # year[s] => InYear(z)' = InYear(z)
        BY <2>1 DEF Enter, InYear, StudentsTypes
      <4> QED
        BY <2>1, <4>1, <4>2, Entering DEF Enter, StudentsTypes
    <3> QED
      BY <2>1, <3>1, <3>2 DEF Enter, listVars, PresentExact
  <2>2. ASSUME NEW s \in Student, WakeUp(s) PROVE StudentsInv'
    <3>1. StudentsTypes' /\ StudentsShape'
      BY <2>2 DEF WakeUp, listVars, StudentsTypes, StudentsShape, Ended
    <3>2. \A y \in 0..Engineer : InYear(y)' = InYear(y)
      BY <2>2 DEF WakeUp, InYear, StudentsTypes
    <3> QED
      BY <2>2, <3>1, <3>2, Staying DEF WakeUp, listVars, PresentExact
  <2>3. ASSUME NEW s \in Student, Cancelled(s) PROVE StudentsInv'
    <3>1. StudentsTypes' /\ StudentsShape'
      BY <2>3 DEF Cancelled, ActsOnCancel, Cleanup, Decremented, listVars, StudentsTypes, StudentsShape, Ended
    <3>2. CountersExact'
      <4>1. s \in InYear(year[s]) /\ InYear(year[s])' = InYear(year[s]) \ {s}
        BY <2>3 DEF Cancelled, ActsOnCancel, InYear, StudentsTypes
      <4>2. \A z \in 0..Engineer : z # year[s] => InYear(z)' = InYear(z)
        BY <2>3 DEF Cancelled, ActsOnCancel, InYear, StudentsTypes
      <4> QED
        BY <2>3, <4>1, <4>2, Leaving DEF Cancelled, ActsOnCancel, Cleanup, Decremented, StudentsTypes
    <3> QED
      BY <2>3, <3>1, <3>2 DEF Cancelled, ActsOnCancel, listVars, PresentExact
  <2>4. ASSUME NEW s \in Student, LeaveYear(s) PROVE StudentsInv'
    <3>1. StudentsTypes' /\ StudentsShape'
      BY <2>4 DEF LeaveYear, Decremented, listVars, StudentsTypes, StudentsShape, Ended
    <3>2. CountersExact'
      <4>1. PICK y \in 0..Engineer : y = year[s]
        BY DEF StudentsTypes
      <4>2. /\ doing[s] = "awake" /\ doing'[s] = "enter"
            /\ \A r \in Student : r # s => doing'[r] = doing[r] /\ year'[r] = year[r]
        BY <2>4 DEF LeaveYear, StudentsTypes
      <4>3. s \in InYear(y) /\ InYear(y)' = InYear(y) \ {s}
        BY <4>1, <4>2 DEF InYear
      <4>4. \A z \in 0..Engineer : z # y => InYear(z)' = InYear(z)
        BY <4>1, <4>2 DEF InYear
      <4>5. values' = [values EXCEPT ![y] = @ - 1]
        BY <2>4, <4>1 DEF LeaveYear, Decremented
      <4> QED
        BY <4>3, <4>4, <4>5, Leaving
    <3> QED
      BY <2>4, <3>1, <3>2 DEF LeaveYear, listVars, PresentExact
  <2>5. ASSUME NEW s \in Student, Kick(s) PROVE StudentsInv'
    <3>1. StudentsTypes' /\ StudentsShape'
      BY <2>5 DEF Kick, PresentAfterKick, studentVars, StudentsTypes, StudentsShape, Ended
    <3>2. CountersExact'
      BY <2>5, Staying DEF Kick, studentVars, InYear
    <3>3. PresentExact'
      <4>1. (Student \ removed)' = (Student \ removed) \ {s} /\ s \in Student \ removed
        BY <2>5 DEF Kick
      <4>2. IsFiniteSet(Student \ removed)
        BY FS_Subset
      <4>3. Cardinality((Student \ removed)') = Cardinality(Student \ removed) - 1
        BY <4>1, <4>2, FS_RemoveElement
      <4> QED
        BY <2>5, <4>3 DEF Kick, PresentAfterKick, PresentExact
    <3> QED
      BY <3>1, <3>2, <3>3
  <2>6. CASE MainEnds
    <3>1. UNCHANGED <<values, doing, year, removed, present>>
      BY <2>6 DEF MainEnds, StopKicking, PrintCounters, Join, studentVars, listVars
    <3>2. CountersExact' /\ PresentExact'
      BY <3>1, Staying DEF InYear, PresentExact
    <3>3. StudentsTypes' /\ StudentsShape'
      BY <2>6 DEF MainEnds, StopKicking, PrintCounters, Join, Joins, studentVars, listVars,
                  StudentsTypes, StudentsShape, Ended
    <3> QED
      BY <3>2, <3>3
  <2>7. CASE UNCHANGED studentsVars
    BY <2>7, Staying DEF studentsVars, StudentsTypes, StudentsShape, Ended, InYear, PresentExact
  <2> QED
    BY <2>1, <2>2, <2>3, <2>4, <2>5, <2>6, <2>7 DEF StudentsNext, StudentStep
<1> QED
  BY <1>1, <1>2, PTL DEF StudentsSpec

\* Every reachable state has the types of StudentsTypeOK: no counter is ever negative
\* or above the number of students.
THEOREM StudentsTypeCorrect == StudentsSpec => []StudentsTypeOK
<1>1. StudentsInv => StudentsTypeOK
  <2> SUFFICES ASSUME StudentsInv PROVE StudentsTypeOK
    OBVIOUS
  <2>1. values \in [0..Engineer -> 0..Cardinality(Student)]
    BY InYearFinite DEF StudentsInv, StudentsTypes, CountersExact
  <2>2. present \in 0..Cardinality(Student)
    <3>1. Student \ removed \in SUBSET Student
      OBVIOUS
    <3> QED
      BY <3>1, StudentsAssumption, FS_Subset, FS_CardinalityType DEF StudentsInv, PresentExact
  <2>3. printed \in [0..Engineer -> Nat]
    <3>1. Cardinality(Student) \in Nat
      BY StudentsAssumption, FS_CardinalityType
    <3> QED
      BY <2>1, <3>1 DEF StudentsInv, StudentsShape, StudentsTypes
  <2> QED
    BY <2>1, <2>2, <2>3 DEF StudentsInv, StudentsTypes, StudentsTypeOK
<1> QED
  BY <1>1, StudentsInductive, PTL

\* Each year's counter is exact, however kicks and years interleave.
THEOREM CountersAreExact == StudentsSpec => []CountersExact
<1> QED
  BY StudentsInductive, PTL DEF StudentsInv

\* present counts the students not removed.
THEOREM PresentIsExact == StudentsSpec => []PresentExact
<1> QED
  BY StudentsInductive, PTL DEF StudentsInv

\* What main prints is final: three empty years and all graduates.
THEOREM FinalCounters == StudentsSpec => []PrintedFinal
<1>1. StudentsInv => PrintedFinal
  <2> SUFFICES ASSUME StudentsInv, kicker = "done" PROVE PrintedFinal
    BY DEF PrintedFinal
  <2>1. \A s \in Student : doing[s] \in {"engineer", "kicked"}
    BY DEF StudentsInv, StudentsShape, Ended
  <2>2. printed = values
    BY DEF StudentsInv, StudentsShape
  <2>3. ASSUME NEW y \in Years PROVE printed[y] = 0
    <3>1. InYear(y) = {}
      BY <2>1, <2>3 DEF StudentsInv, StudentsShape, InYear, Years, Engineer
    <3> QED
      BY <2>2, <2>3, <3>1, FS_EmptySet DEF StudentsInv, CountersExact, Years, Engineer
  <2>4. InYear(Engineer) = {s \in Student : doing[s] = "engineer"}
    BY <2>1 DEF StudentsInv, StudentsShape, InYear, Engineer
  <2>5. printed[Engineer] = Cardinality({s \in Student : doing[s] = "engineer"})
    BY <2>2, <2>4 DEF StudentsInv, CountersExact, Engineer
  <2>6. \A s \in Student \ removed : doing[s] = "engineer"
    BY <2>1 DEF StudentsInv, StudentsShape
  <2> QED
    BY <2>3, <2>5, <2>6 DEF PrintedFinal
<1> QED
  BY <1>1, StudentsInductive, PTL

-----------------------------------------------------------------------------
(***************************************************************************)
(* BallThrowers. The strengthening says what a held mutex protects: the    *)
(* value that its holder loaded is still the value of the counter (Held),  *)
(* and main has seen all balls thrown when it leaves its loop (Seen).      *)
(***************************************************************************)

\* Mutual exclusion in the sections of the two counters, and what it gives.
Held ==
  /\ \A t, u \in At("take") : t = u
  /\ \A t, u \in At("count") : t = u
  /\ \A t \in At("take") : loaded[t] = ballsWaiting
  /\ \A t \in At("count") : loaded[t] = ballsThrown

\* Past its loop, main has read a count that cannot change any more.
Seen == poller # "poll" => ballsThrown = BallsCount

BallsInv == BallsTypeOK /\ Held /\ BallsConserved /\ Seen

-----------------------------------------------------------------------------
\* The balls in hand are finitely many.
LEMMA InHandFinite == IsFiniteSet(InHand) /\ Cardinality(InHand) \in Nat
<1>1. InHand \in SUBSET Throwers
  BY DEF InHand, At
<1> QED
  BY <1>1, BallThrowersAssumption, FS_Subset, FS_CardinalityType

\* When every ball is counted as thrown, none is in hand and none is waiting.
LEMMA AllThrown ==
  ASSUME BallsTypeOK, BallsConserved, ballsThrown = BallsCount
  PROVE  InHand = {} /\ ballsWaiting = 0
<1>1. Cardinality(InHand) = 0 /\ ballsWaiting = 0
  BY InHandFinite, BallThrowersAssumption DEF BallsTypeOK, BallsConserved
<1> QED
  BY <1>1, InHandFinite, FS_EmptySet

\* A step of thrower t that changes neither a counter nor whether t has a ball
\* in hand conserves the balls.
LEMMA SameInHand ==
  ASSUME InHand' = InHand, BallsConserved,
         ballsWaiting' = ballsWaiting, ballsThrown' = ballsThrown
  PROVE  BallsConserved'
BY DEF BallsConserved

-----------------------------------------------------------------------------
\* Initially all balls are waiting.
LEMMA InitBallsInv == BallsInit => BallsInv
<1> SUFFICES ASSUME BallsInit PROVE BallsInv
  OBVIOUS
<1>1. BallsTypeOK
  <2>1. ballsWaiting \in 0..BallsCount /\ ballsThrown \in 0..BallsCount /\ bt \in 0..BallsCount
    BY BallThrowersAssumption DEF BallsInit, MadeThrowers
  <2> QED
    BY <2>1 DEF BallsInit, MadeThrowers, BallsTypeOK
<1>2. InHand = {} /\ At("take") = {} /\ At("count") = {}
  BY DEF BallsInit, MadeThrowers, InHand, At
<1>3. BallsConserved
  BY <1>2, FS_EmptySet, BallThrowersAssumption DEF BallsInit, MadeThrowers, BallsConserved
<1> QED
  BY <1>1, <1>2, <1>3 DEF BallsInit, MadeThrowers, BallsInv, Held, Seen

\* A thrower locks the mutex of the waiting balls.
LEMMA LockWaitingBallsInv ==
  ASSUME BallsInv, NEW t \in Throwers, LockWaiting(t)
  PROVE  BallsInv'
<1> USE DEF LockWaiting, counters, mainVars
<1>0. thrower'[t] = "take" /\ \A u \in Throwers \ {t} : thrower'[u] = thrower[u]
  BY DEF BallsInv, BallsTypeOK
<1>1. BallsTypeOK'
  BY DEF BallsInv, BallsTypeOK
<1>2. Held'
  BY <1>0 DEF BallsInv, BallsTypeOK, Held, At, FreeWaiting
<1>3. BallsConserved'
  <2>1. InHand' = InHand
    BY <1>0 DEF InHand, At
  <2> QED
    BY <2>1, SameInHand DEF BallsInv
<1> QED
  BY <1>1, <1>2, <1>3 DEF BallsInv, Seen

\* It takes a ball or finds none.
LEMMA TakeBallsInv ==
  ASSUME BallsInv, NEW t \in Throwers, Take(t)
  PROVE  BallsInv'
<1> USE DEF Take, mainVars, SomeLeft
<1>0. /\ loaded[t] = ballsWaiting /\ \A u \in Throwers \ {t} : thrower[u] # "take"
      /\ thrower'[t] = IF ballsWaiting > 0 THEN "throw" ELSE "done"
      /\ \A u \in Throwers \ {t} : thrower'[u] = thrower[u]
  BY DEF BallsInv, BallsTypeOK, Held, At
<1>1. BallsTypeOK'
  <2>1. ballsWaiting' \in 0..BallsCount
    <3>1. ballsWaiting \in 0..BallsCount /\ BallsCount \in Nat
      BY BallThrowersAssumption DEF BallsInv, BallsTypeOK
    <3>2. ballsWaiting' = IF ballsWaiting > 0 THEN ballsWaiting - 1 ELSE ballsWaiting
      BY <1>0
    <3> QED
      BY <3>1, <3>2
  <2> QED
    BY <2>1 DEF BallsInv, BallsTypeOK
<1>2. Held'
  BY <1>0 DEF BallsInv, BallsTypeOK, Held, At
<1>3. CASE ballsWaiting > 0
  <2>1. InHand' = InHand \cup {t} /\ t \notin InHand
    BY <1>0, <1>3 DEF InHand, At
  <2>2. Cardinality(InHand') = Cardinality(InHand) + 1
    BY <2>1, InHandFinite, FS_AddElement
  <2>3. BallsConserved'
    BY <1>0, <1>3, <2>2, InHandFinite, BallThrowersAssumption DEF BallsInv, BallsTypeOK, BallsConserved
  <2> QED
    BY <1>1, <1>2, <2>3 DEF BallsInv, Seen
<1>4. CASE ~(ballsWaiting > 0)
  <2>1. InHand' = InHand
    BY <1>0, <1>4 DEF InHand, At
  <2>2. BallsConserved'
    BY <1>0, <1>4, <2>1, SameInHand DEF BallsInv
  <2> QED
    BY <1>1, <1>2, <2>2 DEF BallsInv, Seen
<1> QED
  BY <1>3, <1>4

\* The ball goes to a bin; the counters do not see it.
LEMMA BinBallsInv ==
  ASSUME BallsInv, NEW t \in Throwers, LockBin(t) \/ Drop(t)
  PROVE  BallsInv'
<1> USE DEF LockBin, Drop, counters, mainVars, BinLock
<1>0. /\ thrower[t] \in {"throw", "drop"} /\ thrower'[t] \in {"drop", "dropped"}
      /\ \A u \in Throwers \ {t} : thrower'[u] = thrower[u] /\ loaded'[u] = loaded[u]
  BY DEF BallsInv, BallsTypeOK
<1>1. BallsTypeOK'
  <2>1. CASE LockBin(t)
    BY <2>1 DEF BallsInv, BallsTypeOK
  <2>2. CASE Drop(t)
    BY <2>2 DEF BallsInv, BallsTypeOK
  <2> QED
    BY <2>1, <2>2
<1>2. Held'
  BY <1>0 DEF BallsInv, Held, At
<1>3. BallsConserved'
  <2>1. InHand' = InHand
    BY <1>0 DEF InHand, At
  <2> QED
    BY <2>1, SameInHand DEF BallsInv
<1> QED
  BY <1>1, <1>2, <1>3 DEF BallsInv, Seen

\* A thrower locks the mutex of the balls thrown.
LEMMA LockThrownBallsInv ==
  ASSUME BallsInv, NEW t \in Throwers, LockThrown(t)
  PROVE  BallsInv'
<1> USE DEF LockThrown, counters, mainVars
<1>0. thrower'[t] = "count" /\ \A u \in Throwers \ {t} : thrower'[u] = thrower[u]
  BY DEF BallsInv, BallsTypeOK
<1>1. BallsTypeOK'
  BY DEF BallsInv, BallsTypeOK
<1>2. Held'
  BY <1>0 DEF BallsInv, BallsTypeOK, Held, At, FreeThrown
<1>3. BallsConserved'
  <2>1. InHand' = InHand
    BY <1>0 DEF InHand, At
  <2> QED
    BY <2>1, SameInHand DEF BallsInv
<1> QED
  BY <1>1, <1>2, <1>3 DEF BallsInv, Seen

\* It counts its ball.
LEMMA CountBallsInv ==
  ASSUME BallsInv, NEW t \in Throwers, Count(t)
  PROVE  BallsInv'
<1> USE DEF Count, mainVars
<1>0. /\ loaded[t] = ballsThrown /\ \A u \in Throwers \ {t} : thrower[u] # "count"
      /\ thrower'[t] = "idle" /\ \A u \in Throwers \ {t} : thrower'[u] = thrower[u]
  BY DEF BallsInv, BallsTypeOK, Held, At
<1>1. InHand' = InHand \ {t} /\ t \in InHand
  BY <1>0 DEF InHand, At
<1>2. Cardinality(InHand') = Cardinality(InHand) - 1 /\ Cardinality(InHand) \in Nat /\ InHand # {}
  BY <1>1, InHandFinite, FS_RemoveElement
<1>3. Cardinality(InHand) # 0
  BY <1>2, InHandFinite, FS_EmptySet
<1>4. BallsConserved'
  BY <1>0, <1>2, BallThrowersAssumption DEF BallsInv, BallsTypeOK, BallsConserved
<1>5. ballsThrown' \in 0..BallsCount
  BY <1>0, <1>2, <1>3, BallThrowersAssumption DEF BallsInv, BallsTypeOK, BallsConserved
<1>6. BallsTypeOK'
  BY <1>5 DEF BallsInv, BallsTypeOK
<1>7. Held'
  BY <1>0 DEF BallsInv, Held, At
<1>8. Seen'
  BY <1>2, AllThrown DEF BallsInv, Seen
<1> QED
  BY <1>4, <1>6, <1>7, <1>8 DEF BallsInv

\* The main thread looks at the counter, reads a bin or prints.
LEMMA MainBallsInv ==
  ASSUME BallsInv, MainStep
  PROVE  BallsInv'
<1> USE DEF MainStep, Poll, ReadBin, Finish, Progress, counters, throwerVars
<1>1. InHand' = InHand /\ At("take")' = At("take") /\ At("count")' = At("count")
  BY DEF InHand, At
<1>2. BallsTypeOK'
  <2>1. CASE Poll
    BY <2>1 DEF BallsInv, BallsTypeOK
  <2>2. CASE ReadBin
    BY <2>2 DEF BallsInv, BallsTypeOK
  <2>3. CASE Finish
    BY <2>3 DEF BallsInv, BallsTypeOK
  <2> QED
    BY <2>1, <2>2, <2>3
<1>3. Held' /\ BallsConserved'
  BY <1>1, SameInHand DEF BallsInv, Held
<1>4. Seen'
  <2>1. CASE Poll
    BY <2>1, BallThrowersAssumption DEF BallsInv, BallsTypeOK, Seen
  <2>2. CASE ReadBin \/ Finish
    BY <2>2 DEF BallsInv, Seen
  <2> QED
    BY <2>1, <2>2
<1> QED
  BY <1>2, <1>3, <1>4 DEF BallsInv

\* A step that changes nothing.
LEMMA StutterBallsInv ==
  ASSUME BallsInv, UNCHANGED ballsVars
  PROVE  BallsInv'
<1> USE DEF ballsVars, counters, throwerVars, mainVars
<1>1. InHand' = InHand /\ At("take")' = At("take") /\ At("count")' = At("count")
  BY DEF InHand, At
<1>2. BallsTypeOK' /\ Seen'
  BY DEF BallsInv, BallsTypeOK, Seen
<1> QED
  BY <1>1, <1>2, SameInHand DEF BallsInv, Held

-----------------------------------------------------------------------------
\* The inductive invariant of prog18.c.
THEOREM BallsInductive == BallsSpec => []BallsInv
<1>1. BallsInit => BallsInv
  BY InitBallsInv
<1>2. BallsInv /\ [BallsNext]_ballsVars => BallsInv'
  BY LockWaitingBallsInv, TakeBallsInv, BinBallsInv, LockThrownBallsInv, CountBallsInv, MainBallsInv, StutterBallsInv
     DEF BallsNext, ThrowerStep
<1> QED
  BY <1>1, <1>2, PTL DEF BallsSpec

\* The types of the variables; no counter leaves 0..BallsCount (lines 126, 137).
THEOREM BallsTypeCorrect == BallsSpec => []BallsTypeOK
<1>1. BallsInv => BallsTypeOK
  BY DEF BallsInv
<1> QED
  BY <1>1, BallsInductive, PTL

\* Every ball is waiting, in hand or counted (lines 124-138).
THEOREM Conserved == BallsSpec => []BallsConserved
<1>1. BallsInv => BallsConserved
  BY DEF BallsInv
<1> QED
  BY <1>1, BallsInductive, PTL

\* main's reads of the bins without their mutexes (lines 70-73) race with no
\* thrower.
THEOREM MainReadsAlone == BallsSpec => []ReadsAlone
<1>1. BallsInv => ReadsAlone
  BY AllThrown DEF BallsInv, Seen, ReadsAlone
<1> QED
  BY <1>1, BallsInductive, PTL

-----------------------------------------------------------------------------
(* The total.  A bin with k balls stands for the k places <<b, 1>>, ...,   *)
(* <<b, k>>, so that a sum over bins is the cardinality of a set of places *)
(* and adding one ball or one bin adds one place or one bin's places to it.*)

InBins(S) == {p \in S \X (Nat \ {0}) : p[2] <= bins[p[1]]}

\* The throwers whose ball is in a bin and not yet counted.
Landed == At("dropped") \cup At("count")

\* Mutual exclusion on each bin, and what it gives.
BinsHeld ==
  /\ \A t, u \in At("drop") : binno[t] = binno[u] => t = u
  /\ \A t \in At("drop") : loaded[t] = bins[binno[t]]

\* The balls in the bins are those counted and those about to be.
BinsExact ==
  /\ IsFiniteSet(InBins(Bins))
  /\ Cardinality(InBins(Bins)) = Cardinality(Landed) + ballsThrown

\* What main has added are the balls of the bins it has read.
Added ==
  /\ realBallsCount = Cardinality(InBins(Bins \ unread))
  /\ poller = "poll" => unread = Bins
  /\ poller = "printed" => unread = {}

TotalInv == BinsHeld /\ BinsExact /\ Added

LEMMA LandedFinite == IsFiniteSet(Landed) /\ Cardinality(Landed) \in Nat
<1>1. Landed \in SUBSET Throwers
  BY DEF Landed, At
<1> QED
  BY <1>1, BallThrowersAssumption, FS_Subset, FS_CardinalityType

\* While a ball is in hand main has added nothing.
LEMMA NothingAdded ==
  ASSUME BallsInv, Added, NEW t \in InHand
  PROVE  poller = "poll" /\ unread = Bins
BY AllThrown DEF BallsInv, Seen, Added

LEMMA NoBins == \A S : S = {} => InBins(S) = {}
BY DEF InBins

\* One more ball in bin b is one more place.
LEMMA OneMorePlace ==
  ASSUME BallsTypeOK, NEW b \in Bins, bins' = [bins EXCEPT ![b] = bins[b] + 1]
  PROVE  InBins(Bins)' = InBins(Bins) \cup {<<b, bins[b] + 1>>} /\ <<b, bins[b] + 1>> \notin InBins(Bins)
<1> DEFINE k == bins[b]
<1>1. k \in Nat /\ bins'[b] = k + 1 /\ \A a \in Bins : a # b => bins'[a] = bins[a]
  BY DEF BallsTypeOK
<1>2. \A a \in Bins : bins[a] \in Nat /\ bins'[a] \in Nat
  BY <1>1 DEF BallsTypeOK
<1>3. ASSUME NEW a \in Bins, NEW i \in Nat \ {0}
      PROVE  i <= bins'[a] <=> (i <= bins[a] \/ (a = b /\ i = k + 1))
  <2>1. CASE a = b
    BY <1>1, <2>1
  <2>2. CASE a # b
    BY <1>1, <2>2
  <2> QED
    BY <2>1, <2>2
<1>4. k + 1 \in Nat \ {0} /\ ~(k + 1 <= bins[b])
  BY <1>1
<1> HIDE DEF k
<1>5. InBins(Bins)' = InBins(Bins) \cup {<<b, k + 1>>}
  <2>1. ASSUME NEW p \in Bins \X (Nat \ {0})
        PROVE  p \in InBins(Bins)' <=> p \in InBins(Bins) \cup {<<b, k + 1>>}
    <3>1. PICK a \in Bins, i \in Nat \ {0} : p = <<a, i>>
      OBVIOUS
    <3>2. p = <<b, k + 1>> <=> a = b /\ i = k + 1
      BY <3>1
    <3>3. p \in InBins(Bins)' <=> i <= bins'[a]
      BY <3>1 DEF InBins
    <3>4. p \in InBins(Bins) <=> i <= bins[a]
      BY <3>1 DEF InBins
    <3> QED
      BY <1>3, <3>2, <3>3, <3>4
  <2>2. InBins(Bins)' \subseteq Bins \X (Nat \ {0}) /\ InBins(Bins) \subseteq Bins \X (Nat \ {0})
    BY DEF InBins
  <2>3. <<b, k + 1>> \in Bins \X (Nat \ {0})
    BY <1>4
  <2> QED
    BY <2>1, <2>2, <2>3
<1>6. <<b, k + 1>> \notin InBins(Bins)
  BY <1>4 DEF InBins
<1> QED
  BY <1>5, <1>6 DEF k

\* One more bin is as many places as it has balls.
LEMMA OneMoreBin ==
  ASSUME BallsTypeOK, NEW S \in SUBSET Bins, NEW b \in Bins \ S, IsFiniteSet(InBins(S))
  PROVE  Cardinality(InBins(S \cup {b})) = Cardinality(InBins(S)) + bins[b]
<1> DEFINE k == bins[b]
           places == {b} \X (1..k)
<1>1. k \in Nat
  BY DEF BallsTypeOK
<1>2. InBins(S \cup {b}) = InBins(S) \cup places
  <2>1. ASSUME NEW p \in (S \cup {b}) \X (Nat \ {0})
        PROVE  p \in InBins(S \cup {b}) <=> p \in InBins(S) \cup places
    <3>1. PICK a \in S \cup {b}, i \in Nat \ {0} : p = <<a, i>>
      OBVIOUS
    <3>2. p \in InBins(S \cup {b}) <=> i <= bins[a]
      BY <3>1 DEF InBins
    <3>3. p \in InBins(S) <=> a \in S /\ i <= bins[a]
      BY <3>1 DEF InBins
    <3>4. p \in places <=> a = b /\ i \in 1..k
      BY <3>1
    <3>5. i \in 1..k <=> i <= k
      BY <1>1
    <3> QED
      BY <3>2, <3>3, <3>4, <3>5
  <2>2. InBins(S \cup {b}) \subseteq (S \cup {b}) \X (Nat \ {0})
    BY DEF InBins
  <2>3. InBins(S) \subseteq (S \cup {b}) \X (Nat \ {0})
    BY DEF InBins
  <2>4. places \subseteq (S \cup {b}) \X (Nat \ {0})
    <3>1. 1..k \subseteq Nat \ {0}
      BY <1>1
    <3> QED
      BY <3>1
  <2> HIDE DEF places
  <2> QED
    BY <2>1, <2>2, <2>3, <2>4
<1>3. InBins(S) \cap places = {}
  BY DEF InBins
<1>4. IsFiniteSet(1..k) /\ Cardinality(1..k) = k
  BY <1>1, FS_Interval
<1>5. IsFiniteSet({b}) /\ Cardinality({b}) = 1
  BY FS_Singleton
<1>6. IsFiniteSet(places) /\ Cardinality(places) = 1 * k
  <2> DEFINE T == 1..k
             B == {b}
  <2>1. IsFiniteSet(T) /\ IsFiniteSet(B) /\ Cardinality(T) = k /\ Cardinality(B) = 1
    BY <1>4, <1>5
  <2> HIDE DEF T, B
  <2>2. IsFiniteSet(B \X T) /\ Cardinality(B \X T) = Cardinality(B) * Cardinality(T)
    BY <2>1, FS_Product
  <2>3. IsFiniteSet(B \X T) /\ Cardinality(B \X T) = 1 * k
    BY <2>1, <2>2
  <2> QED
    BY <2>3 DEF T, B
<1>7. Cardinality(places) = k
  BY <1>1, <1>6
<1> HIDE DEF places
<1>8. Cardinality(InBins(S) \cup places)
        = Cardinality(InBins(S)) + Cardinality(places) - Cardinality(InBins(S) \cap places)
  BY <1>6, FS_Union
<1>9. Cardinality(InBins(S) \cap places) = 0
  BY <1>3, FS_EmptySet
<1>10. Cardinality(InBins(S)) \in Nat
  BY FS_CardinalityType
<1> DEFINE x == Cardinality(InBins(S))
           y == Cardinality(InBins(S) \cup places)
<1>11. y = x + k - 0 /\ x \in Nat
  BY <1>7, <1>8, <1>9, <1>10
<1>12. Cardinality(InBins(S \cup {b})) = y
  BY <1>2
<1> HIDE DEF x, y
<1>13. Cardinality(InBins(S \cup {b})) = x + k
  BY <1>1, <1>11, <1>12
<1> QED
  BY <1>13 DEF x

LEMMA InitTotalInv == BallsInit => TotalInv
<1> SUFFICES ASSUME BallsInit PROVE TotalInv
  OBVIOUS
<1>1. /\ \A t \in Throwers : thrower[t] = "idle"
      /\ \A b \in Bins : bins[b] = 0
      /\ ballsThrown = 0 /\ poller = "poll" /\ unread = Bins /\ realBallsCount = 0
  BY DEF BallsInit, MadeThrowers
<1>2. Landed = {} /\ At("drop") = {}
  BY <1>1 DEF Landed, At
<1>3. InBins(Bins) = {}
  <2>1. \A i \in Nat \ {0} : ~(i <= 0)
    OBVIOUS
  <2> QED
    BY <1>1, <2>1 DEF InBins
<1>4. InBins(Bins \ unread) = {}
  BY <1>1, NoBins
<1>5. Cardinality({}) = 0 /\ IsFiniteSet({})
  BY FS_EmptySet
<1>6. BinsHeld
  BY <1>2 DEF BinsHeld
<1>7. BinsExact
  BY <1>1, <1>2, <1>3, <1>5 DEF BinsExact
<1>8. Added
  BY <1>1, <1>4, <1>5 DEF Added
<1> QED
  BY <1>6, <1>7, <1>8 DEF TotalInv

\* A step of thrower t that leaves the bins, the balls landed and main alone.
LEMMA SameTotal ==
  ASSUME TotalInv, BinsHeld', Landed' = Landed,
         UNCHANGED <<bins, ballsThrown, unread, realBallsCount, poller>>
  PROVE  TotalInv'
<1>1. InBins(Bins)' = InBins(Bins) /\ InBins(Bins \ unread)' = InBins(Bins \ unread)
  BY DEF InBins
<1>2. BinsExact'
  BY <1>1 DEF TotalInv, BinsExact
<1>3. Added'
  BY <1>1 DEF TotalInv, Added
<1> QED
  BY <1>2, <1>3 DEF TotalInv

LEMMA WaitingTotal ==
  ASSUME BallsInv, TotalInv, NEW t \in Throwers, LockWaiting(t) \/ Take(t)
  PROVE  TotalInv'
<1>1. /\ thrower[t] \in {"idle", "take"} /\ thrower'[t] \in {"take", "throw", "done"}
      /\ \A u \in Throwers \ {t} : thrower'[u] = thrower[u] /\ loaded'[u] = loaded[u]
      /\ UNCHANGED <<bins, binno, ballsThrown, unread, realBallsCount, poller>>
  BY DEF LockWaiting, Take, counters, mainVars, BallsInv, BallsTypeOK
<1>2. Landed' = Landed
  BY <1>1 DEF Landed, At
<1>3. BinsHeld'
  BY <1>1 DEF TotalInv, BinsHeld, At
<1> QED
  BY <1>1, <1>2, <1>3, SameTotal

\* The value that the thrower loads is the bin's until it stores its own.
LEMMA LockBinTotal ==
  ASSUME BallsInv, TotalInv, NEW t \in Throwers, LockBin(t)
  PROVE  TotalInv'
<1>1. PICK b \in Bins : /\ BinLock(b)
                        /\ binno' = [binno EXCEPT ![t] = b] /\ loaded' = [loaded EXCEPT ![t] = bins[b]]
  BY DEF LockBin
<1>2. /\ thrower[t] = "throw" /\ thrower'[t] = "drop" /\ binno'[t] = b /\ loaded'[t] = bins[b]
      /\ \A u \in Throwers \ {t} : /\ thrower'[u] = thrower[u] /\ loaded'[u] = loaded[u]
                                   /\ binno'[u] = binno[u]
      /\ UNCHANGED <<bins, ballsThrown, unread, realBallsCount, poller>>
  BY <1>1 DEF LockBin, counters, mainVars, BallsInv, BallsTypeOK
<1>3. \A u \in At("drop") : binno[u] # b
  BY <1>1 DEF BinLock, FreeBin
<1>4. Landed' = Landed
  BY <1>2 DEF Landed, At
<1>5. BinsHeld'
  BY <1>2, <1>3 DEF TotalInv, BinsHeld, At
<1> QED
  BY <1>2, <1>4, <1>5, SameTotal

LEMMA DropTotal ==
  ASSUME BallsInv, TotalInv, NEW t \in Throwers, Drop(t)
  PROVE  TotalInv'
<1> DEFINE b == binno[t]
<1>0. b \in Bins /\ BallsTypeOK
  BY DEF BallsInv, BallsTypeOK
<1>1. /\ thrower[t] = "drop" /\ thrower'[t] = "dropped" /\ loaded[t] = bins[b]
      /\ \A u \in Throwers \ {t} : thrower'[u] = thrower[u]
      /\ UNCHANGED <<ballsThrown, loaded, binno, unread, realBallsCount, poller>>
  BY DEF Drop, mainVars, BallsInv, BallsTypeOK, TotalInv, BinsHeld, At
<1>2. bins' = [bins EXCEPT ![b] = bins[b] + 1]
  BY <1>1 DEF Drop
<1>3. InBins(Bins)' = InBins(Bins) \cup {<<b, bins[b] + 1>>} /\ <<b, bins[b] + 1>> \notin InBins(Bins)
  BY <1>0, <1>2, OneMorePlace
<1>4. Landed' = Landed \cup {t} /\ t \notin Landed /\ t \in InHand
  BY <1>1 DEF Landed, InHand, At
<1>5. Cardinality(Landed') = Cardinality(Landed) + 1
  BY <1>4, LandedFinite, FS_AddElement
<1> DEFINE p == <<b, bins[b] + 1>>
<1> HIDE DEF p
<1>6. IsFiniteSet(InBins(Bins) \cup {p}) /\ Cardinality(InBins(Bins) \cup {p}) = Cardinality(InBins(Bins)) + 1
  BY <1>3, FS_AddElement DEF TotalInv, BinsExact, p
<1>7. BinsExact'
  <2>1. InBins(Bins)' = InBins(Bins) \cup {p}
    BY <1>3 DEF p
  <2>2. ballsThrown \in Int /\ Cardinality(Landed) \in Int /\ ballsThrown' = ballsThrown
    BY <1>0, <1>1, LandedFinite DEF BallsTypeOK
  <2>3. Cardinality(InBins(Bins)) = Cardinality(Landed) + ballsThrown
    BY DEF TotalInv, BinsExact
  <2>4. Cardinality(InBins(Bins)) + 1 = (Cardinality(Landed) + 1) + ballsThrown
    BY <2>2, <2>3
  <2> QED
    BY <1>5, <1>6, <2>1, <2>2, <2>4 DEF BinsExact
<1>8. BinsHeld'
  <2>1. ASSUME NEW u \in Throwers \ {t}, thrower[u] = "drop"
        PROVE  binno[u] # b /\ loaded[u] = bins[binno[u]]
    BY <1>1, <2>1 DEF TotalInv, BinsHeld, At
  <2>2. \A a \in Bins \ {b} : bins'[a] = bins[a]
    BY <1>0, <1>2 DEF BallsTypeOK
  <2>3. \A u \in Throwers : binno[u] \in Bins
    BY <1>0 DEF BallsTypeOK
  <2> QED
    BY <1>1, <2>1, <2>2, <2>3 DEF TotalInv, BinsHeld, At
<1>9. poller = "poll" /\ unread = Bins
  BY <1>4, NothingAdded DEF TotalInv
<1>10. Added'
  <2>1. InBins(Bins \ unread) = {} /\ InBins(Bins \ unread)' = {}
    BY <1>1, <1>9 DEF InBins
  <2> QED
    BY <1>1, <1>9, <2>1 DEF TotalInv, Added
<1> QED
  BY <1>7, <1>8, <1>10 DEF TotalInv

LEMMA ThrownTotal ==
  ASSUME BallsInv, TotalInv, NEW t \in Throwers, LockThrown(t)
  PROVE  TotalInv'
<1>1. /\ thrower[t] = "dropped" /\ thrower'[t] = "count"
      /\ \A u \in Throwers \ {t} : thrower'[u] = thrower[u] /\ loaded'[u] = loaded[u]
      /\ UNCHANGED <<bins, binno, ballsThrown, unread, realBallsCount, poller>>
  BY DEF LockThrown, counters, mainVars, BallsInv, BallsTypeOK
<1>2. Landed' = Landed
  BY <1>1 DEF Landed, At
<1>3. BinsHeld'
  BY <1>1 DEF TotalInv, BinsHeld, At
<1> QED
  BY <1>1, <1>2, <1>3, SameTotal

LEMMA CountTotal ==
  ASSUME BallsInv, TotalInv, NEW t \in Throwers, Count(t)
  PROVE  TotalInv'
<1>1. /\ thrower[t] = "count" /\ thrower'[t] = "idle" /\ loaded[t] = ballsThrown
      /\ \A u \in Throwers \ {t} : thrower'[u] = thrower[u]
      /\ UNCHANGED <<bins, loaded, binno, unread, realBallsCount, poller>>
  BY DEF Count, mainVars, BallsInv, BallsTypeOK, Held, At
<1>2. ballsThrown' = ballsThrown + 1
  BY <1>1 DEF Count
<1>3. Landed' = Landed \ {t} /\ t \in Landed
  BY <1>1 DEF Landed, At
<1>4. Cardinality(Landed') = Cardinality(Landed) - 1
  BY <1>3, LandedFinite, FS_RemoveElement
<1>5. InBins(Bins)' = InBins(Bins) /\ InBins(Bins \ unread)' = InBins(Bins \ unread)
  BY <1>1 DEF InBins
<1>6. BinsExact'
  <2>1. ballsThrown \in Int /\ Cardinality(Landed) \in Int
    BY LandedFinite DEF BallsInv, BallsTypeOK
  <2>2. Cardinality(Landed') + ballsThrown' = Cardinality(Landed) + ballsThrown
    BY <1>2, <1>4, <2>1
  <2> QED
    BY <1>5, <2>2 DEF TotalInv, BinsExact
<1>7. BinsHeld'
  BY <1>1 DEF TotalInv, BinsHeld, At
<1>8. Added'
  BY <1>1, <1>5 DEF TotalInv, Added
<1> QED
  BY <1>6, <1>7, <1>8 DEF TotalInv

\* main adds a bin: the balls of one bin more.
LEMMA MainTotal ==
  ASSUME BallsInv, TotalInv, MainStep
  PROVE  TotalInv'
<1>1. UNCHANGED <<ballsWaiting, ballsThrown, bins, thrower, loaded, binno>>
  BY DEF MainStep, Poll, ReadBin, Finish, counters, throwerVars
<1>2. Landed' = Landed /\ InBins(Bins)' = InBins(Bins)
  BY <1>1 DEF Landed, At, InBins
<1>3. BinsHeld' /\ BinsExact'
  BY <1>1, <1>2 DEF TotalInv, BinsHeld, BinsExact, At
<1>4. CASE Poll \/ Finish
  <2>1. /\ UNCHANGED <<unread, realBallsCount>>
        /\ poller' = "poll" => poller = "poll"
        /\ poller' = "printed" => unread = {}
    BY <1>4 DEF Poll, Finish
  <2>2. InBins(Bins \ unread)' = InBins(Bins \ unread)
    BY <1>1, <2>1 DEF InBins
  <2>3. Added'
    BY <2>1, <2>2 DEF TotalInv, Added
  <2> QED
    BY <1>3, <2>3 DEF TotalInv
<1>5. CASE ReadBin
  <2>1. PICK b \in unread : realBallsCount' = realBallsCount + bins[b] /\ unread' = unread \ {b}
    BY <1>5 DEF ReadBin
  <2>2. poller = "read" /\ poller' = "read" /\ unread \subseteq Bins
    BY <1>5 DEF ReadBin, BallsInv, BallsTypeOK
  <2> DEFINE S == Bins \ unread
  <2>3. S \in SUBSET Bins /\ b \in Bins \ S /\ Bins \ unread' = S \cup {b}
    BY <2>1, <2>2
  <2>4. InBins(S) \subseteq InBins(Bins)
    BY DEF InBins
  <2>5. IsFiniteSet(InBins(S))
    BY <2>4, FS_Subset DEF TotalInv, BinsExact
  <2> HIDE DEF S
  <2>6. Cardinality(InBins(S \cup {b})) = Cardinality(InBins(S)) + bins[b]
    BY <2>3, <2>5, OneMoreBin DEF BallsInv
  <2>7. InBins(Bins \ unread)' = InBins(S \cup {b})
    BY <1>1, <2>3 DEF InBins
  <2>8. realBallsCount = Cardinality(InBins(S))
    BY DEF TotalInv, Added, S
  <2>9. Added'
    BY <2>1, <2>2, <2>6, <2>7, <2>8 DEF Added
  <2> QED
    BY <1>3, <2>9 DEF TotalInv
<1> QED
  BY <1>4, <1>5 DEF MainStep

\* The bins, the balls landed and what main has added stay in step.
THEOREM TotalInductive == BallsSpec => []TotalInv
<1>1. BallsInit => TotalInv
  BY InitTotalInv
<1>2. BallsInv /\ TotalInv /\ [BallsNext]_ballsVars => TotalInv'
  <2> SUFFICES ASSUME BallsInv, TotalInv, [BallsNext]_ballsVars PROVE TotalInv'
    OBVIOUS
  <2>1. CASE UNCHANGED ballsVars
    <3>1. UNCHANGED <<bins, ballsThrown, unread, realBallsCount, poller, thrower, loaded, binno>>
      BY <2>1 DEF ballsVars, counters, throwerVars, mainVars
    <3>2. Landed' = Landed /\ BinsHeld'
      BY <3>1 DEF Landed, At, TotalInv, BinsHeld
    <3> QED
      BY <3>1, <3>2, SameTotal
  <2>2. CASE BallsNext
    BY <2>2, WaitingTotal, LockBinTotal, DropTotal, ThrownTotal, CountTotal, MainTotal
       DEF BallsNext, ThrowerStep
  <2> QED
    BY <2>1, <2>2
<1> QED
  BY <1>1, <1>2, BallsInductive, PTL DEF BallsSpec

\* The total that main prints (line 78) is the number of balls it was asked to
\* throw, for every number of balls, bins and throwers.
THEOREM TotalIsExact == BallsSpec => []TotalExact
<1>1. BallsInv /\ TotalInv => TotalExact
  <2> SUFFICES ASSUME BallsInv, TotalInv, poller = "printed" PROVE realBallsCount = BallsCount
    BY DEF TotalExact
  <2>1. ballsThrown = BallsCount /\ InHand = {}
    BY AllThrown DEF BallsInv, Seen
  <2>2. Landed = {}
    BY <2>1 DEF Landed, InHand
  <2>3. Cardinality(Landed) = 0
    BY <2>2, FS_EmptySet
  <2>4. Bins \ unread = Bins
    BY DEF TotalInv, Added
  <2>5. realBallsCount = 0 + BallsCount
    BY <2>1, <2>3, <2>4 DEF TotalInv, Added, BinsExact
  <2> QED
    BY <2>5, BallThrowersAssumption
<1> QED
  BY <1>1, BallsInductive, TotalInductive, PTL

-----------------------------------------------------------------------------
(***************************************************************************)
(* Removal. The count is the number of items, or one more while the owner  *)
(* of the mutex is between deleting an item and counting it; so what main  *)
(* has printed of a line under the mutex agrees with the items             *)
(* (Protected).                                                            *)
(***************************************************************************)

\* The types of the variables, the slot of the loop inside the array.
RemovalTypes ==
  /\ items \subseteq Places /\ arrayCount \in 0..ArraySize
  /\ remover \in {"sigwait", "lock", "delete", "count", "overrun", "quit", "returned"}
  /\ printer \in {"test", "lock", "print", "unlock", "join", "unblock", "ended", "killed"}
  /\ shown \subseteq Places

\* What the mutex protects: one owner, the count in step with the items up to
\* the one that is being counted, and a line that shows them as they are.
Protected ==
  /\ ~(PrinterHolds /\ RemoverHolds)
  /\ remover = "delete" => arrayCount > 0
  /\ arrayCount = Cardinality(items) + (IF remover = "count" THEN 1 ELSE 0)
  /\ printer = "print" => slot \in Places /\ shown = items \cap 1..(slot - 1)

RemovalInv == RemovalTypes /\ Protected /\ ArrayInStep

\* The items are finitely many, and one less without one of them.
LEMMA ItemsCounted ==
  ASSUME items \subseteq Places
  PROVE  /\ Cardinality(items) \in 0..ArraySize
         /\ \A p \in items : Cardinality(items \ {p}) = Cardinality(items) - 1
<1>1. IsFiniteSet(Places) /\ Cardinality(Places) = ArraySize
  BY RemovalAssumption, FS_Interval DEF Places
<1>2. IsFiniteSet(items) /\ Cardinality(items) \in 0..ArraySize
  BY <1>1, RemovalAssumption, FS_Subset, FS_CardinalityType
<1> QED
  BY <1>2, FS_RemoveElement

\* RemovalInv is inductive: one step per action of the thread and of main.
THEOREM RemovalInductive == RemovalSpec => []RemovalInv
<1> USE RemovalAssumption
<1>1. RemovalInit => RemovalInv
  <2>1. RemovalInit => Cardinality(items) = ArraySize
    BY FS_Interval DEF RemovalInit, Places
  <2> QED
    BY <2>1 DEF RemovalInit, RemovalInv, RemovalTypes, Protected, ArrayInStep, PrinterHolds,
                RemoverHolds, Places
<1>2. ASSUME RemovalInv, [RemovalNext]_removalVars PROVE RemovalInv'
  <2> USE <1>2 DEF RemovalInv, RemovalTypes, Protected, ArrayInStep, PrinterHolds, RemoverHolds
  <2>1. CASE RaiseSigint \/ RaiseSigquit
    BY <2>1 DEF RaiseSigint, RaiseSigquit
  <2>2. CASE Sigwait \/ SetQuitFlag
    BY <2>2 DEF Sigwait, SetQuitFlag
  <2>3. CASE LockArray
    BY <2>3 DEF LockArray, ArrayLock
  <2>4. CASE RemoveItem
    <3>1. Cardinality(items) = arrayCount /\ arrayCount \in Nat /\ printer \notin {"print", "unlock"}
      BY <2>4, ItemsCounted DEF RemoveItem
    <3>2. PICK p \in items : items' = items \ {p} /\ remover' = "count"
      <4>1. PICK index \in 0..(arrayCount - 1) :
              IF index < Cardinality(items)
              THEN (\E p \in items : items' = items \ {p}) /\ remover' = "count"
              ELSE remover' = "overrun"
        BY <2>4 DEF RemoveItem
      <4>2. index < Cardinality(items)
        BY <3>1
      <4> QED
        BY <4>1, <4>2
    <3>3. Cardinality(items') = Cardinality(items) - 1
      BY <3>2, ItemsCounted
    <3> QED
      BY <2>4, <3>1, <3>2, <3>3 DEF RemoveItem
  <2>5. CASE CountItem
    <3>1. arrayCount' = Cardinality(items')
      BY <2>5, ItemsCounted DEF CountItem
    <3> QED
      BY <2>5, <3>1, ItemsCounted DEF CountItem
  <2>6. CASE TestQuitFlag \/ JoinRemover \/ Unblock
    BY <2>6 DEF TestQuitFlag, JoinRemover, Unblock
  <2>7. CASE LockForPrint
    BY <2>7 DEF LockForPrint, Places
  <2>8. CASE PrintItem
    <3>1. shown' = items' \cap 1..(slot' - 1) /\ slot' = slot + 1 /\ slot \in 1..ArraySize
      BY <2>8 DEF PrintItem, Places
    <3>2. slot = ArraySize => shown' = items'
      <4>1. items' \subseteq 1..ArraySize
        BY <2>8 DEF PrintItem, Places
      <4>2. slot = ArraySize => slot' - 1 = ArraySize
        BY <3>1
      <4> HIDE DEF RemovalInv, RemovalTypes, Protected, ArrayInStep
      <4> QED
        BY <3>1, <4>1, <4>2
    <3> QED
      BY <2>8, <3>1, <3>2 DEF PrintItem, Places
  <2>9. CASE UnlockArray
    BY <2>9 DEF UnlockArray
  <2>10. CASE UNCHANGED removalVars
    BY <2>10 DEF removalVars
  <2> QED
    BY <2>1, <2>2, <2>3, <2>4, <2>5, <2>6, <2>7, <2>8, <2>9, <2>10
    DEF RemovalNext, RemoverStep, PrinterStep
<1> QED
  BY <1>1, <1>2, PTL DEF RemovalSpec

\* Count and items agree, and every line shows them as they were together
\* (prog19.c lines 93-128), for arrays of any size.
THEOREM RemovalsInStep == RemovalSpec => []ArrayInStep
BY RemovalInductive, PTL DEF RemovalInv
=============================================================================
