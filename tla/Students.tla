------------------------------ MODULE Students ------------------------------
(***************************************************************************)
(* Lab3/prog20.c: student threads spend three years at the university, one *)
(* counter per year under one mutex each; main kicks students out with     *)
(* pthread_cancel and at last joins all and prints the counters.           *)
(*                                                                         *)
(* Cancellation is deferred and nanosleep in msleep is the only            *)
(* cancellation point, so a kick takes effect when the student sleeps      *)
(* through a year and not while it changes a counter; the cleanup handler  *)
(* then gives the counter back.                                            *)
(***************************************************************************)
EXTENDS Naturals, FiniteSets

CONSTANT Student

ASSUME StudentsAssumption == IsFiniteSet(Student) /\ Student # {}

Years == 0..2
Engineer == 3       \* index of the last counter

VARIABLES
  values,     \* the four counters
  doing, year,   \* each student's position in student_life and args.year
  cancelled,  \* pthread_cancel has been called for the thread
  removed, present,   \* studentsList
  kicker, joined, printed

studentVars == <<values, doing, year>>
listVars == <<removed, present, cancelled>>
studentsVars == <<values, doing, year, cancelled, removed, present, kicker, joined, printed>>

StudentsInit ==
  /\ values = [y \in 0..Engineer |-> 0]
  /\ doing = [s \in Student |-> "enter"]
  /\ year = [s \in Student |-> 0]
  /\ cancelled = {} /\ removed = {} /\ present = Cardinality(Student)
  /\ kicker = "kicking" /\ joined = {}
  /\ printed = [y \in 0..Engineer |-> 0]

\* increment_counter at the start of a year.
Enter(s) ==
  /\ doing[s] = "enter"
  /\ values' = [values EXCEPT ![year[s]] = @ + 1]
  /\ doing' = [doing EXCEPT ![s] = IF year[s] = Engineer THEN "engineer" ELSE "asleep"]
  /\ UNCHANGED <<year, listVars, kicker, joined, printed>>

\* msleep(1000) returns.
WakeUp(s) ==
  /\ doing[s] = "asleep" /\ s \notin cancelled
  /\ doing' = [doing EXCEPT ![s] = "awake"]
  /\ UNCHANGED <<values, year, listVars, kicker, joined, printed>>

\* decrement_counter, by pthread_cleanup_pop(1) or by a cancellation.
\* args.year is shared with the loop; incremented too early it is the wrong year.
DecrementedNextYear(s) == [values EXCEPT ![year[s] + 1] = @ - 1]
Decremented(s) == [values EXCEPT ![year[s]] = @ - 1]

\* The handler runs at cancellation, or would not if it were not pushed.
CleanupMissing(s) == values
Cleanup(s) == Decremented(s)

\* nanosleep acts on the request.
ActsOnCancel(s) == s \in cancelled

\* A cancelled thread leaves at the cancellation point through its handler.
Cancelled(s) ==
  /\ doing[s] = "asleep" /\ ActsOnCancel(s)
  /\ values' = Cleanup(s)
  /\ doing' = [doing EXCEPT ![s] = "kicked"]
  /\ UNCHANGED <<year, listVars, kicker, joined, printed>>

\* pthread_cleanup_pop(1), then the next year.
LeaveYear(s) ==
  /\ doing[s] = "awake"
  /\ values' = Decremented(s)
  /\ year' = [year EXCEPT ![s] = @ + 1]
  /\ doing' = [doing EXCEPT ![s] = "enter"]
  /\ UNCHANGED <<listVars, kicker, joined, printed>>

\* kick_student draws until it finds one that is not removed; `present'
\* says whether there is one.
PresentAfterKick == present - 1

Kick(s) ==
  /\ kicker = "kicking"
  /\ present # 0
  /\ s \notin removed
  /\ cancelled' = cancelled \cup {s}
  /\ removed' = removed \cup {s}
  /\ present' = PresentAfterKick
  /\ UNCHANGED <<studentVars, kicker, joined, printed>>

\* Four seconds are over.
StopKicking ==
  /\ kicker = "kicking"
  /\ kicker' = "joining"
  /\ UNCHANGED <<studentVars, listVars, joined, printed>>

Ended == {s \in Student : doing[s] \in {"engineer", "kicked"}}

\* Who must have ended before pthread_join of s returns.
JoinsNothing(s) == TRUE
Joins(s) == s \in Ended

Join(s) ==
  /\ kicker = "joining" /\ s \notin joined
  /\ Joins(s)
  /\ joined' = joined \cup {s}
  /\ UNCHANGED <<studentVars, listVars, kicker, printed>>

\* The counters are read without their mutexes.
PrintCounters ==
  /\ kicker = "joining" /\ joined = Student
  /\ printed' = values
  /\ kicker' = "done"
  /\ UNCHANGED <<studentVars, listVars, joined>>

StudentStep(s) == Enter(s) \/ WakeUp(s) \/ Cancelled(s) \/ LeaveYear(s)
MainEnds == StopKicking \/ PrintCounters \/ \E s \in Student : Join(s)

StudentsNext == MainEnds \/ \E s \in Student : StudentStep(s) \/ Kick(s)

StudentsSpec == StudentsInit /\ [][StudentsNext]_studentsVars

-----------------------------------------------------------------------------
\* The types of the variables.
StudentsTypeOK ==
  /\ values \in [0..Engineer -> 0..Cardinality(Student)]
  /\ doing \in [Student -> {"enter", "asleep", "awake", "kicked", "engineer"}]
  /\ year \in [Student -> 0..Engineer]
  /\ cancelled \subseteq Student /\ removed \subseteq Student
  /\ present \in 0..Cardinality(Student)
  /\ kicker \in {"kicking", "joining", "done"} /\ joined \subseteq Student
  /\ printed \in [0..Engineer -> Nat]

InYear(y) == {s \in Student : year[s] = y /\ doing[s] \in {"asleep", "awake", "engineer"}}

\* Each counter (line 26) is the number of threads between its increment and
\* its decrement, cancellations included (lines 101-107, 118-124).
CountersExact == \A y \in 0..Engineer : values[y] = Cardinality(InYear(y))

\* kick_student's loop (lines 148-150) always has a student to find: present
\* counts those not removed.
PresentExact == present = Cardinality(Student \ removed)

\* What main prints (lines 75-78): nobody is left in the first three years,
\* and every student that was not kicked is an engineer.
PrintedFinal ==
  kicker = "done" =>
    /\ \A y \in Years : printed[y] = 0
    /\ printed[Engineer] = Cardinality({s \in Student : doing[s] = "engineer"})
    /\ \A s \in Student \ removed : doing[s] = "engineer"
=============================================================================
