------------------------------- MODULE Removal -------------------------------
(***************************************************************************)
(* Lab3/prog19.c: main prints an array once a second until quitFlag is set.*)
(* SIGINT and SIGQUIT are blocked everywhere and taken by a thread in      *)
(* sigwait: SIGINT deletes a random item of those left, SIGQUIT sets the   *)
(* flag and ends the thread.  The array and its count are under one mutex. *)
(*                                                                         *)
(* Signals that are pending merge; one that is left over when main unblocks*)
(* them at the end kills the process.                                      *)
(***************************************************************************)
EXTENDS Integers, FiniteSets

CONSTANTS ArraySize, MaxInts   \* MaxInts: bound

ASSUME RemovalAssumption == ArraySize \in Nat \ {0}

Places == 1..ArraySize

VARIABLES
  items, arrayCount,      \* the places that are not DELETED_ITEM, the counter
  remover,                \* the position of signal_handling
  printer, slot, shown,  \* main: its position, the loop of printArray
  quitFlag,
  waiting, ints           \* pending signals; history: SIGINTs sent

removalVars == <<items, arrayCount, remover, printer, slot, shown, quitFlag, waiting, ints>>

RemovalInit ==
  /\ items = Places /\ arrayCount = ArraySize
  /\ remover = "sigwait" /\ printer = "test" /\ slot = 0 /\ shown = {}
  /\ quitFlag = FALSE /\ waiting = {} /\ ints = 0

ProcessRuns == printer \notin {"ended", "killed"}

RaiseSigint ==
  /\ ProcessRuns /\ ints < MaxInts
  /\ waiting' = waiting \cup {"INT"} /\ ints' = ints + 1
  /\ UNCHANGED <<items, arrayCount, remover, printer, slot, shown, quitFlag>>

RaiseSigquit ==
  /\ ProcessRuns
  /\ waiting' = waiting \cup {"QUIT"}
  /\ UNCHANGED <<items, arrayCount, remover, printer, slot, shown, quitFlag, ints>>

-----------------------------------------------------------------------------
(* The mutex mxArray is held at the positions named here.                  *)

PrinterHolds == printer \in {"print", "unlock"}
RemoverHolds == remover \in {"delete", "count"}

\* pthread_mutex_lock in signal_handling, and as if it were missing.
Unlocked == TRUE
ArrayLock == ~PrinterHolds

\* sigwait returns SIGINT first when both are pending.
Sigwait ==
  /\ ProcessRuns /\ remover = "sigwait"
  /\ \E s \in waiting :
       /\ s = "QUIT" => "INT" \notin waiting
       /\ waiting' = waiting \ {s}
       /\ remover' = IF s = "INT" THEN "lock" ELSE "quit"
  /\ UNCHANGED <<items, arrayCount, printer, slot, shown, quitFlag, ints>>

LockArray ==
  /\ ProcessRuns /\ remover = "lock" /\ ArrayLock
  /\ remover' = IF arrayCount > 0 THEN "delete" ELSE "sigwait"
  /\ UNCHANGED <<items, arrayCount, printer, slot, shown, quitFlag, waiting, ints>>

\* removeItem finds the slot that has `index' items before it; with fewer items
\* its loop would leave the array.
RemoveItem ==
  /\ ProcessRuns /\ remover = "delete"
  /\ \E index \in 0..(arrayCount - 1) :
       IF index < Cardinality(items)
       THEN /\ \E p \in items :
                 /\ Cardinality({q \in items : q < p}) = index
                 /\ items' = items \ {p}
            /\ remover' = "count"
       ELSE remover' = "overrun" /\ UNCHANGED items
  /\ UNCHANGED <<arrayCount, printer, slot, shown, quitFlag, waiting, ints>>

CountItem ==
  /\ ProcessRuns /\ remover = "count"
  /\ arrayCount' = arrayCount - 1
  /\ remover' = "sigwait"
  /\ UNCHANGED <<items, printer, slot, shown, quitFlag, waiting, ints>>

SetQuitFlag ==
  /\ ProcessRuns /\ remover = "quit"
  /\ quitFlag' = TRUE /\ remover' = "returned"
  /\ UNCHANGED <<items, arrayCount, printer, slot, shown, waiting, ints>>

-----------------------------------------------------------------------------
(* main.                                                                   *)

TestQuitFlag ==
  /\ printer = "test"
  /\ printer' = IF quitFlag THEN "join" ELSE "lock"
  /\ UNCHANGED <<items, arrayCount, remover, slot, shown, quitFlag, waiting, ints>>

LockForPrint ==
  /\ printer = "lock" /\ ~RemoverHolds
  /\ printer' = "print" /\ slot' = 1 /\ shown' = {}
  /\ UNCHANGED <<items, arrayCount, remover, quitFlag, waiting, ints>>

\* One round of printArray's loop.
PrintItem ==
  /\ printer = "print"
  /\ shown' = shown \cup ({slot} \cap items)
  /\ slot' = slot + 1
  /\ printer' = IF slot = ArraySize THEN "unlock" ELSE "print"
  /\ UNCHANGED <<items, arrayCount, remover, quitFlag, waiting, ints>>

\* The unlock, and sleep.
UnlockArray ==
  /\ printer = "unlock"
  /\ printer' = "test"
  /\ UNCHANGED <<items, arrayCount, remover, slot, shown, quitFlag, waiting, ints>>

JoinRemover ==
  /\ printer = "join" /\ remover = "returned"
  /\ printer' = "unblock"
  /\ UNCHANGED <<items, arrayCount, remover, slot, shown, quitFlag, waiting, ints>>

\* SIG_UNBLOCK, then exit.
Unblock ==
  /\ printer = "unblock"
  /\ printer' = IF waiting = {} THEN "ended" ELSE "killed"
  /\ UNCHANGED <<items, arrayCount, remover, slot, shown, quitFlag, waiting, ints>>

RemoverStep == Sigwait \/ LockArray \/ RemoveItem \/ CountItem \/ SetQuitFlag
PrinterStep == \/ TestQuitFlag \/ LockForPrint \/ PrintItem \/ UnlockArray
               \/ JoinRemover \/ Unblock

RemovalNext == RaiseSigint \/ RaiseSigquit \/ RemoverStep \/ PrinterStep

RemovalSpec == RemovalInit /\ [][RemovalNext]_removalVars

-----------------------------------------------------------------------------
\* A line that main prints (lines 106-113) shows the items that were in the array
\* together, and the counter (line 103) is the number of the items whenever the
\* mutex is free, so that removeItem finds its index inside the array.
ArrayInStep ==
  /\ printer = "unlock" => shown = items
  /\ ~RemoverHolds => arrayCount = Cardinality(items)
  /\ remover # "overrun"
=============================================================================
