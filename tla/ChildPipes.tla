----------------------------- MODULE ChildPipes -----------------------------
(***************************************************************************)
(* Lab2_1/prog22b.c: on SIGINT the parent sends a letter to one of its     *)
(* children through that child's pipe; the child answers on the common pipe*)
(* R with a header (the length) and that many letters, which the parent    *)
(* prints.  SIGINT goes to the whole group, and a child may die of it,     *)
(* which sends SIGCHLD to the parent, whose handler collects the dead.     *)
(***************************************************************************)
EXTENDS Naturals, Sequences, FiniteSets

CONSTANTS Children, Parent, MaxSigints   \* MaxSigints: bound

VARIABLES
  parent, sender,   \* the parent's position; whose header it has read
  lastSignal,       \* last_signal == SIGINT
  fds,              \* the children whose fds[i] is not 0
  child, req,       \* each child: its position, the letters in its pipe
  R,                \* the common pipe: <<child, "head">> or <<child, "data">>
  pending, sigints, \* processes with a pending SIGINT, number sent so far
  sigchld,          \* is a SIGCHLD pending for the parent
  sent, printed     \* per child: letters sent to it, answers printed

parentVars == <<parent, sender, lastSignal, fds>>
childVars == <<child, req>>
pipesVars == <<parentVars, childVars, R, pending, sigints, sigchld, sent, printed>>

PipesInit ==
  /\ parent = "create" /\ sender = Parent /\ lastSignal = FALSE /\ fds = {}
  /\ child = [k \in Children |-> "none"] /\ req = [k \in Children |-> 0]
  /\ R = <<>> /\ pending = {} /\ sigints = 0 /\ sigchld = FALSE
  /\ sent = [k \in Children |-> 0] /\ printed = [k \in Children |-> 0]

-----------------------------------------------------------------------------
(* Signals.  SIGINT is ignored by the parent until parent_work, by a child *)
(* until child_work.                                                       *)

Catching == {k \in Children : child[k] \in {"read", "write"}}
            \cup (IF parent \in {"create", "done", "killed"} THEN {} ELSE {Parent})

Sigint ==
  /\ sigints < MaxSigints
  /\ sigints' = sigints + 1
  /\ pending' = pending \cup Catching
  /\ UNCHANGED <<parentVars, childVars, R, sigchld, sent, printed>>

\* Where a handler leaves the parent: a read that blocks may be cut short, which
\* leaves errno = EINTR, or the signal comes just before the call.
AfterSignal == IF parent = "read" /\ R = <<>> THEN {"read", "eintr"} ELSE {parent}

SigHandler ==
  /\ Parent \in pending /\ parent \notin {"done", "killed"}
  /\ pending' = pending \ {Parent}
  /\ lastSignal' = TRUE
  /\ parent' \in AfterSignal
  /\ UNCHANGED <<sender, fds, childVars, R, sigints, sigchld, sent, printed>>

\* sig_killme: the child ends, which sends SIGCHLD to the parent, or goes on
\* with the call that was interrupted.
SigKillme(k) ==
  /\ k \in pending
  /\ pending' = pending \ {k}
  /\ \/ UNCHANGED <<child, sigchld>>
     \/ child' = [child EXCEPT ![k] = "dead"] /\ sigchld' = TRUE
  /\ UNCHANGED <<parentVars, req, R, sigints, sent, printed>>

AllDead == \A k \in Children : child[k] = "dead"

\* errno after the last waitpid of sigchld_handler, when the read has failed
\* and its errno is not yet tested: a child that lives makes waitpid return 0,
\* which leaves errno alone; when all have been collected it is ECHILD.
ErrnoLost(e) == "echild"    \* as if any call set it
HandlerErrno(e) == IF AllDead THEN "echild" ELSE e

\* SIGCHLDs merge, one handler collects all the dead.
SigchldHandler ==
  /\ sigchld /\ parent \notin {"done", "killed"}
  /\ sigchld' = FALSE
  /\ IF parent \in {"eintr", "echild"} THEN parent' = HandlerErrno(parent)
                                       ELSE parent' \in AfterSignal
  /\ UNCHANGED <<sender, lastSignal, fds, childVars, R, pending, sigints, sent, printed>>

-----------------------------------------------------------------------------
(* Children.                                                               *)

CreateChild(k) ==
  /\ parent = "create" /\ child[k] = "none"
  /\ child' = [child EXCEPT ![k] = "forked"]
  /\ fds' = fds \cup {k}
  /\ UNCHANGED <<parent, sender, lastSignal, req, R, pending, sigints, sigchld, sent, printed>>

\* The other children's pipes are closed, the handler of SIGINT is set.
ChildReady(k) ==
  /\ child[k] = "forked"
  /\ child' = [child EXCEPT ![k] = "read"]
  /\ UNCHANGED <<parentVars, req, R, pending, sigints, sigchld, sent, printed>>

ReadLetter(k) ==
  /\ child[k] = "read" /\ req[k] > 0
  /\ req' = [req EXCEPT ![k] = @ - 1]
  /\ child' = [child EXCEPT ![k] = "write"]
  /\ UNCHANGED <<parentVars, R, pending, sigints, sigchld, sent, printed>>

\* One write of less than PIPE_BUF bytes.
Answer(k) ==
  /\ child[k] = "write"
  /\ R' = R \o <<<<k, "head">>, <<k, "data">>>>
  /\ child' = [child EXCEPT ![k] = "read"]
  /\ UNCHANGED <<parentVars, req, pending, sigints, sigchld, sent, printed>>

-----------------------------------------------------------------------------
(* The parent.                                                             *)

\* close(R[1]) and the handler of SIGINT.
StartParent ==
  /\ parent = "create" /\ \A k \in Children : child[k] # "none"
  /\ parent' = "check"
  /\ UNCHANGED <<sender, lastSignal, fds, childVars, R, pending, sigints, sigchld, sent, printed>>

NoSignal ==
  /\ parent = "check" /\ ~lastSignal
  /\ parent' = "read"
  /\ UNCHANGED <<sender, lastSignal, fds, childVars, R, pending, sigints, sigchld, sent, printed>>

\* The search from a random place finds any open pipe, or none.  A write to
\* a dead child fails with EPIPE and closes the pipe.
SendLetter(k) ==
  /\ parent = "check" /\ lastSignal /\ k \in fds
  /\ IF child[k] = "dead"
       THEN fds' = fds \ {k} /\ UNCHANGED <<req, sent>>
       ELSE /\ req' = [req EXCEPT ![k] = @ + 1]
            /\ sent' = [sent EXCEPT ![k] = @ + 1]
            /\ UNCHANGED fds
  /\ parent' = "reset"
  /\ UNCHANGED <<sender, lastSignal, child, R, pending, sigints, sigchld, printed>>

NobodyLeft ==
  /\ parent = "check" /\ lastSignal /\ fds = {}
  /\ parent' = "reset"
  /\ UNCHANGED <<sender, lastSignal, fds, childVars, R, pending, sigints, sigchld, sent, printed>>

\* last_signal = 0, or as it would be without.
SignalKept  == lastSignal
SignalReset == FALSE

Reset ==
  /\ parent = "reset"
  /\ lastSignal' = SignalReset
  /\ parent' = "read"
  /\ UNCHANGED <<sender, fds, childVars, R, pending, sigints, sigchld, sent, printed>>

\* After the header the data is read, even if a signal has come; the mistake
\* is to look at signals first.
AfterHeaderSignals == IF lastSignal THEN "check" ELSE "data"
AfterHeader == "data"

ReadHeader ==
  /\ parent = "read" /\ R # <<>>
  /\ sender' = Head(R)[1]
  /\ R' = Tail(R)
  /\ parent' = AfterHeader
  /\ UNCHANGED <<lastSignal, fds, childVars, pending, sigints, sigchld, sent, printed>>

ReadData ==
  /\ parent = "data" /\ R # <<>>
  /\ R' = Tail(R)
  /\ printed' = [printed EXCEPT ![sender] = @ + 1]
  /\ parent' = "check"
  /\ UNCHANGED <<sender, lastSignal, fds, childVars, pending, sigints, sigchld, sent>>

\* errno is EINTR: on with the loop.
TestErrno ==
  /\ parent = "eintr"
  /\ parent' = "check"
  /\ UNCHANGED <<sender, lastSignal, fds, childVars, R, pending, sigints, sigchld, sent, printed>>

\* errno is something else: ERR, whose kill(0, SIGKILL) takes the whole group.
ErrKills ==
  /\ parent = "echild"
  /\ parent' = "killed"
  /\ child' = [k \in Children |-> "dead"]
  /\ UNCHANGED <<sender, lastSignal, fds, req, R, pending, sigints, sigchld, sent, printed>>

\* Who holds R[1]; the parent itself, if it did not close it.
HoldersWithParent == {k \in Children : child[k] # "dead"} \cup {Parent}
Holders == {k \in Children : child[k] # "dead"}

EndOfFile ==
  /\ parent = "read" /\ R = <<>> /\ Holders = {}
  /\ parent' = "done"
  /\ UNCHANGED <<sender, lastSignal, fds, childVars, R, pending, sigints, sigchld, sent, printed>>

ChildStep(k) == ChildReady(k) \/ ReadLetter(k) \/ Answer(k)
ParentStep ==
  \/ StartParent \/ NoSignal \/ NobodyLeft \/ Reset
  \/ ReadHeader \/ ReadData \/ EndOfFile \/ TestErrno \/ ErrKills
  \/ \E k \in Children : CreateChild(k) \/ SendLetter(k)

PipesNext ==
  \/ Sigint \/ SigHandler \/ SigchldHandler \/ ParentStep
  \/ \E k \in Children : SigKillme(k) \/ ChildStep(k)

PipesSpec == PipesInit /\ [][PipesNext]_pipesVars

-----------------------------------------------------------------------------
InR(k) == Cardinality({i \in DOMAIN R : R[i] = <<k, "head">>})

\* A letter (line 89) is waiting, being answered, on its way back or printed: a
\* living child loses none, a dead one answers none twice; and there is at
\* most one letter for each SIGINT.
LettersConserved ==
  /\ \A k \in Children :
       LET traced == req[k] + (IF child[k] = "write" THEN 1 ELSE 0) + InR(k)
                     + (IF parent = "data" /\ sender = k THEN 1 ELSE 0) + printed[k]
       IN  IF child[k] = "dead" THEN traced <= sent[k] /\ sent[k] <= traced + 1
                                ELSE traced = sent[k]
  /\ \A k \in Children : sent[k] <= sigints

\* When the last child is gone the parent leaves, whatever is still in the pipe
\* and whichever pipes it has not closed: by the end of file (lines 103-104), or
\* killed by its own ERR (line 102) if the last SIGCHLD comes between a read that
\* a signal has cut short and the test of errno (line 99), which is then ECHILD.
ParentLeaves == AllDead ~> parent \in {"done", "killed"}

\* That ERR never takes a living child with it: as long as one lives,
\* sigchld_handler (lines 40-53) leaves the EINTR of line 98 alone.
KilledAlone == [][parent' = "killed" /\ parent # "killed" => AllDead]_pipesVars
=============================================================================
