# Verification of the OPS exercises

The repository is a collection of small UNIX programs in C, one directory per
laboratory: servers and clients over sockets, programs over POSIX message queues,
threads with mutexes, condition variables, barriers and semaphores, pipes,
signals, asynchronous I/O. They have no common core. What they share is the way they can go wrong:
a signal between a test and a blocking call, a shared integer behind a condition
variable, a late datagram, a descriptor that nobody closed, a buffer used while a request is in flight. The
project models each program whose state is shared by several actors as a TLA+
module of its own, checks it with TLC, and proves with TLAPS what matters most.

## Inventory

| Part | State | Operations | Interaction | What makes it correct |
|---|---|---|---|---|
| `L2_4/POSIX_cond_server.c`, `POSIX_cond_client.c` | shared `cfd`, `condition`, `idlethreads`; mutex, condition variable; descriptors | accept and hand over, refuse, take, answer, close, shut down | main and a pool of three threads; TCP | a descriptor taken once, one answer per client, refusal only when busy, everybody joined |
| `L2_4/POSIX_sem_server.c`, `POSIX_sem_client.c` | a semaphore on the stack, `do_work` | receive, refuse, sleep, answer, post | detached threads; UDP; alarm | slots conserved, an answer means what it says |
| `L2_4_Graded/server.c` | `id_pass`, mutex, condition variable, barrier | accept, give a number, take it, answer | main and `CHAMP_LIMIT` detached threads | numbers unique, everybody numbered before the first answer |
| `L2_3/file_server.c`, `file_client_udp.c` | a table of senders; chunk number and counter | send, alarm, retry; find slot, print, echo | UDP | chunks printed in order and confirmed only when printed; the client ends |
| `L2_3/calculator_server.c`, two clients | `do_work`, one conversation at a time | pselect, read, calculate, write | local and TCP streams; SIGINT | each answer to its own request; SIGINT neither lost nor disruptive |
| `L2_2/test_server.c`, `test_client.c` | descriptor of the client's queue, message buffer, `end` | receive, answer, close | message queues, time-outs, SIGINT | answers in step with the requests, no use of a closed queue |
| `L2_2/bingo.c` | two queues, counter of children, `errno` | draw, answer, notify, reap | children; handlers of SIGRTMIN and SIGCHLD inside each other | no result and no child forgotten |
| `L2_2/pastry_server.c`, `pastry_client.c` | two queues, `usr1_rec` | request, bake, take, give up | non-blocking queues; SIGUSR1 between a load and a store | no cookie that nobody has ordered |
| `L2_2_Graded/editor.c`, `reporter.c` | array of articles and its offset, flags | receive, print, sleep, end | non-blocking message queue; SIGUSR1, SIGINT, kill | no article lost, repeated or out of order |
| `Lab3/prog18.c` | balls waiting and thrown, bins | take, throw, count, sum | detached threads, three kinds of mutexes | balls conserved, unlocked reads meet no writer |
| `Lab3/prog19.c` | array and count, `quitFlag`, pending signals | delete, print | a thread in `sigwait`; one mutex | count and array agree, a line shows one state |
| `Lab3/prog20.c` | year counters, list of students | enter and leave a year, kick, join, print | cancellation; one mutex per counter | counters exact, what is printed is final |
| `Lab2_1/test2.c`, `test.c` | pipes, the ends each process holds | pass a message on, close, leave | a ring of processes that fork from one another | all leave once one has left, and only for a cause |
| `Lab2_1/prog22b.c` | a pipe to each child and one back, `last_signal` | send a letter, answer, print | parent and children; SIGINT, SIGCHLD in blocking reads | no letter lost or answered twice; the parent leaves |
| `Lab4/archunix5a.c` | three buffers, control blocks, `work` | read, reverse, write, sync | the kernel's asynchronous I/O; SIGINT | the file keeps whole blocks |
| `Lab4/test.c` | one buffer, two offsets, `sigio_rec` | read, alter, write back, move on | a notification thread; SIGIO | each block stays in its place |
| `L2_3/test_prog`, `socket_lib`, `L2_3_Graded/server.c`, `Lab2/*`, `Lab2_1/prog21*`, `prog22a.c`, `Lab2_1_Graded/prog.c`, `Lab3/prog17.c`, `test.c`, `test2.c` | | | | not modelled, see below |

The hard behaviours, each at its line, are the `hazards` of PROJECT.json.

## Modules

A component's module has one action per step of the code that another actor can
see; a critical section under a mutex is one action where every access of the
data is under that mutex, and several where it is not. Comments at the
definitions name the statement; the `map` of PROJECT.json names the lines.
Operators such as `Consumed` or `AfterWakeup` stand for one statement of
the code; beside them, as `ConsumedForgotten` or `AfterWakeupNoLoop`, are the
plausible mistakes that the properties are tested against, used in no action.

| Module | Models | Notes |
|---|---|---|
| `CondServer` | the pooled file server and its clients | `condition` is set outside the mutex (line 216), so testing it and waiting, or resetting it, are separate actions; the kernel hands out the lowest free descriptor; `alive` is FALSE after `ERR` |
| `SemServer` | the timer service | SIGINT may come between the test of `do_work` and `recvfrom`; a thread that posts after `doServer` has returned works on dead memory, so any value is possible |
| `Numbering`, `Championship` | the championship | `Numbering` is the promise: numbers 1, 2, ... once each; `Championship` the mutex, condition variable and barriers that implement it |
| `StopAndWait`, `FileTransfer` | the file transfer | `StopAndWait` is the promise: printed in order, at most one chunk ahead of what is confirmed; `FileTransfer` the datagrams, the table and the retries that implement it |
| `Calculator`, `MCCalculator` | the stream calculator | integers up to `INT32_MAX`, which wrap around; a division that traps and a connection that is reset end the server; `MCCalculator` gives the requests |
| `MqCalculator` | the queue calculator | an interrupted receive leaves the old message in the buffer; the buffer is uninitialised at first |
| `Newspaper` | editor and reporters | the editor may be killed at any step, also between the receive of the last slot (line 118) and the printing of the array (line 123), and started again; its queue stays |
| `Bingo` | bingo | a stack of two handlers (`mq`, `chld`, `top`); `mq_notify` registers for one message; both handlers and the interrupted `mq_send` write `errno` |
| `Pastry` | the pastry shop | `usr1_rec--` is a load and a store; the counter goes to -1 |
| `Students` | prog20 | deferred cancellation: a thread leaves at `nanosleep`, through its clean-up handler |
| `BallThrowers` | prog18 | load and store of each shared counter are two steps; a mutex is held by who is between them |
| `Removal` | prog19 | pending signals are a set, since they merge; one that is pending when main unblocks SIGINT and SIGQUIT (line 75) kills the process |
| `Ring` | test2 and test of `Lab2_1` | every read and write end each process holds; what a process does to a message is the parameter `Varied` |
| `ChildPipes` | prog22b | header and data are two reads, and only the first may be interrupted; a signal pending between a test and a read is seen after the read; a child's death and its SIGCHLD are two steps, and the interrupted read (line 98) and the test of its `errno` (line 99) are two more, between which a handler may run |
| `AioBlocks` | archunix5a | each call is refused or queues a request, which is done or failed later; a test of `work` and the call it guards are two steps |
| `AioFilter` | test of `Lab4` | main and the notification thread interleave; a read may be refused or fail; sizes are left out |
| `MCLab3`, `MCQueues`, `MCPipes`, `MCLab4` | the programs of one kind for the model checker | the programs do not talk to each other, so the first state chooses one (`program`) and only its actions are taken |
| `CondServerProofs`, `DetachedProofs`, `FileTransferProofs`, `CalculatorProofs`, `PipesProofs`, `Lab3Proofs`, `QueuesProofs`, `Lab4Proofs` | theorems | `DetachedProofs` is about `Championship` and `SemServer`; `CalculatorProofs` about both calculators; `PipesProofs` about `Ring` and `ChildPipes`; `Lab3Proofs` about `Students`, `BallThrowers` and `Removal`; `QueuesProofs` about `Newspaper`, `Bingo` and `Pastry`; `Lab4Proofs` about `AioBlocks` and `AioFilter` |

## Runs

| Run | Instance | Shows |
|---|---|---|
| `cond_server` | 2 threads, 3 clients, 3 descriptors | `NoPhantomHandOff`: spurious wake-ups take nothing; `ServedOnce`: as long as clients come apart, one answer each and no descriptor in two threads; `RefusedOnlyWhenBusy` |
| `cond_server_shutdown` | 2 threads, 1 client, fairness | `SleepersExit`: the final broadcast ends every sleeper |
| `cond_server_overlap` | 2 threads, 2 clients | a counterexample to `NoErrorExit`, see Findings |
| `championship` | the code's 4 competitors, fairness | `AllNumberedBeforeAnswers`, `ImplementsNumbering`, `ChampionshipEnds` |
| `file_transfer` | 1 client, 2 senders that never finish, 2 slots, 3 chunks, 3 attempts, fairness | `PrintedInOrder`, `ImplementsStopAndWait`, `ClientEnds` |
| `sem_server` | 3 clients, 2 slots, three times | `SlotsConserved`, `DeniedMeansRefused`, `RefusedOnlyWhenFull` |
| `calculator` | a local and a TCP client, 7 requests, integers from -4 to 3, 1 kill, fairness | `AnswersOwnRequest`, `AcceptedAreAnswered`, `SigintEndsServer` |
| `mq_calculator` | 2 clients with 2 requests, queues of 2 | `InStep`, `ClosedMeansLoop` |
| `lab3` | 3 students; 3 throwers, 3 balls, 2 bins; an array of 3 and 4 SIGINTs | `CountersExact`, `PrintedFinal`; `BallsConserved`, `TotalExact`; `ArrayInStep` |
| `queues` | 2 reporters with 3 lines, queue of 2, array of 3, 2 SIGUSR1s, 1 kill; bingo with 2 children that live for 2 numbers, queues of 1, fairness; 2 customers, queues of 2, 3 SIGUSR1s | `NothingLost` (and a kill of the editor costs at most one array of articles, a complete one included), `AsleepTakesOne`; `AllPrinted`, `BingoEnds`; `NoFreeCookies` |
| `lab4` | 3 blocks and up to 5 iterations; 3 blocks and a remainder | `NoBlockRace`, `WholeBlocks`, `AllWritten`, `FreshControlBlocks`; `BlocksInPlace` |
| `pipes` | a ring of four with messages 0 and 1, a ring of two with a string of three characters, 1 kill each; 2 children and 4 SIGINTs; fairness | `FirstCause`, `RingsEnd`; `LettersConserved`, `ParentLeaves`, `KilledAlone`: when the parent's `ERR` kills the group, no child is left in it |

Type invariants are theorems, for every module with a state of its own; `TypeOK` of `Calculator` and
`MqTypeOK`, which holds the limits of the queues, are checked as well. Deadlock is not
checked: each program ends, or waits for clients that may never come.

**Bounds.** They are small enough to search completely and large enough for the
interesting case. Three clients for two threads or two slots make one wait or be
refused while two are served. Two strangers fill the table of two, so the client
meets a full table. Three chunks let an echo of one be late for the next while a
third is to come. An array of three and a queue of two make the array wrap around
with the queue full. Integers from -4 to 3 have sums that overflow, quotients of each
sign and the trapping division. Two messages in a queue let it fill up, which
takes five in the code. Five iterations bring each of the three buffers back to
its first role. A queue of one in bingo makes the parent block, lets two
results collide, and lets a signal merge with another. A ring of four has a process that is neighbour neither of the one
that leaves first nor of the primary; a ring of two has both pipes between the same processes.
Four SIGINTs and an array of three empty the array and meet the thread once more;
with two children, four SIGINTs send two letters to one child while another dies. Counters that grow for ever in
the code (kills, toggles, requests, signals, chunks) are bounded by the constants commented as `bound`.

**Fairness.** Only what the scheduler and the timers give: a thread or process that can step does, an
alarm that was set fires, a mutex is eventually granted to a thread that keeps
asking (strong fairness in `CondServer`), a client that began a request writes
it or goes away. In `pipes` every process of a ring that is not killed and the parent of prog22b run on;
in `queues` the parent of bingo does, and its pending signals are delivered; nothing is assumed of children, who
may be stopped. Nothing is assumed of the network, of who is killed, or of clients
that have not started. `ChampionshipEnds` also needs `CHAMP_LIMIT` clients to
connect. Every other run uses specifications without fairness.

**What the properties assume.** `ServedOnce` speaks of clients that come one
after another (`apart`) because the code does not do better, as the finding
shows. `InStep` holds up to the first time-out, error, SIGINT or overlapping
session (`calm`): afterwards the late answer of a time-out stays in the queue and
every answer is one behind. `WholeBlocks` excepts blocks written from a
freed buffer after SIGINT. `ClientEnds` names the client whose alarm
fired before it entered `recv` (`recvnoalarm`) and may stay there. `BingoEnds`
names two ways in which the parent does not end: blocked in `mq_send` on a full
`pout` that no child reads any more, and killed with the group because one
handler changed the `errno` the other was about to test. `ParentLeaves` counts as
leaving that the parent of prog22b is killed by its own `ERR`, for the same reason; `KilledAlone` says that
no living child goes with it. `AcceptedAreAnswered` excepts a client whose own division
traps. `BlocksInPlace`
excepts a file of which a block could not be read (`misread`): the
notification thread then writes the previous block in its place. `NoFreeCookies`
is an upper bound only, since signals between the load and the store of
`usr1_rec--` are lost.

## Findings

`CondServer`: `dowork` stores the accepted descriptor (line 213), unlocks, and
only then sets `condition` (line 216), without waiting for the previous descriptor to be taken.
When a second client follows closely, the store overwrites the first
descriptor, and two threads take the same one. The second to close it gets an
error and `ERR` ends the server. The run `cond_server_overlap` is the trace.

Behaviours of the code that the models have and no document excludes:

* `POSIX_cond_server.c`: the final broadcast (line 250) can be missed by a thread between its
  test of `work` and its wait, which then keeps main in `pthread_join`.
* `L2_4_Graded/server.c`: main returns (line 214) and may end the process before the answers are sent.
* `file_server.c` frees a sender's slot with the last chunk, so that a lost last echo makes the client give up on a
  file that was printed, or has it printed twice if it is a file of one chunk.
* `test_server.c` computes with the message it has when SIGINT
  interrupts a receive (line 88), which may divide by an uninitialised zero; a
  client of it dies of `EINVAL` when its time-out passes a full second.
* `bingo.c`: a result that finds `pin` full is an error that kills the group; both handlers test an `errno` that the other one may
  have changed; the parent may wait for ever for a place in `pout`.
* `pastry_server.c`: `usr1_rec` is -1 after a round of extra cookies, and the next signal adds two to that.
* `prog19.c`: a SIGINT that is pending when main unblocks the signals (line 75) kills it, so that it does not exit with success.
* `editor.c`: the tenth article leaves the queue in line 118 and the array is printed in line 123; an editor killed in between
  loses ten accepted articles.
* `prog22b.c`: a SIGINT between the letter's write and `last_signal = 0` sends no letter. When a signal has cut the read of
  line 98 short and the SIGCHLD of the last child comes before line 99 has tested `errno`, `sigchld_handler` leaves
  `ECHILD` there, and `ERR` (line 102) kills the parent, which would otherwise leave by the end of file.
* `calculator_server.c` forgives only `EPIPE` (line 164): a TCP client that is killed with part of the answer unread resets the
  connection, and if the server is still writing, `ECONNRESET` ends it for the clients that wait.
* `Lab4/test.c` does not look at the result of `aio_read`: if the request is refused, main waits for a SIGIO that never
  comes; if it fails, the thread still alters the old block and writes it over the new one.
* `archunix5a.c` frees buffers that a request in flight still uses, and processes
  `k - 1` blocks for `k` "iterations".

## Proofs

All theorems hold for every value of the constants under the module's named
assumption. In each proof module a theorem whose name ends in `Inductive` proves the
strengthened invariant, in one step per action; the other theorems follow from it.

* **CondServerProofs** (a finite pool, descriptors and backlog of any size). `NoPhantomHandOff` compares two histories and says
  nothing of how they stay apart. `HandOff` adds that `condition` is set
  between an announcement and the take that answers it, and that a thread takes only while it is set; that needs
  `Sleepers`, which says who owns the mutex at which position. For `RefusedOnlyWhenBusy`, `IdleCounted` makes `idlethreads` the cardinality of
  the threads at the positions between its increment and its decrement, shown with the library's theorems on finite sets.
  `ServedOnce` rests on `ApartInv`: a client has one place, in the backlog or the descriptor table, from
  the start (`Connections`); and while clients come apart at most one is outstanding (`OneOutstanding`), so a descriptor that is
  announced is not yet in a thread, its client has no answer, and `condition` is 0 when main stores the next one (`Hands`),
  which is exactly what fails in the trace of the finding.
* **DetachedProofs**. *Championship* (`CHAMP_LIMIT` is a positive number). Uniqueness is not
  inductive; it rests on where main stands while a number is on offer
  (`Offer`), on who may stand where (`Positions`) and on the barrier holding
  exactly those who wait there (`Waits`). `FullBarrier`, by cardinality, shows that
  the last arrival finds everybody else. `Refinement` maps `TakeId` to `Give`
  and everything else to a stutter; `NoNumberLost` is the
  second invariant it needs.
  *SemServer* (finitely many clients, a time-out below 65535). Slots: the
  semaphore plus the cardinality of the busy threads. Meanings of answers: a
  thread that outlasts the time-out answers a client that has ended
  (`Outlived`), so the only `-1` a waiting client can read is a refusal.
* **FileTransferProofs** (tables, attempts and files of positive size). No
  datagram is numbered above its client's chunk and no echo above what has been printed
  (`Network`), what the table counts has been printed (`Table`), and the client
  moves on only with the echo of its current chunk (`Ends`). Hence slots are unique and the
  protocol implements `StopAndWait`, reprints included, which are stutters. For `PrintedInOrder`,
  `SlotKnows` relates a slot to what was printed last: the slot counts it, or is new after a complete file.
* **CalculatorProofs**. *Calculator* (any clients and requests, any `INT32_MAX`): the part of the array that has been read is
  the prefix of the request of the client being served, whatever older words lie behind it; an answer is begun only when the
  request is complete (`InService`); and a client the server has turned away from has its whole answer or is gone
  (`Progress`), or its own division ended the server (`CutShort`). `AnswersAreRight` then needs that `Calculate` wraps into the 32 bits the result of C's operators, with a division that
  truncates towards zero: `Wrapped` and `QuotientCorrect` show it for every pair of integers.
  *MqCalculator* (any clients, requests and limit): `ClosedLoops` follows from where the server stands in a round of
  three queues (`OpenWhileAnswering`), through every time-out and error. `ServerInStep` needs the whole state of a calm
  session (`Calm`): at most one client is in session, its request is in a queue, in the server's hands or answered, and in only one of
  these places (`Asked`, `InHand`, `Answered`), the server is at that request's queue, the queue of answers is empty in between
  (`Rests`), and a goodbye is overtaken by nobody's first request (`Owner`).
* **PipesProofs**. *Ring* (any ring of two or more): a process in its loop holds
  one end of two pipes, and before that it, or the primary for those not yet forked, holds
  every end (`Ends`). So a pipe breaks only behind somebody who has left, and unless somebody was killed the first to
  leave has taken the only message out of the ring (`Silence`), so no process that is still in its loop has anything to write.
  *ChildPipes* (any finite set of children, any number of SIGINTs): in the common pipe a header is always followed by the same
  child's data, and the next read after a header finds that data (`Pairs`), so the parent never prints one child's letter as
  another's. What is in a child's pipe, in its hands, in the common pipe, in the parent's hands and printed adds up to what
  was sent, less the letter in a dying child's hands (`Balance`); the lemmas about `InR` count the messages of a sequence by
  a set of places. A letter needs a SIGINT of its own (`Signalled`). `NobodyElseKilled`:
  `errno` is `ECHILD` before the test only if a handler has found every child dead (`ErrnoTrue`), and the dead stay dead.
* **Lab3Proofs**. *Students* (finitely many): a counter is the cardinality of
  the set of threads between its increment and its decrement; the lemmas
  `Entering`, `Leaving`, `Staying` carry it through each step. After the joins nobody writes, hence `FinalCounters`.
  *BallThrowers* (finitely many): waiting plus in hand plus thrown; a
  loaded value is still the current one because the mutex keeps others out
  (`Held`). Main has seen a count that cannot change any more (`Seen`), so no ball
  is in hand while it reads. For `TotalIsExact` a bin with n balls is a set of n places (`InBins`), the sum over
  bins is the cardinality of the union, and reading a bin adds its places to what main has summed. *Removal* (any array): the count is the number of items, or one more while an item
  is deleted and not yet counted, which the mutex hides from main (`Protected`).
* **QueuesProofs**. *Bingo* (finitely many children, any queues): `children_left` is the
  cardinality of those not reaped; the request of `mq_notify` is registered, has become a signal, or is about to be renewed
  (`RequestAlive`), and while a result is in `pin` a signal or the handler is on its way (`ResultNoticed`). A parent that is outside
  its handlers with no child left has therefore printed everything. *Pastry* (any queues): the
  loop stores no more than it has loaded (`CountDown`). *Newspaper* (any array and queue): the slots below `offset` hold
  articles (`Filled`), one more between the receive and the count (`Held`), and a step of the editor only moves the border between what is printed, gathered and queued
  (`MovedOn`), so their concatenation stays what was accepted; a kill removes the middle part, which is no longer than
  the array.
* **Lab4Proofs** (any file). *AioFilter*: `HandShake` says, for each position of main, whether the thread runs, whether SIGIO is
  on its way, and that both offsets agree; `Data` which block is in the buffer and in the file at each of these positions.
  *AioBlocks*: for each line of `processblocks`, `Lines` says which of the three buffers is being read, reversed or written, of which block,
  and what it holds. It is claimed until SIGINT, and for a call that `work` allowed just before (`Tested`), since
  after SIGINT the waits do not wait; what survives SIGINT is that nothing which is read is being written and that the file gets
  only reversed or freed buffers.

Every safety property and both refinements that the runs check are theorems. Only model-checked are the liveness properties
(`SleepersExit`, `ChampionshipEnds`, `ClientEnds`, `SigintEndsServer`, `BingoEnds`, `RingsEnd`, `ParentLeaves`): they
rest on fairness, whose `ENABLED` the prover does not reason about.
`NoErrorExit` is violated, see Findings.

## What is left out

Bytes, texts and wording: a chunk is its number, an article its reporter and line, a
block whole or not, a string its length. Failures of system calls that need a broken system
(out of memory, a closed standard output). UDP duplicates in `SemServer`. Local clocks: a timer
fires at any time after it was set, except that in `SemServer` a sleep longer than the
client's time-out outlasts it, as both start with the same datagram. Signed
overflow in the calculator, undefined in C, wraps around, as the compiled additions and
multiplications do. stdio's locks in signal handlers. Queues that an earlier run of bingo or of the pastry shop has
left behind. `AioFilter` has no sizes: a file whose remainder
is larger than a block (line 82) would overflow the buffer of line 49, and nothing is claimed for it. Three simplifications hide
nothing that a property could see: `CloseOthers` in `Ring` closes all descriptors in one step; in `CondServer` a
client that was turned away does not notice its end of file; in `SemServer` SIGINT in `recvfrom` is always seen as `EINTR`, since
one that comes with a datagram is one at the position before. In `Calculator` words sent to a client after its death count as unread, so
that the server may be reset more often than in the code. In `MqCalculator` clients and server are started from different terminals, so that `ERR`
kills one of them.

## Not modelled

* `Lab2_1_Graded/prog.c`: unfinished; parent and children read and write the same
  FIFO, each may get back what it has written itself, and nothing says what should happen then.
* `L2_3_Graded/server.c`: unfinished; calls `recvfrom` on the listening stream socket with an uninitialised
  address, so what the kernel answers decides everything.
* `Lab3/test.c`: locks mutexes beyond the end of its array (line 196), which C leaves undefined from the start.
  `Lab3/test2.c`: one counter under one lock. `Lab3/prog17.c`: threads that share nothing and are joined.
* `Lab2/*`: processes that count signals or copy files between sleeps of random
  length; no shared state.
* `Lab2_1/prog21*`, `prog22a.c`: one reader and one writer of a FIFO; the first half of `prog22b.c`.
* `L2_3/test_prog`, `socket_lib`: one client and one loop that prints; wrappers without state.
* Makefiles, binaries, archives.

## Plan

Done, in this order: the pooled server, the championship, the file transfer, the students, the timer
service, the newspaper, the ball throwers, both calculators, the block reversal; then the rings and the pipes of `Lab2_1`, bingo, the
pastry shop, prog19, the filter of `Lab4`; then the proofs of every safety property. What is left:

1. Abstract specifications: one for the pool (a connection is refused or served once), which the present code implements only
   for clients that come apart, and one for a session of the queue calculator.
2. The safety cores of the liveness properties, as invariants: for instance that a process of a ring can only wait
   for one that has not left, and that a sleeper of the pool is still owed a broadcast.
