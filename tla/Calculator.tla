----------------------------- MODULE Calculator -----------------------------
(***************************************************************************)
(* The calculator of L2_3: calculator_server.c serves one client at a time,*)
(* from a local and a TCP listening socket; calculator_client_local.c and  *)
(* calculator_client_tcp.c send a request and print the answer.  The       *)
(* streams deliver words in pieces, so both sides read and write in loops. *)
(* SIGINT is blocked but inside pselect.  A client may be killed.          *)
(*                                                                         *)
(* Of the five words of a message the model has those that a request sets: *)
(* two operands and the operation.  The words of the array data stay from  *)
(* one client to the next.  Integers go up to INT32_MAX and wrap around, as*)
(* the compiled additions do.                                              *)
(***************************************************************************)
EXTENDS Integers, Sequences

CONSTANTS LocalClients, TcpClients,
          INT32_MAX,   \* the largest integer
          Requests,    \* the requests of clients: <<op1, op2, operation>>
          MaxKills,    \* bound: clients killed
          NoClient

Clients == LocalClients \cup TcpClients
Words == 3

INT32_MIN == -INT32_MAX - 1
Int32 == INT32_MIN..INT32_MAX
Integers32 == 2 * (INT32_MAX + 1)     \* how many there are

ASSUME CalculatorAssumption ==
  /\ LocalClients \cap TcpClients = {} /\ NoClient \notin Clients
  /\ INT32_MAX \in Nat /\ MaxKills \in Nat
  /\ \A r \in Requests : r[1] \in Int32 /\ r[2] \in Int32

Impossible == <<>>     \* an answer is <<result>> or has no result

VARIABLES
  server, serving,            \* the server's position and its cfd
  data, len, written,         \* its array, words read, words written
  pending, fdL, fdT,          \* SIGINT; the backlogs of the two sockets
  client, request, sent,      \* each client: position, request, words written
  answer, got, printed,       \* the answer on its stream, words read, its print
  accepted, kills             \* history: clients that were served

serverVars == <<server, serving, data, len, written, accepted>>
netVars == <<pending, fdL, fdT>>
clientVars == <<client, request, sent, got, printed, kills>>
vars == <<serverVars, netVars, clientVars, answer>>

\* bind_local_socket and bind_tcp_socket: two listening sockets, nobody waits.
Listening == fdL = <<>> /\ fdT = <<>>

Init ==
  /\ server = "pselect" /\ serving = NoClient
  /\ data = <<0, 0, "?">> /\ len = 0 /\ written = 0
  /\ pending = FALSE /\ Listening
  /\ client = [c \in Clients |-> "connect"] /\ request \in [Clients -> Requests]
  /\ sent = [c \in Clients |-> 0]
  /\ answer = [c \in Clients |-> [words |-> 0, value |-> Impossible]]
  /\ got = [c \in Clients |-> 0] /\ printed = [c \in Clients |-> Impossible]
  /\ accepted = {} /\ kills = 0

Gone == server \in {"exited", "crashed"}

-----------------------------------------------------------------------------
(* The operations.                                                         *)

Wrap(n) == ((n - INT32_MIN) % Integers32) + INT32_MIN

\* C's division truncates towards zero; a division that rounds down does not.
Abs(n) == IF n < 0 THEN -n ELSE n
Floored(a, b) == a \div b
Quotient(a, b) == LET q == Abs(a) \div Abs(b) IN IF (a < 0) = (b < 0) THEN q ELSE -q

\* calculate: no result with status 0, whatever the uninitialized word is.
Calculate(d) ==
  CASE d[3] = "+" -> <<Wrap(d[1] + d[2])>>
    [] d[3] = "-" -> <<Wrap(d[1] - d[2])>>
    [] d[3] = "*" -> <<Wrap(d[1] * d[2])>>
    [] d[3] = "/" /\ d[2] # 0 -> <<Quotient(d[1], d[2])>>
    [] OTHER -> Impossible

\* A quotient that does not fit is a trap: SIGFPE ends the process.
Traps(d) == d[3] = "/" /\ d[1] = INT32_MIN /\ d[2] = -1

-----------------------------------------------------------------------------
(* The server.                                                             *)

\* add_new_client takes the oldest connection of a backlog.
AddNewClient(backlog) ==
  /\ backlog # <<>>
  /\ serving' = Head(backlog)
  /\ accepted' = accepted \cup {serving'}

\* pselect returns with a descriptor ready, a pending SIGINT notwithstanding;
\* the local socket goes first, one connection is accepted.
Accept ==
  /\ server = "pselect"
  /\ \/ AddNewClient(fdL) /\ fdL' = Tail(fdL) /\ UNCHANGED fdT
     \/ fdL = <<>> /\ AddNewClient(fdT) /\ fdT' = Tail(fdT) /\ UNCHANGED fdL
  /\ server' = "read" /\ len' = 0 /\ written' = 0
  /\ UNCHANGED <<data, pending, clientVars, answer>>

\* SIGINT arrives in pselect: do_work = 0, EINTR and the end of the loop.  A
\* server that did not block it would be interrupted in its reads and writes,
\* one that passed the wrong mask to pselect nowhere.
Unblocked == server \in {"pselect", "read", "write"}
NeverDelivered == FALSE
InPselect == server = "pselect"

Interrupt ==
  /\ pending /\ InPselect
  /\ server' = "ending"
  /\ UNCHANGED <<serving, data, len, written, accepted, netVars, clientVars, answer>>

\* The sockets are closed and the name is removed.
Exit ==
  /\ server = "ending"
  /\ server' = "exited"
  /\ UNCHANGED <<serving, data, len, written, accepted, netVars, clientVars, answer>>

Eof(c) == client[c] \in {"killed", "printed", "failed"}

\* bulk_read goes on until it has all words; a single read would not.
OneRead(n) == n > 0
ReadAll(n) == n = Words

\* One read of bulk_read, of the words that have arrived.
Read ==
  /\ server = "read" /\ sent[serving] > len
  /\ \E n \in (len + 1)..sent[serving] :
       /\ data' = [i \in 1..Words |-> IF i \in (len + 1)..n THEN request[serving][i] ELSE data[i]]
       /\ len' = n
       /\ server' = IF ReadAll(n) THEN "calculate" ELSE "read"
  /\ UNCHANGED <<serving, written, accepted, netVars, clientVars, answer>>

\* read returns 0: a short request is not answered.
ReadEof ==
  /\ server = "read" /\ sent[serving] = len /\ Eof(serving)
  /\ server' = "close"
  /\ UNCHANGED <<serving, data, len, written, accepted, netVars, clientVars, answer>>

Compute ==
  /\ server = "calculate"
  /\ IF Traps(data)
     THEN server' = "crashed" /\ UNCHANGED answer
     ELSE /\ server' = "write"
          /\ answer' = [answer EXCEPT ![serving].value = Calculate(data)]
  /\ UNCHANGED <<serving, data, len, written, accepted, netVars, clientVars>>

\* What bulk_write still has to write; without count -= c it would be all.
CountKept == Words
Count == Words - written

\* One write of bulk_write; to a client that is gone it may be EPIPE, which the
\* server takes as the end of this service.
Write ==
  /\ server = "write"
  /\ \/ \E n \in 1..Count :
          /\ written' = written + n
          /\ answer' = [answer EXCEPT ![serving].words = @ + n]
          /\ server' = IF written' < Words THEN "write" ELSE "close"
     \/ Eof(serving) /\ server' = "close" /\ UNCHANGED <<written, answer>>
  /\ UNCHANGED <<serving, data, len, accepted, netVars, clientVars>>

\* Any other error ends the server.  A TCP client that is killed before it has
\* read all that was sent to it resets the connection: ECONNRESET.  (What is
\* sent after its death is counted as unread, too.)
Reset(c) == c \in TcpClients /\ client[c] = "killed" /\ got[c] < answer[c].words

WriteError ==
  /\ server = "write" /\ Reset(serving)
  /\ server' = "crashed"
  /\ UNCHANGED <<serving, data, len, written, accepted, netVars, clientVars, answer>>

Close ==
  /\ server = "close"
  /\ serving' = NoClient
  /\ server' = "pselect"
  /\ UNCHANGED <<data, len, written, accepted, netVars, clientVars, answer>>

-----------------------------------------------------------------------------
(* The clients.                                                            *)

\* connect puts a client into the backlog of its socket; without a server it is
\* refused.
Connected(c) == client' = [client EXCEPT ![c] = IF Gone THEN "failed" ELSE "write"]

ConnectLocal(c) ==
  /\ client[c] = "connect" /\ Connected(c)
  /\ fdL' = IF Gone THEN fdL ELSE Append(fdL, c)
  /\ UNCHANGED <<serverVars, pending, fdT, request, sent, got, printed, kills, answer>>

ConnectTcp(c) ==
  /\ client[c] = "connect" /\ Connected(c)
  /\ fdT' = IF Gone THEN fdT ELSE Append(fdT, c)
  /\ UNCHANGED <<serverVars, pending, fdL, request, sent, got, printed, kills, answer>>

\* The connection has been closed by the server, or by its end.
Closed(c) == Gone \/ (c \in accepted /\ serving # c)

\* One write of the client's bulk_write; a broken pipe is an error.
ClientWrite(c) ==
  /\ client[c] = "write"
  /\ IF Closed(c)
     THEN client' = [client EXCEPT ![c] = "failed"] /\ UNCHANGED sent
     ELSE \E n \in (sent[c] + 1)..Words :
            /\ sent' = [sent EXCEPT ![c] = n]
            /\ client' = [client EXCEPT ![c] = IF n = Words THEN "read" ELSE "write"]
  /\ UNCHANGED <<serverVars, netVars, request, got, printed, kills, answer>>

\* The client's bulk_read and print_answer; a short answer is an error.
ClientRead(c) ==
  /\ client[c] = "read"
  /\ \/ \E n \in (got[c] + 1)..answer[c].words :
          /\ got' = [got EXCEPT ![c] = n]
          /\ client' = [client EXCEPT ![c] = IF n = Words THEN "printed" ELSE "read"]
          /\ printed' = [printed EXCEPT ![c] = IF n = Words THEN answer[c].value ELSE @]
     \/ /\ got[c] = answer[c].words /\ Closed(c)
        /\ client' = [client EXCEPT ![c] = "failed"]
        /\ UNCHANGED <<got, printed>>
  /\ UNCHANGED <<serverVars, netVars, request, sent, kills, answer>>

KillClient(c) ==
  /\ client[c] \in {"write", "read"} /\ kills < MaxKills
  /\ client' = [client EXCEPT ![c] = "killed"]
  /\ kills' = kills + 1
  /\ UNCHANGED <<serverVars, netVars, request, sent, got, printed, answer>>

Sigint ==
  /\ ~pending /\ ~Gone
  /\ pending' = TRUE
  /\ UNCHANGED <<serverVars, fdL, fdT, clientVars, answer>>

ServerStep ==
  \/ Accept \/ Interrupt \/ Exit
  \/ Read \/ ReadEof \/ Compute \/ Write \/ WriteError \/ Close
LocalStep(c) == c \in LocalClients /\ (ConnectLocal(c) \/ ClientWrite(c) \/ ClientRead(c))
TcpStep(c) == c \in TcpClients /\ (ConnectTcp(c) \/ ClientWrite(c) \/ ClientRead(c))
ClientStep(c) == LocalStep(c) \/ TcpStep(c)

Next == ServerStep \/ Sigint \/ \E c \in Clients : ClientStep(c) \/ KillClient(c)

Spec == Init /\ [][Next]_vars

\* Processes are scheduled, and a client that has begun writes its request.
FairSpec == Spec /\ WF_vars(ServerStep) /\ \A c \in Clients : WF_vars(ClientStep(c))

-----------------------------------------------------------------------------
\* The types of the variables.
TypeOK ==
  /\ server \in {"pselect", "read", "calculate", "write", "close", "ending", "exited", "crashed"}
  /\ serving \in Clients \cup {NoClient}
  /\ serving = NoClient <=> server \in {"pselect", "ending", "exited"}
  /\ data[1] \in Int32 /\ data[2] \in Int32
  /\ len \in 0..Words /\ written \in 0..Words
  /\ pending \in BOOLEAN /\ fdL \in Seq(LocalClients) /\ fdT \in Seq(TcpClients)
  /\ client \in [Clients -> {"connect", "write", "read", "printed", "failed", "killed"}]
  /\ request \in [Clients -> Requests]
  /\ sent \in [Clients -> 0..Words] /\ got \in [Clients -> 0..Words]
  /\ \A c \in Clients : answer[c].words \in 0..Words
  /\ accepted \subseteq Clients

\* The answer that arithmetic gives, by a definition of its own.
Correct(r, answered) ==
  IF r[3] \notin {"+", "-", "*", "/"} \/ (r[3] = "/" /\ r[2] = 0)
  THEN answered = Impossible
  ELSE /\ answered # Impossible
       /\ LET v == answered[1]
              exact == CASE r[3] = "+" -> r[1] + r[2]
                         [] r[3] = "-" -> r[1] - r[2]
                         [] OTHER -> r[1] * r[2]
              rest == r[1] - v * r[2]
          IN  /\ v \in Int32
              /\ IF r[3] = "/" THEN Abs(rest) < Abs(r[2]) /\ rest * r[1] >= 0
                               ELSE (exact - v) % Integers32 = 0

\* What a client prints (client, line 147) answers its own request, however
\* the streams cut it in pieces and whatever data held before.
AnswersOwnRequest ==
  \A c \in Clients : client[c] = "printed" => Correct(request[c], printed[c])

\* A client fails only if it was never accepted or if its own division is the
\* one that traps: SIGINT, blocked outside pselect (line 185), cuts nobody's
\* service short, and a server that dies takes no answer of another with it.
AcceptedAreAnswered ==
  \A c \in Clients : client[c] = "failed" => c \notin accepted \/ Traps(request[c])

\* SIGINT is not lost: the server ends (lines 183-198), after the clients that
\* are still in its backlogs.
SigintEndsServer == pending ~> Gone
=============================================================================
