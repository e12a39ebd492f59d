--------------------------- MODULE CalculatorProofs ---------------------------
(***************************************************************************)
(* Proofs about the two calculators.  Calculator: a client prints the      *)
(* answer to its own request, whatever the width of the integers and       *)
(* however the streams cut the words, and only its own trap cuts a service *)
(* short. MqCalculator: the server never sends on the closed descriptor and*)
(* never divides the numbers of a -1 message, and it keeps in step with    *)
(* clients that come one after the other.                                  *)
(***************************************************************************)
EXTENDS Calculator, MqCalculator, SequenceTheorems, TLAPS

-----------------------------------------------------------------------------
(***************************************************************************)
(* Calculator.  The server's array holds what it has read of the request it*)
(* serves, also when the words came one at a time and older ones lie behind*)
(* them; an answer is begun only when the request is complete (InService), *)
(* and a client the server has turned away from has its whole answer or is *)
(* gone (Served).  With the arithmetic of Calculate this gives             *)
(* AnswersOwnRequest, for every width of the integers.                     *)
(***************************************************************************)

CalcTypes ==
  /\ server \in {"pselect", "read", "calculate", "write", "close", "ending", "exited", "crashed"}
  /\ serving \in Clients \cup {NoClient}
  /\ serving = NoClient <=> server \in {"pselect", "ending", "exited"}
  /\ data[1] \in Int32 /\ data[2] \in Int32
  /\ len \in 0..Words /\ written \in 0..Words /\ pending \in BOOLEAN
  /\ fdL \in Seq(LocalClients) /\ fdT \in Seq(TcpClients)
  /\ client \in [Clients -> {"connect", "write", "read", "printed", "failed", "killed"}]
  /\ request \in [Clients -> Requests]
  /\ sent \in [Clients -> 0..Words] /\ got \in [Clients -> 0..Words]
  /\ answer \in [Clients -> [words : 0..Words, value : Seq(Int)]]
  /\ printed \in [Clients -> Seq(Int)] /\ accepted \subseteq Clients

\* Nobody waits twice, and who waits is connected and not yet accepted.
Backlog(fd) ==
  /\ \A i, j \in 1..Len(fd) : fd[i] = fd[j] => i = j
  /\ \A i \in 1..Len(fd) : fd[i] \notin accepted /\ client[fd[i]] # "connect"

\* The client has got what it is owed, or does not wait for it any more.
Served(c) == \/ client[c] \in {"killed", "printed"}
             \/ client[c] = "read" /\ answer[c].words = Words
RightAnswer(c, a) == a = Calculate(request[c]) /\ ~Traps(request[c])

\* Why a client fails: the server is gone, and had not accepted it or has trapped
\* in its division.
CutShort(c) == \/ server = "crashed" /\ (c \in accepted => Traps(request[c]))
               \/ server = "exited" /\ c \notin accepted

Progress == \A c \in Clients :
  /\ client[c] = "connect" => c \notin accepted
  /\ client[c] \in {"connect", "write"} => sent[c] < Words
  /\ client[c] \in {"read", "printed"} => sent[c] = Words
  /\ client[c] \in {"connect", "write", "read"} => got[c] < Words
  /\ c \notin accepted => answer[c].words = 0
  /\ answer[c].words > 0 => RightAnswer(c, answer[c].value)
  /\ client[c] = "printed" => RightAnswer(c, printed[c])
  /\ client[c] = "failed" => CutShort(c)
  /\ c \in accepted /\ serving # c => Served(c)

InService == serving # NoClient =>
  /\ serving \in accepted /\ len <= sent[serving]
  /\ \A i \in 1..len : data[i] = request[serving][i]
  /\ server \in {"read", "calculate", "write"} => answer[serving].words = written
  /\ server \in {"read", "calculate"} => written = 0
  /\ server = "read" => len < Words
  /\ server \in {"calculate", "write"} => len = Words
  /\ server = "write" => written < Words /\ RightAnswer(serving, answer[serving].value)
  /\ server = "close" => Served(serving)
  /\ server = "crashed" => Traps(request[serving]) \/ client[serving] = "killed"

CalcInv == CalcTypes /\ Backlog(fdL) /\ Backlog(fdT) /\ Progress /\ InService

-----------------------------------------------------------------------------
(* What the arithmetic computes.                                           *)

\* A multiple of m between -m and m is zero.
LEMMA SmallMultiple ==
  ASSUME NEW m \in Int, m > 0, NEW k \in Int, -m < m * k, m * k < m
  PROVE  k = 0
<1>1. ASSUME k >= 1 PROVE FALSE
  <2>1. m * (k - 1) >= 0
    BY <1>1
  <2>2. m * (k - 1) = m * k - m
    OBVIOUS
  <2> QED
    BY <2>1, <2>2
<1>2. ASSUME k <= -1 PROVE FALSE
  <2>1. m * (-1 - k) >= 0
    BY <1>2
  <2>2. m * (-1 - k) = -m - m * k
    OBVIOUS
  <2> QED
    BY <2>1, <2>2
<1> QED
  BY <1>1, <1>2

LEMMA Divided ==
  ASSUME NEW a \in Int, NEW m \in Int, m > 0
  PROVE  /\ a \div m \in Int /\ a % m \in Int
         /\ a = m * (a \div m) + (a % m) /\ 0 <= a % m /\ a % m < m
OBVIOUS

LEMMA MultipleMod ==
  ASSUME NEW m \in Int, m > 0, NEW k \in Int
  PROVE  (m * k) % m = 0
<1> DEFINE a == m * k
           d == a \div m
           r == a % m
<1>1. a \in Int
  OBVIOUS
<1>2. d \in Int /\ r \in Int /\ a = m * d + r /\ 0 <= r /\ r < m
  BY <1>1, Divided
<1> HIDE DEF d, r
<1>3. m * (k - d) = r
  BY <1>2
<1>4. k - d = 0
  BY <1>2, <1>3, SmallMultiple
<1>5. r = 0
  BY <1>3, <1>4
<1> QED
  BY <1>5 DEF r

\* An integer that wraps around is one of the integers that there are, and
\* differs from what it was by a multiple of their number.
LEMMA Wrapped ==
  ASSUME NEW x \in Int
  PROVE  /\ Wrap(x) \in Int32 /\ Wrap(x) \in Int
         /\ (x - Wrap(x)) % Integers32 = 0
<1> DEFINE m == Integers32
           a == x - INT32_MIN
           d == a \div m
           r == a % m
<1>1. m \in Int /\ m > 0 /\ a \in Int /\ INT32_MIN \in Int
  BY CalculatorAssumption DEF Integers32, INT32_MIN
<1>2. d \in Int /\ r \in Int /\ a = m * d + r /\ 0 <= r /\ r < m
  BY <1>1, Divided
<1>3. Wrap(x) = r + INT32_MIN
  BY DEF Wrap
<1> HIDE DEF d, r
<1>4. Wrap(x) \in Int32 /\ Wrap(x) \in Int
  BY <1>2, <1>3, CalculatorAssumption DEF Integers32, INT32_MIN, Int32
<1>5. x - Wrap(x) = m * d
  BY <1>1, <1>2, <1>3
<1>6. (m * d) % m = 0
  <2> HIDE DEF m
  <2> QED
    BY <1>1, <1>2, MultipleMod
<1> QED
  BY <1>4, <1>5, <1>6

\* Division truncates: the rest is smaller than the divisor and has the sign of
\* the dividend; only the trapping quotient does not fit.
LEMMA QuotientCorrect ==
  ASSUME NEW a \in Int32, NEW b \in Int32, b # 0, ~(a = INT32_MIN /\ b = -1)
  PROVE  /\ Quotient(a, b) \in Int32 /\ Quotient(a, b) \in Int
         /\ Abs(a - Quotient(a, b) * b) < Abs(b)
         /\ (a - Quotient(a, b) * b) * a >= 0
<1> DEFINE p == Abs(a)
           m == Abs(b)
           q == p \div m
           r == p % m
<1>1. /\ a \in Int /\ b \in Int /\ p \in Int /\ p >= 0 /\ m \in Int /\ m > 0
      /\ INT32_MIN <= a /\ a <= INT32_MAX /\ p <= INT32_MAX + 1
      /\ INT32_MAX \in Nat /\ INT32_MIN = -INT32_MAX - 1
  BY CalculatorAssumption DEF Int32, INT32_MIN, Abs
<1>2. q \in Int /\ r \in Int /\ p = m * q + r /\ 0 <= r /\ r < m
  BY <1>1, Divided
<1>3. Quotient(a, b) = IF (a < 0) = (b < 0) THEN q ELSE -q
  BY DEF Quotient
<1>4. (a >= 0 => p = a) /\ (a < 0 => p = -a) /\ (b >= 0 => m = b) /\ (b < 0 => m = -b)
  BY <1>1 DEF Abs
<1> HIDE DEF q, r, p, m
<1>5. q >= 0
  <2> SUFFICES ASSUME q <= -1 PROVE FALSE
    BY <1>2
  <2>1. m * (-1 - q) >= 0
    BY <1>1, <1>2
  <2>2. m * (-1 - q) = -m - m * q
    BY <1>1, <1>2
  <2> QED
    BY <1>1, <1>2, <2>1, <2>2
<1>6. q <= p /\ (m > 1 /\ q > 0 => q < p)
  <2>1. (m - 1) * q >= 0 /\ (m > 1 /\ q > 0 => (m - 1) * q > 0)
    BY <1>1, <1>2, <1>5
  <2>2. (m - 1) * q = m * q - q
    BY <1>1, <1>2
  <2> QED
    BY <1>1, <1>2, <2>1, <2>2
<1>7. Quotient(a, b) \in Int32 /\ Quotient(a, b) \in Int
  <2>1. CASE q <= INT32_MAX
    BY <1>1, <1>2, <1>3, <1>5, <2>1 DEF Int32
  <2>2. CASE q > INT32_MAX
    <3>1. q = INT32_MAX + 1 /\ p = INT32_MAX + 1
      BY <1>1, <1>2, <1>6, <2>2
    <3>2. m = 1
      BY <1>1, <1>6, <3>1
    <3>3. a = INT32_MIN /\ b = 1
      BY <1>1, <1>4, <3>1, <3>2
    <3>4. Quotient(a, b) = -q
      BY <1>1, <1>3, <3>3
    <3> QED
      BY <1>1, <3>1, <3>4 DEF Int32
  <2> QED
    BY <1>1, <1>2, <2>1, <2>2
<1>8. Quotient(a, b) * b = IF a < 0 THEN -(m * q) ELSE m * q
  <2>1. CASE a < 0 /\ b < 0
    <3>1. Quotient(a, b) = q /\ b = -m
      BY <1>1, <1>3, <1>4, <2>1
    <3> QED
      BY <1>1, <1>2, <2>1, <3>1
  <2>2. CASE a < 0 /\ ~(b < 0)
    <3>1. Quotient(a, b) = -q /\ b = m
      BY <1>1, <1>3, <1>4, <2>2
    <3> QED
      BY <1>1, <1>2, <2>2, <3>1
  <2>3. CASE ~(a < 0) /\ b < 0
    <3>1. Quotient(a, b) = -q /\ b = -m
      BY <1>1, <1>3, <1>4, <2>3
    <3> QED
      BY <1>1, <1>2, <2>3, <3>1
  <2>4. CASE ~(a < 0) /\ ~(b < 0)
    <3>1. Quotient(a, b) = q /\ b = m
      BY <1>1, <1>3, <1>4, <2>4
    <3> QED
      BY <1>1, <1>2, <2>4, <3>1
  <2> QED
    BY <2>1, <2>2, <2>3, <2>4
<1>9. a - Quotient(a, b) * b = IF a < 0 THEN -r ELSE r
  BY <1>1, <1>2, <1>4, <1>8
<1>10. Abs(a - Quotient(a, b) * b) = r
  BY <1>1, <1>2, <1>9 DEF Abs
<1>11. (a - Quotient(a, b) * b) * a >= 0
  <2>1. CASE a < 0
    <3>1. (-r) * a >= 0
      <4>1. r * (-a) >= 0
        BY <1>1, <1>2, <2>1
      <4>2. (-r) * a = r * (-a)
        BY <1>1, <1>2
      <4> QED
        BY <4>1, <4>2
    <3> QED
      BY <1>9, <2>1, <3>1
  <2>2. CASE ~(a < 0)
    <3>1. r * a >= 0
      BY <1>1, <1>2, <2>2
    <3> QED
      BY <1>9, <2>2, <3>1
  <2> QED
    BY <2>1, <2>2
<1>12. Abs(b) = m
  BY DEF m
<1> QED
  BY <1>2, <1>7, <1>10, <1>11, <1>12

LEMMA CalculateTyped ==
  ASSUME NEW d, d[1] \in Int32, d[2] \in Int32, ~Traps(d)
  PROVE  Calculate(d) \in Seq(Int)
<1>1. d[1] \in Int /\ d[2] \in Int
  BY CalculatorAssumption DEF Int32, INT32_MIN
<1>2. /\ Wrap(d[1] + d[2]) \in Int /\ Wrap(d[1] - d[2]) \in Int /\ Wrap(d[1] * d[2]) \in Int
  BY <1>1, Wrapped
<1>3. d[3] = "/" /\ d[2] # 0 => Quotient(d[1], d[2]) \in Int
  BY QuotientCorrect DEF Traps
<1>4. \A x \in Int : <<x>> \in Seq(Int)
  OBVIOUS
<1>5. <<>> \in Seq(Int)
  OBVIOUS
<1> QED
  BY <1>2, <1>3, <1>4, <1>5 DEF Calculate, Impossible

LEMMA CalculateCorrect ==
  ASSUME NEW d, d[1] \in Int32, d[2] \in Int32, ~Traps(d)
  PROVE  Correct(d, Calculate(d))
<1>1. d[1] \in Int /\ d[2] \in Int
  BY CalculatorAssumption DEF Int32, INT32_MIN
<1>2. \A x : <<x>> # Impossible /\ <<x>>[1] = x
  BY DEF Impossible
<1>3. CASE d[3] = "+"
  <2> DEFINE e == d[1] + d[2]
             v == Wrap(e)
  <2>1. v \in Int32 /\ (e - v) % Integers32 = 0
    BY <1>1, Wrapped
  <2>2. Calculate(d) = <<v>>
    BY <1>3 DEF Calculate
  <2> HIDE DEF v
  <2>3. d[3] \in {"+", "-", "*", "/"} /\ d[3] # "/"
    BY <1>3
  <2>4. (CASE d[3] = "+" -> d[1] + d[2]
           [] d[3] = "-" -> d[1] - d[2]
           [] OTHER -> d[1] * d[2]) = e
    BY <1>3
  <2> HIDE DEF e
  <2> QED
    BY <1>2, <2>1, <2>2, <2>3, <2>4 DEF Correct
<1>4. CASE d[3] = "-"
  <2> DEFINE e == d[1] - d[2]
             v == Wrap(e)
  <2>1. v \in Int32 /\ (e - v) % Integers32 = 0
    BY <1>1, Wrapped
  <2>2. Calculate(d) = <<v>>
    BY <1>4 DEF Calculate
  <2> HIDE DEF v
  <2>3. d[3] \in {"+", "-", "*", "/"} /\ d[3] # "/"
    BY <1>4
  <2>4. (CASE d[3] = "+" -> d[1] + d[2]
           [] d[3] = "-" -> d[1] - d[2]
           [] OTHER -> d[1] * d[2]) = e
    BY <1>4
  <2> HIDE DEF e
  <2> QED
    BY <1>2, <2>1, <2>2, <2>3, <2>4 DEF Correct
<1>5. CASE d[3] = "*"
  <2> DEFINE e == d[1] * d[2]
             v == Wrap(e)
  <2>1. v \in Int32 /\ (e - v) % Integers32 = 0
    BY <1>1, Wrapped
  <2>2. Calculate(d) = <<v>>
    BY <1>5 DEF Calculate
  <2> HIDE DEF v
  <2>3. d[3] \in {"+", "-", "*", "/"} /\ d[3] # "/"
    BY <1>5
  <2>4. (CASE d[3] = "+" -> d[1] + d[2]
           [] d[3] = "-" -> d[1] - d[2]
           [] OTHER -> d[1] * d[2]) = e
    BY <1>5
  <2> HIDE DEF e
  <2> QED
    BY <1>2, <2>1, <2>2, <2>3, <2>4 DEF Correct
<1>6. CASE d[3] = "/" /\ d[2] # 0
  <2> DEFINE v == Quotient(d[1], d[2])
  <2>1. v \in Int32 /\ Abs(d[1] - v * d[2]) < Abs(d[2]) /\ (d[1] - v * d[2]) * d[1] >= 0
    BY <1>6, QuotientCorrect DEF Traps
  <2>2. Calculate(d) = <<v>>
    BY <1>6 DEF Calculate
  <2> HIDE DEF v
  <2> QED
    BY <1>2, <1>6, <2>1, <2>2 DEF Correct
<1>7. CASE d[3] \notin {"+", "-", "*", "/"} \/ (d[3] = "/" /\ d[2] = 0)
  BY <1>7 DEF Correct, Calculate
<1> QED
  BY <1>3, <1>4, <1>5, <1>6, <1>7

\* It looks at nothing but the words.
LEMMA SameWords ==
  ASSUME NEW d, NEW e, \A i \in 1..Words : d[i] = e[i]
  PROVE  Calculate(d) = Calculate(e) /\ (Traps(d) <=> Traps(e))
<1>1. d[1] = e[1] /\ d[2] = e[2] /\ d[3] = e[3]
  BY DEF Words
<1>2. Traps(d) <=> Traps(e)
  BY <1>1 DEF Traps
<1>3. Calculate(d) = Calculate(e)
  BY <1>1 DEF Calculate
<1> QED
  BY <1>2, <1>3

-----------------------------------------------------------------------------
(* The server's steps.                                                     *)

LEMMA RequestTyped ==
  ASSUME CalcTypes, NEW c \in Clients
  PROVE  request[c][1] \in Int32 /\ request[c][2] \in Int32
BY CalculatorAssumption DEF CalcTypes

\* The oldest connection leaves its backlog; a new one joins it.
LEMMA OldestLeaves ==
  ASSUME NEW S, NEW fd \in Seq(S), fd # <<>>, Backlog(fd)
  PROVE  /\ Head(fd) \in S /\ Head(fd) \notin accepted /\ client[Head(fd)] # "connect"
         /\ Tail(fd) \in Seq(S)
         /\ \A i, j \in 1..Len(Tail(fd)) : Tail(fd)[i] = Tail(fd)[j] => i = j
         /\ \A i \in 1..Len(Tail(fd)) :
              Tail(fd)[i] \notin accepted \cup {Head(fd)} /\ client[Tail(fd)[i]] # "connect"
<1>1. Len(fd) \in Nat /\ Len(fd) > 0 /\ Head(fd) = fd[1] /\ 1 \in 1..Len(fd)
  BY LenProperties
<1>2. /\ Tail(fd) \in Seq(S) /\ Len(Tail(fd)) = Len(fd) - 1
      /\ \A i \in 1..Len(Tail(fd)) : Tail(fd)[i] = fd[i + 1]
  BY HeadTailProperties
<1>3. \A i \in 1..Len(Tail(fd)) : i + 1 \in 1..Len(fd) /\ i + 1 # 1 /\ i \in Int
  BY <1>1, <1>2
<1>4. Head(fd) \in S
  BY <1>1
<1>5. Head(fd) \notin accepted /\ client[Head(fd)] # "connect"
  BY <1>1 DEF Backlog
<1>6. ASSUME NEW i \in 1..Len(Tail(fd)), NEW j \in 1..Len(Tail(fd)), Tail(fd)[i] = Tail(fd)[j]
      PROVE  i = j
  <2>1. i + 1 = j + 1
    BY <1>2, <1>3, <1>6 DEF Backlog
  <2> QED
    BY <1>3, <2>1
<1>7. ASSUME NEW i \in 1..Len(Tail(fd))
      PROVE  Tail(fd)[i] \notin accepted \cup {Head(fd)} /\ client[Tail(fd)[i]] # "connect"
  BY <1>1, <1>2, <1>3 DEF Backlog
<1> QED
  BY <1>2, <1>4, <1>5, <1>6, <1>7

LEMMA NewestJoins ==
  ASSUME NEW S, NEW fd \in Seq(S), Backlog(fd), NEW c \in S, client[c] = "connect"
  PROVE  /\ Append(fd, c) \in Seq(S)
         /\ \A i, j \in 1..Len(Append(fd, c)) : Append(fd, c)[i] = Append(fd, c)[j] => i = j
         /\ \A i \in 1..Len(Append(fd, c)) :
              Append(fd, c)[i] = c \/ (\E j \in 1..Len(fd) : Append(fd, c)[i] = fd[j])
<1> DEFINE q == Append(fd, c)
<1>1. /\ q \in Seq(S) /\ Len(q) = Len(fd) + 1 /\ Len(fd) \in Nat
      /\ \A i \in 1..Len(fd) : q[i] = fd[i]
      /\ q[Len(fd) + 1] = c
  BY AppendProperties, LenProperties
<1> HIDE DEF q
<1>2. \A i \in 1..Len(q) : (i \in 1..Len(fd) /\ q[i] = fd[i]) \/ (i = Len(fd) + 1 /\ q[i] = c)
  BY <1>1
<1>3. \A i \in 1..Len(fd) : fd[i] # c
  BY DEF Backlog
<1>4. \A i, j \in 1..Len(q) : q[i] = q[j] => i = j
  BY <1>2, <1>3 DEF Backlog
<1>5. \A i \in 1..Len(q) : q[i] = c \/ (\E j \in 1..Len(fd) : q[i] = fd[j])
  BY <1>2
<1> QED
  BY <1>1, <1>4, <1>5 DEF q

\* A backlog stays as good as it is when nobody is accepted or gets to connect.
LEMMA BacklogsKept ==
  ASSUME Backlog(fdL), Backlog(fdT), UNCHANGED <<fdL, fdT, accepted>>,
         \A c : client'[c] = "connect" => client[c] = "connect"
  PROVE  Backlog(fdL)' /\ Backlog(fdT)'
BY DEF Backlog

\* While the server is up nobody that was accepted has failed.
LEMMA NobodyFailed ==
  ASSUME CalcInv, server \notin {"crashed", "exited"}, NEW c \in Clients
  PROVE  client[c] # "failed"
BY DEF CalcInv, Progress, CutShort

\* A step of a server that is up, if it gives no answer and turns to nobody else.
LEMMA ProgressKept ==
  ASSUME CalcInv, server \notin {"crashed", "exited"},
         UNCHANGED <<serving, accepted, client, request, sent, got, printed, answer>>
  PROVE  Progress'
<1>1. \A d \in Clients : client[d] # "failed"
  BY NobodyFailed
<1>2. \A d \in Clients : /\ Served(d)' <=> Served(d)
                         /\ RightAnswer(d, answer[d].value)' <=> RightAnswer(d, answer[d].value)
                         /\ RightAnswer(d, printed[d])' <=> RightAnswer(d, printed[d])
  BY DEF Served, RightAnswer
<1> QED
  BY <1>1, <1>2 DEF CalcInv, Progress

LEMMA AcceptedSteps ==
  ASSUME CalcInv, server = "pselect", NEW c \in Clients, c \notin accepted, client[c] # "connect",
         serving' = c, accepted' = accepted \cup {c}, server' = "read", len' = 0, written' = 0,
         UNCHANGED <<data, pending, client, request, sent, got, printed, answer>>
  PROVE  Progress' /\ InService'
<1>1. answer[c].words = 0 /\ c # NoClient /\ serving = NoClient
  BY CalculatorAssumption DEF CalcInv, CalcTypes, Progress
<1>2. Progress'
  <2>1. \A d \in Clients : client[d] # "failed"
    BY NobodyFailed
  <2>2. \A d \in Clients : /\ Served(d)' <=> Served(d)
                           /\ RightAnswer(d, answer[d].value)' <=> RightAnswer(d, answer[d].value)
                           /\ RightAnswer(d, printed[d])' <=> RightAnswer(d, printed[d])
    BY DEF Served, RightAnswer
  <2>3. \A d \in Clients : serving # d
    BY <1>1, CalculatorAssumption
  <2> QED
    BY <1>1, <2>1, <2>2, <2>3 DEF CalcInv, Progress
<1>3. 0 <= sent[c] /\ \A i \in 1..0 : FALSE
  BY DEF CalcInv, CalcTypes
<1>4. InService'
  BY <1>1, <1>3 DEF InService, Words
<1> QED
  BY <1>2, <1>4

LEMMA AcceptStep == CalcInv /\ Accept => CalcInv'
<1> SUFFICES ASSUME CalcInv, Accept PROVE CalcInv'
  OBVIOUS
<1>1. /\ server = "pselect" /\ server' = "read" /\ len' = 0 /\ written' = 0
      /\ UNCHANGED <<data, pending, client, request, sent, got, printed, answer>>
  BY DEF Accept, clientVars
<1>2. fdL \in Seq(LocalClients) /\ fdT \in Seq(TcpClients) /\ Backlog(fdL) /\ Backlog(fdT)
  BY DEF CalcInv, CalcTypes
<1>3. \A i \in 1..Len(fdL) : fdL[i] \in LocalClients
  BY <1>2
<1>4. \A i \in 1..Len(fdT) : fdT[i] \in TcpClients
  BY <1>2
<1>5. ASSUME NEW c \in Clients, c \notin accepted, client[c] # "connect", serving' = c,
             accepted' = accepted \cup {c}, fdL' \in Seq(LocalClients), fdT' \in Seq(TcpClients),
             Backlog(fdL)', Backlog(fdT)'
      PROVE  CalcInv'
  <2>1. Progress' /\ InService'
    BY <1>1, <1>5, AcceptedSteps
  <2>2. CalcTypes'
    BY <1>1, <1>5, CalculatorAssumption DEF CalcInv, CalcTypes, Words
  <2> QED
    BY <1>5, <2>1, <2>2 DEF CalcInv
<1>6. CASE AddNewClient(fdL) /\ fdL' = Tail(fdL) /\ UNCHANGED fdT
  <2>1. fdL # <<>> /\ serving' = Head(fdL) /\ accepted' = accepted \cup {Head(fdL)}
    BY <1>6 DEF AddNewClient
  <2>2. /\ Head(fdL) \in LocalClients /\ Head(fdL) \notin accepted /\ client[Head(fdL)] # "connect"
        /\ Tail(fdL) \in Seq(LocalClients)
        /\ \A i, j \in 1..Len(Tail(fdL)) : Tail(fdL)[i] = Tail(fdL)[j] => i = j
        /\ \A i \in 1..Len(Tail(fdL)) :
             Tail(fdL)[i] \notin accepted \cup {Head(fdL)} /\ client[Tail(fdL)[i]] # "connect"
    BY <1>2, <2>1, OldestLeaves
  <2>3. Backlog(fdL)'
    BY <1>1, <1>6, <2>1, <2>2 DEF Backlog
  <2>4. Backlog(fdT)'
    BY <1>1, <1>2, <1>4, <1>6, <2>1, <2>2, CalculatorAssumption DEF Backlog
  <2>5. Head(fdL) \in Clients
    BY <2>2 DEF Clients
  <2> QED
    BY <1>2, <1>5, <1>6, <2>1, <2>2, <2>3, <2>4, <2>5
<1>7. CASE AddNewClient(fdT) /\ fdT' = Tail(fdT) /\ UNCHANGED fdL
  <2>1. fdT # <<>> /\ serving' = Head(fdT) /\ accepted' = accepted \cup {Head(fdT)}
    BY <1>7 DEF AddNewClient
  <2>2. /\ Head(fdT) \in TcpClients /\ Head(fdT) \notin accepted /\ client[Head(fdT)] # "connect"
        /\ Tail(fdT) \in Seq(TcpClients)
        /\ \A i, j \in 1..Len(Tail(fdT)) : Tail(fdT)[i] = Tail(fdT)[j] => i = j
        /\ \A i \in 1..Len(Tail(fdT)) :
             Tail(fdT)[i] \notin accepted \cup {Head(fdT)} /\ client[Tail(fdT)[i]] # "connect"
    BY <1>2, <2>1, OldestLeaves
  <2>3. Backlog(fdT)'
    BY <1>1, <1>7, <2>1, <2>2 DEF Backlog
  <2>4. Backlog(fdL)'
    BY <1>1, <1>2, <1>3, <1>7, <2>1, <2>2, CalculatorAssumption DEF Backlog
  <2>5. Head(fdT) \in Clients
    BY <2>2 DEF Clients
  <2> QED
    BY <1>2, <1>5, <1>7, <2>1, <2>2, <2>3, <2>4, <2>5
<1> QED
  BY <1>6, <1>7 DEF Accept

\* SIGINT ends the loop, and only the loop.
LEMMA EndingStep == CalcInv /\ (Interrupt \/ Exit) => CalcInv'
<1> SUFFICES ASSUME CalcInv, Interrupt \/ Exit PROVE CalcInv'
  OBVIOUS
<1>1. /\ \/ server = "pselect" /\ server' = "ending"
         \/ server = "ending" /\ server' = "exited"
      /\ UNCHANGED <<serving, data, len, written, accepted, pending, fdL, fdT, client, request, sent,
                     got, printed, answer>>
  BY DEF Interrupt, Exit, InPselect, netVars, clientVars
<1>2. CalcTypes'
  BY <1>1 DEF CalcInv, CalcTypes
<1>3. Backlog(fdL)' /\ Backlog(fdT)'
  BY <1>1, BacklogsKept DEF CalcInv
<1>4. Progress'
  <2>1. \A c \in Clients : client[c] # "failed"
    BY <1>1, NobodyFailed
  <2>2. \A c \in Clients : /\ Served(c)' <=> Served(c)
                           /\ RightAnswer(c, answer[c].value)' <=> RightAnswer(c, answer[c].value)
                           /\ RightAnswer(c, printed[c])' <=> RightAnswer(c, printed[c])
    BY <1>1 DEF Served, RightAnswer
  <2> QED
    BY <1>1, <2>1, <2>2 DEF CalcInv, Progress
<1>5. serving' = NoClient
  BY <1>1 DEF CalcInv, CalcTypes
<1>6. InService'
  BY <1>5 DEF InService
<1> QED
  BY <1>2, <1>3, <1>4, <1>6 DEF CalcInv

\* What is read is the request, whatever was in the array.
LEMMA ReadStep == CalcInv /\ Read => CalcInv'
<1> SUFFICES ASSUME CalcInv, Read PROVE CalcInv'
  OBVIOUS
<1> DEFINE c == serving
<1>1. /\ server = "read"
      /\ UNCHANGED <<serving, written, accepted, pending, fdL, fdT, client, request, sent, got, printed,
                     answer>>
  BY DEF Read, netVars, clientVars
<1>2. c \in Clients /\ c # NoClient
  BY <1>1 DEF CalcInv, CalcTypes
<1>3. /\ c \in accepted /\ \A i \in 1..len : data[i] = request[c][i]
      /\ answer[c].words = written /\ written = 0
  BY <1>1, <1>2 DEF CalcInv, InService
<1>4. len \in 0..3 /\ sent[c] \in 0..3
  BY <1>2 DEF CalcInv, CalcTypes, Words
<1>5. PICK k \in (len + 1)..sent[c] :
        /\ data' = [i \in 1..Words |-> IF i \in (len + 1)..k THEN request[c][i] ELSE data[i]]
        /\ len' = k
        /\ server' = IF ReadAll(k) THEN "calculate" ELSE "read"
  BY DEF Read
<1>6. k \in 1..3 /\ k <= sent[c]
  BY <1>4, <1>5
<1>7. \A i \in 1..k : data'[i] = request[c][i]
  <2> SUFFICES ASSUME NEW i \in 1..k PROVE data'[i] = request[c][i]
    OBVIOUS
  <2>1. i \in 1..Words
    BY <1>6 DEF Words
  <2>2. i \in (len + 1)..k \/ i \in 1..len
    BY <1>4, <1>6
  <2> QED
    BY <1>3, <1>5, <2>1, <2>2
<1>8. (k = Words /\ server' = "calculate") \/ (k < Words /\ server' = "read")
  BY <1>5, <1>6 DEF ReadAll, Words
<1>9. data'[1] \in Int32 /\ data'[2] \in Int32
  <2>1. request[c][1] \in Int32 /\ request[c][2] \in Int32
    BY <1>2, RequestTyped DEF CalcInv
  <2>2. data[1] \in Int32 /\ data[2] \in Int32
    BY DEF CalcInv, CalcTypes
  <2>3. 1 \in 1..Words /\ 2 \in 1..Words
    BY DEF Words
  <2> QED
    BY <1>5, <2>1, <2>2, <2>3
<1>10. len' \in 0..Words
  BY <1>5, <1>6 DEF Words
<1>11. CalcTypes'
  BY <1>1, <1>8, <1>9, <1>10 DEF CalcInv, CalcTypes
<1>12. Backlog(fdL)' /\ Backlog(fdT)'
  BY <1>1, BacklogsKept DEF CalcInv
<1>13. Progress'
  BY <1>1, ProgressKept
<1>14. InService'
  BY <1>1, <1>3, <1>5, <1>6, <1>7, <1>8 DEF InService
<1> QED
  BY <1>11, <1>12, <1>13, <1>14 DEF CalcInv

LEMMA ReadEofStep == CalcInv /\ ReadEof => CalcInv'
<1> SUFFICES ASSUME CalcInv, ReadEof PROVE CalcInv'
  OBVIOUS
<1>1. /\ server = "read" /\ server' = "close" /\ Eof(serving)
      /\ UNCHANGED <<serving, data, len, written, accepted, pending, fdL, fdT, client, request, sent,
                     got, printed, answer>>
  BY DEF ReadEof, netVars, clientVars
<1>2. serving \in Clients
  BY <1>1 DEF CalcInv, CalcTypes
<1>3. Served(serving)
  BY <1>1, <1>2, NobodyFailed DEF Eof, Served
<1>4. CalcTypes'
  BY <1>1 DEF CalcInv, CalcTypes
<1>5. Backlog(fdL)' /\ Backlog(fdT)'
  BY <1>1, BacklogsKept DEF CalcInv
<1>6. Progress'
  BY <1>1, ProgressKept
<1>7. InService'
  BY <1>1, <1>3 DEF CalcInv, InService, Served
<1> QED
  BY <1>4, <1>5, <1>6, <1>7 DEF CalcInv

\* The answer is computed of the whole request; a trap ends everything.
LEMMA ComputeStep == CalcInv /\ Compute => CalcInv'
<1> SUFFICES ASSUME CalcInv, Compute PROVE CalcInv'
  OBVIOUS
<1> DEFINE c == serving
<1>1. /\ server = "calculate"
      /\ UNCHANGED <<serving, data, len, written, accepted, pending, fdL, fdT, client, request, sent,
                     got, printed>>
  BY DEF Compute, netVars, clientVars
<1>2. c \in Clients /\ c # NoClient
  BY <1>1 DEF CalcInv, CalcTypes
<1>3. /\ c \in accepted /\ len <= sent[c] /\ len = Words /\ \A i \in 1..len : data[i] = request[c][i]
      /\ answer[c].words = written /\ written = 0
  BY <1>1, <1>2 DEF CalcInv, InService
<1>4. Backlog(fdL)' /\ Backlog(fdT)'
  BY <1>1, BacklogsKept DEF CalcInv
<1>5. Calculate(data) = Calculate(request[c]) /\ (Traps(data) <=> Traps(request[c]))
  BY <1>3, SameWords
<1>6. CASE Traps(data)
  <2>1. server' = "crashed" /\ answer' = answer
    BY <1>6 DEF Compute
  <2>2. CalcTypes'
    BY <1>1, <2>1 DEF CalcInv, CalcTypes
  <2>3. Progress'
    BY <1>1, <2>1, ProgressKept
  <2>4. InService'
    <3>1. Traps(request[c])
      BY <1>5, <1>6
    <3> QED
      BY <1>1, <1>3, <2>1, <3>1 DEF InService
  <2> QED
    BY <1>4, <2>2, <2>3, <2>4 DEF CalcInv
<1>7. CASE ~Traps(data)
  <2>1. server' = "write" /\ answer' = [answer EXCEPT ![c].value = Calculate(data)]
    BY <1>7 DEF Compute
  <2>2. Calculate(data) \in Seq(Int)
    BY <1>7, CalculateTyped DEF CalcInv, CalcTypes
  <2>3. answer \in [Clients -> [words : 0..Words, value : Seq(Int)]]
    BY DEF CalcInv, CalcTypes
  <2>4. answer' \in [Clients -> [words : 0..Words, value : Seq(Int)]]
    BY <1>2, <2>1, <2>2, <2>3
  <2>5. /\ answer'[c].value = Calculate(data) /\ answer'[c].words = answer[c].words
        /\ \A d \in Clients : d # c => answer'[d] = answer[d]
    BY <1>2, <2>1, <2>3
  <2>6. CalcTypes'
    BY <1>1, <2>1, <2>4 DEF CalcInv, CalcTypes
  <2>7. RightAnswer(c, answer[c].value)'
    BY <1>1, <1>5, <1>7, <2>5 DEF RightAnswer
  <2>8. Progress'
    <3> SUFFICES ASSUME NEW d \in Clients
                 PROVE  /\ client'[d] = "connect" => d \notin accepted'
                        /\ client'[d] \in {"connect", "write"} => sent'[d] < Words
                        /\ client'[d] \in {"read", "printed"} => sent'[d] = Words
                        /\ client'[d] \in {"connect", "write", "read"} => got'[d] < Words
                        /\ d \notin accepted' => answer'[d].words = 0
                        /\ answer'[d].words > 0 => RightAnswer(d, answer[d].value)'
                        /\ client'[d] = "printed" => RightAnswer(d, printed[d])'
                        /\ client'[d] = "failed" => CutShort(d)'
                        /\ d \in accepted' /\ serving' # d => Served(d)'
      BY DEF Progress
    <3>1. client[d] # "failed"
      BY <1>1, NobodyFailed
    <3>2. answer'[d].words = answer[d].words
      BY <2>5
    <3>3. answer[d].words > 0 => RightAnswer(d, answer[d].value)'
      BY <1>1, <2>5, <2>7 DEF CalcInv, Progress, RightAnswer
    <3>4. d \in accepted /\ serving # d => Served(d)'
      BY <1>1, <3>1, <3>2 DEF CalcInv, Progress, Served
    <3>5. client[d] = "printed" => RightAnswer(d, printed[d])'
      BY <1>1 DEF CalcInv, Progress, RightAnswer
    <3> QED
      BY <1>1, <3>1, <3>2, <3>3, <3>4, <3>5 DEF CalcInv, Progress
  <2>9. written' < Words
    BY <1>1, <1>3 DEF Words
  <2>10. InService'
    BY <1>1, <1>3, <2>1, <2>5, <2>7, <2>9 DEF InService, RightAnswer
  <2> QED
    BY <1>4, <2>6, <2>8, <2>10 DEF CalcInv
<1> QED
  BY <1>6, <1>7

\* bulk_write stops when the answer is written, or when nobody reads it.
LEMMA WriteStep == CalcInv /\ Write => CalcInv'
<1> SUFFICES ASSUME CalcInv, Write PROVE CalcInv'
  OBVIOUS
<1> DEFINE c == serving
<1>1. /\ server = "write"
      /\ UNCHANGED <<serving, data, len, accepted, pending, fdL, fdT, client, request, sent, got, printed>>
  BY DEF Write, netVars, clientVars
<1>2. c \in Clients /\ c # NoClient
  BY <1>1 DEF CalcInv, CalcTypes
<1>3. /\ c \in accepted /\ len <= sent[c] /\ len = Words /\ \A i \in 1..len : data[i] = request[c][i]
      /\ answer[c].words = written /\ written < Words /\ RightAnswer(c, answer[c].value)
  BY <1>1, <1>2 DEF CalcInv, InService
<1>4. Backlog(fdL)' /\ Backlog(fdT)'
  BY <1>1, BacklogsKept DEF CalcInv
<1>5. \A d \in Clients : client[d] # "failed"
  BY <1>1, NobodyFailed
<1>6. CASE Eof(c) /\ server' = "close" /\ UNCHANGED <<written, answer>>
  <2>1. Served(c)
    BY <1>2, <1>5, <1>6 DEF Eof, Served
  <2>2. CalcTypes'
    BY <1>1, <1>6 DEF CalcInv, CalcTypes
  <2>3. \A d \in Clients : /\ Served(d)' <=> Served(d)
                           /\ RightAnswer(d, answer[d].value)' <=> RightAnswer(d, answer[d].value)
                           /\ RightAnswer(d, printed[d])' <=> RightAnswer(d, printed[d])
    BY <1>1, <1>6 DEF Served, RightAnswer
  <2>4. Progress'
    BY <1>1, <1>5, <1>6, <2>3 DEF CalcInv, Progress
  <2>5. InService'
    BY <1>1, <1>3, <1>6, <2>1 DEF InService, Served
  <2> QED
    BY <1>4, <2>2, <2>4, <2>5 DEF CalcInv
<1>7. ASSUME NEW k \in 1..Count, written' = written + k,
             answer' = [answer EXCEPT ![c].words = answer[c].words + k],
             server' = IF written' < Words THEN "write" ELSE "close"
      PROVE  CalcInv'
  <2>1. written \in 0..3 /\ sent[c] \in 0..3
    BY <1>2 DEF CalcInv, CalcTypes, Words
  <2>2. k \in 1..(3 - written)
    BY <1>7 DEF Count, Words
  <2>3. written' \in 0..3 /\ written' > 0
    BY <1>7, <2>1, <2>2
  <2>4. (written' = Words /\ server' = "close") \/ (written' < Words /\ server' = "write")
    BY <1>7, <2>3 DEF Words
  <2>5. answer \in [Clients -> [words : 0..Words, value : Seq(Int)]]
    BY DEF CalcInv, CalcTypes
  <2>6. written' \in 0..Words /\ answer[c].words + k = written'
    BY <1>3, <1>7, <2>3 DEF Words
  <2>7. answer' = [answer EXCEPT ![c].words = written']
    BY <1>7, <2>6
  <2>8. answer' \in [Clients -> [words : 0..Words, value : Seq(Int)]]
    BY <1>2, <2>5, <2>6, <2>7
  <2>9. /\ answer'[c].value = answer[c].value /\ answer'[c].words = written'
        /\ \A d \in Clients : d # c => answer'[d] = answer[d]
    BY <1>2, <2>5, <2>7
  <2>10. CalcTypes'
    BY <1>1, <2>4, <2>6, <2>8 DEF CalcInv, CalcTypes
  <2>11. \A d \in Clients : RightAnswer(d, answer[d].value)' <=> RightAnswer(d, answer[d].value)
    BY <1>1, <1>2, <2>9 DEF RightAnswer
  <2>12. \A d \in Clients : RightAnswer(d, printed[d])' <=> RightAnswer(d, printed[d])
    BY <1>1 DEF RightAnswer
  <2>13. \A d \in Clients : d # c => (Served(d)' <=> Served(d))
    BY <1>1, <2>9 DEF Served
  <2>14. Progress'
    <3> SUFFICES ASSUME NEW d \in Clients
                 PROVE  /\ client'[d] = "connect" => d \notin accepted'
                        /\ client'[d] \in {"connect", "write"} => sent'[d] < Words
                        /\ client'[d] \in {"read", "printed"} => sent'[d] = Words
                        /\ client'[d] \in {"connect", "write", "read"} => got'[d] < Words
                        /\ d \notin accepted' => answer'[d].words = 0
                        /\ answer'[d].words > 0 => RightAnswer(d, answer[d].value)'
                        /\ client'[d] = "printed" => RightAnswer(d, printed[d])'
                        /\ client'[d] = "failed" => CutShort(d)'
                        /\ d \in accepted' /\ serving' # d => Served(d)'
      BY DEF Progress
    <3>1. d \notin accepted => answer'[d].words = 0
      BY <1>3, <2>9 DEF CalcInv, Progress
    <3>2. answer'[d].words > 0 => RightAnswer(d, answer[d].value)'
      BY <1>3, <2>9, <2>11 DEF CalcInv, Progress
    <3>3. d \in accepted /\ serving # d => Served(d)'
      BY <1>5, <2>13 DEF CalcInv, Progress
    <3>4. client[d] = "printed" => RightAnswer(d, printed[d])'
      BY <2>12 DEF CalcInv, Progress
    <3>5. client[d] # "failed"
      BY <1>5
    <3> QED
      BY <1>1, <3>1, <3>2, <3>3, <3>4, <3>5 DEF CalcInv, Progress
  <2>15. server' = "close" => Served(c)'
    <3> SUFFICES ASSUME written' = Words PROVE Served(c)'
      BY <2>4
    <3>1. sent[c] = Words
      BY <1>3, <2>1 DEF Words
    <3>2. client[c] # "write" /\ client[c] # "connect"
      BY <1>2, <1>3, <3>1 DEF CalcInv, Progress, Words
    <3>3. client[c] \in {"read", "printed", "killed"}
      BY <1>2, <1>5, <3>2 DEF CalcInv, CalcTypes
    <3> QED
      BY <1>1, <2>9, <3>3 DEF Served
  <2>16. RightAnswer(c, answer[c].value)'
    BY <1>1, <1>2, <1>3, <2>11 DEF RightAnswer
  <2>17. InService'
    BY <1>1, <1>3, <2>4, <2>9, <2>15, <2>16 DEF InService, Served, RightAnswer
  <2> QED
    BY <1>4, <2>10, <2>14, <2>17 DEF CalcInv
<1>8. answer \in [Clients -> [words : 0..Words, value : Seq(Int)]]
  BY DEF CalcInv, CalcTypes
<1> QED
  BY <1>6, <1>7, <1>8 DEF Write

\* The error of a write ends the server; its client is the one that was killed.
LEMMA WriteErrorStep == CalcInv /\ WriteError => CalcInv'
<1> SUFFICES ASSUME CalcInv, WriteError PROVE CalcInv'
  OBVIOUS
<1>1. /\ server = "write" /\ server' = "crashed" /\ client[serving] = "killed"
      /\ UNCHANGED <<serving, data, len, written, accepted, pending, fdL, fdT, client, request, sent,
                     got, printed, answer>>
  BY DEF WriteError, Reset, netVars, clientVars
<1>2. CalcTypes'
  BY <1>1 DEF CalcInv, CalcTypes
<1>3. Backlog(fdL)' /\ Backlog(fdT)'
  BY <1>1, BacklogsKept DEF CalcInv
<1>4. Progress'
  BY <1>1, ProgressKept
<1>5. InService'
  BY <1>1 DEF CalcInv, InService
<1> QED
  BY <1>2, <1>3, <1>4, <1>5 DEF CalcInv

LEMMA CloseStep == CalcInv /\ Close => CalcInv'
<1> SUFFICES ASSUME CalcInv, Close PROVE CalcInv'
  OBVIOUS
<1>1. /\ server = "close" /\ server' = "pselect" /\ serving' = NoClient
      /\ UNCHANGED <<data, len, written, accepted, pending, fdL, fdT, client, request, sent, got, printed,
                     answer>>
  BY DEF Close, netVars, clientVars
<1>2. serving \in Clients /\ Served(serving)
  BY <1>1 DEF CalcInv, CalcTypes, InService
<1>3. CalcTypes'
  BY <1>1 DEF CalcInv, CalcTypes
<1>4. Backlog(fdL)' /\ Backlog(fdT)'
  BY <1>1, BacklogsKept DEF CalcInv
<1>5. \A d \in Clients : client[d] # "failed"
  BY <1>1, NobodyFailed
<1>6. \A d \in Clients : /\ Served(d)' <=> Served(d)
                         /\ RightAnswer(d, answer[d].value)' <=> RightAnswer(d, answer[d].value)
                         /\ RightAnswer(d, printed[d])' <=> RightAnswer(d, printed[d])
  BY <1>1 DEF Served, RightAnswer
<1>7. Progress'
  BY <1>1, <1>2, <1>5, <1>6 DEF CalcInv, Progress
<1>8. InService'
  BY <1>1 DEF InService
<1> QED
  BY <1>3, <1>4, <1>7, <1>8 DEF CalcInv

-----------------------------------------------------------------------------
(* The clients' steps.                                                     *)

\* What a step of client c leaves alone: the rest of the world.
LEMMA OthersKept ==
  ASSUME CalcInv, NEW c \in Clients,
         UNCHANGED <<server, serving, data, len, written, accepted, request, answer>>,
         \A d \in Clients : d # c => /\ client'[d] = client[d] /\ sent'[d] = sent[d]
                                     /\ got'[d] = got[d] /\ printed'[d] = printed[d],
         client'[c] = "connect" => c \notin accepted,
         client'[c] \in {"connect", "write"} => sent'[c] < Words,
         client'[c] \in {"read", "printed"} => sent'[c] = Words,
         client'[c] \in {"connect", "write", "read"} => got'[c] < Words,
         client'[c] = "printed" => RightAnswer(c, printed'[c]),
         client'[c] = "failed" => CutShort(c),
         c \in accepted /\ Served(c) => Served(c)',
         client[c] \notin {"failed", "killed"},
         sent[c] <= sent'[c], sent'[c] \in 0..Words
  PROVE  Progress' /\ InService'
<1>1. \A d \in Clients : /\ RightAnswer(d, answer[d].value)' <=> RightAnswer(d, answer[d].value)
                         /\ RightAnswer(d, printed[d])' <=> RightAnswer(d, printed'[d])
                         /\ d # c => (Served(d)' <=> Served(d))
                         /\ CutShort(d)' <=> CutShort(d)
  BY DEF Served, RightAnswer, CutShort
<1>2. Progress'
  <2> SUFFICES ASSUME NEW d \in Clients
               PROVE  /\ client'[d] = "connect" => d \notin accepted'
                      /\ client'[d] \in {"connect", "write"} => sent'[d] < Words
                      /\ client'[d] \in {"read", "printed"} => sent'[d] = Words
                      /\ client'[d] \in {"connect", "write", "read"} => got'[d] < Words
                      /\ d \notin accepted' => answer'[d].words = 0
                      /\ answer'[d].words > 0 => RightAnswer(d, answer[d].value)'
                      /\ client'[d] = "printed" => RightAnswer(d, printed[d])'
                      /\ client'[d] = "failed" => CutShort(d)'
                      /\ d \in accepted' /\ serving' # d => Served(d)'
    BY DEF Progress
  <2>1. /\ d \notin accepted => answer[d].words = 0
        /\ answer[d].words > 0 => RightAnswer(d, answer[d].value)'
    BY <1>1 DEF CalcInv, Progress
  <2>2. CASE d # c
    BY <1>1, <2>1, <2>2 DEF CalcInv, Progress
  <2>3. CASE d = c
    <3>1. c \in accepted /\ serving # c => Served(c)'
      BY DEF CalcInv, Progress
    <3> QED
      BY <1>1, <2>1, <2>3, <3>1
  <2> QED
    BY <2>2, <2>3
<1>3. InService'
  <2> SUFFICES ASSUME serving # NoClient PROVE InService'
    BY DEF InService
  <2>1. serving \in Clients
    BY DEF CalcInv, CalcTypes
  <2>2. len <= sent'[serving]
    <3>1. len \in Int /\ sent[serving] \in Int /\ sent'[c] \in Int /\ len <= sent[serving]
      BY <2>1 DEF CalcInv, CalcTypes, InService
    <3>2. sent'[serving] = sent[serving] \/ serving = c
      BY <2>1
    <3> QED
      BY <3>1, <3>2
  <2>3. server = "close" => Served(serving)'
    <3>1. server = "close" => serving \in accepted /\ Served(serving)
      BY DEF CalcInv, InService
    <3>2. CASE serving = c
      BY <3>1, <3>2 DEF Served
    <3>3. CASE serving # c
      BY <1>1, <2>1, <3>1, <3>3 DEF Served
    <3> QED
      BY <3>2, <3>3
  <2>4. server = "write" => RightAnswer(serving, answer[serving].value)'
    BY <1>1, <2>1 DEF CalcInv, InService
  <2>5. server = "crashed" => Traps(request[serving]) \/ client'[serving] = "killed"
    <3>1. server = "crashed" => Traps(request[serving]) \/ client[serving] = "killed"
      BY DEF CalcInv, InService
    <3> QED
      BY <2>1, <3>1
  <2> QED
    BY <2>2, <2>3, <2>4, <2>5 DEF CalcInv, InService, Served, RightAnswer
<1> QED
  BY <1>2, <1>3

\* A connection that is refused comes too late.
LEMMA ConnectStep ==
  ASSUME CalcInv, NEW c \in Clients,
         \/ c \in LocalClients /\ ConnectLocal(c)
         \/ c \in TcpClients /\ ConnectTcp(c)
  PROVE  CalcInv'
<1>1. /\ client[c] = "connect" /\ client' = [client EXCEPT ![c] = IF Gone THEN "failed" ELSE "write"]
      /\ UNCHANGED <<server, serving, data, len, written, accepted, pending, request, sent, got, printed,
                     answer>>
  BY DEF ConnectLocal, ConnectTcp, Connected, serverVars
<1>2. c \notin accepted
  BY <1>1 DEF CalcInv, Progress
<1>3. client'[c] = (IF Gone THEN "failed" ELSE "write") /\ \A d \in Clients : d # c => client'[d] = client[d]
  BY <1>1 DEF CalcInv, CalcTypes
<1>4. /\ sent[c] \in 0..Words /\ fdL \in Seq(LocalClients) /\ fdT \in Seq(TcpClients)
      /\ Backlog(fdL) /\ Backlog(fdT)
  BY DEF CalcInv, CalcTypes
<1>5. Gone => server = "crashed" \/ server = "exited"
  BY DEF Gone
<1>6. sent[c] < Words /\ got[c] < Words
  BY <1>1 DEF CalcInv, Progress
<1>7. sent[c] <= sent[c]
  BY <1>4 DEF Words
<1>8. Progress' /\ InService'
  <2>1. client'[c] \in {"failed", "write"} /\ client[c] \notin {"failed", "killed"}
    BY <1>1, <1>3
  <2>2. client'[c] = "failed" => CutShort(c)
    BY <1>2, <1>3, <1>5 DEF CutShort
  <2> QED
    BY <1>1, <1>2, <1>3, <1>4, <1>6, <1>7, <2>1, <2>2, OthersKept
<1>9. /\ \A i \in 1..Len(fdL) : fdL[i] \in LocalClients /\ fdL[i] # c
      /\ \A i \in 1..Len(fdT) : fdT[i] \in TcpClients /\ fdT[i] # c
  BY <1>1, <1>4 DEF Backlog
<1>10. LocalClients \subseteq Clients /\ TcpClients \subseteq Clients
  BY DEF Clients
<1>11. client'[c] # "connect"
  BY <1>3
<1>12. fdL' \in Seq(LocalClients) /\ Backlog(fdL)'
  <2>1. CASE fdL' = fdL
    BY <1>1, <1>3, <1>4, <1>9, <1>10, <2>1 DEF Backlog
  <2>2. CASE c \in LocalClients /\ fdL' = Append(fdL, c)
    <3>1. /\ Append(fdL, c) \in Seq(LocalClients)
          /\ \A i, j \in 1..Len(Append(fdL, c)) : Append(fdL, c)[i] = Append(fdL, c)[j] => i = j
          /\ \A i \in 1..Len(Append(fdL, c)) :
               Append(fdL, c)[i] = c \/ (\E j \in 1..Len(fdL) : Append(fdL, c)[i] = fdL[j])
      BY <1>1, <1>4, <2>2, NewestJoins
    <3>2. \A j \in 1..Len(fdL) : fdL[j] \notin accepted' /\ client'[fdL[j]] # "connect"
      BY <1>1, <1>3, <1>4, <1>9, <1>10 DEF Backlog
    <3>3. \A i \in 1..Len(fdL') : fdL'[i] \notin accepted' /\ client'[fdL'[i]] # "connect"
      BY <1>1, <1>2, <1>11, <2>2, <3>1, <3>2
    <3> QED
      BY <2>2, <3>1, <3>3 DEF Backlog
  <2> QED
    BY <2>1, <2>2 DEF ConnectLocal, ConnectTcp
<1>13. fdT' \in Seq(TcpClients) /\ Backlog(fdT)'
  <2>1. CASE fdT' = fdT
    BY <1>1, <1>3, <1>4, <1>9, <1>10, <2>1 DEF Backlog
  <2>2. CASE c \in TcpClients /\ fdT' = Append(fdT, c)
    <3>1. /\ Append(fdT, c) \in Seq(TcpClients)
          /\ \A i, j \in 1..Len(Append(fdT, c)) : Append(fdT, c)[i] = Append(fdT, c)[j] => i = j
          /\ \A i \in 1..Len(Append(fdT, c)) :
               Append(fdT, c)[i] = c \/ (\E j \in 1..Len(fdT) : Append(fdT, c)[i] = fdT[j])
      BY <1>1, <1>4, <2>2, NewestJoins
    <3>2. \A j \in 1..Len(fdT) : fdT[j] \notin accepted' /\ client'[fdT[j]] # "connect"
      BY <1>1, <1>3, <1>4, <1>9, <1>10 DEF Backlog
    <3>3. \A i \in 1..Len(fdT') : fdT'[i] \notin accepted' /\ client'[fdT'[i]] # "connect"
      BY <1>1, <1>2, <1>11, <2>2, <3>1, <3>2
    <3> QED
      BY <2>2, <3>1, <3>3 DEF Backlog
  <2> QED
    BY <2>1, <2>2 DEF ConnectLocal, ConnectTcp
<1>14. client' \in [Clients -> {"connect", "write", "read", "printed", "failed", "killed"}]
  BY <1>1 DEF CalcInv, CalcTypes
<1>15. CalcTypes'
  BY <1>1, <1>12, <1>13, <1>14 DEF CalcInv, CalcTypes
<1> QED
  BY <1>8, <1>12, <1>13, <1>15 DEF CalcInv

\* A stream that the server has closed belongs to a client that is served, or
\* was never accepted by a server that is gone.
LEMMA WhoIsCut ==
  ASSUME CalcInv, NEW c \in Clients, Closed(c)
  PROVE  CutShort(c) \/ (c \in accepted /\ Served(c))
<1>1. ASSUME server = "exited" PROVE serving = NoClient
  BY <1>1 DEF CalcInv, CalcTypes
<1>2. c # NoClient
  BY CalculatorAssumption
<1>3. CASE c \in accepted /\ serving # c
  BY <1>3 DEF CalcInv, Progress
<1>4. CASE c \in accepted /\ serving = c
  <2>1. server = "crashed"
    BY <1>1, <1>2, <1>4 DEF Closed, Gone
  <2>2. Traps(request[c]) \/ client[c] = "killed"
    BY <1>2, <1>4, <2>1 DEF CalcInv, InService
  <2> QED
    BY <1>4, <2>1, <2>2 DEF CutShort, Served
<1>5. CASE c \notin accepted
  BY <1>5 DEF Closed, Gone, CutShort
<1> QED
  BY <1>3, <1>4, <1>5

LEMMA ClientWriteStep ==
  ASSUME CalcInv, NEW c \in Clients, ClientWrite(c)
  PROVE  CalcInv'
<1>1. /\ client[c] = "write"
      /\ UNCHANGED <<server, serving, data, len, written, accepted, pending, fdL, fdT, request, got, printed,
                     answer>>
  BY DEF ClientWrite, serverVars, netVars
<1>2. sent[c] \in 0..3 /\ got[c] < Words /\ sent[c] < Words
  BY <1>1 DEF CalcInv, CalcTypes, Progress, Words
<1>3. ~Served(c)
  BY <1>1 DEF Served
<1>4. client \in [Clients -> {"connect", "write", "read", "printed", "failed", "killed"}]
  BY DEF CalcInv, CalcTypes
<1>5. CASE Closed(c) /\ client' = [client EXCEPT ![c] = "failed"] /\ UNCHANGED sent
  <2>1. client'[c] = "failed" /\ \A d \in Clients : d # c => client'[d] = client[d]
    BY <1>4, <1>5
  <2>2. CutShort(c)
    BY <1>3, <1>5, WhoIsCut
  <2>3. sent[c] <= sent[c] /\ sent[c] \in 0..Words
    BY <1>2 DEF Words
  <2>4. Progress' /\ InService'
    BY <1>1, <1>3, <1>5, <2>1, <2>2, <2>3, OthersKept
  <2>5. CalcTypes'
    BY <1>1, <1>4, <1>5 DEF CalcInv, CalcTypes
  <2>6. Backlog(fdL)' /\ Backlog(fdT)'
    <3>1. \A d : client'[d] = "connect" => client[d] = "connect"
      BY <1>4, <1>5
    <3> QED
      BY <1>1, <3>1, BacklogsKept DEF CalcInv
  <2> QED
    BY <2>4, <2>5, <2>6 DEF CalcInv
<1>6. ASSUME NEW k \in (sent[c] + 1)..Words, sent' = [sent EXCEPT ![c] = k],
             client' = [client EXCEPT ![c] = IF k = Words THEN "read" ELSE "write"]
      PROVE  CalcInv'
  <2>1. k \in 1..3 /\ sent[c] <= k
    BY <1>2 DEF Words
  <2>2. sent \in [Clients -> 0..Words] /\ k \in 0..Words
    BY <2>1 DEF CalcInv, CalcTypes, Words
  <2>3. /\ client'[c] = (IF k = Words THEN "read" ELSE "write") /\ sent'[c] = k
        /\ \A d \in Clients : d # c => client'[d] = client[d] /\ sent'[d] = sent[d]
    BY <1>4, <1>6, <2>2
  <2>4. k # Words => k < Words
    BY <2>1 DEF Words
  <2>5. Progress' /\ InService'
    <3>1. /\ client'[c] \in {"connect", "write"} => sent'[c] < Words
          /\ client'[c] \in {"read", "printed"} => sent'[c] = Words
          /\ client'[c] \notin {"connect", "printed", "failed"}
      BY <2>3, <2>4
    <3> QED
      BY <1>1, <1>2, <1>3, <2>1, <2>2, <2>3, <3>1, OthersKept
  <2>6. client' \in [Clients -> {"connect", "write", "read", "printed", "failed", "killed"}]
        /\ sent' \in [Clients -> 0..Words]
    BY <1>4, <1>6, <2>2
  <2>7. CalcTypes'
    BY <1>1, <2>6 DEF CalcInv, CalcTypes
  <2>8. Backlog(fdL)' /\ Backlog(fdT)'
    <3>1. \A d : client'[d] = "connect" => client[d] = "connect"
      BY <1>4, <1>6
    <3> QED
      BY <1>1, <3>1, BacklogsKept DEF CalcInv
  <2> QED
    BY <2>5, <2>7, <2>8 DEF CalcInv
<1> QED
  BY <1>5, <1>6 DEF ClientWrite

LEMMA ClientReadStep ==
  ASSUME CalcInv, NEW c \in Clients, ClientRead(c)
  PROVE  CalcInv'
<1>1. /\ client[c] = "read"
      /\ UNCHANGED <<server, serving, data, len, written, accepted, pending, fdL, fdT, request, sent, answer>>
  BY DEF ClientRead, serverVars, netVars
<1>2. /\ got[c] \in 0..3 /\ got[c] < Words /\ sent[c] = Words /\ answer[c].words \in 0..3
      /\ sent[c] <= sent[c] /\ sent[c] \in 0..Words
  BY <1>1 DEF CalcInv, CalcTypes, Progress, Words
<1>3. /\ client \in [Clients -> {"connect", "write", "read", "printed", "failed", "killed"}]
      /\ got \in [Clients -> 0..Words] /\ printed \in [Clients -> Seq(Int)]
      /\ answer[c].value \in Seq(Int)
  BY DEF CalcInv, CalcTypes
<1>4. CASE got[c] = answer[c].words /\ Closed(c) /\ client' = [client EXCEPT ![c] = "failed"]
           /\ UNCHANGED <<got, printed>>
  <2>1. client'[c] = "failed" /\ \A d \in Clients : d # c => client'[d] = client[d]
    BY <1>3, <1>4
  <2>2. answer[c].words # Words
    BY <1>2, <1>4 DEF Words
  <2>3. ~Served(c)
    BY <1>1, <2>2 DEF Served
  <2>4. CutShort(c)
    BY <1>4, <2>3, WhoIsCut
  <2>5. Progress' /\ InService'
    BY <1>1, <1>2, <1>4, <2>1, <2>3, <2>4, OthersKept
  <2>6. CalcTypes'
    BY <1>1, <1>3, <1>4 DEF CalcInv, CalcTypes
  <2>7. Backlog(fdL)' /\ Backlog(fdT)'
    <3>1. \A d : client'[d] = "connect" => client[d] = "connect"
      BY <1>3, <1>4
    <3> QED
      BY <1>1, <3>1, BacklogsKept DEF CalcInv
  <2> QED
    BY <2>5, <2>6, <2>7 DEF CalcInv
<1>5. ASSUME NEW k \in (got[c] + 1)..answer[c].words, got' = [got EXCEPT ![c] = k],
             client' = [client EXCEPT ![c] = IF k = Words THEN "printed" ELSE "read"],
             printed' = [printed EXCEPT ![c] = IF k = Words THEN answer[c].value ELSE printed[c]]
      PROVE  CalcInv'
  <2>1. k \in 1..3 /\ k <= answer[c].words
    BY <1>2
  <2>2. k \in 0..Words /\ (k # Words => k < Words) /\ answer[c].words > 0
    BY <1>2, <2>1 DEF Words
  <2>3. /\ client'[c] = (IF k = Words THEN "printed" ELSE "read") /\ got'[c] = k
        /\ printed'[c] = (IF k = Words THEN answer[c].value ELSE printed[c])
        /\ \A d \in Clients : d # c => /\ client'[d] = client[d] /\ got'[d] = got[d]
                                       /\ printed'[d] = printed[d]
    BY <1>3, <1>5, <2>2
  <2>4. RightAnswer(c, answer[c].value)
    BY <2>2 DEF CalcInv, Progress
  <2>5. Served(c) => Served(c)'
    BY <1>1, <2>3 DEF Served
  <2>6. Progress' /\ InService'
    <3>1. /\ client'[c] \in {"connect", "write", "read"} => got'[c] < Words
          /\ client'[c] \in {"printed", "read"}
      BY <2>2, <2>3
    <3>2. client'[c] = "printed" => RightAnswer(c, printed'[c])
      BY <2>3, <2>4
    <3> QED
      BY <1>1, <1>2, <2>3, <2>5, <3>1, <3>2, OthersKept
  <2>7. /\ client' \in [Clients -> {"connect", "write", "read", "printed", "failed", "killed"}]
        /\ got' \in [Clients -> 0..Words]
    BY <1>3, <1>5, <2>2
  <2>8. printed' \in [Clients -> Seq(Int)]
    BY <1>3, <1>5
  <2>9. CalcTypes'
    BY <1>1, <2>7, <2>8 DEF CalcInv, CalcTypes
  <2>10. Backlog(fdL)' /\ Backlog(fdT)'
    <3>1. \A d : client'[d] = "connect" => client[d] = "connect"
      BY <1>3, <1>5
    <3> QED
      BY <1>1, <3>1, BacklogsKept DEF CalcInv
  <2> QED
    BY <2>6, <2>9, <2>10 DEF CalcInv
<1> QED
  BY <1>3, <1>4, <1>5 DEF ClientRead

LEMMA KillStep ==
  ASSUME CalcInv, NEW c \in Clients, KillClient(c)
  PROVE  CalcInv'
<1>1. /\ client[c] \in {"write", "read"} /\ client' = [client EXCEPT ![c] = "killed"]
      /\ UNCHANGED <<server, serving, data, len, written, accepted, pending, fdL, fdT, request, sent, got,
                     printed, answer>>
  BY DEF KillClient, serverVars, netVars
<1>2. /\ client \in [Clients -> {"connect", "write", "read", "printed", "failed", "killed"}]
      /\ sent[c] \in 0..Words
  BY DEF CalcInv, CalcTypes
<1>3. client'[c] = "killed" /\ \A d \in Clients : d # c => client'[d] = client[d]
  BY <1>1, <1>2
<1>4. Served(c)'
  BY <1>3 DEF Served
<1>5. sent[c] <= sent[c]
  BY <1>2 DEF Words
<1>6. Progress' /\ InService'
  BY <1>1, <1>2, <1>3, <1>4, <1>5, OthersKept
<1>7. CalcTypes'
  BY <1>1 DEF CalcInv, CalcTypes
<1>8. Backlog(fdL)' /\ Backlog(fdT)'
  <2>1. \A d : client'[d] = "connect" => client[d] = "connect"
    BY <1>1, <1>2
  <2> QED
    BY <1>1, <2>1, BacklogsKept DEF CalcInv
<1> QED
  BY <1>6, <1>7, <1>8 DEF CalcInv

\* What changes nothing but the pending signal.
LEMMA QuietStep ==
  ASSUME CalcInv, pending' \in BOOLEAN,
         UNCHANGED <<server, serving, data, len, written, accepted, fdL, fdT, client, request, sent, got,
                     printed, answer>>
  PROVE  CalcInv'
<1>1. CalcTypes'
  BY DEF CalcInv, CalcTypes
<1>2. Backlog(fdL)' /\ Backlog(fdT)'
  BY BacklogsKept DEF CalcInv
<1>3. \A d \in Clients : /\ Served(d)' <=> Served(d)
                         /\ RightAnswer(d, answer[d].value)' <=> RightAnswer(d, answer[d].value)
                         /\ RightAnswer(d, printed[d])' <=> RightAnswer(d, printed[d])
                         /\ CutShort(d)' <=> CutShort(d)
  BY DEF Served, RightAnswer, CutShort
<1>4. Progress'
  BY <1>3 DEF CalcInv, Progress
<1>5. InService'
  BY DEF CalcInv, InService, Served, RightAnswer
<1> QED
  BY <1>1, <1>2, <1>4, <1>5 DEF CalcInv

-----------------------------------------------------------------------------
\* The inductive invariant holds at first and after every step.
THEOREM CalcInductive == Spec => []CalcInv
<1>1. Init => CalcInv
  <2> SUFFICES ASSUME Init PROVE CalcInv
    OBVIOUS
  <2>1. /\ server = "pselect" /\ serving = NoClient /\ data = <<0, 0, "?">> /\ len = 0 /\ written = 0
        /\ pending = FALSE /\ fdL = <<>> /\ fdT = <<>> /\ accepted = {}
        /\ client = [c \in Clients |-> "connect"] /\ request \in [Clients -> Requests]
        /\ sent = [c \in Clients |-> 0] /\ got = [c \in Clients |-> 0]
        /\ answer = [c \in Clients |-> [words |-> 0, value |-> <<>>]]
        /\ printed = [c \in Clients |-> <<>>]
    BY DEF Init, Listening, Impossible
  <2>2. 0 \in Int32
    BY CalculatorAssumption DEF Int32, INT32_MIN
  <2>3. data[1] \in Int32 /\ data[2] \in Int32
    BY <2>1, <2>2
  <2>4. <<>> \in Seq(Int) /\ <<>> \in Seq(LocalClients) /\ <<>> \in Seq(TcpClients) /\ Len(<<>>) = 0
    OBVIOUS
  <2>5. 0 \in 0..Words /\ 0 < Words
    BY DEF Words
  <2>6. [words |-> 0, value |-> <<>>] \in [words : 0..Words, value : Seq(Int)]
    BY <2>4, <2>5
  <2>7. answer \in [Clients -> [words : 0..Words, value : Seq(Int)]]
        /\ printed \in [Clients -> Seq(Int)]
    BY <2>1, <2>4, <2>6
  <2>8. CalcTypes
    BY <2>1, <2>3, <2>4, <2>5, <2>7 DEF CalcTypes
  <2>9. Backlog(fdL) /\ Backlog(fdT)
    BY <2>1, <2>4 DEF Backlog
  <2>10. \A c \in Clients : client[c] = "connect" /\ sent[c] = 0 /\ got[c] = 0 /\ answer[c].words = 0
    BY <2>1
  <2>11. ~(0 > 0)
    OBVIOUS
  <2>12. Progress
    BY <2>1, <2>5, <2>10, <2>11 DEF Progress
  <2>13. InService
    BY <2>1 DEF InService
  <2> QED
    BY <2>8, <2>9, <2>12, <2>13 DEF CalcInv
<1>2. CalcInv /\ [Next]_vars => CalcInv'
  <2> SUFFICES ASSUME CalcInv, [Next]_vars PROVE CalcInv'
    OBVIOUS
  <2>1. CASE ServerStep
    BY <2>1, AcceptStep, EndingStep, ReadStep, ReadEofStep, ComputeStep, WriteStep, WriteErrorStep,
       CloseStep DEF ServerStep
  <2>2. CASE Sigint
    BY <2>2, QuietStep DEF Sigint, serverVars, clientVars
  <2>3. ASSUME NEW c \in Clients, ClientStep(c) \/ KillClient(c) PROVE CalcInv'
    <3>1. CASE LocalStep(c)
      BY <3>1, ConnectStep, ClientWriteStep, ClientReadStep DEF LocalStep
    <3>2. CASE TcpStep(c)
      BY <3>2, ConnectStep, ClientWriteStep, ClientReadStep DEF TcpStep
    <3>3. CASE KillClient(c)
      BY <3>3, KillStep
    <3> QED
      BY <2>3, <3>1, <3>2, <3>3 DEF ClientStep
  <2>4. CASE UNCHANGED vars
    <3>1. pending' \in BOOLEAN
      BY <2>4 DEF vars, netVars, CalcInv, CalcTypes
    <3> QED
      BY <2>4, <3>1, QuietStep DEF vars, serverVars, netVars, clientVars
  <2> QED
    BY <2>1, <2>2, <2>3, <2>4 DEF Next
<1> QED
  BY <1>1, <1>2, PTL DEF Spec

\* Every variable keeps to its type.
THEOREM CalcTypeCorrect == Spec => []TypeOK
<1>1. CalcInv => TypeOK
  <2> SUFFICES ASSUME CalcTypes PROVE TypeOK
    BY DEF CalcInv
  <2>1. \A c \in Clients : answer[c].words \in 0..Words
    BY DEF CalcTypes
  <2> QED
    BY <2>1 DEF CalcTypes, TypeOK
<1> QED
  BY <1>1, CalcInductive, PTL

\* Only a client that was never accepted fails, or the one whose own division
\* traps: SIGINT cuts nobody's service short.
THEOREM NobodyCutShort == Spec => []AcceptedAreAnswered
<1>1. CalcInv => AcceptedAreAnswered
  BY DEF CalcInv, Progress, CutShort, AcceptedAreAnswered
<1> QED
  BY <1>1, CalcInductive, PTL

\* What a client prints is what arithmetic gives for its own request, for every
\* request, every width of the integers and every way to cut the streams.
THEOREM AnswersAreRight == Spec => []AnswersOwnRequest
<1>1. CalcInv => AnswersOwnRequest
  <2> SUFFICES ASSUME CalcInv, NEW c \in Clients, client[c] = "printed"
               PROVE  Correct(request[c], printed[c])
    BY DEF AnswersOwnRequest
  <2>1. printed[c] = Calculate(request[c]) /\ ~Traps(request[c])
    BY DEF CalcInv, Progress, RightAnswer
  <2>2. request[c][1] \in Int32 /\ request[c][2] \in Int32
    BY RequestTyped DEF CalcInv
  <2>3. Correct(request[c], Calculate(request[c]))
    BY <2>1, <2>2, CalculateCorrect
  <2> QED
    BY <2>1, <2>3
<1> QED
  BY <1>1, CalcInductive, PTL

-----------------------------------------------------------------------------
(***************************************************************************)
(* MqCalculator.  Whatever happens, the server has a queue open from the   *)
(* answer to a sum to the end of the round, unless SIGINT has come         *)
(* (OpenWhileAnswering); this gives ClosedMeansLoop.  While all is calm a  *)
(* message is in one place only: on a queue of the server, in its hands or *)
(* on its way back (Asked, InHand, Answered), and between two messages the *)
(* server is where its client is (Between).                                *)
(***************************************************************************)

AnswerSet == [from : MqClients, n : 0..MaxRequests, stage : Stages]

MqTypes ==
  /\ end \in BOOLEAN /\ linked \in BOOLEAN /\ calm \in BOOLEAN
  /\ spc \in {"loop", "test", "receive", "handle", "answer", "send", "ended", "killed",
              "trapped"}
  /\ stage \in Stages /\ qc \in MqClients \cup {Minus1} /\ msg \in Messages
  /\ queue \in [Stages -> Seq(Messages)] /\ \A s \in Stages : Len(queue[s]) <= MAXMSG
  /\ cpc \in [MqClients -> {"start", "idle", "send", "receive", "timedout", "unlink",
                            "ended", "dead"}]
  /\ cstage \in [MqClients -> Stages] /\ cmsg \in [MqClients -> Messages]
  /\ n \in [MqClients -> 0..MaxRequests] /\ clinked \in [MqClients -> BOOLEAN]
  /\ answers \in [MqClients -> Seq(AnswerSet)] /\ \A c \in MqClients : Len(answers[c]) <= MAXMSG

\* A queue stays open from the answer to a sum to the end of the round.
OpenWhileAnswering ==
  /\ stage > 1 \/ spc = "answer" => qc # Minus1 \/ end
  /\ spc = "send" => qc # Minus1
  /\ spc \in {"answer", "send", "trapped"} => msg.from # Minus1

\* The server waits for a message, or has one that asks nothing.
Attentive == spc \in {"loop", "test", "receive"} \/ (spc = "handle" /\ msg.from = Minus1)
NoRequests == \A s \in Stages : \A i \in 1..Len(queue[s]) : queue[s][i].from = Minus1
Between(s) == stage = s /\ Attentive /\ NoRequests /\ \A c \in MqClients : answers[c] = <<>>

Sessions ==
  /\ ~end /\ spc \notin {"killed", "ended"}
  /\ \A c \in MqClients :
       /\ cpc[c] # "timedout"
       /\ cpc[c] \in {"start", "dead"} => n[c] = 0
       /\ cpc[c] \in {"idle", "send", "receive", "unlink"} => clinked[c]
       /\ cpc[c] \in {"send", "receive"} => n[c] > 0 /\ cmsg[c].from = c
  /\ \A c, d \in MqClients : InSession(c) /\ InSession(d) => c = d

\* Whose queue is open: of the client in session, or of one whose goodbye is the
\* next message of queue s.
Owner ==
  /\ stage > 1 \/ spc \in {"answer", "send"} => qc \in MqClients /\ InSession(qc)
  /\ qc \in MqClients /\ ~InSession(qc) =>
       \/ spc = "handle" /\ msg.from = Minus1
       \/ queue[1] # <<>> /\ queue[1][1].from = Minus1

Asked == \A s \in Stages :
  /\ \A i \in 1..Len(queue[s]) :
       IF queue[s][i].from = Minus1 THEN s = 1
       ELSE LET c == queue[s][i].from
            IN  /\ cpc[c] = "receive" /\ cstage[c] = s /\ queue[s][i] = cmsg[c]
                /\ stage = s /\ Attentive
  /\ \A i, k \in 1..Len(queue[s]) :
       queue[s][i].from # Minus1 /\ queue[s][k].from # Minus1 => i = k

InHand ==
  spc \in {"handle", "answer", "send", "trapped"} =>
    IF msg.from = Minus1 THEN spc = "handle" /\ stage = 1
    ELSE LET c == msg.from
         IN  /\ cpc[c] = "receive" /\ cstage[c] = stage /\ msg = cmsg[c]
             /\ qc \in {Minus1, c}

Answered == \A c \in MqClients : answers[c] # <<>> =>
  /\ Len(answers[c]) = 1 /\ cpc[c] = "receive"
  /\ answers[c][1] = [from |-> c, n |-> cmsg[c].n, stage |-> cstage[c]]
  /\ stage = (cstage[c] % 3) + 1 /\ Attentive /\ NoRequests

Rests ==
  /\ \A c \in MqClients : InSession(c) =>
       /\ cpc[c] = "idle" => Between(1)
       /\ cpc[c] = "send" => Between(cstage[c])
  /\ (\A c \in MqClients : ~InSession(c)) => Between(1)

Calm == Sessions /\ Owner /\ Asked /\ InHand /\ Answered /\ Rests

MqInv == MqTypes /\ OpenWhileAnswering /\ (calm => Calm)

-----------------------------------------------------------------------------
(* Types, and what a server in any state may rely on.                      *)

LEMMA PutTypes ==
  ASSUME MqTypes, NEW c \in MqClients, NEW s \in Stages, NEW m \in Messages, NEW l, Put(c, s, m, l),
         l \in {"receive", "unlink", "send", "idle"}
  PROVE  /\ queue' \in [Stages -> Seq(Messages)] /\ \A r \in Stages : Len(queue'[r]) <= MAXMSG
         /\ cpc' \in [MqClients -> {"start", "idle", "send", "receive", "timedout", "unlink",
                                    "ended", "dead"}]
<1>1. /\ queue' = [queue EXCEPT ![s] = Append(queue[s], m)] /\ cpc' = [cpc EXCEPT ![c] = l]
      /\ Len(queue[s]) < MAXMSG
  BY DEF Put, HasRoom, MqTypes
<1>2. queue[s] \in Seq(Messages)
  BY DEF MqTypes
<1> DEFINE q == Append(queue[s], m)
<1>3. q \in Seq(Messages) /\ Len(q) = Len(queue[s]) + 1 /\ Len(queue[s]) \in Nat
  BY <1>2, AppendProperties, LenProperties
<1>4. Len(q) <= MAXMSG
  BY <1>1, <1>3, MqAssumption
<1>5. queue' = [queue EXCEPT ![s] = q]
  BY <1>1
<1> HIDE DEF q
<1>6. queue' \in [Stages -> Seq(Messages)] /\ \A r \in Stages : Len(queue'[r]) <= MAXMSG
  BY <1>3, <1>4, <1>5 DEF MqTypes
<1>7. cpc' \in [MqClients -> {"start", "idle", "send", "receive", "timedout", "unlink",
                              "ended", "dead"}]
  BY <1>1 DEF MqTypes
<1> QED
  BY <1>6, <1>7

LEMMA GoodbyeTyped ==
  Goodbye \in Messages /\ Goodbye.from = Minus1 /\ \A m \in Messages : m.from # Minus1 => m.from \in MqClients
BY MqAssumption DEF Goodbye, Messages

LEMMA StageTyped == \A s \in Stages : (s % 3) + 1 \in Stages
<1> SUFFICES ASSUME NEW s \in Stages PROVE (s % 3) + 1 \in Stages
  OBVIOUS
<1>1. s = 1 \/ s = 2 \/ s = 3
  BY DEF Stages
<1> QED
  BY <1>1 DEF Stages

\* The server's steps.
LEMMA ServerTypes ==
  ASSUME MqTypes, OpenWhileAnswering, Server \/ MqSigint
  PROVE  MqTypes' /\ OpenWhileAnswering'
<1> USE MqAssumption DEF clients
<1>1. CASE Loop
  <2>1. MqTypes'
    BY <1>1 DEF Loop, MqTypes
  <2>2. OpenWhileAnswering'
    BY <1>1 DEF Loop, MqTypes, OpenWhileAnswering
  <2> QED
    BY <2>1, <2>2
<1>2. CASE TestEnd
  <2>1. UNCHANGED <<end, qc, msg, queue, linked, cpc, cstage, cmsg, n, clinked, answers, calm>>
    BY <1>2 DEF TestEnd
  <2>2. CASE spc = "test"
    <3>1. stage' = stage /\ spc' \in {"handle", "receive"}
      BY <1>2, <2>2 DEF TestEnd
    <3>2. MqTypes'
      BY <2>1, <3>1 DEF MqTypes
    <3>3. OpenWhileAnswering'
      BY <2>1, <3>1 DEF OpenWhileAnswering, MqTypes
    <3> QED
      BY <3>2, <3>3
  <2>3. CASE spc = "answer" /\ ~end
    <3>1. stage' = stage /\ spc' = "send"
      BY <1>2, <2>3 DEF TestEnd
    <3>2. MqTypes'
      BY <2>1, <3>1 DEF MqTypes
    <3>3. OpenWhileAnswering'
      BY <2>1, <2>3, <3>1 DEF OpenWhileAnswering
    <3> QED
      BY <3>2, <3>3
  <2>4. CASE spc = "answer" /\ end
    <3>1. stage' = (stage % 3) + 1 /\ spc' \in {"test", "loop"}
      BY <1>2, <2>4 DEF TestEnd
    <3>2. stage' \in Stages
      BY <3>1, StageTyped DEF MqTypes
    <3>3. MqTypes'
      BY <2>1, <3>1, <3>2 DEF MqTypes
    <3>4. OpenWhileAnswering'
      BY <2>1, <2>4, <3>1 DEF OpenWhileAnswering, MqTypes
    <3> QED
      BY <3>3, <3>4
  <2> QED
    BY <1>2, <2>2, <2>3, <2>4 DEF TestEnd, MqTypes
<1>3. CASE Receive
  <2>1. /\ spc = "receive" /\ spc' = "handle" /\ msg' = Head(queue[stage]) /\ queue[stage] # <<>>
        /\ queue' = [queue EXCEPT ![stage] = Tail(queue[stage])]
        /\ UNCHANGED <<end, stage, qc, linked, cpc, cstage, cmsg, n, clinked, answers, calm>>
    BY <1>3 DEF Receive, MqTypes
  <2> DEFINE q == Tail(queue[stage])
  <2>2. /\ queue[stage] \in Seq(Messages) /\ stage \in Stages /\ Len(queue[stage]) <= MAXMSG
        /\ Len(queue[stage]) \in Nat
    BY LenProperties DEF MqTypes
  <2>3. msg' \in Messages /\ q \in Seq(Messages) /\ Len(q) = Len(queue[stage]) - 1
    BY <2>1, <2>2, HeadTailProperties
  <2>4. Len(q) <= MAXMSG
    BY <2>2, <2>3
  <2>5. queue' = [queue EXCEPT ![stage] = q]
    BY <2>1
  <2> HIDE DEF q
  <2>6. queue' \in [Stages -> Seq(Messages)] /\ \A r \in Stages : Len(queue'[r]) <= MAXMSG
    BY <2>2, <2>3, <2>4, <2>5 DEF MqTypes
  <2>7. MqTypes'
    BY <2>1, <2>3, <2>6 DEF MqTypes
  <2>8. OpenWhileAnswering'
    BY <2>1 DEF OpenWhileAnswering
  <2> QED
    BY <2>7, <2>8
<1>4. CASE HandleClosed
  <2>1. MqTypes'
    BY <1>4 DEF HandleClosed, CloseClient, MqTypes, Stages
  <2>2. OpenWhileAnswering'
    BY <1>4 DEF HandleClosed, CloseClient, OpenWhileAnswering
  <2> QED
    BY <2>1, <2>2
<1>5. CASE HandleSum
  <2>1. /\ msg.from # Minus1 /\ msg.from \in MqClients
        /\ UNCHANGED <<end, stage, msg, queue, linked, cpc, cstage, cmsg, n, clinked, answers, calm>>
    BY <1>5, GoodbyeTyped DEF HandleSum, MqTypes
  <2>2. /\ stage = 1
        /\ \/ qc' = msg.from /\ spc' = "answer"
           \/ UNCHANGED qc /\ spc' = "killed"
           \/ UNCHANGED qc /\ spc' = "answer" /\ (qc # Minus1 \/ end)
    BY <1>5 DEF HandleSum
  <2>3. MqTypes'
    BY <2>1, <2>2 DEF MqTypes
  <2>4. OpenWhileAnswering'
    BY <2>1, <2>2 DEF OpenWhileAnswering
  <2> QED
    BY <2>3, <2>4
<1>6. CASE HandleDivision
  <2>1. MqTypes'
    BY <1>6 DEF HandleDivision, MqTypes
  <2>2. OpenWhileAnswering'
    BY <1>6 DEF HandleDivision, NotClosed, OpenWhileAnswering
  <2> QED
    BY <2>1, <2>2
<1>7. CASE Send
  <2>1. /\ spc = "send" /\ qc \in MqClients /\ msg.from \in MqClients /\ qc # Minus1
    BY <1>7, GoodbyeTyped DEF Send, OpenWhileAnswering, MqTypes
  <2> DEFINE r == [from |-> msg.from, n |-> msg.n, stage |-> stage]
             q == Append(answers[qc], r)
  <2>2. /\ Len(answers[qc]) < MAXMSG /\ answers' = [answers EXCEPT ![qc] = q]
        /\ spc' \in {"test", "loop"} /\ stage' = (stage % 3) + 1
        /\ UNCHANGED <<end, qc, msg, queue, linked, cpc, cstage, cmsg, n, clinked, calm>>
    BY <1>7, <2>1 DEF Send, HasRoom, MqTypes
  <2>3. msg.n \in 0..MaxRequests
    BY DEF MqTypes, Messages, Goodbye
  <2>4. r \in AnswerSet
    BY <2>1, <2>3 DEF AnswerSet, MqTypes
  <2>5. answers[qc] \in Seq(AnswerSet)
    BY <2>1 DEF MqTypes
  <2> HIDE DEF r
  <2>6. q \in Seq(AnswerSet) /\ Len(q) = Len(answers[qc]) + 1 /\ Len(answers[qc]) \in Nat
    BY <2>4, <2>5, AppendProperties, LenProperties
  <2>7. Len(q) <= MAXMSG
    BY <2>2, <2>6
  <2> HIDE DEF q
  <2>8. answers' \in [MqClients -> Seq(AnswerSet)] /\ \A c \in MqClients : Len(answers'[c]) <= MAXMSG
    BY <2>1, <2>2, <2>6, <2>7 DEF MqTypes
  <2>9. stage' \in Stages
    BY <2>2, StageTyped DEF MqTypes
  <2>10. MqTypes'
    BY <2>2, <2>8, <2>9 DEF MqTypes
  <2>11. OpenWhileAnswering'
    BY <2>1, <2>2 DEF OpenWhileAnswering
  <2> QED
    BY <2>10, <2>11
<1>8. CASE MqSigint
  <2>1. MqTypes'
    BY <1>8 DEF MqSigint, MqTypes
  <2>2. OpenWhileAnswering'
    BY <1>8 DEF MqSigint, OpenWhileAnswering
  <2> QED
    BY <2>1, <2>2
<1> QED
  BY <1>1, <1>2, <1>3, <1>4, <1>5, <1>6, <1>7, <1>8 DEF Server

\* The clients' steps.
LEMMA ClientTypes ==
  ASSUME MqTypes, OpenWhileAnswering, NEW c \in MqClients, Client(c)
  PROVE  MqTypes' /\ OpenWhileAnswering'
<1>1. UNCHANGED <<end, spc, stage, qc, msg, linked>>
  BY DEF Client, Open, ReadNumbers, Leave, Unlink, SendStage, GetAnswer, TimeOut, TellTimeOut, InvalidTime,
         mqServer
<1>2. OpenWhileAnswering'
  BY <1>1 DEF OpenWhileAnswering
<1> SUFFICES MqTypes'
  BY <1>2
<1>3. CASE Open(c)
  BY <1>1, <1>3 DEF Open, MqTypes
<1>4. CASE ReadNumbers(c)
  <2>1. /\ n[c] < MaxRequests /\ n' = [n EXCEPT ![c] = n[c] + 1] /\ n[c] \in 0..MaxRequests
        /\ cpc' = [cpc EXCEPT ![c] = "send"] /\ cstage' = [cstage EXCEPT ![c] = 1]
        /\ calm' = (calm /\ \A d \in MqClients \ {c} : ~InSession(d))
        /\ UNCHANGED <<queue, answers, clinked>>
    BY <1>4 DEF ReadNumbers, MqTypes
  <2>2. n[c] + 1 \in 0..MaxRequests
    BY <2>1, MqAssumption
  <2>3. PICK t \in BOOLEAN : cmsg' = [cmsg EXCEPT ![c] = [from |-> c, n |-> n[c] + 1, traps |-> t]]
    BY <1>4 DEF ReadNumbers
  <2> DEFINE m == [from |-> c, n |-> n[c] + 1, traps |-> t]
  <2>4. m \in Messages
    BY <2>2 DEF Messages
  <2>5. cmsg' = [cmsg EXCEPT ![c] = m]
    BY <2>3
  <2> HIDE DEF m
  <2>6. cmsg' \in [MqClients -> Messages] /\ n' \in [MqClients -> 0..MaxRequests]
    BY <2>1, <2>2, <2>4, <2>5 DEF MqTypes
  <2>7. cpc' \in [MqClients -> {"start", "idle", "send", "receive", "timedout", "unlink",
                                "ended", "dead"}]
        /\ cstage' \in [MqClients -> Stages] /\ calm' \in BOOLEAN
    BY <2>1 DEF MqTypes, Stages
  <2> QED
    BY <1>1, <2>1, <2>6, <2>7 DEF MqTypes
<1>5. CASE Leave(c)
  <2>1. Put(c, 1, Goodbye, "unlink") /\ UNCHANGED <<cstage, cmsg, n, clinked, answers, calm>>
    BY <1>5 DEF Leave
  <2>2. 1 \in Stages
    BY DEF Stages
  <2>3. /\ queue' \in [Stages -> Seq(Messages)] /\ \A r \in Stages : Len(queue'[r]) <= MAXMSG
        /\ cpc' \in [MqClients -> {"start", "idle", "send", "receive", "timedout", "unlink",
                                   "ended", "dead"}]
    BY <2>1, <2>2, PutTypes, GoodbyeTyped
  <2> QED
    BY <1>1, <2>1, <2>3 DEF MqTypes
<1>6. CASE Unlink(c)
  BY <1>1, <1>6 DEF Unlink, MqTypes
<1>7. CASE SendStage(c)
  <2>1. Put(c, cstage[c], cmsg[c], "receive") /\ UNCHANGED <<cstage, cmsg, n, clinked, answers, calm>>
    BY <1>7 DEF SendStage
  <2>2. cstage[c] \in Stages /\ cmsg[c] \in Messages
    BY DEF MqTypes
  <2>3. /\ queue' \in [Stages -> Seq(Messages)] /\ \A r \in Stages : Len(queue'[r]) <= MAXMSG
        /\ cpc' \in [MqClients -> {"start", "idle", "send", "receive", "timedout", "unlink",
                                   "ended", "dead"}]
    BY <2>1, <2>2, PutTypes
  <2> QED
    BY <1>1, <2>1, <2>3 DEF MqTypes
<1>8. CASE GetAnswer(c)
  <2> DEFINE q == Tail(answers[c])
  <2>1. /\ answers[c] # <<>> /\ answers' = [answers EXCEPT ![c] = q]
        /\ cstage' = [cstage EXCEPT ![c] = (cstage[c] % 3) + 1]
        /\ cpc' = [cpc EXCEPT ![c] = NextLabel(c)] /\ UNCHANGED <<queue, cmsg, n, clinked, calm>>
    BY <1>8 DEF GetAnswer, NextStage, MqTypes
  <2>2. answers[c] \in Seq(AnswerSet) /\ Len(answers[c]) <= MAXMSG /\ Len(answers[c]) \in Nat
    BY LenProperties DEF MqTypes
  <2>3. q \in Seq(AnswerSet) /\ Len(q) = Len(answers[c]) - 1
    BY <2>1, <2>2, HeadTailProperties
  <2>4. Len(q) <= MAXMSG
    BY <2>2, <2>3, MqAssumption
  <2> HIDE DEF q
  <2>5. answers' \in [MqClients -> Seq(AnswerSet)] /\ \A d \in MqClients : Len(answers'[d]) <= MAXMSG
    BY <2>1, <2>3, <2>4 DEF MqTypes
  <2>6. (cstage[c] % 3) + 1 \in Stages /\ NextLabel(c) \in {"send", "idle"}
    BY StageTyped DEF MqTypes, NextLabel
  <2>7. cstage' \in [MqClients -> Stages]
        /\ cpc' \in [MqClients -> {"start", "idle", "send", "receive", "timedout", "unlink",
                                   "ended", "dead"}]
    BY <2>1, <2>6 DEF MqTypes
  <2> QED
    BY <1>1, <2>1, <2>5, <2>7 DEF MqTypes
<1>9. CASE TimeOut(c)
  BY <1>1, <1>9, GoodbyeTyped DEF TimeOut, MqTypes
<1>10. CASE TellTimeOut(c)
  <2>1. Put(c, 1, Goodbye, NextLabel(c)) /\ UNCHANGED <<cmsg, n, clinked, answers, calm>>
        /\ cstage' = [cstage EXCEPT ![c] = (cstage[c] % 3) + 1]
    BY <1>10 DEF TellTimeOut, NextStage, MqTypes
  <2>2. 1 \in Stages /\ NextLabel(c) \in {"send", "idle"}
    BY DEF Stages, NextLabel
  <2>5. cstage[c] \in Stages
    BY DEF MqTypes
  <2>6. (cstage[c] % 3) + 1 \in Stages
    BY <2>5, StageTyped
  <2>3. /\ queue' \in [Stages -> Seq(Messages)] /\ \A r \in Stages : Len(queue'[r]) <= MAXMSG
        /\ cpc' \in [MqClients -> {"start", "idle", "send", "receive", "timedout", "unlink",
                                   "ended", "dead"}]
    BY <2>1, <2>2, PutTypes, GoodbyeTyped
  <2>4. cstage' \in [MqClients -> Stages]
    BY <2>1, <2>6 DEF MqTypes
  <2> QED
    BY <1>1, <2>1, <2>3, <2>4 DEF MqTypes
<1>11. CASE InvalidTime(c)
  BY <1>1, <1>11 DEF InvalidTime, MqTypes
<1> QED
  BY <1>3, <1>4, <1>5, <1>6, <1>7, <1>8, <1>9, <1>10, <1>11 DEF Client

-----------------------------------------------------------------------------
(* While all is calm.                                                      *)

\* Of the clients at most one is in session, and one that waits for an answer
\* is; while the server works on a request there is nothing else on the way.
LEMMA OneSession ==
  ASSUME MqTypes, Calm, NEW c \in MqClients, cpc[c] \in {"send", "receive"}
  PROVE  InSession(c) /\ \A d \in MqClients : InSession(d) => d = c
<1>1. n[c] > 0
  BY DEF Calm, Sessions
<1>2. InSession(c)
  BY <1>1 DEF InSession
<1> QED
  BY <1>2 DEF Calm, Sessions

LEMMA Busy ==
  ASSUME MqTypes, Calm, ~Attentive
  PROVE  /\ NoRequests /\ \A c \in MqClients : answers[c] = <<>>
         /\ spc \in {"handle", "answer", "send", "trapped"} /\ msg.from \in MqClients
         /\ cpc[msg.from] = "receive" /\ cstage[msg.from] = stage
         /\ msg = cmsg[msg.from] /\ qc \in {Minus1, msg.from}
<1>1. NoRequests
  BY DEF Calm, Asked, NoRequests
<1>2. \A c \in MqClients : answers[c] = <<>>
  BY DEF Calm, Answered
<1>3. spc \in {"handle", "answer", "send", "trapped"} /\ (spc = "handle" => msg.from # Minus1)
  BY DEF Calm, Sessions, Attentive, MqTypes
<1>4. msg.from # Minus1
  BY <1>3 DEF Calm, InHand
<1>5. msg.from \in MqClients
  BY <1>4, GoodbyeTyped DEF MqTypes
<1> QED
  BY <1>1, <1>2, <1>3, <1>4, <1>5 DEF Calm, InHand

\* A step of the server that neither takes a message nor answers.
LEMMA StillCalm ==
  ASSUME MqTypes, Calm,
         UNCHANGED <<end, stage, queue, cpc, cstage, cmsg, n, clinked, answers>>,
         Attentive' <=> Attentive, spc' \notin {"killed", "ended"}
  PROVE  Sessions' /\ Asked' /\ Answered' /\ Rests'
<1>1. Sessions'
  BY DEF Calm, Sessions, InSession
<1>2. Asked'
  BY DEF Calm, Asked
<1>3. NoRequests' <=> NoRequests
  BY DEF NoRequests
<1>4. Answered'
  BY <1>3 DEF Calm, Answered
<1>5. \A s \in Stages : Between(s)' <=> Between(s)
  BY <1>3 DEF Between
<1>6. 1 \in Stages /\ \A c \in MqClients : cstage[c] \in Stages
  BY DEF Stages, MqTypes
<1>7. Rests'
  BY <1>5, <1>6 DEF Calm, Rests, InSession
<1> QED
  BY <1>1, <1>2, <1>4, <1>7

LEMMA LoopCalm ==
  ASSUME MqTypes, Calm, Loop
  PROVE  Calm'
<1>1. /\ spc = "loop" /\ spc' = "test"
      /\ UNCHANGED <<end, stage, qc, msg, queue, linked, cpc, cstage, cmsg, n, clinked, answers, calm>>
  BY DEF Loop, clients, Calm, Sessions
<1>2. Attentive' <=> Attentive
  BY <1>1 DEF Attentive
<1>3. Sessions' /\ Asked' /\ Answered' /\ Rests'
  BY <1>1, <1>2, StillCalm
<1>4. Owner'
  BY <1>1 DEF Calm, Owner, InSession
<1>5. InHand'
  BY <1>1 DEF InHand
<1> QED
  BY <1>3, <1>4, <1>5 DEF Calm

LEMMA TestEndCalm ==
  ASSUME MqTypes, Calm, TestEnd
  PROVE  Calm'
<1>0. ~end
  BY DEF Calm, Sessions
<1>1. /\ (spc = "test" /\ spc' = "receive") \/ (spc = "answer" /\ spc' = "send")
      /\ UNCHANGED <<end, stage, qc, msg, queue, linked, cpc, cstage, cmsg, n, clinked, answers, calm>>
  BY <1>0 DEF TestEnd, clients
<1>2. Attentive' <=> Attentive
  BY <1>1 DEF Attentive
<1>3. Sessions' /\ Asked' /\ Answered' /\ Rests'
  BY <1>1, <1>2, StillCalm
<1>4. Owner'
  BY <1>1 DEF Calm, Owner, InSession
<1>5. InHand'
  BY <1>1 DEF Calm, InHand
<1> QED
  BY <1>3, <1>4, <1>5 DEF Calm

LEMMA HandleClosedCalm ==
  ASSUME MqTypes, Calm, HandleClosed
  PROVE  Calm'
<1>1. /\ spc = "handle" /\ msg.from = Minus1 /\ spc' = "loop" /\ stage = 1 /\ qc' = Minus1
      /\ UNCHANGED <<end, stage, msg, queue, linked, cpc, cstage, cmsg, n, clinked, answers, calm>>
  BY DEF HandleClosed, CloseClient, clients, Calm, InHand
<1>2. Attentive' <=> Attentive
  BY <1>1 DEF Attentive
<1>3. Sessions' /\ Asked' /\ Answered' /\ Rests'
  BY <1>1, <1>2, StillCalm
<1>4. Owner'
  BY <1>1, MqAssumption DEF Owner
<1>5. InHand'
  BY <1>1 DEF InHand
<1> QED
  BY <1>3, <1>4, <1>5 DEF Calm

LEMMA HandleSumCalm ==
  ASSUME MqTypes, Calm, HandleSum
  PROVE  Calm'
<1> DEFINE c == msg.from
<1>0. spc = "handle" /\ c # Minus1 /\ stage = 1 /\ ~end
  BY DEF HandleSum, Calm, Sessions
<1>1. ~Attentive
  BY <1>0 DEF Attentive
<1>2. /\ c \in MqClients /\ cpc[c] = "receive" /\ cstage[c] = stage /\ msg = cmsg[c]
      /\ qc \in {Minus1, c}
  BY <1>1, Busy
<1>3. clinked[c]
  BY <1>2 DEF Calm, Sessions
<1>4. /\ qc' = c /\ spc' = "answer"
      /\ UNCHANGED <<end, stage, msg, queue, linked, cpc, cstage, cmsg, n, clinked, answers, calm>>
  BY <1>0, <1>2, <1>3 DEF HandleSum, clients
<1>5. ~Attentive'
  BY <1>4 DEF Attentive
<1>6. Sessions' /\ Asked' /\ Answered' /\ Rests'
  BY <1>1, <1>4, <1>5, StillCalm
<1>7. InSession(c)
  BY <1>2, OneSession
<1>8. Owner'
  BY <1>2, <1>4, <1>7 DEF Owner, InSession
<1>9. InHand'
  BY <1>0, <1>2, <1>4 DEF InHand
<1> QED
  BY <1>6, <1>8, <1>9 DEF Calm

LEMMA HandleDivisionCalm ==
  ASSUME MqTypes, Calm, HandleDivision
  PROVE  Calm'
<1>1. /\ spc = "handle" /\ msg.from # Minus1 /\ stage > 1 /\ spc' \in {"trapped", "answer"}
      /\ UNCHANGED <<end, stage, qc, msg, queue, linked, cpc, cstage, cmsg, n, clinked, answers, calm>>
  BY DEF HandleDivision, NotClosed, clients
<1>2. ~Attentive /\ ~Attentive'
  BY <1>1 DEF Attentive
<1>3. Sessions' /\ Asked' /\ Answered' /\ Rests'
  BY <1>1, <1>2, StillCalm
<1>4. Owner'
  BY <1>1 DEF Calm, Owner, InSession
<1>5. InHand'
  BY <1>1 DEF Calm, InHand
<1> QED
  BY <1>3, <1>4, <1>5 DEF Calm

\* The answer goes to the client that waits for it.
LEMMA SendCalm ==
  ASSUME MqTypes, Calm, Send
  PROVE  Calm'
<1> DEFINE c == msg.from
           r == [from |-> c, n |-> msg.n, stage |-> stage]
<1>0. spc = "send" /\ qc \in MqClients /\ qc # Minus1
  BY MqAssumption DEF Send, Calm, Owner
<1>1. ~Attentive
  BY <1>0 DEF Attentive
<1>2. /\ NoRequests /\ \A d \in MqClients : answers[d] = <<>>
      /\ c \in MqClients /\ cpc[c] = "receive" /\ cstage[c] = stage /\ msg = cmsg[c] /\ qc = c
  BY <1>0, <1>1, Busy
<1>3. /\ answers' = [answers EXCEPT ![c] = Append(answers[c], r)]
      /\ spc' \in {"test", "loop"} /\ stage' = (stage % 3) + 1
      /\ UNCHANGED <<end, qc, msg, queue, linked, cpc, cstage, cmsg, n, clinked, calm>>
  BY <1>0, <1>2 DEF Send, clients, MqTypes
<1>4. Append(answers[c], r) = <<r>>
  <2>1. \A x : Append(<<>>, x) = <<x>>
    OBVIOUS
  <2> QED
    BY <1>2, <2>1
<1>5. answers'[c] = <<r>> /\ \A d \in MqClients : d # c => answers'[d] = <<>>
  BY <1>2, <1>3, <1>4 DEF MqTypes
<1>6. InSession(c) /\ \A d \in MqClients : InSession(d) => d = c
  BY <1>2, OneSession
<1>7. Attentive' /\ NoRequests'
  BY <1>2, <1>3 DEF Attentive, NoRequests
<1>8. Sessions'
  BY <1>3 DEF Calm, Sessions, InSession
<1>9. Owner'
  BY <1>2, <1>3, <1>6 DEF Owner, InSession
<1>10. Asked'
  BY <1>2, <1>3 DEF Calm, Asked, NoRequests
<1>11. InHand'
  BY <1>3 DEF InHand
<1>12. r = [from |-> c, n |-> cmsg[c].n, stage |-> cstage[c]] /\ stage' = (cstage[c] % 3) + 1
  BY <1>2, <1>3
<1> HIDE DEF r
<1>13. Len(<<r>>) = 1 /\ <<r>>[1] = r
  OBVIOUS
<1>14. Answered'
  BY <1>2, <1>3, <1>5, <1>7, <1>12, <1>13 DEF Answered
<1>15. Rests'
  BY <1>2, <1>3, <1>6 DEF Rests, InSession
<1> QED
  BY <1>8, <1>9, <1>10, <1>11, <1>14, <1>15 DEF Calm

\* A goodbye that is taken changes nothing; a request is the only one there was.
LEMMA ReceiveCalm ==
  ASSUME MqTypes, Calm, Receive
  PROVE  Calm'
<1>1. /\ spc = "receive" /\ spc' = "handle" /\ queue[stage] # <<>> /\ msg' = Head(queue[stage])
      /\ queue' = [queue EXCEPT ![stage] = Tail(queue[stage])]
      /\ UNCHANGED <<end, stage, qc, linked, cpc, cstage, cmsg, n, clinked, answers, calm>>
  BY DEF Receive, clients, MqTypes
<1>2. stage \in Stages /\ queue[stage] \in Seq(Messages) /\ Len(queue[stage]) \in Nat
  BY LenProperties DEF MqTypes
<1>3. Len(queue[stage]) > 0 /\ msg' = queue[stage][1] /\ 1 \in 1..Len(queue[stage])
  BY <1>1, <1>2
<1>4. /\ Len(Tail(queue[stage])) = Len(queue[stage]) - 1
      /\ \A i \in 1..Len(Tail(queue[stage])) : Tail(queue[stage])[i] = queue[stage][i + 1]
  BY <1>1, <1>2, HeadTailProperties
<1>5. \A s \in Stages : \A i \in 1..Len(queue'[s]) :
        IF s = stage THEN /\ queue'[s][i] = queue[s][i + 1]
                          /\ i + 1 \in 1..Len(queue[s]) /\ i + 1 # 1
                     ELSE queue'[s][i] = queue[s][i] /\ i \in 1..Len(queue[s])
  <2> SUFFICES ASSUME NEW s \in Stages, NEW i \in 1..Len(queue'[s])
               PROVE  IF s = stage THEN /\ queue'[s][i] = queue[s][i + 1]
                                        /\ i + 1 \in 1..Len(queue[s]) /\ i + 1 # 1
                                   ELSE queue'[s][i] = queue[s][i] /\ i \in 1..Len(queue[s])
    OBVIOUS
  <2>1. CASE s # stage
    <3>1. queue'[s] = queue[s]
      BY <1>1, <2>1 DEF MqTypes
    <3> QED
      BY <2>1, <3>1
  <2>2. CASE s = stage
    <3>1. queue'[s] = Tail(queue[stage])
      BY <1>1, <1>2, <2>2 DEF MqTypes
    <3>2. i \in 1..(Len(queue[stage]) - 1)
      BY <1>4, <3>1
    <3>3. i + 1 \in 1..Len(queue[s]) /\ i + 1 # 1
      BY <1>2, <2>2, <3>2
    <3> QED
      BY <1>4, <2>2, <3>1, <3>3
  <2> QED
    BY <2>1, <2>2
<1>6. NoRequests => NoRequests'
  BY <1>1, <1>5 DEF NoRequests
<1>7. Sessions'
  BY <1>1 DEF Calm, Sessions, InSession
<1>8. Attentive
  BY <1>1 DEF Attentive
<1>9. CASE msg'.from = Minus1
  <2>1. stage = 1
    BY <1>2, <1>3, <1>9 DEF Calm, Asked
  <2>2. Attentive'
    BY <1>1, <1>9 DEF Attentive
  <2>3. Owner'
    BY <1>1, <1>9, <2>1 DEF Owner
  <2>4. InHand'
    BY <1>1, <1>9, <2>1 DEF InHand
  <2>5. \A s \in Stages : \A i \in 1..Len(queue'[s]) :
          IF queue'[s][i].from = Minus1 THEN s = 1
          ELSE LET c == queue'[s][i].from
               IN  /\ cpc'[c] = "receive" /\ cstage'[c] = s /\ queue'[s][i] = cmsg'[c]
                   /\ stage' = s /\ Attentive'
    BY <1>1, <1>5, <2>2 DEF Calm, Asked
  <2>6. \A s \in Stages : \A i, k \in 1..Len(queue'[s]) :
          queue'[s][i].from # Minus1 /\ queue'[s][k].from # Minus1 => i = k
    <3> SUFFICES ASSUME NEW s \in Stages, NEW i \in 1..Len(queue'[s]), NEW k \in 1..Len(queue'[s]),
                        queue'[s][i].from # Minus1, queue'[s][k].from # Minus1
                 PROVE  i = k
      OBVIOUS
    <3>1. i \in Int /\ k \in Int
      OBVIOUS
    <3>2. CASE s = stage
      <4>1. /\ queue'[s][i] = queue[s][i + 1] /\ i + 1 \in 1..Len(queue[s])
            /\ queue'[s][k] = queue[s][k + 1] /\ k + 1 \in 1..Len(queue[s])
        BY <1>5, <3>2
      <4>2. queue[s][i + 1].from # Minus1 /\ queue[s][k + 1].from # Minus1
        BY <4>1
      <4>3. i + 1 = k + 1
        BY <4>1, <4>2 DEF Calm, Asked
      <4> QED
        BY <3>1, <4>3
    <3>3. CASE s # stage
      <4>1. /\ queue'[s][i] = queue[s][i] /\ i \in 1..Len(queue[s])
            /\ queue'[s][k] = queue[s][k] /\ k \in 1..Len(queue[s])
        BY <1>5, <3>3
      <4>2. queue[s][i].from # Minus1 /\ queue[s][k].from # Minus1
        BY <4>1
      <4> QED
        BY <4>1, <4>2 DEF Calm, Asked
    <3> QED
      BY <3>2, <3>3
  <2>7. Asked'
    BY <2>5, <2>6 DEF Asked
  <2>8. Answered'
    BY <1>1, <1>6, <2>2 DEF Calm, Answered
  <2>9. \A s \in Stages : Between(s) => Between(s)'
    BY <1>1, <1>6, <2>2 DEF Between
  <2>10. 1 \in Stages /\ \A c \in MqClients : cstage[c] \in Stages
    BY DEF Stages, MqTypes
  <2>11. Rests'
    BY <1>1, <2>9, <2>10 DEF Calm, Rests, InSession
  <2> QED
    BY <1>7, <2>3, <2>4, <2>7, <2>8, <2>11 DEF Calm
<1>10. CASE msg'.from # Minus1
  <2> DEFINE c == msg'.from
  <2>1. cpc[c] = "receive" /\ cstage[c] = stage /\ msg' = cmsg[c]
    BY <1>2, <1>3, <1>10 DEF Calm, Asked
  <2>2. msg' \in Messages
    BY <1>2, <1>3
  <2>3. c \in MqClients
    BY <1>10, <2>2, GoodbyeTyped
  <2>4. InSession(c) /\ \A d \in MqClients : InSession(d) => d = c
    BY <2>1, <2>3, OneSession
  <2>5. ~NoRequests
    BY <1>2, <1>3, <1>10 DEF NoRequests
  <2>6. \A d \in MqClients : answers[d] = <<>>
    BY <2>5 DEF Calm, Answered
  <2>7. NoRequests'
    <3> SUFFICES ASSUME NEW s \in Stages, NEW i \in 1..Len(queue'[s])
                 PROVE  queue'[s][i].from = Minus1
      BY DEF NoRequests
    <3>1. CASE s = stage
      <4>1. queue'[s][i] = queue[s][i + 1] /\ i + 1 \in 1..Len(queue[s]) /\ i + 1 # 1
        BY <1>5, <3>1
      <4>2. queue[s][1].from # Minus1 /\ 1 \in 1..Len(queue[s])
        BY <1>3, <1>10, <3>1
      <4>3. queue[s][i + 1].from = Minus1
        BY <4>1, <4>2 DEF Calm, Asked
      <4> QED
        BY <4>1, <4>3
    <3>2. CASE s # stage
      <4>1. queue'[s][i] = queue[s][i] /\ i \in 1..Len(queue[s])
        BY <1>5, <3>2
      <4>2. queue[s][i].from # Minus1 => stage = s
        BY <4>1 DEF Calm, Asked
      <4> QED
        BY <3>2, <4>1, <4>2
    <3> QED
      BY <3>1, <3>2
  <2>8. qc \in {Minus1, c}
    <3> SUFFICES ASSUME qc \in MqClients PROVE qc = c
      BY DEF MqTypes
    <3> SUFFICES ASSUME ~InSession(qc) PROVE FALSE
      BY <2>4
    <3>1. queue[1] # <<>> /\ queue[1][1].from = Minus1
      BY <1>1 DEF Calm, Owner
    <3>2. stage # 1
      BY <1>3, <1>10, <3>1
    <3>3. stage > 1
      BY <1>2, <3>2 DEF Stages
    <3> QED
      BY <3>3 DEF Calm, Owner
  <2>9. Owner'
    <3>1. qc \in MqClients => InSession(qc)
      BY <2>3, <2>4, <2>8, MqAssumption
    <3>2. stage > 1 => qc \in MqClients
      BY DEF Calm, Owner
    <3> QED
      BY <1>1, <3>1, <3>2 DEF Owner, InSession
  <2>10. \A s \in Stages : \A i \in 1..Len(queue'[s]) : s = 1
    BY <1>5, <2>7 DEF Calm, Asked, NoRequests
  <2>11. Asked'
    BY <2>7, <2>10 DEF Asked, NoRequests
  <2>12. InHand'
    BY <1>1, <1>10, <2>1, <2>8 DEF InHand
  <2>13. Answered'
    BY <1>1, <2>6 DEF Answered
  <2>14. Rests'
    BY <1>1, <2>1, <2>3, <2>4 DEF Rests, InSession
  <2> QED
    BY <1>7, <2>9, <2>11, <2>12, <2>13, <2>14 DEF Calm
<1> QED
  BY <1>9, <1>10

\* The clients.  A step that puts nothing on a queue and starts no session.
LEMMA OpenCalm ==
  ASSUME MqTypes, Calm, NEW c \in MqClients, Open(c) \/ Unlink(c)
  PROVE  Calm'
<1>1. /\ \/ cpc[c] = "start" /\ cpc'[c] \in {"idle", "dead"} /\ (cpc'[c] = "idle" => clinked'[c])
         \/ cpc[c] = "unlink" /\ cpc'[c] = "ended"
      /\ \A d \in MqClients : d # c => cpc'[d] = cpc[d] /\ clinked'[d] = clinked[d]
      /\ UNCHANGED <<end, spc, stage, qc, msg, queue, cstage, cmsg, n, answers, calm>>
  BY DEF Open, Unlink, mqServer, MqTypes
<1>2. cpc[c] = "start" => n[c] = 0
  BY DEF Calm, Sessions
<1>3. \A d \in MqClients : InSession(d)' <=> InSession(d)
  BY <1>1, <1>2 DEF InSession, MqTypes
<1>4. /\ \A d \in MqClients : cpc[d] = "receive" => cpc'[d] = "receive"
      /\ \A d \in MqClients : InSession(d) => cpc'[d] = cpc[d]
  BY <1>1, <1>2 DEF InSession, MqTypes
<1>5. Attentive' <=> Attentive
  BY <1>1 DEF Attentive
<1>6. NoRequests' <=> NoRequests
  BY <1>1 DEF NoRequests
<1>7. Sessions'
  <2>1. ~end' /\ spc' \notin {"killed", "ended"}
    BY <1>1 DEF Calm, Sessions
  <2>2. \A d, e \in MqClients : InSession(d)' /\ InSession(e)' => d = e
    BY <1>3 DEF Calm, Sessions
  <2>3. ASSUME NEW d \in MqClients
        PROVE  /\ cpc'[d] # "timedout"
               /\ cpc'[d] \in {"start", "dead"} => n'[d] = 0
               /\ cpc'[d] \in {"idle", "send", "receive", "unlink"} => clinked'[d]
               /\ cpc'[d] \in {"send", "receive"} => n'[d] > 0 /\ cmsg'[d].from = d
    <3>1. CASE d = c
      BY <1>1, <1>2, <3>1
    <3>2. CASE d # c
      BY <1>1, <3>2 DEF Calm, Sessions
    <3> QED
      BY <3>1, <3>2
  <2> QED
    BY <2>1, <2>2, <2>3 DEF Sessions
<1>8. Owner'
  BY <1>1, <1>3 DEF Calm, Owner
<1>9. Asked'
  <2> SUFFICES ASSUME NEW s \in Stages, NEW i \in 1..Len(queue[s]), queue[s][i].from # Minus1
               PROVE  cpc'[queue[s][i].from] = "receive"
    BY <1>1, <1>5 DEF Calm, Asked
  <2>1. queue[s][i] \in Messages
    BY DEF MqTypes
  <2>2. queue[s][i].from \in MqClients
    BY <2>1, GoodbyeTyped
  <2> QED
    BY <1>4, <2>2 DEF Calm, Asked
<1>10. InHand'
  <2> SUFFICES ASSUME spc \in {"handle", "answer", "send", "trapped"}, msg.from # Minus1
               PROVE  cpc'[msg.from] = "receive"
    BY <1>1 DEF Calm, InHand
  <2>1. msg.from \in MqClients
    BY GoodbyeTyped DEF MqTypes
  <2> QED
    BY <1>4, <2>1 DEF Calm, InHand
<1>11. Answered'
  BY <1>1, <1>4, <1>5, <1>6 DEF Calm, Answered
<1>12. \A s \in Stages : Between(s)' <=> Between(s)
  BY <1>1, <1>5, <1>6 DEF Between
<1>13. 1 \in Stages /\ \A d \in MqClients : cstage[d] \in Stages
  BY DEF Stages, MqTypes
<1>14. Rests'
  BY <1>1, <1>3, <1>4, <1>12, <1>13 DEF Calm, Rests
<1> QED
  BY <1>7, <1>8, <1>9, <1>10, <1>11, <1>14 DEF Calm

\* A new session begins between two others.
LEMMA ReadNumbersCalm ==
  ASSUME MqTypes, Calm, NEW c \in MqClients, ReadNumbers(c), calm'
  PROVE  Calm'
<1>0. PICK t \in BOOLEAN : cmsg' = [cmsg EXCEPT ![c] = [from |-> c, n |-> n[c] + 1, traps |-> t]]
  BY DEF ReadNumbers
<1>1. cmsg'[c].from = c /\ \A d \in MqClients : d # c => cmsg'[d] = cmsg[d]
  BY <1>0 DEF MqTypes
<1>2. /\ cpc[c] = "idle" /\ cpc'[c] = "send" /\ cstage'[c] = 1 /\ n'[c] = n[c] + 1
      /\ \A d \in MqClients : d # c => cpc'[d] = cpc[d] /\ cstage'[d] = cstage[d] /\ n'[d] = n[d]
      /\ UNCHANGED <<end, spc, stage, qc, msg, queue, answers, clinked>>
      /\ \A d \in MqClients \ {c} : ~InSession(d)
  BY DEF ReadNumbers, mqServer, MqTypes
<1>3. n[c] \in Nat
  BY DEF MqTypes
<1>4. n'[c] > 0
  BY <1>2, <1>3
<1>5. \A d \in MqClients : InSession(d)' <=> d = c
  BY <1>2, <1>4 DEF InSession
<1>6. Between(1)
  BY <1>2 DEF Calm, Rests
<1>7. Attentive' /\ NoRequests' /\ stage' = 1 /\ \A d \in MqClients : answers'[d] = <<>>
  BY <1>2, <1>6 DEF Between, Attentive, NoRequests
<1>8. Sessions'
  BY <1>1, <1>2, <1>4, <1>5 DEF Calm, Sessions
<1>9. Owner'
  <2>1. spc \notin {"answer", "send"}
    BY <1>2, <1>7 DEF Attentive
  <2>2. ASSUME qc \in MqClients, qc # c
        PROVE  \/ spc = "handle" /\ msg.from = Minus1
               \/ queue[1] # <<>> /\ queue[1][1].from = Minus1
    BY <1>2, <2>2 DEF Calm, Owner
  <2> QED
    BY <1>2, <1>5, <1>7, <2>1, <2>2 DEF Owner
<1>10. Asked'
  <2>1. \A s \in Stages : \A i \in 1..Len(queue'[s]) : s = 1
    BY <1>2, <1>6 DEF Calm, Asked, Between, NoRequests
  <2> QED
    BY <1>7, <2>1 DEF Asked, NoRequests
<1>11. InHand'
  <2> SUFFICES ASSUME spc \in {"handle", "answer", "send", "trapped"}
               PROVE  spc = "handle" /\ msg.from = Minus1
    BY <1>2, <1>7 DEF InHand
  <2> QED
    BY <1>6 DEF Between, Attentive
<1>12. Answered'
  BY <1>7 DEF Answered
<1>13. Rests'
  BY <1>2, <1>5, <1>7 DEF Rests, Between
<1> QED
  BY <1>8, <1>9, <1>10, <1>11, <1>12, <1>13 DEF Calm

\* What Put does to the queues: the old messages stay where they are.
LEMMA PutKeeps ==
  ASSUME MqTypes, NEW c \in MqClients, NEW s \in Stages, NEW m \in Messages, NEW l, Put(c, s, m, l)
  PROVE  /\ \A r \in Stages : \A i \in 1..Len(queue'[r]) :
              \/ i \in 1..Len(queue[r]) /\ queue'[r][i] = queue[r][i]
              \/ r = s /\ i = Len(queue[s]) + 1 /\ queue'[r][i] = m
         /\ \A r \in Stages : queue[r] # <<>> => queue'[r] # <<>> /\ queue'[r][1] = queue[r][1]
         /\ queue[s] = <<>> => queue'[s][1] = m
         /\ queue'[s] # <<>>
         /\ cpc'[c] = l /\ \A d \in MqClients : d # c => cpc'[d] = cpc[d]
<1> DEFINE q == Append(queue[s], m)
<1>1. queue' = [queue EXCEPT ![s] = q] /\ cpc' = [cpc EXCEPT ![c] = l]
  BY DEF Put
<1>2. \A r \in Stages : queue[r] \in Seq(Messages) /\ Len(queue[r]) \in Nat
  BY LenProperties DEF MqTypes
<1>3. /\ Len(q) = Len(queue[s]) + 1 /\ q # <<>>
      /\ \A i \in 1..Len(queue[s]) : q[i] = queue[s][i]
      /\ q[Len(queue[s]) + 1] = m
  BY <1>2, AppendProperties
<1> HIDE DEF q
<1>4. queue'[s] = q /\ \A r \in Stages : r # s => queue'[r] = queue[r]
  BY <1>1 DEF MqTypes
<1>5. \A r \in Stages : \A i \in 1..Len(queue'[r]) :
        \/ i \in 1..Len(queue[r]) /\ queue'[r][i] = queue[r][i]
        \/ r = s /\ i = Len(queue[s]) + 1 /\ queue'[r][i] = m
  <2> SUFFICES ASSUME NEW r \in Stages, NEW i \in 1..Len(queue'[r])
               PROVE  \/ i \in 1..Len(queue[r]) /\ queue'[r][i] = queue[r][i]
                      \/ r = s /\ i = Len(queue[s]) + 1 /\ queue'[r][i] = m
    OBVIOUS
  <2>1. CASE r # s
    <3>1. queue'[r] = queue[r]
      BY <1>4, <2>1
    <3> QED
      BY <3>1
  <2>2. CASE r = s
    <3>1. i \in 1..(Len(queue[s]) + 1)
      BY <1>3, <1>4, <2>2
    <3>2. i \in 1..Len(queue[s]) \/ i = Len(queue[s]) + 1
      BY <1>2, <3>1
    <3> QED
      BY <1>3, <1>4, <2>2, <3>2
  <2> QED
    BY <2>1, <2>2
<1>6. ASSUME NEW r \in Stages, queue[r] # <<>>
      PROVE  queue'[r] # <<>> /\ queue'[r][1] = queue[r][1]
  <2>1. 1 \in 1..Len(queue[r])
    BY <1>2, <1>6
  <2> QED
    BY <1>3, <1>4, <1>6, <2>1
<1>7. queue[s] = <<>> => queue'[s][1] = m
  <2> SUFFICES ASSUME queue[s] = <<>> PROVE queue'[s][1] = m
    OBVIOUS
  <2>1. Len(queue[s]) + 1 = 1
    OBVIOUS
  <2> QED
    BY <1>3, <1>4, <2>1
<1>8. cpc'[c] = l /\ \A d \in MqClients : d # c => cpc'[d] = cpc[d]
  BY <1>1 DEF MqTypes
<1> QED
  BY <1>3, <1>4, <1>5, <1>6, <1>7, <1>8

\* A client that leaves closes its session, if it had one.
LEMMA LeaveCalm ==
  ASSUME MqTypes, Calm, NEW c \in MqClients, Leave(c)
  PROVE  Calm'
<1>0. /\ cpc[c] = "idle" /\ Put(c, 1, Goodbye, "unlink")
      /\ UNCHANGED <<end, spc, stage, qc, msg, cstage, cmsg, n, clinked, answers, calm>>
  BY DEF Leave, mqServer
<1>1. 1 \in Stages /\ Goodbye \in Messages /\ Goodbye.from = Minus1
  BY GoodbyeTyped DEF Stages
<1>2. /\ \A r \in Stages : \A i \in 1..Len(queue'[r]) :
              \/ i \in 1..Len(queue[r]) /\ queue'[r][i] = queue[r][i]
              \/ r = 1 /\ i = Len(queue[1]) + 1 /\ queue'[r][i] = Goodbye
      /\ queue[1] # <<>> => queue'[1][1] = queue[1][1]
      /\ queue[1] = <<>> => queue'[1][1] = Goodbye
      /\ queue'[1] # <<>>
      /\ cpc'[c] = "unlink" /\ \A d \in MqClients : d # c => cpc'[d] = cpc[d]
  BY <1>0, <1>1, PutKeeps
<1>3. \A d \in MqClients : InSession(d)' <=> InSession(d) /\ d # c
  BY <1>0, <1>2 DEF InSession
<1>4. NoRequests => NoRequests'
  BY <1>1, <1>2 DEF NoRequests
<1>5. Attentive' <=> Attentive
  BY <1>0 DEF Attentive
<1>6. \A s \in Stages : Between(s) => Between(s)'
  BY <1>0, <1>4, <1>5 DEF Between
<1>7. InSession(c) => Between(1)
  BY <1>0 DEF Calm, Rests
<1>8. \A d \in MqClients : cpc[d] = "receive" => d # c /\ cpc'[d] = "receive"
  BY <1>0, <1>2
<1>9. Sessions'
  BY <1>0, <1>2, <1>3 DEF Calm, Sessions
<1>10. Owner'
  <2>1. ASSUME stage > 1 \/ spc \in {"answer", "send"}
        PROVE  qc \in MqClients /\ InSession(qc)'
    <3>1. qc \in MqClients /\ InSession(qc)
      BY <2>1 DEF Calm, Owner
    <3>2. ~Between(1)
      BY <2>1 DEF Between, Attentive
    <3> QED
      BY <1>0, <1>3, <1>7, <3>1, <3>2 DEF InSession
  <2>2. ASSUME qc \in MqClients, ~InSession(qc)'
        PROVE  \/ spc = "handle" /\ msg.from = Minus1
               \/ queue'[1] # <<>> /\ queue'[1][1].from = Minus1
    <3>1. CASE InSession(qc)
      <4>1. NoRequests
        BY <1>0, <1>3, <1>7, <2>2, <3>1 DEF Between, InSession
      <4>2. queue[1] # <<>> => queue[1][1].from = Minus1
        <5>1. Len(queue[1]) \in Nat /\ queue[1] \in Seq(Messages)
          BY <1>1, LenProperties DEF MqTypes
        <5>2. queue[1] # <<>> => 1 \in 1..Len(queue[1])
          BY <5>1
        <5> QED
          BY <1>1, <4>1, <5>2 DEF NoRequests
      <4> QED
        BY <1>1, <1>2, <4>2
    <3>2. CASE ~InSession(qc)
      <4>1. \/ spc = "handle" /\ msg.from = Minus1
            \/ queue[1] # <<>> /\ queue[1][1].from = Minus1
        BY <2>2, <3>2 DEF Calm, Owner
      <4> QED
        BY <1>2, <4>1
    <3> QED
      BY <3>1, <3>2
  <2> QED
    BY <1>0, <2>1, <2>2 DEF Owner
<1>11. Asked'
  <2>1. ASSUME NEW s \in Stages, NEW i \in 1..Len(queue'[s]), queue'[s][i].from # Minus1
        PROVE  /\ i \in 1..Len(queue[s]) /\ queue'[s][i] = queue[s][i]
               /\ queue[s][i].from # Minus1
    BY <1>1, <1>2, <2>1
  <2>2. ASSUME NEW s \in Stages, NEW i \in 1..Len(queue'[s])
        PROVE  IF queue'[s][i].from = Minus1 THEN s = 1
               ELSE LET d == queue'[s][i].from
                    IN  /\ cpc'[d] = "receive" /\ cstage'[d] = s /\ queue'[s][i] = cmsg'[d]
                        /\ stage' = s /\ Attentive'
    <3>1. CASE queue'[s][i].from = Minus1
      BY <1>2, <3>1 DEF Calm, Asked
    <3>2. CASE queue'[s][i].from # Minus1
      <4>1. /\ i \in 1..Len(queue[s]) /\ queue'[s][i] = queue[s][i]
            /\ queue[s][i].from # Minus1
        BY <2>1, <3>2
      <4>2. queue[s][i].from \in MqClients
        BY <4>1, GoodbyeTyped DEF MqTypes
      <4>3. /\ cpc[queue[s][i].from] = "receive" /\ cstage[queue[s][i].from] = s
            /\ queue[s][i] = cmsg[queue[s][i].from] /\ stage = s /\ Attentive
        BY <4>1 DEF Calm, Asked
      <4> QED
        BY <1>0, <1>5, <1>8, <3>2, <4>1, <4>2, <4>3
    <3> QED
      BY <3>1, <3>2
  <2>3. \A s \in Stages : \A i, k \in 1..Len(queue'[s]) :
          queue'[s][i].from # Minus1 /\ queue'[s][k].from # Minus1 => i = k
    BY <2>1 DEF Calm, Asked
  <2> QED
    BY <2>2, <2>3 DEF Asked
<1>12. InHand'
  <2> SUFFICES ASSUME spc \in {"handle", "answer", "send", "trapped"}, msg.from # Minus1
               PROVE  cpc'[msg.from] = "receive"
    BY <1>0 DEF Calm, InHand
  <2>1. msg.from \in MqClients
    BY GoodbyeTyped DEF MqTypes
  <2> QED
    BY <1>8, <2>1 DEF Calm, InHand
<1>13. Answered'
  BY <1>0, <1>4, <1>5, <1>8 DEF Calm, Answered
<1>14. Rests'
  <2>1. \A d \in MqClients : cstage[d] \in Stages
    BY DEF MqTypes
  <2>2. (\A d \in MqClients : ~InSession(d)') => Between(1)
    <3>1. CASE InSession(c)
      BY <1>7, <3>1
    <3>2. CASE ~InSession(c)
      BY <1>3, <3>2 DEF Calm, Rests
    <3> QED
      BY <3>1, <3>2
  <2> QED
    BY <1>0, <1>1, <1>2, <1>3, <1>6, <2>1, <2>2 DEF Calm, Rests
<1> QED
  BY <1>9, <1>10, <1>11, <1>12, <1>13, <1>14 DEF Calm

\* A request is the only message about.
LEMMA SendStageCalm ==
  ASSUME MqTypes, Calm, NEW c \in MqClients, SendStage(c)
  PROVE  Calm'
<1> DEFINE s == cstage[c]
<1>0. /\ cpc[c] = "send" /\ Put(c, s, cmsg[c], "receive")
      /\ UNCHANGED <<end, spc, stage, qc, msg, cstage, cmsg, n, clinked, answers, calm>>
  BY DEF SendStage, mqServer
<1>1. s \in Stages /\ cmsg[c] \in Messages /\ 1 \in Stages
  BY DEF MqTypes, Stages
<1>2. /\ \A r \in Stages : \A i \in 1..Len(queue'[r]) :
              \/ i \in 1..Len(queue[r]) /\ queue'[r][i] = queue[r][i]
              \/ r = s /\ i = Len(queue[s]) + 1 /\ queue'[r][i] = cmsg[c]
      /\ \A r \in Stages : queue[r] # <<>> => queue'[r] # <<>> /\ queue'[r][1] = queue[r][1]
      /\ cpc'[c] = "receive" /\ \A d \in MqClients : d # c => cpc'[d] = cpc[d]
  BY <1>0, <1>1, PutKeeps
<1>3. InSession(c) /\ \A d \in MqClients : InSession(d) => d = c
  BY <1>0, OneSession
<1>4. \A d \in MqClients : InSession(d)' <=> InSession(d)
  BY <1>0, <1>2 DEF InSession
<1>5. Between(s)
  BY <1>0, <1>3 DEF Calm, Rests
<1>6. stage = s /\ Attentive /\ NoRequests /\ \A d \in MqClients : answers[d] = <<>>
  BY <1>5 DEF Between
<1>7. Attentive'
  BY <1>0, <1>6 DEF Attentive
<1>8. cmsg[c].from = c /\ c # Minus1
  BY <1>0, MqAssumption DEF Calm, Sessions
<1>9. Sessions'
  BY <1>0, <1>2, <1>4 DEF Calm, Sessions
<1>10. Owner'
  BY <1>0, <1>1, <1>2, <1>4 DEF Calm, Owner
<1>11. Asked'
  <2>1. ASSUME NEW r \in Stages, NEW i \in 1..Len(queue'[r]), queue'[r][i].from # Minus1
        PROVE  r = s /\ i = Len(queue[s]) + 1 /\ queue'[r][i] = cmsg[c]
    BY <1>2, <1>6, <2>1 DEF NoRequests
  <2>2. ASSUME NEW r \in Stages, NEW i \in 1..Len(queue'[r]), queue'[r][i].from = Minus1
        PROVE  r = 1
    <3>1. i \in 1..Len(queue[r]) /\ queue'[r][i] = queue[r][i]
      BY <1>2, <1>8, <2>2
    <3> QED
      BY <2>2, <3>1 DEF Calm, Asked
  <2>3. \A r \in Stages : \A i \in 1..Len(queue'[r]) :
          IF queue'[r][i].from = Minus1 THEN r = 1
          ELSE LET d == queue'[r][i].from
               IN  /\ cpc'[d] = "receive" /\ cstage'[d] = r /\ queue'[r][i] = cmsg'[d]
                   /\ stage' = r /\ Attentive'
    BY <1>0, <1>2, <1>6, <1>7, <1>8, <2>1, <2>2
  <2>4. \A r \in Stages : \A i, k \in 1..Len(queue'[r]) :
          queue'[r][i].from # Minus1 /\ queue'[r][k].from # Minus1 => i = k
    BY <2>1
  <2> QED
    BY <2>3, <2>4 DEF Asked
<1>12. InHand'
  <2> SUFFICES ASSUME spc \in {"handle", "answer", "send", "trapped"}
               PROVE  spc = "handle" /\ msg.from = Minus1 /\ stage = 1
    BY <1>0 DEF InHand
  <2>1. spc = "handle" /\ msg.from = Minus1
    BY <1>6 DEF Attentive
  <2> QED
    BY <2>1 DEF Calm, InHand
<1>13. Answered'
  BY <1>0, <1>6 DEF Answered
<1>14. Rests'
  BY <1>2, <1>3, <1>4 DEF Rests
<1> QED
  BY <1>9, <1>10, <1>11, <1>12, <1>13, <1>14 DEF Calm

\* An answer that is taken leaves nothing behind.
LEMMA GetAnswerCalm ==
  ASSUME MqTypes, Calm, NEW c \in MqClients, GetAnswer(c)
  PROVE  Calm'
<1>0. /\ cpc[c] = "receive" /\ answers[c] # <<>>
      /\ answers' = [answers EXCEPT ![c] = Tail(answers[c])]
      /\ cstage' = [cstage EXCEPT ![c] = (cstage[c] % 3) + 1]
      /\ cpc' = [cpc EXCEPT ![c] = NextLabel(c)]
      /\ UNCHANGED <<end, spc, stage, qc, msg, queue, cmsg, n, clinked, calm>>
  BY DEF GetAnswer, NextStage, mqServer, MqTypes
<1>1. /\ Len(answers[c]) = 1 /\ stage = (cstage[c] % 3) + 1 /\ Attentive /\ NoRequests
  BY <1>0 DEF Calm, Answered
<1>2. answers[c] \in Seq(AnswerSet)
  BY DEF MqTypes
<1>3. Tail(answers[c]) \in Seq(AnswerSet) /\ Len(Tail(answers[c])) = 0
  BY <1>0, <1>1, <1>2, HeadTailProperties
<1>4. Tail(answers[c]) = <<>>
  BY <1>3, EmptySeq
<1>5. /\ cstage'[c] = stage /\ cpc'[c] = NextLabel(c) /\ answers'[c] = <<>>
      /\ \A d \in MqClients : d # c => /\ cpc'[d] = cpc[d] /\ cstage'[d] = cstage[d]
                                       /\ answers'[d] = answers[d]
  BY <1>0, <1>1, <1>4 DEF MqTypes
<1>6. InSession(c) /\ \A d \in MqClients : InSession(d) => d = c
  BY <1>0, OneSession
<1>7. NextLabel(c) \in {"send", "idle"} /\ (NextLabel(c) = "idle" => stage = 1)
  <2>1. cstage[c] \in 1..3
    BY DEF MqTypes, Stages
  <2>2. ~(cstage[c] < 3) => cstage[c] = 3
    BY <2>1
  <2> QED
    BY <1>1, <2>2 DEF NextLabel
<1>8. \A d \in MqClients : answers'[d] = <<>>
  <2> SUFFICES ASSUME NEW d \in MqClients, d # c, answers[d] # <<>> PROVE FALSE
    BY <1>5
  <2>1. cpc[d] = "receive"
    BY DEF Calm, Answered
  <2> QED
    BY <1>6, <2>1, OneSession
<1>9. \A d \in MqClients : InSession(d)' <=> InSession(d)
  BY <1>0, <1>5, <1>7 DEF InSession
<1>10. Attentive' /\ NoRequests'
  BY <1>0, <1>1 DEF Attentive, NoRequests
<1>11. Between(stage)'
  BY <1>8, <1>10 DEF Between
<1>12. Sessions'
  BY <1>0, <1>5, <1>7, <1>9 DEF Calm, Sessions
<1>13. Owner'
  BY <1>0, <1>9 DEF Calm, Owner
<1>14. Asked'
  <2>1. \A s \in Stages : \A i \in 1..Len(queue'[s]) : s = 1
    BY <1>0, <1>1 DEF Calm, Asked, NoRequests
  <2> QED
    BY <1>10, <2>1 DEF Asked, NoRequests
<1>15. InHand'
  <2> SUFFICES ASSUME spc \in {"handle", "answer", "send", "trapped"}
               PROVE  spc = "handle" /\ msg.from = Minus1 /\ stage = 1
    BY <1>0 DEF InHand
  <2>1. spc = "handle" /\ msg.from = Minus1
    BY <1>1 DEF Attentive
  <2> QED
    BY <2>1 DEF Calm, InHand
<1>16. Answered'
  BY <1>8 DEF Answered
<1>17. Rests'
  <2>1. cpc'[c] = "idle" => Between(1)'
    BY <1>0, <1>5, <1>7, <1>11 DEF Between
  <2>2. Between(cstage[c])'
    BY <1>0, <1>5, <1>11 DEF Between
  <2> QED
    BY <1>6, <1>9, <2>1, <2>2 DEF Rests
<1> QED
  BY <1>12, <1>13, <1>14, <1>15, <1>16, <1>17 DEF Calm

\* While all is calm no client has timed out.
LEMMA ClientCalm ==
  ASSUME MqTypes, Calm, NEW c \in MqClients, Client(c), calm'
  PROVE  Calm'
<1>1. ~TimeOut(c) /\ ~InvalidTime(c)
  BY DEF TimeOut, InvalidTime
<1>2. ~TellTimeOut(c)
  BY DEF TellTimeOut, Calm, Sessions
<1> QED
  BY <1>1, <1>2, OpenCalm, ReadNumbersCalm, LeaveCalm, SendStageCalm, GetAnswerCalm DEF Client

LEMMA CalmBefore == MqNext /\ calm' => calm
BY DEF MqNext, Server, MqSigint, Loop, TestEnd, Receive, HandleClosed, HandleSum, HandleDivision, Send,
       Client, Open, ReadNumbers, Leave, Unlink, SendStage, GetAnswer, TimeOut, TellTimeOut, InvalidTime

-----------------------------------------------------------------------------
\* The inductive invariant holds at first and after every step.
THEOREM MqInductive == MqSpec => []MqInv
<1>1. MqInit => MqInv
  <2> SUFFICES ASSUME MqInit PROVE MqInv
    OBVIOUS
  <2> USE MqAssumption
  <2>1. 1 \in Stages /\ 0 \in 0..MaxRequests /\ MAXMSG \in Nat
    BY DEF Stages
  <2>2. msg \in Messages /\ Goodbye \in Messages
    BY GoodbyeTyped DEF MqInit
  <2>3. <<>> \in Seq(Messages) /\ <<>> \in Seq(AnswerSet) /\ Len(<<>>) = 0
    OBVIOUS
  <2>4. /\ \A s \in Stages : queue[s] = <<>>
        /\ \A c \in MqClients : cpc[c] = "start" /\ n[c] = 0 /\ answers[c] = <<>>
    BY DEF MqInit
  <2>5. queue \in [Stages -> Seq(Messages)] /\ answers \in [MqClients -> Seq(AnswerSet)]
    BY <2>3 DEF MqInit
  <2>6. /\ \A s \in Stages : Len(queue[s]) <= MAXMSG
        /\ \A c \in MqClients : Len(answers[c]) <= MAXMSG
    BY <2>3, <2>4
  <2>7. /\ cpc \in [MqClients -> {"start", "idle", "send", "receive", "timedout", "unlink",
                                  "ended", "dead"}]
        /\ cstage \in [MqClients -> Stages] /\ cmsg \in [MqClients -> Messages]
        /\ n \in [MqClients -> 0..MaxRequests] /\ clinked \in [MqClients -> BOOLEAN]
    BY <2>1, <2>2 DEF MqInit
  <2>8. /\ end = FALSE /\ linked = TRUE /\ calm = TRUE /\ spc = "loop" /\ stage = 1 /\ qc = Minus1
    BY DEF MqInit
  <2>9. MqTypes
    BY <2>1, <2>2, <2>5, <2>6, <2>7, <2>8 DEF MqTypes
  <2>10. OpenWhileAnswering
    BY <2>8 DEF OpenWhileAnswering
  <2>11. \A c \in MqClients : ~InSession(c)
    <3>1. ~(0 > 0)
      OBVIOUS
    <3>2. \A c \in MqClients : n[c] = 0
      BY <2>4
    <3> QED
      BY <3>1, <3>2 DEF InSession
  <2>12. \A s \in Stages : 1..Len(queue[s]) = {}
    BY <2>3, <2>4
  <2>13. Between(1)
    BY <2>4, <2>8, <2>12 DEF Between, Attentive, NoRequests
  <2>14. Sessions /\ Owner /\ Asked /\ InHand /\ Answered
    BY <2>4, <2>8, <2>11, <2>12 DEF Sessions, Owner, Asked, InHand, Answered
  <2>15. Rests
    BY <2>11, <2>13 DEF Rests
  <2> QED
    BY <2>9, <2>10, <2>14, <2>15 DEF MqInv, Calm
<1>2. MqInv /\ [MqNext]_mqVars => MqInv'
  <2> SUFFICES ASSUME MqInv, [MqNext]_mqVars PROVE MqInv'
    OBVIOUS
  <2>1. CASE MqNext
    <3>1. MqTypes' /\ OpenWhileAnswering'
      BY <2>1, ServerTypes, ClientTypes DEF MqInv, MqNext
    <3>2. ASSUME calm' PROVE Calm'
      <4>1. MqTypes /\ Calm
        BY <2>1, <3>2, CalmBefore DEF MqInv
      <4>2. CASE Server
        BY <4>1, <4>2, LoopCalm, TestEndCalm, ReceiveCalm, HandleClosedCalm, HandleSumCalm,
           HandleDivisionCalm, SendCalm DEF Server
      <4>3. CASE MqSigint
        BY <3>2, <4>3 DEF MqSigint
      <4>4. ASSUME NEW c \in MqClients, Client(c) PROVE Calm'
        BY <3>2, <4>1, <4>4, ClientCalm
      <4> QED
        BY <2>1, <4>2, <4>3, <4>4 DEF MqNext
    <3> QED
      BY <3>1, <3>2 DEF MqInv
  <2>2. CASE UNCHANGED mqVars
    <3>1. UNCHANGED <<end, spc, stage, qc, msg, queue, linked, cpc, cstage, cmsg, n, clinked, answers, calm>>
      BY <2>2 DEF mqVars, mqServer, clients
    <3>2. MqTypes' /\ OpenWhileAnswering'
      BY <3>1 DEF MqInv, MqTypes, OpenWhileAnswering
    <3>3. ASSUME calm' PROVE Calm'
      <4>1. MqTypes /\ Calm
        BY <3>1, <3>3 DEF MqInv
      <4>2. (Attentive' <=> Attentive) /\ spc' \notin {"killed", "ended"}
        BY <3>1, <4>1 DEF Attentive, Calm, Sessions
      <4>3. Sessions' /\ Asked' /\ Answered' /\ Rests'
        BY <3>1, <4>1, <4>2, StillCalm
      <4>4. Owner'
        BY <3>1, <4>1 DEF Calm, Owner, InSession
      <4>5. InHand'
        BY <3>1, <4>1 DEF Calm, InHand
      <4> QED
        BY <4>3, <4>4, <4>5 DEF Calm
    <3> QED
      BY <3>2, <3>3 DEF MqInv
  <2> QED
    BY <2>1, <2>2
<1> QED
  BY <1>1, <1>2, PTL DEF MqSpec

\* Every variable keeps to its type, and no queue to more than mq_maxmsg.
THEOREM MqTypeCorrect == MqSpec => []MqTypeOK
<1>1. MqInv => MqTypeOK
  <2> SUFFICES ASSUME MqTypes PROVE MqTypeOK
    BY DEF MqInv
  <2>1. DOMAIN queue = Stages
    BY DEF MqTypes
  <2>2. \A s \in Stages : \A i \in 1..Len(queue[s]) : queue[s][i] \in Messages
    BY DEF MqTypes
  <2> QED
    BY <2>1, <2>2 DEF MqTypes, MqTypeOK
<1> QED
  BY <1>1, MqInductive, PTL

\* While all is calm the server lives, and the only answer a client can find is
\* the one to its own last message.
THEOREM ServerInStep == MqSpec => []InStep
<1>1. MqInv => InStep
  <2> SUFFICES ASSUME MqTypes, Calm PROVE InStep
    BY DEF MqInv, InStep
  <2>1. spc # "killed"
    BY DEF Calm, Sessions
  <2>2. ASSUME NEW c \in MqClients, NEW i \in 1..Len(answers[c])
        PROVE  /\ cpc[c] = "receive"
               /\ answers[c][i] = [from |-> c, n |-> cmsg[c].n, stage |-> cstage[c]]
    <3>1. Len(<<>>) = 0
      OBVIOUS
    <3>2. answers[c] # <<>>
      BY <3>1
    <3>3. Len(answers[c]) = 1
      BY <3>2 DEF Calm, Answered
    <3>4. i = 1
      BY <3>3
    <3> QED
      BY <3>2, <3>4 DEF Calm, Answered
  <2> QED
    BY <2>1, <2>2 DEF InStep
<1> QED
  BY <1>1, MqInductive, PTL

\* Whatever times out, dies or interrupts, nothing is sent on the closed
\* descriptor and no numbers of a -1 message are divided.
THEOREM ClosedLoops == MqSpec => []ClosedMeansLoop
<1>1. MqInv => ClosedMeansLoop
  BY DEF MqInv, OpenWhileAnswering, ClosedMeansLoop
<1> QED
  BY <1>1, MqInductive, PTL
===============================================================================
