------------------------------- MODULE Pastry -------------------------------
(***************************************************************************)
(* L2_2/pastry_server.c and pastry_client.c: clients take cookies from one *)
(* non-blocking queue and put a request into another when there is none;   *)
(* the server bakes a cookie for each request, and two for each SIGUSR1.  A*)
(* client leaves after MISSES empty-handed tries in a row.                 *)
(*                                                                         *)
(* The handler of SIGUSR1 may run anywhere in the server, also between the *)
(* load and the store of usr1_rec--.  All messages look alike, so a queue  *)
(* is the number of its messages.                                          *)
(***************************************************************************)
EXTENDS Integers

CONSTANTS Customers,
          PASTRY_MAXMSG, \* mq_maxmsg of both queues
          MaxSigusr1s    \* bound

ASSUME PastryAssumption == PASTRY_MAXMSG \in Nat /\ MaxSigusr1s \in Nat

MISSES == 3

VARIABLES
  requests, cookies,               \* the two queues
  server, usr1_rec, int_rec, \* the server's position, its flags
  copy,                            \* the value of usr1_rec that -- has loaded
  customer, fail_count,            \* each client's position and variable
  sigusr1s, extra                  \* history: SIGUSR1s, cookies made for them

mqs == <<requests, cookies>>
flags == <<usr1_rec, int_rec>>
customers == <<customer, fail_count>>
history == <<sigusr1s, extra>>
pastryVars == <<mqs, server, flags, copy, customers, history>>

PastryInit ==
  /\ requests = 0 /\ cookies = 0
  /\ server = "initial" /\ usr1_rec = 0 /\ int_rec = FALSE /\ copy = 0
  /\ customer = [c \in Customers |-> "open"] /\ fail_count = [c \in Customers |-> 0]
  /\ sigusr1s = 0 /\ extra = 0

\* mq_send without the EAGAIN of a full queue.
Room(queue) == queue < PASTRY_MAXMSG

-----------------------------------------------------------------------------
(* The server.                                                             *)

\* initial_request tries until there is room.
InitialRequest ==
  /\ server = "initial" /\ Room(requests)
  /\ requests' = requests + 1
  /\ server' = "test"
  /\ UNCHANGED <<cookies, flags, copy, customers, history>>

\* while (!int_rec); after it the queues are closed and unlinked.
TestSigintRec ==
  /\ server = "test"
  /\ server' = IF int_rec THEN "ended" ELSE "check"
  /\ UNCHANGED <<mqs, flags, copy, customers, history>>

\* usr1_rec > 0, which is -1 after a round; the shorter test takes that for
\* a signal.
AnySignal == usr1_rec # 0
Signalled == usr1_rec > 0

CheckSigusr1 ==
  /\ server = "check"
  /\ server' = IF Signalled THEN "load" ELSE "receive"
  /\ UNCHANGED <<mqs, flags, copy, customers, history>>

\* while (usr1_rec--): a signal between the two steps is overwritten.
LoadRec ==
  /\ server = "load"
  /\ copy' = usr1_rec
  /\ server' = "store"
  /\ UNCHANGED <<mqs, flags, customers, history>>

StoreRec ==
  /\ server = "store"
  /\ usr1_rec' = copy - 1
  /\ server' = IF copy # 0 THEN "bake" ELSE "receive"
  /\ UNCHANGED <<mqs, int_rec, copy, customers, history>>

\* A full queue ends the round.
BakeExtra ==
  /\ server = "bake"
  /\ IF Room(cookies)
     THEN /\ cookies' = cookies + 1 /\ extra' = extra + 1
          /\ server' = "load" /\ UNCHANGED usr1_rec
     ELSE /\ usr1_rec' = 0
          /\ server' = "receive" /\ UNCHANGED <<cookies, extra>>
  /\ UNCHANGED <<requests, int_rec, copy, customers, sigusr1s>>

ReceiveRequest ==
  /\ server = "receive"
  /\ IF requests > 0 THEN requests' = requests - 1 /\ server' = "random"
                     ELSE server' = "test" /\ UNCHANGED requests
  /\ UNCHANGED <<cookies, flags, copy, customers, history>>

\* random_add; a cookie that finds no room is lost.
RandomAdd ==
  /\ server = "random"
  /\ cookies' = IF Room(cookies) THEN cookies + 1 ELSE cookies
  /\ server' = "receive"
  /\ UNCHANGED <<requests, flags, copy, customers, history>>

Sigusr1Handler ==
  /\ server # "ended" /\ sigusr1s < MaxSigusr1s
  /\ usr1_rec' = usr1_rec + 2
  /\ sigusr1s' = sigusr1s + 1
  /\ UNCHANGED <<mqs, server, int_rec, copy, customers, extra>>

SigintHandler ==
  /\ server # "ended"
  /\ int_rec' = TRUE
  /\ UNCHANGED <<mqs, server, usr1_rec, copy, customers, history>>

-----------------------------------------------------------------------------
(* A client.                                                               *)

OpenQueues(c) ==
  /\ customer[c] = "open"
  /\ customer' = [customer EXCEPT ![c] = IF server = "ended" THEN "left" ELSE "take"]
  /\ UNCHANGED <<mqs, server, flags, copy, fail_count, history>>

TakeCookie(c) ==
  /\ customer[c] = "take"
  /\ IF cookies > 0
     THEN /\ cookies' = cookies - 1
          /\ fail_count' = [fail_count EXCEPT ![c] = 0]
          /\ UNCHANGED customer
     ELSE /\ customer' = [customer EXCEPT ![c] = "request"]
          /\ UNCHANGED <<cookies, fail_count>>
  /\ UNCHANGED <<requests, server, flags, copy, history>>

\* add_request, fail_count++, and the test of the loop.
AddRequest(c) ==
  /\ customer[c] = "request"
  /\ requests' = IF Room(requests) THEN requests + 1 ELSE requests
  /\ fail_count' = [fail_count EXCEPT ![c] = @ + 1]
  /\ customer' = [customer EXCEPT ![c] = IF fail_count[c] + 1 < MISSES THEN "take" ELSE "left"]
  /\ UNCHANGED <<cookies, server, flags, copy, history>>

ServerStep == \/ InitialRequest \/ TestSigintRec \/ CheckSigusr1 \/ LoadRec \/ StoreRec
              \/ BakeExtra \/ ReceiveRequest \/ RandomAdd
CustomerStep(c) == OpenQueues(c) \/ TakeCookie(c) \/ AddRequest(c)

PastryNext ==
  \/ ServerStep \/ Sigusr1Handler \/ SigintHandler
  \/ \E c \in Customers : CustomerStep(c)

PastrySpec == PastryInit /\ [][PastryNext]_pastryVars

-----------------------------------------------------------------------------
\* The types of the variables.
PastryTypeOK ==
  /\ requests \in 0..PASTRY_MAXMSG /\ cookies \in 0..PASTRY_MAXMSG
  /\ server \in {"initial", "test", "check", "load", "store", "bake", "receive",
                 "random", "ended"}
  /\ usr1_rec \in Int /\ copy \in Int
  /\ int_rec \in BOOLEAN
  /\ customer \in [Customers -> {"open", "take", "request", "left"}]
  /\ fail_count \in [Customers -> 0..MISSES]
  /\ sigusr1s \in 0..MaxSigusr1s /\ extra \in Nat

\* The extra cookies that are made and those still owed are at most two for each
\* SIGUSR1 (line 30), however the signals meet the loop that counts down past 0
\* (line 57).
NoFreeCookies ==
  extra + (IF usr1_rec > 0 THEN usr1_rec ELSE 0) <= 2 * sigusr1s
=============================================================================
