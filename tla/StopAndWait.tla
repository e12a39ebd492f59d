----------------------------- MODULE StopAndWait -----------------------------
(* What the UDP file transfer of L2_3/file_server.c and file_client_udp.c  *)
(* promises: the chunks of a file reach the server's output in order, the  *)
(* client confirms a chunk only after the server has printed it, and the   *)
(* server is never more than one chunk ahead of what the client has        *)
(* confirmed.                                                              *)
EXTENDS Naturals

CONSTANT Clients
VARIABLES len,        \* chunks of each client's file
          delivered,  \* chunks 1..delivered[c] have been printed
          confirmed   \* chunks 1..confirmed[c] are known to have been printed

vars == <<len, delivered, confirmed>>

Init == /\ len \in [Clients -> Nat \ {0}]
        /\ delivered = [c \in Clients |-> 0]
        /\ confirmed = [c \in Clients |-> 0]

Deliver(c) == /\ delivered[c] = confirmed[c] /\ delivered[c] < len[c]
              /\ delivered' = [delivered EXCEPT ![c] = @ + 1]
              /\ UNCHANGED <<len, confirmed>>

Confirm(c) == /\ confirmed[c] < delivered[c]
              /\ confirmed' = [confirmed EXCEPT ![c] = @ + 1]
              /\ UNCHANGED <<len, delivered>>

Next == \E c \in Clients : Deliver(c) \/ Confirm(c)

Spec == Init /\ [][Next]_vars
=============================================================================
