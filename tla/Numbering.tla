----------------------------- MODULE Numbering -----------------------------
(* What the championship server of L2_4_Graded/server.c promises its       *)
(* players: each is given a number once, the numbers are 1, 2, ..., Limit  *)
(* in the order they are given, and no two players share one.              *)
EXTENDS Naturals

CONSTANTS Players, Limit
VARIABLE number     \* 0: no number yet

Taken(n) == \E p \in Players : number[p] = n

Init == number = [p \in Players |-> 0]

Give(p, n) ==
  /\ number[p] = 0
  /\ ~Taken(n)
  /\ \A k \in 1..(n - 1) : Taken(k)
  /\ number' = [number EXCEPT ![p] = n]

Next == \E p \in Players, n \in 1..Limit : Give(p, n)

Spec == Init /\ [][Next]_number
=============================================================================
