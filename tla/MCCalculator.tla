---------------------------- MODULE MCCalculator ----------------------------
(***************************************************************************)
(* Requests for the model checker, in integers of three bits: sums that do *)
(* and do not fit, quotients of either sign, the two divisions that have no*)
(* result, an operation that does not exist.                               *)
(***************************************************************************)
EXTENDS Calculator

MCRequests ==
  {<<3, 2, "+">>, <<-4, 1, "-">>, <<3, 3, "*">>,
   <<-3, 2, "/">>, <<1, 0, "/">>, <<-4, -1, "/">>, <<1, 1, "?">>}
=============================================================================
