------------------------------ MODULE MCAttempts ------------------------------
(* Attempts on a small instance: a counter that refuses at two, an account that
   locks at three.  No symmetry, for the liveness property allows none.       *)
EXTENDS Attempts
===============================================================================
