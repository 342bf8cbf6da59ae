------------------------------- MODULE MCSignUp -------------------------------
(* Sign-up on a small instance: one email, in two tenants.  Identifiers are
   taken in order, so no symmetry is needed; a liveness property allows none. *)
EXTENDS SignUp
===============================================================================
