------------------------------- MODULE MCStartUp -------------------------------
(* StartUp on two processes: small enough without symmetry, which liveness
   would not allow.                                                          *)
EXTENDS StartUp
===============================================================================
