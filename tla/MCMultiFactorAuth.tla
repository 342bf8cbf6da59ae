--------------------------- MODULE MCMultiFactorAuth ---------------------------
(* MFA on a small instance: rows and recovery codes are numbered in order, so
   only the requests are alike; a liveness property allows no symmetry.       *)
EXTENDS MultiFactorAuth
===============================================================================
