------------------------------ MODULE MCSettings ------------------------------
(* Settings on a small instance: two configurations of one scope; requests and
   configurations are interchangeable.                                        *)
EXTENDS Settings, TLC

RowSymmetry == Permutations(Requests) \union Permutations(Configs)
===============================================================================
