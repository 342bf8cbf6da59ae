----------------------------- MODULE MCPasswords -----------------------------
(* Passwords on a small instance: the password values, the tokens and the
   requests are interchangeable; the rows are too, but for the first one.    *)
EXTENDS Passwords, TLC

ValueSymmetry == Permutations(Secrets) \union Permutations(Tokens)
                   \union Permutations(Requests) \union Permutations(Rows \ {First})
===============================================================================
