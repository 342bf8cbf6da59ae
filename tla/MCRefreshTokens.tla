--------------------------- MODULE MCRefreshTokens ---------------------------
(* RefreshTokens on a small instance: row ids and requests are interchangeable,
   and so are users.                                                         *)
EXTENDS RefreshTokens, TLC

RowSymmetry == Permutations(Tokens) \union Permutations(Requests)
                 \union Permutations(Users)
===============================================================================
