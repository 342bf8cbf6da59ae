--------------------------- MODULE MCSignInSession ---------------------------
(* SignInSession on a small instance, where any email may be typed into the
   forms of any session: ids, tokens and requests are interchangeable.       *)
EXTENDS SignInSession, TLC

AnyEmail == [s \in Sessions |-> Users]

IdSymmetry == Permutations(Sessions) \union Permutations(Tokens)
                \union Permutations(Requests) \union Permutations(Users)
===============================================================================
