----------------------------- MODULE TokenLedger -----------------------------
(***************************************************************************)
(* What the refresh_token table promises whatever the interleaving of the  *)
(* requests that write it: a token is issued once, into a family that      *)
(* belongs to one user and has one expiry date for its whole life; only a  *)
(* token already revoked has a successor; and a revoked token stays        *)
(* revoked.  RefreshTokens implements this module.                         *)
(***************************************************************************)
EXTENDS Naturals

CONSTANTS Users,    \* accounts
          Tokens,   \* primary keys of the rows that may ever be inserted
          Times,    \* the dates a row may carry
          None      \* "no value"

VARIABLES state,    \* "unused" (no row yet), "active" or "revoked"
          owner,    \* the user a token was issued to
          family,   \* the first token of the chain a token belongs to
          expiry    \* the date after which a token is refused

vars == <<state, owner, family, expiry>>

Init ==
  /\ state  = [t \in Tokens |-> "unused"]
  /\ owner  = [t \in Tokens |-> None]
  /\ family = [t \in Tokens |-> None]
  /\ expiry = [t \in Tokens |-> 0]

\* Row t appears, active, with the given columns.
Issue(t, u, f, e) ==
  /\ state[t] = "unused"
  /\ state'  = [state  EXCEPT ![t] = "active"]
  /\ owner'  = [owner  EXCEPT ![t] = u]
  /\ family' = [family EXCEPT ![t] = f]
  /\ expiry' = [expiry EXCEPT ![t] = e]

\* A sign-in opens a family: its first token names it.
Open(t, u, e) == Issue(t, u, t, e)

\* A rotation hands the place of a spent token p over to t.
Succeed(t, p) ==
  /\ state[p] = "revoked"
  /\ Issue(t, owner[p], family[p], expiry[p])

\* The tokens of u that may still be used.
Held(u) == {t \in Tokens : state[t] = "active" /\ owner[t] = u}

\* Some of one user's tokens are withdrawn.
Revoke(u) ==
  /\ \E S \in SUBSET Held(u) :
       state' = [t \in Tokens |-> IF t \in S THEN "revoked" ELSE state[t]]
  /\ UNCHANGED <<owner, family, expiry>>

Next ==
  \/ \E u \in Users : Revoke(u)
  \/ \E t, p \in Tokens : Succeed(t, p)
  \/ \E t \in Tokens, u \in Users, e \in Times : Open(t, u, e)

Spec == Init /\ [][Next]_vars
===============================================================================
