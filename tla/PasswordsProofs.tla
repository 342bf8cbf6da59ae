---------------------------- MODULE PasswordsProofs ----------------------------
(***************************************************************************)
(* Proofs about Passwords, for any account history, any tokens and any     *)
(* maximal age: the types for requests that overlap as they like, the four *)
(* properties of the passwords for requests that come one at a time.       *)
(*                                                                         *)
(* The argument: what a handler has read still holds when it writes,       *)
(* because nobody wrote in between (Intends); so the value it inserts is   *)
(* new, the account it inserts it into has no active password, and what it *)
(* revokes as expired is old.  From the new row to the DEL of the one-time *)
(* tokens the tokens are too old (Follow allows it); the DEL takes them.   *)
(* A reset refused in between (refused) leaves them for good.              *)
(***************************************************************************)
EXTENDS Passwords, FiniteSetTheorems, TLAPS

(* Requests do not overlap.                                                  *)
OneAtATime == \A r, s \in Requests : r = s

AtMostOne == \A p, q \in Active : p = q

Stored == \A type \in Types : ott[type] # None => ott[type] \in drawn

\* The steps of a handler that has stored its password and not done with the tokens.
Behind == {"readUnlock", "refreshTokens", "tokens"}
USE DEF Behind

Follow ==
  (/\ exists /\ ~failed /\ ~refused
   /\ \A r \in Requests : req[r].step \notin Behind) => TokensOfNow

(* What a handler that is about to write relies on.                          *)
Intends(r) ==
  /\ At(r, "insert") => Active = {}
  /\ req[r].step \in {"revoke", "insert"} => req[r].secret \notin Used
  /\ req[r].step \in {"consumeGet", "consumeDel", "resetCheck"} /\ req[r].type = "forgotPassword"
       => req[r].seen = Used
  /\ At(r, "resetCheck") => req[r].type = "forgotPassword"
  /\ At(r, "expire") => \A p \in Active : Outlived(p)
  /\ At(r, "job") => req[r].limit + MaxAge <= now

SerialInv ==
  /\ AtMostOne /\ SecretsDiffer /\ OnlyOldExpire
  /\ Stored /\ Follow
  /\ \A r \in Requests : Intends(r)

(* A row that was inserted holds a password; a request on its way to insert
   one brings it.                                                            *)
Written == \A p \in Rows : password[p].state # "unused" => password[p].secret # None

Brings(q) ==
  \/ q.step \in {"revoke", "insert", "resetCheck"}
  \/ q.step \in {"consumeGet", "consumeDel"} /\ q.type = "forgotPassword"

Brought == \A r \in Requests : Brings(req[r]) => req[r].secret # None

Typed == TypeOK /\ Written /\ Brought

-------------------------------------------------------------------------------
(* Requests and rows *)

(* A handler that goes on keeps what it has read.                            *)
LEMMA GotoEffect ==
  ASSUME TypeOK, NEW r \in Requests, NEW step \in Steps, Goto(r, step)
  PROVE  /\ req' \in [Requests -> Request]
         /\ req'[r].step = step
         /\ req'[r].secret = req[r].secret /\ req'[r].seen = req[r].seen
         /\ req'[r].type = req[r].type /\ req'[r].limit = req[r].limit
         /\ Brought /\ (Brings(req'[r]) => Brings(req[r])) => Brought'
<1> DEFINE q == [req[r] EXCEPT !.step = step]
<1>1. req \in [Requests -> Request] /\ req[r] \in Request
  BY DEF TypeOK
<1>2. /\ q \in Request /\ q.step = step /\ q.secret = req[r].secret /\ q.seen = req[r].seen
      /\ q.type = req[r].type /\ q.limit = req[r].limit
  BY <1>1 DEF Request
<1>3. req' = [req EXCEPT ![r] = q]
  BY DEF Goto
<1> HIDE DEF q
<1>4. /\ req' \in [Requests -> Request]
      /\ req'[r] = q
      /\ \A s \in Requests \ {r} : req'[s] = req[s]
  BY <1>1, <1>2, <1>3
<1>5. Brought /\ (Brings(req'[r]) => Brings(req[r])) => Brought'
  BY <1>2, <1>4 DEF Brought
<1> QED BY <1>2, <1>4, <1>5

LEMMA IdleIsRequest == Idle \in Request /\ Idle.step = "idle"
  BY BoundAssumption DEF Idle, Request, Steps, Types

LEMMA DoneEffect ==
  ASSUME TypeOK, NEW r \in Requests, Done(r)
  PROVE  /\ req' \in [Requests -> Request] /\ req'[r].step = "idle"
         /\ Brought => Brought'
<1>1. req \in [Requests -> Request]
  BY DEF TypeOK
<1>2. /\ req' \in [Requests -> Request] /\ req'[r].step = "idle"
      /\ \A s \in Requests \ {r} : req'[s] = req[s]
  BY <1>1, IdleIsRequest DEF Done
<1>3. ~Brings(req'[r])
  BY <1>2 DEF Brings
<1> QED BY <1>2, <1>3 DEF Brought

(* A handler that starts.                                                    *)
LEMMA BeginEffect ==
  ASSUME TypeOK, NEW r \in Requests, NEW q \in Request, req' = [req EXCEPT ![r] = q]
  PROVE  /\ req' \in [Requests -> Request] /\ req'[r] = q
         /\ Brought /\ (Brings(q) => q.secret # None) => Brought'
<1>1. /\ req' \in [Requests -> Request] /\ req'[r] = q
      /\ \A s \in Requests \ {r} : req'[s] = req[s]
  BY DEF TypeOK
<1> QED BY <1>1 DEF Brought

LEMMA RevokedRows ==
  ASSUME TypeOK, NEW S \in SUBSET Active, NEW reason \in {"changed", "forgotAndReset", "expired"},
         password' = Revoked(S, reason)
  PROVE  /\ password' \in [Rows -> Row]
         /\ \A p \in S : password'[p].reason = reason /\ password'[p].state = "revoked"
         /\ \A p \in Rows \ S : password'[p] = password[p]
         /\ \A p \in Rows : /\ password'[p].secret = password[p].secret
                            /\ password'[p].created = password[p].created
         /\ Issued' = Issued /\ Active' = Active \ S /\ Used' = Used
         /\ Written => Written'
<1>1. password \in [Rows -> Row] /\ S \subseteq Rows
  BY DEF TypeOK, Active
<1>2. ASSUME NEW p \in S
      PROVE  /\ password'[p] \in Row /\ password'[p].state = "revoked"
             /\ password'[p].reason = reason /\ password'[p].secret = password[p].secret
             /\ password'[p].created = password[p].created
  <2> DEFINE row == [password[p] EXCEPT !.state = "revoked", !.reason = reason]
  <2>1. password[p] \in Row
    BY <1>1
  <2>2. /\ row \in Row /\ row.state = "revoked" /\ row.reason = reason
        /\ row.secret = password[p].secret /\ row.created = password[p].created
    BY <2>1 DEF Row
  <2>3. password'[p] = row
    BY <1>1 DEF Revoked
  <2> HIDE DEF row
  <2> QED BY <2>2, <2>3
<1>3. \A p \in Rows \ S : password'[p] = password[p]
  BY DEF Revoked
<1>4. password' \in [Rows -> Row]
  <2>1. password' = [p \in Rows |-> password'[p]]
    BY DEF Revoked
  <2>2. \A p \in Rows : password'[p] \in Row
    BY <1>1, <1>2, <1>3
  <2> QED BY <2>1, <2>2
<1>5. \A p \in Rows : /\ password'[p].secret = password[p].secret
                      /\ password'[p].created = password[p].created
  BY <1>2, <1>3
<1>6. \A p \in S : password[p].state = "active" /\ password'[p].state = "revoked"
  BY <1>2 DEF Active
<1>7. Unused' = Unused
  <2>1. \A p \in Rows : password'[p].state = "unused" <=> password[p].state = "unused"
    BY <1>3, <1>6
  <2> QED BY <2>1 DEF Unused
<1>8. Issued' = Issued
  BY <1>7 DEF Issued
<1>9. Active' = Active \ S
  <2>1. \A p \in Rows : password'[p].state = "active"
                          <=> password[p].state = "active" /\ p \notin S
    BY <1>3, <1>6
  <2> QED BY <1>1, <2>1 DEF Active
<1>10. Used' = Used
  <2>1. Issued \subseteq Rows
    BY DEF Issued
  <2> QED BY <1>5, <1>8, <2>1 DEF Used
<1>11. Written => Written'
  <2>1. \A p \in Rows : password'[p].state # "unused" => password[p].state # "unused"
    BY <1>3, <1>6
  <2> QED BY <1>5, <2>1 DEF Written
<1> QED BY <1>2, <1>3, <1>4, <1>5, <1>8, <1>9, <1>10, <1>11

(* The rows of an account are at most as many as there are ids.              *)
LEMMA IssuedCount ==
  Cardinality(Rows) \in Nat /\ Cardinality(Issued) \in 0..Cardinality(Rows)
<1>1. Issued \subseteq Rows
  BY DEF Issued
<1>2. IsFiniteSet(Rows)
  BY RowsAssumption
<1>3. /\ IsFiniteSet(Issued)
      /\ Cardinality(Issued) <= Cardinality(Rows)
  BY <1>1, <1>2, FS_Subset
<1>4. Cardinality(Issued) \in Nat /\ Cardinality(Rows) \in Nat
  BY <1>2, <1>3, FS_CardinalityType
<1> QED BY <1>3, <1>4

LEMMA UsedAreSecrets ==
  ASSUME Typed
  PROVE  Used \subseteq Secrets
<1>1. \A p \in Issued : password[p].secret \in Secrets
  BY DEF Typed, Written, TypeOK, Issued, Unused, Row
<1> QED BY <1>1 DEF Used

-------------------------------------------------------------------------------
(* Types *)

(* The handlers of changePassword and resetPassword.                         *)
LEMMA ReplaceTyped ==
  ASSUME Typed, NEW r \in Requests, Replace(r)
  PROVE  Typed'
<1>0. /\ password \in [Rows -> Row] /\ req \in [Requests -> Request]
      /\ ott \in [Types -> Tokens \union {None}] /\ now \in 0..MaxNow
      /\ req[r] \in Request
  BY DEF TypeOK, Typed
<1>1. ASSUME NEW old \in Secrets, NEW new \in Secrets, BeginChange(r, old, new)
      PROVE  Typed'
  <2> DEFINE q == [Idle EXCEPT !.step = "revoke", !.secret = new, !.reason = "changed"]
  <2>1. q \in Request /\ (Brings(q) => q.secret # None)
    BY IdleIsRequest, NoneAssumption DEF Idle, Request, Steps, Brings
  <2>2. req' = [req EXCEPT ![r] = q]
    BY <1>1 DEF BeginChange
  <2> HIDE DEF q
  <2>3. req' \in [Requests -> Request] /\ Brought'
    BY <2>1, <2>2, BeginEffect DEF Typed
  <2> QED BY <1>1, <2>3 DEF BeginChange, TypeOK, history, Typed, Written
<1>2. CASE Revoke(r)
  <2>1. req[r].reason \in {"changed", "forgotAndReset", "expired"}
    BY <1>0 DEF Request
  <2>2. password' \in [Rows -> Row] /\ Written'
    BY <1>2, <2>1, RevokedRows DEF Revoke, Typed
  <2>3. req' \in [Requests -> Request] /\ Brought'
    BY <1>2, GotoEffect DEF Revoke, At, Steps, Typed, Brings
  <2> QED BY <1>2, <2>2, <2>3 DEF Revoke, TypeOK, history, Typed, Written
<1>3. CASE RevokeRefreshTokens(r)
  <2>1. req' \in [Requests -> Request] /\ Brought'
    BY <1>3, GotoEffect DEF RevokeRefreshTokens, Steps, Typed, Brings
  <2> QED BY <1>3, <2>1 DEF RevokeRefreshTokens, TypeOK, history, Typed, Written
<1>4. CASE RevokeTokens(r)
  <2>1. req' \in [Requests -> Request] /\ Brought'
    BY <1>4, DoneEffect DEF RevokeTokens, Typed
  <2> QED BY <1>4, <2>1 DEF RevokeTokens, TypeOK, history, Typed, Written
<1>5. ASSUME NEW p \in Rows, Insert(r, p) PROVE Typed'
  <2>1. CASE ~exists
    <3>1. Done(r) /\ password' = password
      BY <1>5, <2>1 DEF Insert
    <3>2. req' \in [Requests -> Request] /\ Brought'
      BY <3>1, DoneEffect DEF Typed
    <3> QED BY <1>5, <3>1, <3>2 DEF Insert, TypeOK, history, Typed, Written
  <2>2. CASE exists
    <3> DEFINE row == [state |-> "active", secret |-> req[r].secret, created |-> now,
                       reason |-> "none"]
    <3>0. req[r].secret # None
      BY <1>5 DEF Insert, At, Typed, Brought, Brings
    <3>1. row \in Row /\ row.secret # None
      BY <1>0, <3>0 DEF Row, Request
    <3> DEFINE next == AfterInsert(req[r].reason)
    <3>2. Goto(r, next) /\ password' = [password EXCEPT ![p] = row]
      BY <1>5, <2>2 DEF Insert
    <3>5. next \in Behind /\ next \in Steps
      BY DEF AfterInsert, Steps
    <3> HIDE DEF row, next
    <3>3. password' \in [Rows -> Row] /\ Written'
      BY <1>0, <3>1, <3>2 DEF Typed, Written
    <3>4. req' \in [Requests -> Request] /\ Brought'
      BY <3>2, <3>5, GotoEffect DEF Typed, Brings
    <3> QED BY <1>5, <3>3, <3>4 DEF Insert, TypeOK, history, Typed, Written
  <2> QED BY <2>1, <2>2
<1>6. CASE ReadUnlock(r)
  <2>1. req' \in [Requests -> Request] /\ Brought'
    BY <1>6, GotoEffect, DoneEffect DEF ReadUnlock, Steps, Typed, Brings
  <2>2. refused' \in BOOLEAN
    BY <1>6, Zenon DEF ReadUnlock, Typed, TypeOK
  <2> QED BY <1>6, <2>1, <2>2 DEF ReadUnlock, TypeOK, Typed, Written
<1> QED BY <1>1, <1>2, <1>3, <1>4, <1>5, <1>6 DEF Replace

(* The handlers that draw or spend a one-time token.                         *)
LEMMA OneTimeTokenTyped ==
  ASSUME Typed, NEW r \in Requests, OneTimeToken(r)
  PROVE  Typed'
<1>0. /\ req \in [Requests -> Request] /\ req[r] \in Request
      /\ password \in [Rows -> Row]
      /\ ott \in [Types -> Tokens \union {None}] /\ req[r].type \in Types
  BY DEF TypeOK, Request, Typed
<1>1. CASE BeginForgot(r)
  <2> DEFINE q == [Idle EXCEPT !.step = "create", !.type = "forgotPassword"]
  <2>1. q \in Request /\ (Brings(q) => q.secret # None)
    BY IdleIsRequest DEF Idle, Request, Steps, Brings, Types
  <2>2. req' = [req EXCEPT ![r] = q]
    BY <1>1 DEF BeginForgot
  <2> HIDE DEF q
  <2>3. req' \in [Requests -> Request] /\ Brought'
    BY <2>1, <2>2, BeginEffect DEF Typed
  <2> QED BY <1>1, <2>3 DEF BeginForgot, TypeOK, history, Typed, Written
<1>2. ASSUME NEW s \in Secrets, BeginDelete(r, s) PROVE Typed'
  <2> DEFINE q == [Idle EXCEPT !.step = "create", !.type = "accountDeletion"]
  <2>1. q \in Request /\ (Brings(q) => q.secret # None)
    BY IdleIsRequest DEF Idle, Request, Steps, Brings, Types
  <2>2. req' = [req EXCEPT ![r] = q]
    BY <1>2 DEF BeginDelete
  <2> HIDE DEF q
  <2>3. req' \in [Requests -> Request] /\ Brought'
    BY <2>1, <2>2, BeginEffect DEF Typed
  <2> QED BY <1>2, <2>3 DEF BeginDelete, TypeOK, history, Typed, Written
<1>3. ASSUME NEW t \in Tokens, Create(r, t) PROVE Typed'
  <2>1. req' \in [Requests -> Request] /\ Brought'
    BY <1>3, DoneEffect DEF Create, Typed
  <2>2. ott' \in [Types -> Tokens \union {None}]
    BY <1>0, <1>3 DEF Create
  <2>3. age' \in [Tokens -> 0..Cardinality(Rows)]
    BY <1>3, IssuedCount DEF Create, TypeOK, Typed
  <2>4. drawn' \in SUBSET Tokens
    BY <1>3 DEF Create, TypeOK, Typed
  <2> QED BY <1>3, <2>1, <2>2, <2>3, <2>4 DEF Create, TypeOK, Typed, Written
<1>4. ASSUME NEW t \in Tokens, BeginDeleteValidate(r, t) PROVE Typed'
  <2> DEFINE q == [Idle EXCEPT !.step = "consumeGet", !.token = t, !.type = "accountDeletion"]
  <2>1. q \in Request /\ (Brings(q) => q.secret # None)
    BY IdleIsRequest DEF Idle, Request, Steps, Brings, Types
  <2>2. req' = [req EXCEPT ![r] = q]
    BY <1>4 DEF BeginDeleteValidate
  <2> HIDE DEF q
  <2>3. req' \in [Requests -> Request] /\ Brought'
    BY <2>1, <2>2, BeginEffect DEF Typed
  <2> QED BY <1>4, <2>3 DEF BeginDeleteValidate, TypeOK, history, Typed, Written
<1>5. ASSUME NEW t \in Tokens, NEW new \in Secrets, BeginReset(r, t, new) PROVE Typed'
  <2> DEFINE q == [Idle EXCEPT !.step = "consumeGet", !.secret = new, !.seen = Used,
                               !.token = t, !.type = "forgotPassword",
                               !.reason = "forgotAndReset"]
  <2>0. ASSUME NEW U \in SUBSET Secrets
        PROVE  LET x == [Idle EXCEPT !.step = "consumeGet", !.secret = new, !.seen = U,
                                     !.token = t, !.type = "forgotPassword",
                                     !.reason = "forgotAndReset"]
               IN  x \in Request /\ x.secret # None
    BY IdleIsRequest, NoneAssumption DEF Idle, Request, Steps, Types
  <2>1. q \in Request /\ (Brings(q) => q.secret # None)
    BY <2>0, UsedAreSecrets
  <2>2. req' = [req EXCEPT ![r] = q]
    BY <1>5 DEF BeginReset
  <2> HIDE DEF q
  <2>3. req' \in [Requests -> Request] /\ Brought'
    BY <2>1, <2>2, BeginEffect DEF Typed
  <2> QED BY <1>5, <2>3 DEF BeginReset, TypeOK, history, Typed, Written
<1>6. CASE ConsumeGet(r)
  <2>1. req' \in [Requests -> Request] /\ Brought'
    BY <1>6, GotoEffect, DoneEffect DEF ConsumeGet, At, Steps, Typed, Brings
  <2> QED BY <1>6, <2>1 DEF ConsumeGet, TypeOK, history, Typed, Written
<1>7. CASE ConsumeDel(r)
  <2>1. req' \in [Requests -> Request] /\ Brought'
    BY <1>7, GotoEffect DEF ConsumeDel, At, Steps, Typed, Brings
  <2>2. ott' \in [Types -> Tokens \union {None}]
    BY <1>0, <1>7 DEF ConsumeDel
  <2> QED BY <1>7, <2>1, <2>2 DEF ConsumeDel, TypeOK, history, Typed, Written
<1>8. CASE ResetCheck(r)
  <2>1. req' \in [Requests -> Request] /\ Brought'
    BY <1>8, GotoEffect, DoneEffect DEF ResetCheck, At, Steps, Typed, Brings
  <2> QED BY <1>8, <2>1 DEF ResetCheck, TypeOK, history, Typed, Written
<1>9. CASE Remove(r)
  <2>1. req' \in [Requests -> Request] /\ Brought'
    BY <1>9, DoneEffect DEF Remove, Typed
  <2>2. NoRow \in Row
    BY BoundAssumption DEF NoRow, Row
  <2>3. password' \in [Rows -> Row] /\ Written'
    BY <1>9, <2>2 DEF Remove, Written, NoRow
  <2> QED BY <1>9, <2>1, <2>3 DEF Remove, TypeOK, history, Typed, Written
<1> QED BY <1>1, <1>2, <1>3, <1>4, <1>5, <1>6, <1>7, <1>8, <1>9 DEF OneTimeToken

(* Sign-in with an expired password, and the nightly job.                    *)
LEMMA ExpiryTyped ==
  ASSUME Typed, NEW r \in Requests, Expiry(r)
  PROVE  Typed'
<1>0. now \in 0..MaxNow /\ password \in [Rows -> Row]
  BY DEF TypeOK, Typed
<1>1. ASSUME NEW s \in Secrets, BeginSignIn(r, s) PROVE Typed'
  <2>1. req' \in [Requests -> Request] /\ Brought'
    BY <1>1, GotoEffect DEF BeginSignIn, Steps, Typed, Brings
  <2> QED BY <1>1, <2>1 DEF BeginSignIn, TypeOK, history, Typed, Written
<1>2. CASE ExpirePassword(r)
  <2>1. req' \in [Requests -> Request] /\ Brought'
    BY <1>2, DoneEffect DEF ExpirePassword, Typed
  <2>2. password' \in [Rows -> Row] /\ Written'
    BY <1>2, RevokedRows DEF ExpirePassword, Typed
  <2> QED BY <1>2, <2>1, <2>2 DEF ExpirePassword, TypeOK, history, Typed, Written
<1>3. CASE BeginJob(r)
  <2>1. now - MaxAge \in 0..MaxNow
    BY <1>0, <1>3, BoundAssumption DEF BeginJob
  <2>2. ASSUME NEW limit \in 0..MaxNow
        PROVE  LET x == [Idle EXCEPT !.step = "job", !.limit = limit]
               IN  x \in Request /\ ~Brings(x)
    BY IdleIsRequest DEF Idle, Request, Steps, Brings
  <2>3. req' \in [Requests -> Request] /\ Brought'
    BY <1>3, <2>1, <2>2, BeginEffect DEF BeginJob, Typed
  <2> QED BY <1>3, <2>3 DEF BeginJob, TypeOK, history, Typed, Written
<1>4. CASE JobRevoke(r)
  <2>1. req' \in [Requests -> Request] /\ Brought'
    BY <1>4, DoneEffect DEF JobRevoke, Typed
  <2>2. password' \in [Rows -> Row] /\ Written'
    BY <1>4, RevokedRows DEF JobRevoke, Typed
  <2> QED BY <1>4, <2>1, <2>2 DEF JobRevoke, TypeOK, history, Typed, Written
<1> QED BY <1>1, <1>2, <1>3, <1>4 DEF Expiry

LEMMA TypeKept == Typed /\ [Next]_vars => Typed'
<1> SUFFICES ASSUME Typed, [Next]_vars PROVE Typed'
  OBVIOUS
<1>1. ASSUME NEW r \in Requests, Replace(r) \/ OneTimeToken(r) \/ Expiry(r) PROVE Typed'
  BY <1>1, ReplaceTyped, OneTimeTokenTyped, ExpiryTyped
<1>2. ASSUME NEW r \in Requests, Abort(r) PROVE Typed'
  <2>1. req' \in [Requests -> Request] /\ Brought'
    BY <1>2, DoneEffect DEF Abort, Typed
  <2> QED BY <1>2, <2>1 DEF Abort, TypeOK, Typed, Written
<1>3. ASSUME NEW type \in Types, Expire(type) PROVE Typed'
  BY <1>3 DEF Expire, TypeOK, history, Typed, Written, Brought
<1>4. CASE Tick
  <2>1. now' \in 0..MaxNow
    BY <1>4, BoundAssumption DEF Tick, TypeOK, Typed
  <2> QED BY <1>4, <2>1 DEF Tick, TypeOK, history, Typed, Written, Brought
<1>5. CASE LoseSetting
  <2>1. cached' \in BOOLEAN
    BY <1>5, Zenon DEF LoseSetting
  <2> QED BY <1>5, <2>1 DEF LoseSetting, TypeOK, history, Typed, Written, Brought
<1>6. CASE UNCHANGED vars
  BY <1>6 DEF vars, TypeOK, history, Typed, Written, Brought
<1> QED BY <1>1, <1>2, <1>3, <1>4, <1>5, <1>6 DEF Next

LEMMA TypeInit == Init => Typed
<1> SUFFICES ASSUME Init PROVE Typed
  OBVIOUS
<1>0. PICK s \in Secrets :
        password = [p \in Rows |-> IF p = First THEN [NoRow EXCEPT !.state = "active",
                                                                   !.secret = s]
                                   ELSE NoRow]
  BY DEF Init
<1>1. password \in [Rows -> Row] /\ Written
  <2> DEFINE row == [NoRow EXCEPT !.state = "active", !.secret = s]
  <2>1. NoRow \in Row /\ NoRow.state = "unused"
    BY BoundAssumption DEF NoRow, Row
  <2>2. row \in Row /\ row.secret # None
    BY <2>1, NoneAssumption DEF Row
  <2> HIDE DEF row
  <2> QED BY <1>0, <2>1, <2>2 DEF Written, row
<1>2. req \in [Requests -> Request] /\ Brought
  BY IdleIsRequest DEF Init, Brought, Brings
<1>3. age \in [Tokens -> 0..Cardinality(Rows)]
  <2>1. 0 \in 0..Cardinality(Rows)
    BY IssuedCount
  <2> QED BY <2>1 DEF Init
<1>4. /\ now \in 0..MaxNow /\ exists \in BOOLEAN /\ failed \in BOOLEAN
      /\ refused \in BOOLEAN /\ cached \in BOOLEAN
  <2>1. /\ now = 0 /\ exists = TRUE /\ failed = FALSE /\ refused = FALSE
        /\ cached \in BOOLEAN
    BY DEF Init
  <2>2. now \in 0..MaxNow
    BY <2>1, BoundAssumption
  <2>3. /\ exists \in BOOLEAN /\ failed \in BOOLEAN /\ refused \in BOOLEAN
        /\ cached \in BOOLEAN
    BY <2>1, Zenon
  <2> QED BY <2>2, <2>3
<1>5. ott \in [Types -> Tokens \union {None}] /\ drawn \in SUBSET Tokens
  BY DEF Init
<1> QED BY <1>1, <1>2, <1>3, <1>4, <1>5 DEF TypeOK, Typed

(* The state keeps its types, however the requests overlap.                  *)
THEOREM TypesHold == Spec => []TypeOK
<1>1. Typed => TypeOK
  BY DEF Typed
<1> QED BY <1>1, TypeInit, TypeKept, PTL DEF Spec

-------------------------------------------------------------------------------
(* Requests that come one at a time *)

(* Nobody writes a password while the clock goes on.                         *)
LEMMA SameRows ==
  ASSUME Typed, SerialInv, password' = password, now' \in Nat, now <= now'
  PROVE  /\ AtMostOne' /\ SecretsDiffer' /\ OnlyOldExpire'
         /\ Active' = Active /\ Used' = Used /\ Issued' = Issued
         /\ \A p \in Active : Outlived(p) => Outlived(p)'
<1>1. Active' = Active /\ Issued' = Issued /\ Used' = Used
  BY DEF Active, Unused, Issued, Used
<1>2. AtMostOne' /\ SecretsDiffer'
  BY <1>1 DEF SerialInv, AtMostOne, SecretsDiffer
<1>3. \A p \in Rows : password[p].created \in Nat
  BY DEF Typed, TypeOK, Row
<1>4. now \in Nat /\ MaxAge \in Nat
  BY BoundAssumption DEF Typed, TypeOK
<1>5. OnlyOldExpire'
  <2>1. \A p \in Issued : password[p].reason = "expired" => password[p].created + MaxAge <= now'
    BY <1>3, <1>4 DEF SerialInv, OnlyOldExpire, Issued
  <2> QED BY <1>1, <2>1 DEF OnlyOldExpire
<1>6. \A p \in Active : Outlived(p) => Outlived(p)'
  BY <1>3, <1>4 DEF Outlived, Active
<1> QED BY <1>1, <1>2, <1>5, <1>6

(* Passwords are revoked, as expired only old ones.                          *)
LEMMA FewerActive ==
  ASSUME Typed, SerialInv, NEW S \in SUBSET Active,
         NEW reason \in {"changed", "forgotAndReset", "expired"},
         password' = Revoked(S, reason), now' = now,
         reason = "expired" => \A p \in S : password[p].created + MaxAge <= now
  PROVE  AtMostOne' /\ SecretsDiffer' /\ OnlyOldExpire'
<1>1. /\ \A p \in S : password'[p].reason = reason /\ password'[p].state = "revoked"
      /\ \A p \in Rows \ S : password'[p] = password[p]
      /\ \A p \in Rows : /\ password'[p].secret = password[p].secret
                         /\ password'[p].created = password[p].created
      /\ Issued' = Issued /\ Active' = Active \ S
  BY RevokedRows DEF Typed
<1>2. Issued \subseteq Rows /\ S \subseteq Rows
  BY DEF Issued, Active
<1>3. AtMostOne'
  BY <1>1 DEF SerialInv, AtMostOne
<1>4. SecretsDiffer'
  BY <1>1, <1>2 DEF SerialInv, SecretsDiffer
<1>5. OnlyOldExpire'
  <2> SUFFICES ASSUME NEW p \in Issued, password'[p].reason = "expired"
               PROVE  password[p].created + MaxAge <= now
    BY <1>1, <1>2 DEF OnlyOldExpire
  <2>1. CASE p \in S
    BY <1>1, <2>1
  <2>2. CASE p \notin S
    BY <1>1, <1>2, <2>2 DEF SerialInv, OnlyOldExpire
  <2> QED BY <2>1, <2>2
<1> QED BY <1>3, <1>4, <1>5

(* The tokens are as they were, and no password came.                        *)
LEMMA SameTokens ==
  ASSUME ott' = ott, age' = age, drawn' = drawn, Issued' = Issued
  PROVE  (Stored => Stored') /\ (TokensOfNow <=> TokensOfNow')
  BY DEF Stored, TokensOfNow

(* One request at a time: what holds of the one holds of all.                *)
LEMMA OnlyThis ==
  ASSUME OneAtATime, NEW r \in Requests,
         AtMostOne', SecretsDiffer', OnlyOldExpire', Stored', Intends(r)',
         exists' /\ ~failed' /\ ~refused' /\ req'[r].step \notin Behind => TokensOfNow'
  PROVE  SerialInv'
<1>1. \A s \in Requests : s = r
  BY DEF OneAtATime
<1>2. \A s \in Requests : Intends(s)'
  BY <1>1
<1>3. Follow'
  BY DEF Follow
<1> QED BY <1>2, <1>3 DEF SerialInv

LEMMA FreshNow ==
  ASSUME SerialInv, OneAtATime, NEW r \in Requests, exists, ~failed, ~refused,
         req[r].step \notin Behind
  PROVE  TokensOfNow
<1>1. \A s \in Requests : s = r
  BY DEF OneAtATime
<1> QED BY <1>1 DEF SerialInv, Follow

(* changePassword and resetPassword.                                         *)
LEMMA ReplaceSerial ==
  ASSUME Typed, SerialInv, OneAtATime, NEW r \in Requests, Replace(r)
  PROVE  SerialInv'
<1>0. /\ password \in [Rows -> Row] /\ req[r] \in Request /\ now \in Nat
      /\ Intends(r) /\ Stored
  BY BoundAssumption DEF Typed, TypeOK, SerialInv
<1>1. ASSUME NEW old \in Secrets, NEW new \in Secrets, BeginChange(r, old, new)
      PROVE  SerialInv'
  <2> DEFINE q == [Idle EXCEPT !.step = "revoke", !.secret = new, !.reason = "changed"]
  <2>1. q \in Request /\ q.step = "revoke" /\ q.secret = new
    BY IdleIsRequest DEF Idle, Request, Steps
  <2>2. req' = [req EXCEPT ![r] = q]
    BY <1>1 DEF BeginChange
  <2> HIDE DEF q
  <2>3. req'[r].step = "revoke" /\ req'[r].secret = new
    BY <2>1, <2>2, BeginEffect DEF Typed
  <2>4. /\ now' = now /\ exists' = exists /\ password' = password /\ ott' = ott
        /\ drawn' = drawn /\ age' = age /\ failed' = failed /\ refused' = refused
        /\ req[r].step = "idle" /\ new \notin Used
    BY <1>1 DEF BeginChange, Starts, At, history
  <2>5. /\ AtMostOne' /\ SecretsDiffer' /\ OnlyOldExpire'
        /\ Used' = Used /\ Issued' = Issued
    BY <1>0, <2>4, SameRows
  <2>6. Stored' /\ (TokensOfNow <=> TokensOfNow')
    BY <1>0, <2>4, <2>5, SameTokens
  <2>7. Intends(r)'
    BY <2>3, <2>4, <2>5 DEF Intends, At
  <2>8. exists /\ ~failed /\ ~refused => TokensOfNow
    BY <2>4, FreshNow
  <2> QED BY <2>4, <2>5, <2>6, <2>7, <2>8, OnlyThis
<1>2. CASE Revoke(r)
  <2>1. req'[r].step = "insert" /\ req'[r].secret = req[r].secret
    BY <1>2, GotoEffect DEF Revoke, Typed, Steps
  <2>2. /\ now' = now /\ exists' = exists /\ ott' = ott
        /\ drawn' = drawn /\ age' = age /\ failed' = failed /\ refused' = refused
        /\ req[r].step = "revoke" /\ password' = Revoked(Active, req[r].reason)
    BY <1>2 DEF Revoke, At, history
  <2>3. req[r].reason \in {"changed", "forgotAndReset"}
    BY <1>0 DEF Request
  <2>4. Active' = {} /\ Used' = Used /\ Issued' = Issued
    BY <2>2, <2>3, RevokedRows DEF Typed
  <2>5. AtMostOne' /\ SecretsDiffer' /\ OnlyOldExpire'
    BY <2>2, <2>3, FewerActive
  <2>6. Stored' /\ (TokensOfNow <=> TokensOfNow')
    BY <1>0, <2>2, <2>4, SameTokens
  <2>7. Intends(r)'
    BY <1>0, <2>1, <2>2, <2>4 DEF Intends, At
  <2>8. exists /\ ~failed /\ ~refused => TokensOfNow
    BY <2>2, FreshNow
  <2> QED BY <2>2, <2>5, <2>6, <2>7, <2>8, OnlyThis
<1>3. CASE RevokeRefreshTokens(r)
  <2>1. req'[r].step = "tokens"
    BY <1>3, GotoEffect DEF RevokeRefreshTokens, Typed, Steps
  <2>2. /\ now' = now /\ password' = password /\ ott' = ott
        /\ drawn' = drawn /\ age' = age
    BY <1>3 DEF RevokeRefreshTokens, history
  <2>3. AtMostOne' /\ SecretsDiffer' /\ OnlyOldExpire' /\ Issued' = Issued
    BY <1>0, <2>2, SameRows
  <2>4. Stored'
    BY <1>0, <2>2, <2>3, SameTokens
  <2>5. Intends(r)'
    BY <2>1 DEF Intends, At
  <2> QED BY <2>1, <2>3, <2>4, <2>5, OnlyThis
<1>4. CASE RevokeTokens(r)
  <2>1. req'[r].step = "idle"
    BY <1>4, DoneEffect DEF RevokeTokens, Typed
  <2>2. now' = now /\ password' = password /\ ott' = [type \in Types |-> None]
    BY <1>4 DEF RevokeTokens
  <2>3. AtMostOne' /\ SecretsDiffer' /\ OnlyOldExpire'
    BY <1>0, <2>2, SameRows
  <2>4. Stored' /\ TokensOfNow'
    BY <2>2 DEF Stored, TokensOfNow
  <2>5. Intends(r)'
    BY <2>1 DEF Intends, At
  <2> QED BY <2>3, <2>4, <2>5, OnlyThis
<1>5. ASSUME NEW p \in Rows, Insert(r, p), exists PROVE SerialInv'
  <2> DEFINE row == [state |-> "active", secret |-> req[r].secret, created |-> now,
                     reason |-> "none"]
  <2>1. /\ row.state = "active" /\ row.secret = req[r].secret
        /\ row.reason = "none"
    OBVIOUS
  <2> DEFINE next == AfterInsert(req[r].reason)
  <2>2. /\ Goto(r, next) /\ password' = [password EXCEPT ![p] = row]
        /\ p \in Unused /\ req[r].step = "insert" /\ ott' = ott /\ drawn' = drawn
        /\ now' = now
    BY <1>5 DEF Insert, At
  <2>12. next \in {"refreshTokens", "readUnlock"} /\ next \in Steps
    BY DEF AfterInsert, Steps
  <2> HIDE DEF row, next
  <2>3. /\ password'[p] = row
        /\ \A o \in Rows \ {p} : password'[o] = password[o]
    BY <1>0, <2>2
  <2>4. req'[r].step \in {"refreshTokens", "readUnlock"}
    BY <2>2, <2>12, GotoEffect DEF Typed
  <2>5. Active = {} /\ req[r].secret \notin Used
    BY <1>0, <2>2 DEF Intends, At
  <2>6. /\ \A o \in Active' : o = p
        /\ \A o \in Issued' \ {p} : o \in Issued /\ password'[o] = password[o]
    BY <2>1, <2>3, <2>5 DEF Active, Issued, Unused
  <2>7. AtMostOne'
    BY <2>6 DEF AtMostOne
  <2>8. SecretsDiffer'
    <3>1. \A o \in Issued : password[o].secret \in Used
      BY DEF Used
    <3>2. \A o \in Issued' \ {p} : password'[o].secret # password'[p].secret
      BY <2>1, <2>3, <2>5, <2>6, <3>1
    <3> QED BY <2>6, <3>2 DEF SerialInv, SecretsDiffer
  <2>9. OnlyOldExpire'
    BY <2>1, <2>2, <2>3, <2>6 DEF SerialInv, OnlyOldExpire
  <2>10. Stored'
    BY <1>0, <2>2 DEF Stored
  <2>11. Intends(r)'
    BY <2>4 DEF Intends, At
  <2> QED BY <2>4, <2>7, <2>8, <2>9, <2>10, <2>11, OnlyThis
<1>6. ASSUME NEW p \in Rows, Insert(r, p), ~exists PROVE SerialInv'
  <2>1. /\ Done(r) /\ password' = password /\ now' = now /\ exists' = exists /\ ott' = ott
        /\ drawn' = drawn
    BY <1>6 DEF Insert
  <2>2. req'[r].step = "idle"
    BY <2>1, DoneEffect DEF Typed
  <2>3. AtMostOne' /\ SecretsDiffer' /\ OnlyOldExpire'
    BY <1>0, <2>1, SameRows
  <2>4. Stored' /\ Intends(r)'
    BY <1>0, <2>1, <2>2 DEF Stored, Intends, At
  <2> QED BY <1>6, <2>1, <2>3, <2>4, OnlyThis
<1>7. CASE ReadUnlock(r)
  <2>1. /\ now' = now /\ password' = password /\ ott' = ott
        /\ drawn' = drawn /\ age' = age
    BY <1>7 DEF ReadUnlock
  <2>2. AtMostOne' /\ SecretsDiffer' /\ OnlyOldExpire' /\ Issued' = Issued
    BY <1>0, <2>1, SameRows
  <2>3. Stored'
    BY <1>0, <2>1, <2>2, SameTokens
  <2>4. CASE Goto(r, "refreshTokens")
    <3>1. req'[r].step = "refreshTokens"
      BY <2>4, GotoEffect DEF Typed, Steps
    <3>2. Intends(r)'
      BY <3>1 DEF Intends, At
    <3> QED BY <2>2, <2>3, <3>1, <3>2, OnlyThis
  <2>5. CASE Done(r) /\ refused' = TRUE
    <3>1. req'[r].step = "idle"
      BY <2>5, DoneEffect DEF Typed
    <3>2. Intends(r)'
      BY <3>1 DEF Intends, At
    <3> QED BY <2>2, <2>3, <2>5, <3>2, OnlyThis
  <2> QED BY <1>7, <2>4, <2>5 DEF ReadUnlock
<1> QED BY <1>1, <1>2, <1>3, <1>4, <1>5, <1>6, <1>7 DEF Replace

(* forgotPassword, resetPassword up to its check, deleteAccount and its end.  *)
LEMMA OneTimeTokenSerial ==
  ASSUME Typed, SerialInv, OneAtATime, NEW r \in Requests, OneTimeToken(r)
  PROVE  SerialInv'
<1>0. /\ req[r] \in Request /\ now \in Nat /\ ott \in [Types -> Tokens \union {None}]
      /\ age \in [Tokens -> 0..Cardinality(Rows)] /\ req[r].type \in Types
      /\ Intends(r) /\ Stored
  BY BoundAssumption DEF Typed, TypeOK, SerialInv, Request
<1>1. ASSUME password' = password, now' = now, exists' = exists, failed' = failed,
             refused' = refused, ott' = ott, age' = age, drawn' = drawn, Intends(r)',
             req[r].step \notin Behind
      PROVE  SerialInv'
  <2>1. AtMostOne' /\ SecretsDiffer' /\ OnlyOldExpire' /\ Issued' = Issued
    BY <1>0, <1>1, SameRows
  <2>2. Stored' /\ (TokensOfNow <=> TokensOfNow')
    BY <1>0, <1>1, <2>1, SameTokens
  <2>3. exists /\ ~failed /\ ~refused => TokensOfNow
    BY <1>1, FreshNow
  <2> QED BY <1>1, <2>1, <2>2, <2>3, OnlyThis
<1>2. password' = password => Used' = Used
  BY DEF Used, Issued, Unused
<1>3. CASE BeginForgot(r)
  <2> DEFINE q == [Idle EXCEPT !.step = "create", !.type = "forgotPassword"]
  <2>1. q \in Request /\ q.step = "create"
    BY IdleIsRequest DEF Idle, Request, Steps, Types
  <2>2. req' = [req EXCEPT ![r] = q]
    BY <1>3 DEF BeginForgot
  <2> HIDE DEF q
  <2>3. req'[r].step = "create"
    BY <2>1, <2>2, BeginEffect DEF Typed
  <2>4. Intends(r)'
    BY <2>3 DEF Intends, At
  <2> QED BY <1>1, <1>3, <2>4 DEF BeginForgot, Starts, At, history
<1>4. ASSUME NEW s \in Secrets, BeginDelete(r, s) PROVE SerialInv'
  <2> DEFINE q == [Idle EXCEPT !.step = "create", !.type = "accountDeletion"]
  <2>1. q \in Request /\ q.step = "create"
    BY IdleIsRequest DEF Idle, Request, Steps, Types
  <2>2. req' = [req EXCEPT ![r] = q]
    BY <1>4 DEF BeginDelete
  <2> HIDE DEF q
  <2>3. req'[r].step = "create"
    BY <2>1, <2>2, BeginEffect DEF Typed
  <2>4. Intends(r)'
    BY <2>3 DEF Intends, At
  <2> QED BY <1>1, <1>4, <2>4 DEF BeginDelete, Starts, At, history
<1>5. ASSUME NEW t \in Tokens, Create(r, t) PROVE SerialInv'
  <2>1. req'[r].step = "idle"
    BY <1>5, DoneEffect DEF Create, Typed
  <2>2. /\ now' = now /\ password' = password /\ exists' = exists
        /\ failed' = failed /\ refused' = refused
        /\ t \notin drawn /\ drawn' = drawn \union {t} /\ req[r].step = "create"
        /\ ott' = [ott EXCEPT ![req[r].type] = t]
        /\ age' = [age EXCEPT ![t] = Cardinality(Issued)]
    BY <1>5 DEF Create, At
  <2>3. AtMostOne' /\ SecretsDiffer' /\ OnlyOldExpire' /\ Issued' = Issued
    BY <1>0, <2>2, SameRows
  <2>4. /\ ott'[req[r].type] = t /\ age'[t] = Cardinality(Issued)
        /\ \A type \in Types \ {req[r].type} : ott'[type] = ott[type]
        /\ \A u \in Tokens \ {t} : age'[u] = age[u]
    BY <1>0, <2>2
  <2>5. Stored'
    BY <1>0, <2>2, <2>4 DEF Stored
  <2>6. exists /\ ~failed /\ ~refused => TokensOfNow'
    <3>1. exists /\ ~failed /\ ~refused => TokensOfNow
      BY <2>2, FreshNow
    <3>2. \A type \in Types : ott[type] # None => ott[type] \in Tokens /\ ott[type] # t
      BY <1>0, <2>2 DEF Stored
    <3>3. ASSUME TokensOfNow, NEW type \in Types, ott'[type] # None
          PROVE  age'[ott'[type]] = Cardinality(Issued)
      <4>1. CASE type = req[r].type
        BY <2>4, <4>1
      <4>2. CASE type # req[r].type
        BY <2>4, <3>2, <3>3, <4>2 DEF TokensOfNow
      <4> QED BY <4>1, <4>2
    <3> QED BY <2>3, <3>1, <3>3 DEF TokensOfNow
  <2>7. Intends(r)'
    BY <2>1 DEF Intends, At
  <2> QED BY <2>2, <2>3, <2>5, <2>6, <2>7, OnlyThis
<1>6. ASSUME NEW t \in Tokens, BeginDeleteValidate(r, t) PROVE SerialInv'
  <2> DEFINE q == [Idle EXCEPT !.step = "consumeGet", !.token = t, !.type = "accountDeletion"]
  <2>1. q \in Request /\ q.step = "consumeGet" /\ q.type = "accountDeletion"
    BY IdleIsRequest DEF Idle, Request, Steps, Types
  <2>2. req' = [req EXCEPT ![r] = q]
    BY <1>6 DEF BeginDeleteValidate
  <2> HIDE DEF q
  <2>3. req'[r].step = "consumeGet" /\ req'[r].type = "accountDeletion"
    BY <2>1, <2>2, BeginEffect DEF Typed
  <2>4. Intends(r)'
    BY <2>3 DEF Intends, At
  <2> QED BY <1>1, <1>6, <2>4 DEF BeginDeleteValidate, Starts, At, history
<1>7. ASSUME NEW t \in Tokens, NEW new \in Secrets, BeginReset(r, t, new) PROVE SerialInv'
  <2> DEFINE q == [Idle EXCEPT !.step = "consumeGet", !.secret = new, !.seen = Used,
                               !.token = t, !.type = "forgotPassword",
                               !.reason = "forgotAndReset"]
  <2>0. ASSUME NEW U \in SUBSET Secrets
        PROVE  LET x == [Idle EXCEPT !.step = "consumeGet", !.secret = new, !.seen = U,
                                     !.token = t, !.type = "forgotPassword",
                                     !.reason = "forgotAndReset"]
               IN  x \in Request /\ x.step = "consumeGet" /\ x.seen = U
    BY IdleIsRequest DEF Idle, Request, Steps, Types
  <2>1. q \in Request /\ q.step = "consumeGet" /\ q.seen = Used
    BY <2>0, UsedAreSecrets
  <2>2. req' = [req EXCEPT ![r] = q] /\ password' = password
    BY <1>7 DEF BeginReset
  <2> HIDE DEF q
  <2>3. req'[r].step = "consumeGet" /\ req'[r].seen = Used
    BY <2>1, <2>2, BeginEffect DEF Typed
  <2>4. Intends(r)'
    BY <1>2, <2>2, <2>3 DEF Intends, At
  <2> QED BY <1>1, <1>7, <2>4 DEF BeginReset, Starts, At, history
<1>8. CASE ConsumeGet(r)
  <2>1. req[r].step = "consumeGet" /\ password' = password
    BY <1>8 DEF ConsumeGet, At
  <2>2. Intends(r)'
    <3>1. CASE Goto(r, "consumeDel")
      <4>1. /\ req'[r].step = "consumeDel" /\ req'[r].type = req[r].type
            /\ req'[r].seen = req[r].seen
        BY <3>1, GotoEffect DEF Typed, Steps
      <4> QED BY <1>0, <1>2, <2>1, <4>1 DEF Intends, At
    <3>2. CASE Done(r)
      <4>1. req'[r].step = "idle"
        BY <3>2, DoneEffect DEF Typed
      <4> QED BY <4>1 DEF Intends, At
    <3> QED BY <1>8, <3>1, <3>2 DEF ConsumeGet
  <2> QED BY <1>1, <1>8, <2>1, <2>2 DEF ConsumeGet, history
<1>9. CASE ConsumeDel(r)
  <2> DEFINE next == IF req[r].type = "forgotPassword" THEN "resetCheck" ELSE "remove"
  <2>1. next \in Steps
    BY DEF Steps
  <2>2. /\ now' = now /\ password' = password /\ exists' = exists
        /\ failed' = failed /\ refused' = refused
        /\ drawn' = drawn /\ age' = age /\ req[r].step = "consumeDel"
        /\ ott' = [ott EXCEPT ![req[r].type] = None] /\ Goto(r, next)
    BY <1>9 DEF ConsumeDel, At, history
  <2>3. /\ req'[r].step = next /\ req'[r].type = req[r].type /\ req'[r].seen = req[r].seen
    BY <2>1, <2>2, GotoEffect DEF Typed
  <2>4. AtMostOne' /\ SecretsDiffer' /\ OnlyOldExpire' /\ Issued' = Issued
    BY <1>0, <2>2, SameRows
  <2>5. \A type \in Types : ott'[type] # None => ott'[type] = ott[type]
    BY <1>0, <2>2
  <2>6. Stored' /\ (TokensOfNow => TokensOfNow')
    BY <1>0, <2>2, <2>4, <2>5 DEF Stored, TokensOfNow
  <2>7. exists /\ ~failed /\ ~refused => TokensOfNow
    BY <2>2, FreshNow
  <2>8. Intends(r)'
    BY <1>0, <1>2, <2>2, <2>3 DEF Intends, At
  <2> QED BY <2>2, <2>4, <2>6, <2>7, <2>8, OnlyThis
<1>10. CASE ResetCheck(r)
  <2>1. req[r].step = "resetCheck" /\ password' = password
    BY <1>10 DEF ResetCheck, At
  <2>2. Intends(r)'
    <3>1. CASE Goto(r, "revoke") /\ req[r].secret \notin req[r].seen
      <4>1. /\ req'[r].step = "revoke" /\ req'[r].secret = req[r].secret
        BY <3>1, GotoEffect DEF Typed, Steps
      <4>2. req[r].secret \notin Used
        BY <1>0, <2>1, <3>1 DEF Intends, At
      <4> QED BY <1>2, <2>1, <4>1, <4>2 DEF Intends, At
    <3>2. CASE Done(r)
      <4>1. req'[r].step = "idle"
        BY <3>2, DoneEffect DEF Typed
      <4> QED BY <4>1 DEF Intends, At
    <3> QED BY <1>10, <3>1, <3>2 DEF ResetCheck
  <2> QED BY <1>1, <1>10, <2>1, <2>2 DEF ResetCheck, history
<1>11. CASE Remove(r)
  <2>1. req'[r].step = "idle"
    BY <1>11, DoneEffect DEF Remove, Typed
  <2>2. /\ exists' = FALSE /\ password' = [p \in Rows |-> NoRow]
        /\ ott' = ott /\ drawn' = drawn
    BY <1>11 DEF Remove
  <2>3. \A p \in Rows : password'[p].state = "unused"
    BY <2>2 DEF NoRow
  <2>4. Active' = {} /\ Issued' = {}
    BY <2>3 DEF Active, Issued, Unused
  <2>5. AtMostOne' /\ SecretsDiffer' /\ OnlyOldExpire'
    BY <2>4 DEF AtMostOne, SecretsDiffer, OnlyOldExpire
  <2>6. Stored' /\ Intends(r)'
    BY <1>0, <2>1, <2>2 DEF Stored, Intends, At
  <2> QED BY <2>2, <2>5, <2>6, OnlyThis
<1> QED BY <1>3, <1>4, <1>5, <1>6, <1>7, <1>8, <1>9, <1>10, <1>11 DEF OneTimeToken

(* Sign-in with an expired password, and the nightly job.                    *)
LEMMA ExpirySerial ==
  ASSUME Typed, SerialInv, OneAtATime, NEW r \in Requests, Expiry(r)
  PROVE  SerialInv'
<1>0. /\ req[r] \in Request /\ now \in Nat /\ MaxAge \in Nat /\ req[r].limit \in Nat
      /\ \A p \in Rows : password[p].created \in Nat
      /\ Intends(r) /\ Stored
  BY BoundAssumption DEF Typed, TypeOK, SerialInv, Request, Row
<1>1. ASSUME Issued' = Issued, AtMostOne', SecretsDiffer', OnlyOldExpire', Intends(r)',
             exists' = exists, failed' = failed, refused' = refused, ott' = ott, age' = age,
             drawn' = drawn,
             req[r].step \notin Behind
      PROVE  SerialInv'
  <2>1. Stored' /\ (TokensOfNow <=> TokensOfNow')
    BY <1>0, <1>1, SameTokens
  <2>2. exists /\ ~failed /\ ~refused => TokensOfNow
    BY <1>1, FreshNow
  <2> QED BY <1>1, <2>1, <2>2, OnlyThis
<1>2. ASSUME NEW s \in Secrets, BeginSignIn(r, s) PROVE SerialInv'
  <2>1. req'[r].step = "expire"
    BY <1>2, GotoEffect DEF BeginSignIn, Typed, Steps
  <2>2. /\ now' = now /\ password' = password
        /\ \E p \in Active : Outlived(p)
    BY <1>2 DEF BeginSignIn
  <2>3. /\ AtMostOne' /\ SecretsDiffer' /\ OnlyOldExpire'
        /\ Active' = Active /\ Issued' = Issued
        /\ \A p \in Active : Outlived(p) => Outlived(p)'
    BY <1>0, <2>2, SameRows
  <2>4. \A p \in Active : Outlived(p)
    BY <2>2 DEF SerialInv, AtMostOne
  <2>5. Intends(r)'
    BY <2>1, <2>3, <2>4 DEF Intends, At
  <2> QED BY <1>1, <1>2, <2>3, <2>5 DEF BeginSignIn, Starts, At, history
<1>3. CASE ExpirePassword(r)
  <2>1. req'[r].step = "idle"
    BY <1>3, DoneEffect DEF ExpirePassword, Typed
  <2>2. now' = now /\ password' = Revoked(Active, "expired") /\ req[r].step = "expire"
    BY <1>3 DEF ExpirePassword, At
  <2>3. \A p \in Active : password[p].created + MaxAge <= now
    BY <1>0, <2>2 DEF Intends, At, Outlived, Active
  <2>4. AtMostOne' /\ SecretsDiffer' /\ OnlyOldExpire'
    BY <2>2, <2>3, FewerActive
  <2>5. Issued' = Issued
    BY <2>2, RevokedRows DEF Typed
  <2>6. Intends(r)'
    BY <2>1 DEF Intends, At
  <2> QED BY <1>1, <1>3, <2>2, <2>4, <2>5, <2>6 DEF ExpirePassword, history
<1>4. CASE BeginJob(r)
  <2>1. ASSUME NEW limit \in 0..MaxNow
        PROVE  LET x == [Idle EXCEPT !.step = "job", !.limit = limit]
               IN  x \in Request /\ x.step = "job" /\ x.limit = limit
    BY IdleIsRequest DEF Idle, Request, Steps
  <2>2. now - MaxAge \in 0..MaxNow
    BY <1>0, <1>4, BoundAssumption DEF BeginJob, Typed, TypeOK
  <2>3. req'[r].step = "job" /\ req'[r].limit = now - MaxAge
    BY <1>4, <2>1, <2>2, BeginEffect DEF BeginJob, Typed
  <2>4. now' = now /\ password' = password
    BY <1>4 DEF BeginJob
  <2>5. AtMostOne' /\ SecretsDiffer' /\ OnlyOldExpire' /\ Issued' = Issued
    BY <1>0, <2>4, SameRows
  <2>6. Intends(r)'
    BY <1>0, <2>3, <2>4 DEF Intends, At
  <2> QED BY <1>1, <1>4, <2>5, <2>6 DEF BeginJob, Starts, At, history
<1>5. CASE JobRevoke(r)
  <2> DEFINE S == {p \in Active : password[p].created <= req[r].limit}
  <2>1. req'[r].step = "idle"
    BY <1>5, DoneEffect DEF JobRevoke, Typed
  <2>2. now' = now /\ password' = Revoked(S, "expired") /\ req[r].step = "job"
    BY <1>5 DEF JobRevoke, At
  <2>3. \A p \in S : password[p].created + MaxAge <= now
    <3>1. req[r].limit + MaxAge <= now
      BY <1>0, <2>2 DEF Intends, At
    <3> QED BY <1>0, <3>1 DEF Active
  <2>4. S \in SUBSET Active
    OBVIOUS
  <2> HIDE DEF S
  <2>5. AtMostOne' /\ SecretsDiffer' /\ OnlyOldExpire'
    BY <2>2, <2>3, <2>4, FewerActive
  <2>6. Issued' = Issued
    BY <2>2, <2>4, RevokedRows DEF Typed
  <2>7. Intends(r)'
    BY <2>1 DEF Intends, At
  <2> QED BY <1>1, <1>5, <2>2, <2>5, <2>6, <2>7 DEF JobRevoke, history
<1> QED BY <1>2, <1>3, <1>4, <1>5 DEF Expiry

LEMMA SerialKept == Typed /\ SerialInv /\ OneAtATime /\ [Next]_vars => SerialInv'
<1> SUFFICES ASSUME Typed, SerialInv, OneAtATime, [Next]_vars PROVE SerialInv'
  OBVIOUS
<1>0. now \in Nat /\ ott \in [Types -> Tokens \union {None}]
  BY BoundAssumption DEF Typed, TypeOK
<1>1. ASSUME NEW r \in Requests, Replace(r) \/ OneTimeToken(r) \/ Expiry(r) PROVE SerialInv'
  BY <1>1, ReplaceSerial, OneTimeTokenSerial, ExpirySerial
<1>2. ASSUME NEW r \in Requests, Abort(r) PROVE SerialInv'
  <2>1. req'[r].step = "idle"
    BY <1>2, DoneEffect DEF Abort, Typed
  <2>2. /\ now' = now /\ password' = password /\ ott' = ott /\ drawn' = drawn
        /\ failed' = TRUE
    BY <1>2 DEF Abort
  <2>3. AtMostOne' /\ SecretsDiffer' /\ OnlyOldExpire'
    BY <1>0, <2>2, SameRows
  <2>4. Stored' /\ Intends(r)'
    BY <2>1, <2>2 DEF SerialInv, Stored, Intends, At
  <2> QED BY <2>2, <2>3, <2>4, OnlyThis
<1>3. ASSUME req' = req, password' = password, now' \in Nat, now <= now',
             exists' = exists, failed' = failed, refused' = refused, drawn' = drawn, age' = age,
             \A type \in Types : ott'[type] # None => ott'[type] = ott[type]
      PROVE  SerialInv'
  <2>1. /\ AtMostOne' /\ SecretsDiffer' /\ OnlyOldExpire'
        /\ Active' = Active /\ Used' = Used /\ Issued' = Issued
        /\ \A p \in Active : Outlived(p) => Outlived(p)'
    BY <1>3, SameRows
  <2>2. Stored' /\ (TokensOfNow => TokensOfNow')
    BY <1>3, <2>1 DEF SerialInv, Stored, TokensOfNow
  <2>3. Follow'
    BY <1>3, <2>2 DEF SerialInv, Follow
  <2>4. ASSUME NEW r \in Requests PROVE Intends(r)'
    <3>1. Intends(r)
      BY DEF SerialInv
    <3>2. At(r, "job") => req[r].limit + MaxAge <= now'
      <4>1. req[r].limit \in Nat /\ MaxAge \in Nat
        BY BoundAssumption DEF Typed, TypeOK, Request
      <4> QED BY <1>0, <1>3, <3>1, <4>1 DEF Intends
    <3> QED BY <1>3, <2>1, <3>1, <3>2 DEF Intends, At
  <2> QED BY <2>1, <2>2, <2>3, <2>4 DEF SerialInv
<1>4. ASSUME NEW type \in Types, Expire(type) PROVE SerialInv'
  <2>1. \A other \in Types : ott'[other] # None => ott'[other] = ott[other]
    BY <1>0, <1>4 DEF Expire
  <2>2. now <= now
    BY <1>0
  <2> QED BY <1>0, <1>3, <1>4, <2>1, <2>2 DEF Expire, history
<1>5. CASE Tick
  <2>1. now' \in Nat /\ now <= now'
    BY <1>0, <1>5 DEF Tick
  <2> QED BY <1>3, <1>5, <2>1 DEF Tick, history
<1>6. CASE LoseSetting
  <2>1. now <= now
    BY <1>0
  <2> QED BY <1>0, <1>3, <1>6, <2>1 DEF LoseSetting, history
<1>7. CASE UNCHANGED vars
  <2>1. now <= now
    BY <1>0
  <2> QED BY <1>0, <1>3, <1>7, <2>1 DEF vars, history
<1> QED BY <1>1, <1>2, <1>4, <1>5, <1>6, <1>7 DEF Next

LEMMA SerialInit == Init => SerialInv
<1> SUFFICES ASSUME Init PROVE SerialInv
  OBVIOUS
<1>1. /\ \A p \in Rows \ {First} : password[p] = NoRow
      /\ password[First].state = "active" /\ password[First].reason = "none"
  BY RowsAssumption DEF Init, NoRow
<1>2. \A p \in Issued : p = First
  BY <1>1 DEF Issued, Unused, NoRow
<1>3. \A p \in Active : p = First
  BY <1>1 DEF Active, NoRow
<1>4. AtMostOne /\ SecretsDiffer /\ OnlyOldExpire
  BY <1>1, <1>2, <1>3 DEF AtMostOne, SecretsDiffer, OnlyOldExpire
<1>5. Stored /\ TokensOfNow
  BY DEF Init, Stored, TokensOfNow
<1>6. \A r \in Requests : req[r].step = "idle"
  BY IdleIsRequest DEF Init
<1>7. \A r \in Requests : Intends(r)
  BY <1>6 DEF Intends, At
<1> QED BY <1>4, <1>5, <1>7 DEF SerialInv, Follow

LEMMA Invariant == Spec => [](Typed /\ (OneAtATime => SerialInv))
<1>1. Init => Typed /\ (OneAtATime => SerialInv)
  BY TypeInit, SerialInit
<1>2. OneAtATime' = OneAtATime
  BY DEF OneAtATime
<1>3. Typed /\ (OneAtATime => SerialInv) /\ [Next]_vars
        => (Typed /\ (OneAtATime => SerialInv))'
  BY <1>2, TypeKept, SerialKept
<1> QED BY <1>1, <1>3, PTL DEF Spec

-------------------------------------------------------------------------------
(* The properties *)

(* Requests that come one at a time never leave an account with two valid
   passwords, whatever failed half way before.                               *)
THEOREM OneValid == Spec => [](OneAtATime => OnePassword)
<1>1. AtMostOne => OnePassword
  <2> SUFFICES ASSUME AtMostOne PROVE Cardinality(Active) <= 1
    BY DEF OnePassword
  <2>1. CASE Active = {}
    BY <2>1, FS_EmptySet
  <2>2. CASE Active # {}
    <3>1. PICK p \in Active : TRUE
      BY <2>2
    <3>2. Active = {p}
      BY <3>1 DEF AtMostOne
    <3>3. Cardinality({p}) = 1
      BY FS_Singleton
    <3> QED BY <3>2, <3>3
  <2> QED BY <2>1, <2>2
<1>2. Typed /\ (OneAtATime => SerialInv) => (OneAtATime => OnePassword)
  BY <1>1 DEF SerialInv
<1> QED BY <1>2, Invariant, PTL

(* Requests that come one at a time never store a password a second time.    *)
THEOREM NeverAgain == Spec => [](OneAtATime => SecretsDiffer)
<1>1. Typed /\ (OneAtATime => SerialInv) => (OneAtATime => SecretsDiffer)
  BY DEF SerialInv
<1> QED BY <1>1, Invariant, PTL

(* Requests that come one at a time, and run to their ends, leave no one-time
   token from the time of an earlier password.                               *)
THEOREM TokensAreNew == Spec => [](OneAtATime => TokensFollowPassword)
<1>1. SerialInv => TokensFollowPassword
  <2> SUFFICES ASSUME SerialInv, exists, ~failed, ~refused,
                      \A r \in Requests : At(r, "idle")
               PROVE TokensOfNow
    BY DEF TokensFollowPassword
  <2>1. \A r \in Requests : req[r].step \notin Behind
    BY DEF At
  <2> QED BY <2>1 DEF SerialInv, Follow
<1>2. Typed /\ (OneAtATime => SerialInv) => (OneAtATime => TokensFollowPassword)
  BY <1>1
<1> QED BY <1>2, Invariant, PTL

(* Requests that come one at a time revoke as expired only passwords that have
   reached their maximal age.                                                *)
THEOREM ExpiryIsDue == Spec => [](OneAtATime => OnlyOldExpire)
<1>1. Typed /\ (OneAtATime => SerialInv) => (OneAtATime => OnlyOldExpire)
  BY DEF SerialInv
<1> QED BY <1>1, Invariant, PTL
===============================================================================
