------------------------------ MODULE Passwords ------------------------------
(***************************************************************************)
(* The passwords of one account and the one-time tokens that act on it:    *)
(* changePassword, forgotPassword, resetPassword, deleteAccount and        *)
(* verifyDeleteAccount of AccountService, the revocation of an expired     *)
(* password by sign-in, and the nightly job.  Accounts share no state here.*)
(*                                                                         *)
(* A handler loads the user with all its passwords and decides on that     *)
(* copy; the writes that follow are statements of their own.               *)
(***************************************************************************)
EXTENDS Naturals, FiniteSets

CONSTANTS Rows,       \* ids of the password rows that may be inserted
          First,      \* the row of the password chosen at sign-up
          Secrets,    \* clear passwords a client may send
          Tokens,     \* one-time tokens that may be drawn
          Requests,   \* handlers that may run together
          None,       \* no such key, no such row
          Operations, \* what the clients of a run call
          MaxAge,     \* PASSWORD_MAX_AGE, in ticks
          MaxNow,     \* bound of the clock
          Faults      \* TRUE: any statement may fail and end its request

AllOperations == {"change", "forgot", "reset", "delete", "deleteValidate", "signIn", "job"}

ASSUME RowsAssumption == First \in Rows /\ IsFiniteSet(Rows) /\ Secrets # {}
ASSUME NoneAssumption == None \notin Tokens \union Secrets
ASSUME OperationsAssumption == Operations \subseteq AllOperations
ASSUME BoundAssumption == MaxAge \in Nat /\ MaxNow \in Nat /\ Faults \in BOOLEAN

VARIABLES now,      \* the clock
          exists,   \* the user row is there
          password, \* table password, the rows of this user
          ott,      \* OTT_KEY(user, type) -> token hash
          drawn,    \* the random tokens drawn so far
          age,      \* history: how many passwords there had been at the drawing
          failed,   \* history: a statement of some request failed
          refused,  \* history: a reset was refused after it stored its password
          cached,   \* PASSWORD_UNLOCK_ON_RESET of the tenant '' is in Redis
          req       \* the requests in flight

history == <<age, failed, refused>>
vars == <<now, exists, password, ott, drawn, history, cached, req>>

-------------------------------------------------------------------------------
(* Types *)

Types == {"forgotPassword", "accountDeletion"}
Row == [state: {"unused", "active", "revoked"}, secret: Secrets \union {None},
        created: 0..MaxNow, reason: {"none", "changed", "forgotAndReset", "expired"}]
NoRow == [state |-> "unused", secret |-> None, created |-> 0, reason |-> "none"]

Steps == {"idle", "revoke", "insert", "readUnlock", "refreshTokens", "tokens", "create",
          "consumeGet", "consumeDel", "resetCheck", "remove", "expire", "job"}

Request == [step: Steps, secret: Secrets \union {None}, seen: SUBSET Secrets,
            token: Tokens \union {None}, type: Types, reason: {"changed", "forgotAndReset"},
            limit: 0..MaxNow]
Idle == [step |-> "idle", secret |-> None, seen |-> {}, token |-> None,
         type |-> "forgotPassword", reason |-> "changed", limit |-> 0]

TypeOK ==
  /\ now \in 0..MaxNow
  /\ exists \in BOOLEAN
  /\ password \in [Rows -> Row]
  /\ ott \in [Types -> Tokens \union {None}]
  /\ drawn \in SUBSET Tokens
  /\ age \in [Tokens -> 0..Cardinality(Rows)]
  /\ failed \in BOOLEAN /\ refused \in BOOLEAN /\ cached \in BOOLEAN
  /\ req \in [Requests -> Request]

-------------------------------------------------------------------------------
(* Helpers *)

Unused == {p \in Rows : password[p].state = "unused"}
Issued == Rows \ Unused
Active == {p \in Rows : password[p].state = "active"}
Used == {password[p].secret : p \in Issued}

\* Bound: a request that may insert a password starts only with a row left.
Inserting == {r \in Requests : req[r].step \in
                {"revoke", "insert", "consumeGet", "consumeDel", "resetCheck"}}
HasRoom == Cardinality(Unused) > Cardinality(Inserting)

\* Bound: a request that may draw a token starts only with a token left.
HasToken == Cardinality(Tokens \ drawn) > Cardinality({r \in Requests : req[r].step = "create"})

At(r, step) == req[r].step = step
Goto(r, step) == req' = [req EXCEPT ![r].step = step]
Done(r) == req' = [req EXCEPT ![r] = Idle]
Starts(r, op) == At(r, "idle") /\ op \in Operations

\* UPDATE password SET revoked, revocation_reason for the rows of S.
Revoked(S, reason) ==
  [p \in Rows |-> IF p \in S THEN [password[p] EXCEPT !.state = "revoked", !.reason = reason]
                  ELSE password[p]]

\* verifyUserPassword, on the first row found that is not revoked.
Matches(secret) == \E p \in Active : password[p].secret = secret
Outlived(p) == password[p].created + MaxAge < now

-------------------------------------------------------------------------------
(* changePassword; an expired password still opens it. *)

BeginChange(r, old, new) ==
  /\ Starts(r, "change")
  /\ exists /\ HasRoom
  /\ Matches(old)
  /\ new \notin Used
  /\ req' = [req EXCEPT ![r] = [Idle EXCEPT !.step = "revoke", !.secret = new,
                                            !.reason = "changed"]]
  /\ UNCHANGED <<now, exists, password, ott, drawn, history, cached>>

\* Mutant: the previous passwords are left active.
RevokeNothing(r) ==
  /\ At(r, "revoke")
  /\ Goto(r, "insert")
  /\ UNCHANGED <<now, exists, password, ott, drawn, history, cached>>

\* changeUserPassword and resetUserPassword: revoke, hash (an await), insert.
Revoke(r) ==
  /\ At(r, "revoke")
  /\ password' = Revoked(Active, req[r].reason)
  /\ Goto(r, "insert")
  /\ UNCHANGED <<now, exists, ott, drawn, history, cached>>

AfterInsert(reason) == IF reason = "changed" THEN "refreshTokens" ELSE "readUnlock"

\* The foreign key refuses a password of a user who is gone.
Insert(r, p) ==
  /\ At(r, "insert")
  /\ IF exists
     THEN /\ p \in Unused
          /\ password' = [password EXCEPT ![p] =
               [state |-> "active", secret |-> req[r].secret, created |-> now,
                reason |-> "none"]]
          /\ Goto(r, AfterInsert(req[r].reason))
     ELSE Done(r) /\ UNCHANGED password
  /\ UNCHANGED <<now, exists, ott, drawn, history, cached>>

(* resetPassword, its password stored, reads PASSWORD_UNLOCK_ON_RESET with
   tenant id '', for the user comes without its tenant.  '' is no slug: unless
   Redis holds the key, which only the set-up of the tests writes, the read is
   refused and the request with it.  The unlocking is in RefreshTokens.       *)
ReadUnlock(r) ==
  /\ At(r, "readUnlock")
  /\ \/ cached /\ Goto(r, "refreshTokens") /\ UNCHANGED refused
     \/ ~cached /\ Done(r) /\ refused' = TRUE
  /\ UNCHANGED <<now, exists, password, ott, drawn, age, failed, cached>>

\* revokeAllForUser on the refresh tokens is modelled in RefreshTokens.
RevokeRefreshTokens(r) ==
  /\ At(r, "refreshTokens")
  /\ Goto(r, "tokens")
  /\ UNCHANGED <<now, exists, password, ott, drawn, history, cached>>

\* Mutant: pending one-time tokens survive a new password.
RevokeTokensNothing(r) ==
  /\ At(r, "tokens")
  /\ Done(r)
  /\ UNCHANGED <<now, exists, password, ott, drawn, history, cached>>

\* OneTimeTokenRedisService.revokeAllForUser: one DEL of every key.
RevokeTokens(r) ==
  /\ At(r, "tokens")
  /\ ott' = [type \in Types |-> None]
  /\ Done(r)
  /\ UNCHANGED <<now, exists, password, drawn, history, cached>>

-------------------------------------------------------------------------------
(* One-time tokens *)

BeginForgot(r) ==
  /\ Starts(r, "forgot")
  /\ exists /\ HasToken
  /\ req' = [req EXCEPT ![r] = [Idle EXCEPT !.step = "create", !.type = "forgotPassword"]]
  /\ UNCHANGED <<now, exists, password, ott, drawn, history, cached>>

BeginDelete(r, secret) ==
  /\ Starts(r, "delete")
  /\ exists /\ HasToken /\ Matches(secret)
  /\ req' = [req EXCEPT ![r] = [Idle EXCEPT !.step = "create", !.type = "accountDeletion"]]
  /\ UNCHANGED <<now, exists, password, ott, drawn, history, cached>>

\* OneTimeTokenRedisService.create; a new token takes the place of the last.
Create(r, t) ==
  /\ At(r, "create")
  /\ t \notin drawn
  /\ drawn' = drawn \union {t}
  /\ ott' = [ott EXCEPT ![req[r].type] = t]
  /\ age' = [age EXCEPT ![t] = Cardinality(Issued)]
  /\ Done(r)
  /\ UNCHANGED <<now, exists, password, failed, refused, cached>>

\* resetPassword keeps the passwords it loaded for its check of the new one.
BeginReset(r, t, new) ==
  /\ Starts(r, "reset")
  /\ exists /\ HasRoom /\ t \in drawn
  /\ req' = [req EXCEPT ![r] = [Idle EXCEPT !.step = "consumeGet", !.secret = new,
                                            !.seen = Used, !.token = t,
                                            !.type = "forgotPassword",
                                            !.reason = "forgotAndReset"]]
  /\ UNCHANGED <<now, exists, password, ott, drawn, history, cached>>

BeginDeleteValidate(r, t) ==
  /\ Starts(r, "deleteValidate")
  /\ exists /\ t \in drawn
  /\ req' = [req EXCEPT ![r] = [Idle EXCEPT !.step = "consumeGet", !.token = t,
                                            !.type = "accountDeletion"]]
  /\ UNCHANGED <<now, exists, password, ott, drawn, history, cached>>

\* consume(): GET and compare, then DEL.
ConsumeGet(r) ==
  /\ At(r, "consumeGet")
  /\ IF ott[req[r].type] = req[r].token THEN Goto(r, "consumeDel") ELSE Done(r)
  /\ UNCHANGED <<now, exists, password, ott, drawn, history, cached>>

ConsumeDel(r) ==
  /\ At(r, "consumeDel")
  /\ ott' = [ott EXCEPT ![req[r].type] = None]
  /\ Goto(r, IF req[r].type = "forgotPassword" THEN "resetCheck" ELSE "remove")
  /\ UNCHANGED <<now, exists, password, drawn, history, cached>>

\* Mutant: a reset compares the new password with the active one only.
ResetCheckActive(r) ==
  /\ At(r, "resetCheck")
  /\ IF req[r].secret \in {password[p].secret : p \in Active} THEN Done(r)
     ELSE Goto(r, "revoke")
  /\ UNCHANGED <<now, exists, password, ott, drawn, history, cached>>

\* The token is spent by now, whatever the check says.
ResetCheck(r) ==
  /\ At(r, "resetCheck")
  /\ IF req[r].secret \in req[r].seen THEN Done(r) ELSE Goto(r, "revoke")
  /\ UNCHANGED <<now, exists, password, ott, drawn, history, cached>>

\* The user row and, by ON DELETE CASCADE, its passwords.
Remove(r) ==
  /\ At(r, "remove")
  /\ exists' = FALSE
  /\ password' = [p \in Rows |-> NoRow]
  /\ Done(r)
  /\ UNCHANGED <<now, ott, drawn, history, cached>>

-------------------------------------------------------------------------------
(* Expiry *)

\* primaryAuthPassword with the right password, too old: all are revoked next.
BeginSignIn(r, secret) ==
  /\ Starts(r, "signIn")
  /\ exists
  /\ \E p \in Active : password[p].secret = secret /\ Outlived(p)
  /\ Goto(r, "expire")
  /\ UNCHANGED <<now, exists, password, ott, drawn, history, cached>>

ExpirePassword(r) ==
  /\ At(r, "expire")
  /\ password' = Revoked(Active, "expired")
  /\ Done(r)
  /\ UNCHANGED <<now, exists, ott, drawn, history, cached>>

\* Mutant: the date lies in the future.
BeginJobForward(r) ==
  /\ Starts(r, "job")
  /\ req' = [req EXCEPT ![r] = [Idle EXCEPT !.step = "job", !.limit = now + MaxAge]]
  /\ UNCHANGED <<now, exists, password, ott, drawn, history, cached>>

(* revokeExpiredPasswords computes its date, then runs one UPDATE; while the
   clock is below MaxAge no row is that old.                                 *)
BeginJob(r) ==
  /\ Starts(r, "job")
  /\ now >= MaxAge
  /\ req' = [req EXCEPT ![r] = [Idle EXCEPT !.step = "job", !.limit = now - MaxAge]]
  /\ UNCHANGED <<now, exists, password, ott, drawn, history, cached>>

\* Mutant: the job forgets the date.
JobRevokeAll(r) ==
  /\ At(r, "job")
  /\ password' = Revoked(Active, "expired")
  /\ Done(r)
  /\ UNCHANGED <<now, exists, ott, drawn, history, cached>>

JobRevoke(r) ==
  /\ At(r, "job")
  /\ password' = Revoked({p \in Active : password[p].created <= req[r].limit}, "expired")
  /\ Done(r)
  /\ UNCHANGED <<now, exists, ott, drawn, history, cached>>

-------------------------------------------------------------------------------
(* The environment *)

Tick ==
  /\ now < MaxNow
  /\ now' = now + 1
  /\ UNCHANGED <<exists, password, ott, drawn, history, cached, req>>

\* The TTL of a token ends.
Expire(type) ==
  /\ ott[type] # None
  /\ ott' = [ott EXCEPT ![type] = None]
  /\ UNCHANGED <<now, exists, password, drawn, history, cached, req>>

\* Redis loses the setting.
LoseSetting ==
  /\ cached
  /\ cached' = FALSE
  /\ UNCHANGED <<now, exists, password, ott, drawn, history, req>>

\* A statement fails, or the process dies: what was written stays written.
Abort(r) ==
  /\ Faults
  /\ ~At(r, "idle")
  /\ failed' = TRUE
  /\ Done(r)
  /\ UNCHANGED <<now, exists, password, ott, drawn, age, refused, cached>>

Init ==
  /\ now = 0
  /\ exists = TRUE
  /\ \E s \in Secrets :
       password = [p \in Rows |-> IF p = First THEN [NoRow EXCEPT !.state = "active",
                                                                  !.secret = s]
                                  ELSE NoRow]
  /\ ott = [type \in Types |-> None]
  /\ drawn = {}
  /\ age = [t \in Tokens |-> 0]
  /\ failed = FALSE /\ refused = FALSE
  /\ cached \in BOOLEAN
  /\ req = [r \in Requests |-> Idle]

Replace(r) ==
  \/ \E old, new \in Secrets : BeginChange(r, old, new)
  \/ Revoke(r) \/ ReadUnlock(r) \/ RevokeRefreshTokens(r) \/ RevokeTokens(r)
  \/ \E p \in Rows : Insert(r, p)

OneTimeToken(r) ==
  \/ BeginForgot(r)
  \/ \E s \in Secrets : BeginDelete(r, s)
  \/ \E t \in Tokens : Create(r, t) \/ BeginDeleteValidate(r, t)
  \/ \E t \in Tokens, new \in Secrets : BeginReset(r, t, new)
  \/ ConsumeGet(r) \/ ConsumeDel(r) \/ ResetCheck(r) \/ Remove(r)

Expiry(r) ==
  \/ \E s \in Secrets : BeginSignIn(r, s)
  \/ ExpirePassword(r) \/ BeginJob(r) \/ JobRevoke(r)

Next ==
  \/ \E r \in Requests : Replace(r) \/ OneTimeToken(r) \/ Expiry(r) \/ Abort(r)
  \/ \E type \in Types : Expire(type)
  \/ Tick \/ LoseSetting

Spec == Init /\ [][Next]_vars

-------------------------------------------------------------------------------
(* Properties *)

(* At no moment does an account have two valid passwords, whatever failed half
   way before.  It needs requests that do not overlap.                       *)
OnePassword == Cardinality(Active) <= 1

(* A password is never chosen twice, revoked ones included: changePassword and
   resetPassword compare with the passwords they loaded.  It needs requests
   that do not overlap.                                                      *)
SecretsDiffer ==
  \A p, q \in Issued : p # q => password[p].secret # password[q].secret

\* Every one-time token that is still stored was drawn under the password of now.
TokensOfNow ==
  \A type \in Types : ott[type] # None => age[ott[type]] = Cardinality(Issued)

(* A reset or a deletion asked for before a change of password cannot be
   completed after it.  It needs requests that do not overlap and do not fail,
   and no reset refused at its late read of a setting.                       *)
TokensFollowPassword ==
  exists /\ ~failed /\ ~refused /\ (\A r \in Requests : At(r, "idle")) => TokensOfNow

(* Only a password that has reached its maximal age is revoked as expired, by
   the job and by a sign-in.  It needs requests that do not overlap: a sign-in
   revokes whatever is active when it gets there.                            *)
OnlyOldExpire ==
  \A p \in Issued : password[p].reason = "expired" => password[p].created + MaxAge <= now
===============================================================================
