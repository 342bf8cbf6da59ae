---------------------------- MODULE RefreshTokens ----------------------------
(***************************************************************************)
(* The refresh_token table, the token-reuse counter kept in Redis and the  *)
(* lock of the user row, with the HTTP requests that read and write them:  *)
(* sign-in (SignInService._issueTokens), token refresh with rotation and   *)
(* reuse detection, token revocation, sign-out, "revoke all sessions",     *)
(* the end of a password reset, and the lock after failed passwords.       *)
(*                                                                         *)
(* The service runs no transaction around these.  Every await on           *)
(* PostgreSQL or Redis is a point where other requests run, so a request   *)
(* is a process: one action per awaited statement, with what it has read   *)
(* so far in a record of its own.                                          *)
(***************************************************************************)
EXTENDS Naturals, FiniteSets

CONSTANTS Users,       \* accounts
          Tokens,      \* row ids, and so refresh tokens, that may be issued
          Requests,    \* HTTP requests that may be in flight together
          None,        \* NULL / undefined
          Operations,  \* what the clients of a run call
          ShortLife,   \* JWT_REFRESH_TOKEN_SHORT_EXPIRATION, in ticks
          LongLife,    \* JWT_REFRESH_TOKEN_LONG_EXPIRATION ("remember me")
          AccessLife,  \* life of an access token
          Window,      \* TOKEN_REUSE_WINDOW
          MaxFamilies, \* TOKEN_REUSE_MAX_COMPROMISED_FAMILIES
          UnlockOnReset, \* PASSWORD_UNLOCK_ON_RESET
          MaxNow,      \* bound of the clock
          Faults       \* the steps whose statement may fail, which ends the request

AllOperations ==
  {"signIn", "refresh", "revokeToken", "signOut", "revokeAll",
   "resetPassword", "wrongPassword"}

ASSUME NoneAssumption == None \notin Users \union Tokens /\ None \notin Nat
ASSUME OperationsAssumption == Operations \subseteq AllOperations
ASSUME LifeAssumption ==
  /\ ShortLife \in Nat /\ LongLife \in Nat /\ AccessLife \in Nat
  /\ ShortLife <= LongLife
ASSUME ReuseAssumption == Window \in Nat \ {0} /\ MaxFamilies \in Nat \ {0}
ASSUME BoundAssumption == MaxNow \in Nat /\ UnlockOnReset \in BOOLEAN

VARIABLES now,         \* the clock; an access token is (user, second signed)
          rows,        \* table refresh_token
          lockReason,  \* user.lock_reason; a user is locked iff it is not "none"
          reuse,       \* Redis counter TOKEN_REUSE_KEY(user), with its TTL
          compromised, \* history: families whose reuse was acted upon
          seeded,      \* the settings read with tenant id '' are in Redis
          owed,        \* history: what a handler that did not finish left undone
          req          \* the requests in flight

vars == <<now, rows, lockReason, reuse, compromised, seeded, owed, req>>

-------------------------------------------------------------------------------
(* Types.  tokenHash is the token itself; jwt is the second it was signed,
   for RS256 over (sub, email, iat) gives equal tokens within a second.      *)

Clock == 0..MaxNow
Times == 0..(MaxNow + LongLife)
LockReasons == {"none", "tooManyAttempts", "adminManual", "suspiciousActivity"}

Row == [state: {"unused", "active", "revoked"},
        user: Users \union {None}, family: Tokens \union {None},
        access: Clock, expiry: Times, parent: Tokens \union {None}]
NoRow == [state |-> "unused", user |-> None, family |-> None,
          access |-> 0, expiry |-> 0, parent |-> None]

Steps == {"idle", "issueRevoke", "issueInsert",
          "refreshFind", "refreshSign", "rotateRevoke", "rotateInsert",
          "reuseRevoke", "reuseCount", "reuseReadWindow", "reuseWindow",
          "reuseReadThreshold", "reuseLock",
          "signOutFind", "revokeFamily", "revokeAll",
          "resetReadUnlock", "resetUnlock", "resetCounter", "lockAttempts"}

(* Saturation point of the counter: the code only asks whether it is 1 and
   whether it has reached MaxFamilies.                                       *)
CountCap == MaxFamilies + 1

Request == [step: Steps, user: Users \union {None}, token: Tokens \union {None},
            access: Clock, life: {ShortLife, LongLife},
            seenLock: LockReasons, count: 0..CountCap]
Idle == [step |-> "idle", user |-> None, token |-> None, access |-> 0,
         life |-> ShortLife, seenLock |-> "none", count |-> 0]

Counter == [count: 0..CountCap, deadline: (0..(MaxNow + Window)) \union {None}]
NoCounter == [count |-> 0, deadline |-> None]

\* The duties of the reuse handler after its INCR.
Duties == {"ttl", "lock"}

TypeOK ==
  /\ now \in Clock
  /\ rows \in [Tokens -> Row]
  /\ lockReason \in [Users -> LockReasons]
  /\ reuse \in [Users -> Counter]
  /\ compromised \in SUBSET Tokens
  /\ seeded \in BOOLEAN
  /\ owed \in [Users -> SUBSET Duties]
  /\ req \in [Requests -> Request]

-------------------------------------------------------------------------------
(* Helpers *)

Unused == {t \in Tokens : rows[t].state = "unused"}
Issued == {t \in Tokens : rows[t].state # "unused"}
ActiveOf(u) == {t \in Tokens : rows[t].state = "active" /\ rows[t].user = u}
ActiveIn(f) == {t \in Tokens : rows[t].state = "active" /\ rows[t].family = f}
Expired(t) == rows[t].expiry < now

\* UPDATE refresh_token SET revoked = true for the rows of S.
Revoked(S) ==
  [t \in Tokens |->
     IF t \in S THEN [rows[t] EXCEPT !.state = "revoked"] ELSE rows[t]]

\* Bound: a request that may insert starts only while a row id is left for it.
Inserting == {r \in Requests : req[r].step \in
                {"issueRevoke", "issueInsert", "refreshFind", "refreshSign",
                 "rotateRevoke", "rotateInsert"}}
HasRoom == Cardinality(Unused) > Cardinality(Inserting)

At(r, step) == req[r].step = step
Goto(r, step) == req' = [req EXCEPT ![r].step = step]
Done(r) == req' = [req EXCEPT ![r] = Idle]
Starts(r, op) == At(r, "idle") /\ op \in Operations

\* LOCK_REASON_SEVERITY and isLockReasonEscalation
Severity(reason) ==
  CASE reason = "tooManyAttempts"    -> 1
    [] reason = "adminManual"        -> 2
    [] reason = "suspiciousActivity" -> 3
    [] OTHER                         -> 0
Escalates(current, next) == Severity(next) > Severity(current)

\* UserEntityService.lock: the decision reads the caller's copy of the user.
Lock(r, reason) ==
  lockReason' = IF Escalates(req[r].seenLock, reason)
                THEN [lockReason EXCEPT ![req[r].user] = reason]
                ELSE lockReason

(* What a reuse handler on its way has still to do for the counter it made.  *)
OwesTtl(r) == req[r].step \in {"reuseReadWindow", "reuseWindow"}
OwesLock(r) ==
  /\ req[r].step \in {"reuseReadWindow", "reuseWindow", "reuseReadThreshold", "reuseLock"}
  /\ req[r].count >= MaxFamilies
Owes(r) == {d \in Duties : (d = "ttl" /\ OwesTtl(r)) \/ (d = "lock" /\ OwesLock(r))}

\* The request ends here, with an error.
CutShort(r) ==
  /\ Done(r)
  /\ owed' = [owed EXCEPT ![req[r].user] = @ \union Owes(r)]

(* SettingsService.getOne with tenant id '', the one that a user loaded without
   its tenant has: '' is no slug, so the read is refused unless Redis holds the
   key.  The program never writes it; the set-up of its tests does.           *)
ReadSetting(r, next) ==
  \/ seeded /\ Goto(r, next) /\ UNCHANGED owed
  \/ ~seeded /\ CutShort(r)

-------------------------------------------------------------------------------
(* Sign-in: _issueTokens signs the access token, then create() revokes the
   user's tokens, hashes (an await) and inserts the first row of a family.   *)

BeginIssue(r, u, life) ==
  /\ Starts(r, "signIn")
  /\ HasRoom
  /\ req' = [req EXCEPT ![r] = [Idle EXCEPT !.step = "issueRevoke", !.user = u,
                                            !.access = now, !.life = life]]
  /\ UNCHANGED <<now, rows, lockReason, reuse, compromised, seeded, owed>>

\* Mutant: a sign-in that leaves the previous tokens alone.
IssueRevokeNothing(r) ==
  /\ At(r, "issueRevoke")
  /\ Goto(r, "issueInsert")
  /\ UNCHANGED <<now, rows, lockReason, reuse, compromised, seeded, owed>>

IssueRevoke(r) ==
  /\ At(r, "issueRevoke")
  /\ rows' = Revoked(ActiveOf(req[r].user))
  /\ Goto(r, "issueInsert")
  /\ UNCHANGED <<now, lockReason, reuse, compromised, seeded, owed>>

\* The row a request inserts; a sign-in has no token it continues.
RowOf(r, family, expiry) ==
  [state |-> "active", user |-> req[r].user, family |-> family,
   access |-> req[r].access, expiry |-> expiry, parent |-> req[r].token]

IssueInsert(r, t) ==
  /\ At(r, "issueInsert")
  /\ t \in Unused
  /\ rows' = [rows EXCEPT ![t] = RowOf(r, t, now + req[r].life)]
  /\ Done(r)
  /\ UNCHANGED <<now, lockReason, reuse, compromised, seeded, owed>>

-------------------------------------------------------------------------------
(* Token refresh.  The client presents a refresh token it was once given and
   an access token of the same user; the user row is loaded first, and only
   its lock_reason is used again, by the reuse handler.                      *)

RefreshLoad(r, t, access) ==
  /\ Starts(r, "refresh")
  /\ t \in Issued
  /\ rows[t].state = "active" => HasRoom
  /\ access \in {rows[s].access : s \in {i \in Issued : rows[i].user = rows[t].user}}
  /\ req' = [req EXCEPT ![r] =
       [Idle EXCEPT !.step = "refreshFind", !.user = rows[t].user, !.token = t,
                    !.access = access, !.seenLock = lockReason[rows[t].user]]]
  /\ UNCHANGED <<now, rows, lockReason, reuse, compromised, seeded, owed>>

(* findByUserIncludingRevoked takes the copy of the row that the three checks
   after it read: the access token, then revoked, then the expiry date.      *)

RefreshMismatch(r) ==
  /\ At(r, "refreshFind")
  /\ rows[req[r].token].access # req[r].access
  /\ Done(r)
  /\ UNCHANGED <<now, rows, lockReason, reuse, compromised, seeded, owed>>

RefreshReused(r) ==
  /\ At(r, "refreshFind")
  /\ rows[req[r].token].access = req[r].access
  /\ rows[req[r].token].state = "revoked"
  /\ Goto(r, "reuseRevoke")
  /\ UNCHANGED <<now, rows, lockReason, reuse, compromised, seeded, owed>>

RefreshExpired(r) ==
  /\ At(r, "refreshFind")
  /\ rows[req[r].token].access = req[r].access
  /\ rows[req[r].token].state = "active"
  /\ Expired(req[r].token)
  /\ Done(r)
  /\ UNCHANGED <<now, rows, lockReason, reuse, compromised, seeded, owed>>

RefreshValid(r) ==
  /\ At(r, "refreshFind")
  /\ rows[req[r].token].access = req[r].access
  /\ rows[req[r].token].state = "active"
  /\ ~Expired(req[r].token)
  /\ Goto(r, "refreshSign")
  /\ UNCHANGED <<now, rows, lockReason, reuse, compromised, seeded, owed>>

RefreshSign(r) ==
  /\ At(r, "refreshSign")
  /\ req' = [req EXCEPT ![r].step = "rotateRevoke", ![r].access = now]
  /\ UNCHANGED <<now, rows, lockReason, reuse, compromised, seeded, owed>>

\* Mutant: a rotation that does not withdraw the spent token.
RotateRevokeNothing(r) ==
  /\ At(r, "rotateRevoke")
  /\ Goto(r, "rotateInsert")
  /\ UNCHANGED <<now, rows, lockReason, reuse, compromised, seeded, owed>>

\* rotate(): UPDATE ... WHERE id, whatever the row has become meanwhile.
RotateRevoke(r) ==
  /\ At(r, "rotateRevoke")
  /\ rows' = Revoked({req[r].token})
  /\ Goto(r, "rotateInsert")
  /\ UNCHANGED <<now, lockReason, reuse, compromised, seeded, owed>>

\* Mutant: each rotation adds a life to the expiry date.
SuccessorLonger(r) ==
  RowOf(r, rows[req[r].token].family, rows[req[r].token].expiry + req[r].life)

\* Mutant: a rotation that extends the session.
SuccessorSliding(r) == RowOf(r, rows[req[r].token].family, now + req[r].life)

\* The row a rotation inserts: same family, same expiry date.
Successor(r) ==
  RowOf(r, rows[req[r].token].family, rows[req[r].token].expiry)

RotateInsert(r, t) ==
  /\ At(r, "rotateInsert")
  /\ t \in Unused
  /\ rows' = [rows EXCEPT ![t] = Successor(r)]
  /\ Done(r)
  /\ UNCHANGED <<now, lockReason, reuse, compromised, seeded, owed>>

-------------------------------------------------------------------------------
(* _handleTokenReuse: revoke the family, INCR the counter, give it a TTL if
   this made it 1, lock the account at the threshold, and refuse.  The TTL and
   the threshold are settings, each read just before it is used.             *)

\* The statements after the revocation read nothing of the token any more.
CountReuse(r) ==
  req' = [req EXCEPT ![r].step = "reuseCount", ![r].token = None, ![r].access = 0]

\* Mutant: only the replayed token is revoked, and it already was.
ReuseRevokeToken(r) ==
  /\ At(r, "reuseRevoke")
  /\ rows' = Revoked({req[r].token})
  /\ compromised' = compromised \union {rows[req[r].token].family}
  /\ CountReuse(r)
  /\ UNCHANGED <<now, lockReason, reuse, seeded, owed>>

ReuseRevoke(r) ==
  LET f == rows[req[r].token].family IN
  /\ At(r, "reuseRevoke")
  /\ rows' = Revoked(ActiveIn(f))
  /\ compromised' = compromised \union {f}
  /\ CountReuse(r)
  /\ UNCHANGED <<now, lockReason, reuse, seeded, owed>>

\* Mutant: the TTL is set by the second INCR.
AfterCountLate(count) ==
  IF count = 2 THEN "reuseReadWindow" ELSE "reuseReadThreshold"

AfterCount(count) ==
  IF count = 1 THEN "reuseReadWindow" ELSE "reuseReadThreshold"

ReuseCount(r) ==
  LET u == req[r].user
      count == IF reuse[u].count < CountCap THEN reuse[u].count + 1 ELSE CountCap
  IN
  /\ At(r, "reuseCount")
  /\ reuse' = [reuse EXCEPT ![u].count = count]
  /\ req' = [req EXCEPT ![r].count = count,
                        ![r].step = AfterCount(count)]
  /\ UNCHANGED <<now, rows, lockReason, compromised, seeded, owed>>

ReuseReadWindow(r) ==
  /\ At(r, "reuseReadWindow")
  /\ ReadSetting(r, "reuseWindow")
  /\ UNCHANGED <<now, rows, lockReason, reuse, compromised, seeded>>

\* EXPIRE does nothing to a key that is no longer there.
ReuseWindow(r) ==
  LET u == req[r].user IN
  /\ At(r, "reuseWindow")
  /\ reuse' = IF reuse[u].count > 0
              THEN [reuse EXCEPT ![u].deadline = now + Window] ELSE reuse
  /\ owed' = [owed EXCEPT ![u] = @ \ {"ttl"}]
  /\ Goto(r, "reuseReadThreshold")
  /\ UNCHANGED <<now, rows, lockReason, compromised, seeded>>

ReuseReadThreshold(r) ==
  /\ At(r, "reuseReadThreshold")
  /\ ReadSetting(r, "reuseLock")
  /\ UNCHANGED <<now, rows, lockReason, reuse, compromised, seeded>>

\* Mutant: one family more than the setting allows.
PastThreshold(count) == count > MaxFamilies

AtThreshold(count) == count >= MaxFamilies

ReuseLock(r) ==
  /\ At(r, "reuseLock")
  /\ IF AtThreshold(req[r].count)
     THEN /\ Lock(r, "suspiciousActivity")
          /\ owed' = [owed EXCEPT ![req[r].user] = @ \ {"lock"}]
     ELSE UNCHANGED <<lockReason, owed>>
  /\ Done(r)
  /\ UNCHANGED <<now, rows, reuse, compromised, seeded>>

-------------------------------------------------------------------------------
(* Revocations *)

(* revokeToken draws some active row of the user, in no given order, and goes
   on only when that is the row of the presented token, not yet expired.      *)
RevokeTokenFind(r, t) ==
  /\ Starts(r, "revokeToken")
  /\ rows[t].state = "active"
  /\ ~Expired(t)
  /\ req' = [req EXCEPT ![r] = [Idle EXCEPT !.step = "revokeFamily",
                                            !.user = rows[t].user, !.token = t]]
  /\ UNCHANGED <<now, rows, lockReason, reuse, compromised, seeded, owed>>

\* JwtAuthGuard in front of sign-out and of "revoke all sessions".
Authenticated(u, access) ==
  /\ \E t \in Issued : rows[t].user = u /\ rows[t].access = access
  /\ now <= access + AccessLife
  /\ lockReason[u] = "none"

BeginSignOut(r, u, access) ==
  /\ Starts(r, "signOut")
  /\ Authenticated(u, access)
  /\ req' = [req EXCEPT ![r] = [Idle EXCEPT !.step = "signOutFind", !.user = u,
                                            !.access = access]]
  /\ UNCHANGED <<now, rows, lockReason, reuse, compromised, seeded, owed>>

\* findByJwt: an active row of the user with this access token, or none.
SignOutFind(r) ==
  LET found == {t \in ActiveOf(req[r].user) : rows[t].access = req[r].access} IN
  /\ At(r, "signOutFind")
  /\ \/ \E t \in found :
          req' = [req EXCEPT ![r].step = "revokeFamily", ![r].token = t]
     \/ found = {} /\ Done(r)
  /\ UNCHANGED <<now, rows, lockReason, reuse, compromised, seeded, owed>>

RevokeFamily(r) ==
  /\ At(r, "revokeFamily")
  /\ rows' = Revoked(ActiveIn(rows[req[r].token].family))
  /\ Done(r)
  /\ UNCHANGED <<now, lockReason, reuse, compromised, seeded, owed>>

BeginRevokeAll(r, u, access) ==
  /\ Starts(r, "revokeAll")
  /\ Authenticated(u, access)
  /\ req' = [req EXCEPT ![r] = [Idle EXCEPT !.step = "revokeAll", !.user = u]]
  /\ UNCHANGED <<now, rows, lockReason, reuse, compromised, seeded, owed>>

RevokeAll(r) ==
  /\ At(r, "revokeAll")
  /\ rows' = Revoked(ActiveOf(req[r].user))
  /\ Done(r)
  /\ UNCHANGED <<now, lockReason, reuse, compromised, seeded, owed>>

-------------------------------------------------------------------------------
(* Locks written by other requests *)

(* resetPassword from where the password itself has been replaced, on the copy
   of the user loaded at its start.  It reads PASSWORD_UNLOCK_ON_RESET; then it
   unlocks and clears the counter when that copy says that failed attempts
   locked the user, and it revokes all tokens.                               *)
BeginReset(r, u) ==
  /\ Starts(r, "resetPassword")
  /\ req' = [req EXCEPT ![r] = [Idle EXCEPT !.step = "resetReadUnlock", !.user = u,
                                            !.seenLock = lockReason[u]]]
  /\ UNCHANGED <<now, rows, lockReason, reuse, compromised, seeded, owed>>

ResetReadUnlock(r) ==
  /\ At(r, "resetReadUnlock")
  /\ ReadSetting(r, IF UnlockOnReset /\ req[r].seenLock = "tooManyAttempts"
                    THEN "resetUnlock" ELSE "revokeAll")
  /\ UNCHANGED <<now, rows, lockReason, reuse, compromised, seeded>>

ResetUnlock(r) ==
  /\ At(r, "resetUnlock")
  /\ lockReason' = [lockReason EXCEPT ![req[r].user] = "none"]
  /\ Goto(r, "resetCounter")
  /\ UNCHANGED <<now, rows, reuse, compromised, seeded, owed>>

ResetCounter(r) ==
  /\ At(r, "resetCounter")
  /\ reuse' = [reuse EXCEPT ![req[r].user] = NoCounter]
  /\ owed' = [owed EXCEPT ![req[r].user] = {}]
  /\ Goto(r, "revokeAll")
  /\ UNCHANGED <<now, rows, lockReason, compromised, seeded>>

(* primaryAuthPassword on a wrong password that reaches the lock threshold:
   the user was loaded, unlocked, before the attempt was counted.            *)
BeginWrongPassword(r, u) ==
  /\ Starts(r, "wrongPassword")
  /\ lockReason[u] = "none"
  /\ req' = [req EXCEPT ![r] = [Idle EXCEPT !.step = "lockAttempts", !.user = u]]
  /\ UNCHANGED <<now, rows, lockReason, reuse, compromised, seeded, owed>>

LockAttempts(r) ==
  /\ At(r, "lockAttempts")
  /\ Lock(r, "tooManyAttempts")
  /\ Done(r)
  /\ UNCHANGED <<now, rows, reuse, compromised, seeded, owed>>

-------------------------------------------------------------------------------
(* The environment *)

\* A second passes; Redis drops the counters whose TTL ends.
Tick ==
  /\ now < MaxNow
  /\ now' = now + 1
  /\ reuse' = [u \in Users |-> IF reuse[u].deadline = now + 1 THEN NoCounter
                               ELSE reuse[u]]
  /\ owed' = [u \in Users |-> IF reuse[u].deadline = now + 1 THEN {} ELSE owed[u]]
  /\ UNCHANGED <<rows, lockReason, compromised, seeded, req>>

\* Redis loses the settings of the tenant ''.
LoseSettings ==
  /\ seeded
  /\ seeded' = FALSE
  /\ UNCHANGED <<now, rows, lockReason, reuse, compromised, owed, req>>

\* A statement fails, or the process dies: what was written stays written.
Abort(r) ==
  /\ req[r].step \in Faults
  /\ ~At(r, "idle")
  /\ CutShort(r)
  /\ UNCHANGED <<now, rows, lockReason, reuse, compromised, seeded>>

Init ==
  /\ now = 0
  /\ rows = [t \in Tokens |-> NoRow]
  /\ lockReason = [u \in Users |-> "none"]
  /\ reuse = [u \in Users |-> NoCounter]
  /\ compromised = {}
  /\ seeded \in BOOLEAN
  /\ owed = [u \in Users |-> {}]
  /\ req = [r \in Requests |-> Idle]

SignIn(r) ==
  \/ \E u \in Users, life \in {ShortLife, LongLife} : BeginIssue(r, u, life)
  \/ IssueRevoke(r)
  \/ \E t \in Tokens : IssueInsert(r, t)

Refresh(r) ==
  \/ \E t \in Tokens, access \in Clock : RefreshLoad(r, t, access)
  \/ RefreshMismatch(r) \/ RefreshReused(r) \/ RefreshExpired(r)
  \/ RefreshValid(r) \/ RefreshSign(r) \/ RotateRevoke(r)
  \/ \E t \in Tokens : RotateInsert(r, t)

HandleReuse(r) ==
  \/ ReuseRevoke(r) \/ ReuseCount(r) \/ ReuseReadWindow(r) \/ ReuseWindow(r)
  \/ ReuseReadThreshold(r) \/ ReuseLock(r)

Withdraw(r) ==
  \/ \E t \in Tokens : RevokeTokenFind(r, t)
  \/ \E u \in Users, access \in Clock :
       BeginSignOut(r, u, access) \/ BeginRevokeAll(r, u, access)
  \/ SignOutFind(r) \/ RevokeFamily(r) \/ RevokeAll(r)

LockAndUnlock(r) ==
  \/ \E u \in Users : BeginReset(r, u) \/ BeginWrongPassword(r, u)
  \/ ResetReadUnlock(r) \/ ResetUnlock(r) \/ ResetCounter(r) \/ LockAttempts(r)

Next ==
  \/ \E r \in Requests : \/ SignIn(r) \/ Refresh(r) \/ HandleReuse(r)
                         \/ Withdraw(r) \/ LockAndUnlock(r) \/ Abort(r)
  \/ Tick \/ LoseSettings

Spec == Init /\ [][Next]_vars

-------------------------------------------------------------------------------
(* Properties *)

(* Every token of a family belongs to the user who signed in and expires when
   the token of that sign-in did: rotation never extends a session, whatever
   runs between its UPDATE and its INSERT.                                   *)
FamilyKeepsOwnerAndExpiry ==
  \A t \in Issued :
    LET first == rows[t].family IN
    /\ first \in Issued /\ rows[first].family = first
    /\ rows[t].user = rows[first].user
    /\ rows[t].expiry = rows[first].expiry

(* A token that has a successor is revoked: no failure between the two writes
   of rotate() leaves both the old and the new token usable.                 *)
SpentIsRevoked ==
  \A t \in Issued :
    rows[t].parent # None => rows[rows[t].parent].state = "revoked"

(* The table as the abstract ledger sees it; Ledger!Spec is implemented.     *)
Ledger == INSTANCE TokenLedger WITH
  state  <- [t \in Tokens |-> rows[t].state],
  owner  <- [t \in Tokens |-> rows[t].user],
  family <- [t \in Tokens |-> rows[t].family],
  expiry <- [t \in Tokens |-> rows[t].expiry]

(* The whole table implements the ledger: tokens are issued, succeeded and
   withdrawn, a user's at a time, and never revived or rewritten.            *)
LedgerImplemented == Ledger!Spec

(* A user holds one session: at most one of his tokens is active, for create()
   revokes the others and rotate() the one it replaces.  It needs requests
   that do not overlap.                                                      *)
AtMostOneActive == \A u \in Users : Cardinality(ActiveOf(u)) <= 1

(* Once the reuse handler has revoked a family no token of it is ever active
   again.  It needs requests that do not overlap.                            *)
CompromisedStaysDead == \A f \in compromised : ActiveIn(f) = {}

(* A reuse counter has a TTL, so that it forgets, unless the handler that is
   to set it is still on its way or was cut short since the counter began,
   by a refused read of the setting among other things.                      *)
CounterHasDeadline ==
  \A u \in Users :
    \/ reuse[u].count = 0
    \/ reuse[u].deadline # None
    \/ "ttl" \in owed[u]
    \/ \E r \in Requests : req[r].user = u /\ OwesTtl(r)

(* A user whose counter has reached the threshold is locked, whatever lock
   failed passwords write meanwhile, unless a handler that counted as much is
   still on its way or was cut short and none has locked since.  It needs that
   no password reset runs beside it: a reset unlocks on an old copy of the
   user, and a handler whose own copy says the user is locked for suspicious
   activity then locks nobody.                                               *)
ThresholdLocks ==
  \A u \in Users :
    \/ reuse[u].count < MaxFamilies
    \/ lockReason[u] # "none"
    \/ "lock" \in owed[u]
    \/ \E r \in Requests : req[r].user = u /\ OwesLock(r)
===============================================================================
