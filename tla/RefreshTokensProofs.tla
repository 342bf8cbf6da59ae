------------------------- MODULE RefreshTokensProofs -------------------------
(***************************************************************************)
(* Proofs, for any number of users, tokens and requests in flight, of what *)
(* RefreshTokens keeps whatever the interleaving and the failures: its     *)
(* types, one owner and one expiry date per family, no usable token behind *)
(* a successor, and the implementation of TokenLedger. Then of the reuse   *)
(* counter, and of what holds for requests that come one at a time.        *)
(*                                                                         *)
(* The argument: a step changes the table in one of three ways             *)
(* (RowChange), and what a request remembers of the row it was given stays *)
(* true of that row under all three (Presented), since its columns never   *)
(* change and it is never unrevoked.                                       *)
(*                                                                         *)
(* The counter: what a reuse handler owes it is done, or still pending:    *)
(* with a handler on its way, or on record since one was cut short         *)
(* (Pending); and a lock a handler has seen is still there (SeenStands).   *)
(* One at a time: a request about to insert has revoked what was active,   *)
(* and its family has not been compromised (Working).                      *)
(***************************************************************************)
EXTENDS RefreshTokens, FiniteSetTheorems, TLAPS

(* What a request knows about the user and the row it works on. *)
Knows(r) ==
  /\ req[r].step # "idle" => req[r].user \in Users
  /\ req[r].step \in {"issueRevoke", "issueInsert"} => req[r].token = None
  /\ req[r].step \in {"refreshFind", "refreshSign", "rotateRevoke", "rotateInsert",
                      "reuseRevoke", "revokeFamily"}
       => /\ req[r].token \in Issued
          /\ rows[req[r].token].user = req[r].user
  /\ req[r].step = "rotateInsert" => rows[req[r].token].state = "revoked"

Presented == \A r \in Requests : Knows(r)

IssuedHaveOwner == \A t \in Issued : rows[t].user \in Users

IInv == /\ TypeOK /\ Presented /\ IssuedHaveOwner
        /\ FamilyKeepsOwnerAndExpiry /\ SpentIsRevoked

(* The three ways a step changes the table: it revokes issued rows of one
   user, opens a family, or continues the family of a revoked row.           *)
RowsRevoked ==
  \E u \in Users, S \in SUBSET Tokens :
    /\ \A t \in S : t \in Issued /\ rows[t].user = u
    /\ rows' = Revoked(S)

FamilyOpened ==
  \E t \in Unused, u \in Users, a \in Clock, e \in Times :
    rows' = [rows EXCEPT ![t] =
      [state |-> "active", user |-> u, family |-> t,
       access |-> a, expiry |-> e, parent |-> None]]

FamilyContinued ==
  \E t \in Unused, p \in Issued, a \in Clock :
    /\ rows[p].state = "revoked"
    /\ rows' = [rows EXCEPT ![t] =
         [state |-> "active", user |-> rows[p].user, family |-> rows[p].family,
          access |-> a, expiry |-> rows[p].expiry, parent |-> p]]

RowChange == RowsRevoked \/ FamilyOpened \/ FamilyContinued

-------------------------------------------------------------------------------
LEMMA RevokedRows ==
  ASSUME rows \in [Tokens -> Row], NEW S \in SUBSET Tokens
  PROVE  /\ Revoked(S) \in [Tokens -> Row]
         /\ \A t \in Tokens :
              /\ Revoked(S)[t].user = rows[t].user
              /\ Revoked(S)[t].family = rows[t].family
              /\ Revoked(S)[t].expiry = rows[t].expiry
              /\ Revoked(S)[t].parent = rows[t].parent
              /\ Revoked(S)[t].state = IF t \in S THEN "revoked" ELSE rows[t].state
<1>1. ASSUME NEW t \in Tokens
      PROVE  /\ rows[t] \in Row
             /\ [rows[t] EXCEPT !.state = "revoked"] \in Row
             /\ [rows[t] EXCEPT !.state = "revoked"].user = rows[t].user
             /\ [rows[t] EXCEPT !.state = "revoked"].family = rows[t].family
             /\ [rows[t] EXCEPT !.state = "revoked"].expiry = rows[t].expiry
             /\ [rows[t] EXCEPT !.state = "revoked"].parent = rows[t].parent
             /\ [rows[t] EXCEPT !.state = "revoked"].state = "revoked"
  BY DEF Row
<1> QED BY <1>1 DEF Revoked

(* A request that only goes on to another step.                              *)
LEMMA GotoTyped ==
  ASSUME TypeOK, NEW r \in Requests, NEW step \in Steps, Goto(r, step)
  PROVE  req' \in [Requests -> Request]
<1>1. [req[r] EXCEPT !.step = step] \in Request
  BY DEF TypeOK, Request
<1> QED BY <1>1 DEF TypeOK, Goto

(* A request that ends with an error, and one that reads a setting.          *)
LEMMA CutShortTyped ==
  ASSUME TypeOK, NEW r \in Requests, CutShort(r)
  PROVE  /\ req' \in [Requests -> Request]
         /\ owed' \in [Users -> SUBSET Duties]
<1>1. Idle \in Request
  BY LifeAssumption, ReuseAssumption, BoundAssumption
     DEF Idle, Request, CountCap, Clock, Steps, LockReasons
<1>2. Owes(r) \in SUBSET Duties
  BY DEF Owes
<1> QED BY <1>1, <1>2 DEF TypeOK, CutShort, Done

LEMMA ReadTyped ==
  ASSUME TypeOK, NEW r \in Requests, NEW step \in Steps, ReadSetting(r, step)
  PROVE  /\ req' \in [Requests -> Request]
         /\ owed' \in [Users -> SUBSET Duties]
<1>1. CASE Goto(r, step) /\ UNCHANGED owed
  BY <1>1, GotoTyped DEF TypeOK
<1>2. CASE CutShort(r)
  BY <1>2, CutShortTyped
<1> QED BY <1>1, <1>2 DEF ReadSetting

LEMMA TypePreserved == IInv /\ [Next]_vars => TypeOK'
<1> SUFFICES ASSUME TypeOK, Presented, IssuedHaveOwner, FamilyKeepsOwnerAndExpiry,
                    [Next]_vars
             PROVE  TypeOK'
  BY DEF IInv
<1> USE LifeAssumption, ReuseAssumption, BoundAssumption
<1>0. /\ Idle \in Request /\ NoCounter \in Counter /\ 0 \in 0..CountCap
      /\ now + ShortLife \in Times /\ now + LongLife \in Times
      /\ now + Window \in 0..(MaxNow + Window)
  BY DEF TypeOK, Idle, Request, NoCounter, Counter, CountCap, Clock, Times, Steps, LockReasons
<1>1. ASSUME NEW r \in Requests, SignIn(r) PROVE TypeOK'
  <2>1. ASSUME NEW u \in Users, NEW life \in {ShortLife, LongLife}, BeginIssue(r, u, life)
        PROVE TypeOK'
    BY <1>0, <2>1 DEF BeginIssue, TypeOK, Request, Idle, Steps
  <2>2. ASSUME IssueRevoke(r) PROVE TypeOK'
    BY <2>2, RevokedRows DEF IssueRevoke, TypeOK, Goto, Request, Steps, ActiveOf
  <2>3. ASSUME NEW t \in Tokens, IssueInsert(r, t) PROVE TypeOK'
    <3>1. RowOf(r, t, now + req[r].life) \in Row
      BY <1>0, <2>3 DEF IssueInsert, RowOf, Row, TypeOK, Request, At
    <3> QED BY <1>0, <2>3, <3>1 DEF IssueInsert, TypeOK, Done
  <2> QED BY <1>1, <2>1, <2>2, <2>3 DEF SignIn
<1>2. ASSUME NEW r \in Requests, Refresh(r) PROVE TypeOK'
  <2>1. ASSUME NEW t \in Tokens, NEW access \in Clock, RefreshLoad(r, t, access)
        PROVE TypeOK'
    <3>1. rows[t].user \in Users /\ lockReason[rows[t].user] \in LockReasons
      BY <2>1 DEF RefreshLoad, IssuedHaveOwner, TypeOK
    <3> QED BY <1>0, <2>1, <3>1 DEF RefreshLoad, TypeOK, Request, Idle, Steps
  <2>2. ASSUME RefreshMismatch(r) \/ RefreshExpired(r) PROVE TypeOK'
    BY <1>0, <2>2 DEF RefreshMismatch, RefreshExpired, TypeOK, Done
  <2>3. ASSUME RefreshReused(r) \/ RefreshValid(r) PROVE TypeOK'
    <3>1. "reuseRevoke" \in Steps /\ "refreshSign" \in Steps
      BY DEF Steps
    <3>2. req' \in [Requests -> Request]
      BY <2>3, <3>1, GotoTyped DEF RefreshReused, RefreshValid
    <3> QED BY <2>3, <3>2 DEF RefreshReused, RefreshValid, TypeOK
  <2>4. ASSUME RefreshSign(r) PROVE TypeOK'
    <3>1. [req[r] EXCEPT !.step = "rotateRevoke", !.access = now] \in Request
      BY DEF TypeOK, Request, Steps
    <3> QED BY <2>4, <3>1 DEF RefreshSign, TypeOK
  <2>5. ASSUME RotateRevoke(r) PROVE TypeOK'
    <3>1. req[r].token \in Tokens
      BY <2>5 DEF RotateRevoke, At, Presented, Knows, Issued
    <3>2. rows' \in [Tokens -> Row]
      BY <2>5, <3>1, RevokedRows DEF RotateRevoke, TypeOK
    <3>3. [req[r] EXCEPT !.step = "rotateInsert"] \in Request
      BY DEF TypeOK, Request, Steps
    <3> QED BY <2>5, <3>2, <3>3 DEF RotateRevoke, TypeOK, Goto
  <2>6. ASSUME NEW t \in Tokens, RotateInsert(r, t) PROVE TypeOK'
    <3>1. req[r].token \in Tokens
      BY <2>6 DEF RotateInsert, At, Presented, Knows, Issued
    <3>2. Successor(r) \in Row
      BY <3>1 DEF Successor, RowOf, Row, TypeOK, Request
    <3> QED BY <1>0, <2>6, <3>2 DEF RotateInsert, TypeOK, Done
  <2> QED BY <1>2, <2>1, <2>2, <2>3, <2>4, <2>5, <2>6 DEF Refresh
<1>3. ASSUME NEW r \in Requests, HandleReuse(r) PROVE TypeOK'
  <2>1. ASSUME ReuseRevoke(r) PROVE TypeOK'
    <3>1. req[r].token \in Issued
      BY <2>1 DEF ReuseRevoke, At, Presented, Knows
    <3>2. rows[req[r].token].family \in Tokens
      BY <3>1 DEF Issued, FamilyKeepsOwnerAndExpiry
    <3>3. rows' \in [Tokens -> Row]
      BY <2>1, RevokedRows DEF ReuseRevoke, TypeOK, ActiveIn
    <3>4. [req[r] EXCEPT !.step = "reuseCount", !.token = None, !.access = 0] \in Request
      <4>1. req[r] \in Request /\ 0 \in Clock /\ "reuseCount" \in Steps
        BY DEF TypeOK, Clock, Steps
      <4> QED BY <4>1 DEF Request
    <3>5. compromised' \in SUBSET Tokens
      BY <2>1, <3>2 DEF ReuseRevoke, TypeOK
    <3> QED BY <2>1, <3>3, <3>4, <3>5 DEF ReuseRevoke, TypeOK, CountReuse
  <2>2. ASSUME ReuseCount(r) PROVE TypeOK'
    BY <2>2 DEF ReuseCount, AfterCount, At, Presented, Knows, TypeOK, Request, Steps, Counter, CountCap
  <2>3. ASSUME ReuseWindow(r) PROVE TypeOK'
    <3>1. "reuseReadThreshold" \in Steps
      BY DEF Steps
    <3>2. req' \in [Requests -> Request]
      BY <2>3, <3>1, GotoTyped DEF ReuseWindow
    <3>3. reuse' \in [Users -> Counter]
      BY <1>0, <2>3 DEF ReuseWindow, At, Presented, Knows, TypeOK, Counter
    <3>4. owed' \in [Users -> SUBSET Duties]
      BY <2>3 DEF ReuseWindow, TypeOK
    <3> QED BY <2>3, <3>2, <3>3, <3>4 DEF ReuseWindow, TypeOK
  <2>4. ASSUME ReuseLock(r) PROVE TypeOK'
    <3>1. owed' \in [Users -> SUBSET Duties]
      BY <2>4 DEF ReuseLock, TypeOK
    <3> QED BY <1>0, <2>4, <3>1
            DEF ReuseLock, Lock, At, Presented, Knows, TypeOK, Done, LockReasons
  <2>5. ASSUME ReuseReadWindow(r) \/ ReuseReadThreshold(r) PROVE TypeOK'
    <3>1. "reuseWindow" \in Steps /\ "reuseLock" \in Steps
      BY DEF Steps
    <3>2. req' \in [Requests -> Request] /\ owed' \in [Users -> SUBSET Duties]
      BY <2>5, <3>1, ReadTyped DEF ReuseReadWindow, ReuseReadThreshold
    <3> QED BY <2>5, <3>2 DEF ReuseReadWindow, ReuseReadThreshold, TypeOK
  <2> QED BY <1>3, <2>1, <2>2, <2>3, <2>4, <2>5 DEF HandleReuse
<1>4. ASSUME NEW r \in Requests, Withdraw(r) PROVE TypeOK'
  <2>1. ASSUME NEW t \in Tokens, RevokeTokenFind(r, t) PROVE TypeOK'
    BY <1>0, <2>1 DEF RevokeTokenFind, TypeOK, Request, Idle, Steps, Row
  <2>2. ASSUME NEW u \in Users, NEW access \in Clock, BeginSignOut(r, u, access)
        PROVE TypeOK'
    BY <1>0, <2>2 DEF BeginSignOut, TypeOK, Request, Idle, Steps
  <2>5. ASSUME NEW u \in Users, NEW access \in Clock, BeginRevokeAll(r, u, access)
        PROVE TypeOK'
    BY <1>0, <2>5 DEF BeginRevokeAll, TypeOK, Request, Idle, Steps
  <2>3. ASSUME SignOutFind(r) PROVE TypeOK'
    <3>1. ASSUME NEW t \in Tokens
          PROVE  [req[r] EXCEPT !.step = "revokeFamily", !.token = t] \in Request
      BY DEF TypeOK, Request, Steps
    <3>2. req' \in [Requests -> Request]
      BY <1>0, <2>3, <3>1 DEF SignOutFind, Done, TypeOK, ActiveOf
    <3> QED BY <2>3, <3>2 DEF SignOutFind, TypeOK
  <2>4. ASSUME RevokeFamily(r) \/ RevokeAll(r) PROVE TypeOK'
    BY <1>0, <2>4, RevokedRows DEF RevokeFamily, RevokeAll, Done, TypeOK, ActiveIn, ActiveOf
  <2> QED BY <1>4, <2>1, <2>2, <2>3, <2>4, <2>5 DEF Withdraw
<1>5. ASSUME NEW r \in Requests, LockAndUnlock(r) PROVE TypeOK'
  <2>1. ASSUME NEW u \in Users, BeginReset(r, u) PROVE TypeOK'
    BY <1>0, <2>1 DEF BeginReset, TypeOK, Request, Idle, Steps
  <2>2. ASSUME NEW u \in Users, BeginWrongPassword(r, u) PROVE TypeOK'
    BY <1>0, <2>2 DEF BeginWrongPassword, TypeOK, Request, Idle, Steps
  <2>3. ASSUME ResetUnlock(r) \/ ResetCounter(r) PROVE TypeOK'
    <3>1. "resetCounter" \in Steps /\ "revokeAll" \in Steps
      BY DEF Steps
    <3>2. owed' \in [Users -> SUBSET Duties]
      BY <2>3 DEF ResetUnlock, ResetCounter, TypeOK
    <3> QED BY <1>0, <2>3, <3>1, <3>2, GotoTyped
            DEF ResetUnlock, ResetCounter, TypeOK, LockReasons
  <2>5. ASSUME ResetReadUnlock(r) PROVE TypeOK'
    <3>1. "resetUnlock" \in Steps /\ "revokeAll" \in Steps
      BY DEF Steps
    <3>2. req' \in [Requests -> Request] /\ owed' \in [Users -> SUBSET Duties]
      BY <2>5, <3>1, ReadTyped DEF ResetReadUnlock
    <3> QED BY <2>5, <3>2 DEF ResetReadUnlock, TypeOK
  <2>4. ASSUME LockAttempts(r) PROVE TypeOK'
    BY <1>0, <2>4 DEF LockAttempts, Lock, Done, TypeOK, LockReasons
  <2> QED BY <1>5, <2>1, <2>2, <2>3, <2>4, <2>5 DEF LockAndUnlock
<1>6. ASSUME NEW r \in Requests, Abort(r) PROVE TypeOK'
  BY <1>6, CutShortTyped DEF Abort, TypeOK
<1>7. ASSUME Tick \/ LoseSettings PROVE TypeOK'
  <2>1. CASE Tick
    <3>1. owed' \in [Users -> SUBSET Duties]
      BY <2>1 DEF Tick, TypeOK
    <3> QED BY <1>0, <2>1, <3>1 DEF Tick, TypeOK, Clock
  <2>2. CASE LoseSettings
    BY <2>2 DEF LoseSettings, TypeOK
  <2> QED BY <1>7, <2>1, <2>2
<1>8. ASSUME UNCHANGED vars PROVE TypeOK'
  BY <1>8 DEF vars, TypeOK
<1> QED BY <1>1, <1>2, <1>3, <1>4, <1>5, <1>6, <1>7, <1>8 DEF Next

-------------------------------------------------------------------------------
LEMMA TableSteps == IInv /\ [Next]_vars => rows' = rows \/ RowChange
<1> SUFFICES ASSUME IInv, [Next]_vars, rows' # rows PROVE RowChange
  OBVIOUS
<1> USE DEF IInv
<1>0. PICK r \in Requests :
        \/ IssueRevoke(r) \/ RotateRevoke(r) \/ ReuseRevoke(r)
        \/ RevokeFamily(r) \/ RevokeAll(r)
        \/ \E t \in Tokens : IssueInsert(r, t) \/ RotateInsert(r, t)
  BY DEF Next, vars, SignIn, Refresh, HandleReuse, Withdraw, LockAndUnlock,
         BeginIssue, RefreshLoad, RefreshMismatch, RefreshReused, RefreshExpired,
         RefreshValid, RefreshSign, ReuseCount, ReuseReadWindow, ReuseWindow,
         ReuseReadThreshold, ReuseLock, RevokeTokenFind, BeginSignOut, SignOutFind,
         BeginRevokeAll, BeginReset, ResetReadUnlock, ResetUnlock, ResetCounter,
         BeginWrongPassword, LockAttempts, Tick, LoseSettings, Abort
<1>1. req[r].step # "idle" /\ req[r].user \in Users
  BY <1>0 DEF Presented, Knows, At, IssueRevoke, RotateRevoke, ReuseRevoke, RevokeFamily,
              RevokeAll, IssueInsert, RotateInsert
<1>2. ASSUME IssueRevoke(r) \/ RevokeAll(r) PROVE RowsRevoked
  BY <1>1, <1>2 DEF IssueRevoke, RevokeAll, RowsRevoked, ActiveOf, Issued
<1>3. ASSUME RotateRevoke(r) PROVE RowsRevoked
  <2>1. /\ req[r].token \in Issued /\ rows[req[r].token].user = req[r].user
        /\ {req[r].token} \in SUBSET Tokens
    BY <1>3 DEF RotateRevoke, At, Presented, Knows, Issued
  <2> QED BY <1>1, <1>3, <2>1 DEF RotateRevoke, RowsRevoked
<1>4. ASSUME ReuseRevoke(r) \/ RevokeFamily(r) PROVE RowsRevoked
  <2>1. /\ req[r].token \in Issued /\ rows[req[r].token].user = req[r].user
        /\ rows' = Revoked(ActiveIn(rows[req[r].token].family))
    BY <1>4 DEF ReuseRevoke, RevokeFamily, At, Presented, Knows
  <2>2. \A t \in ActiveIn(rows[req[r].token].family) :
           t \in Issued /\ rows[t].user = req[r].user
    BY <2>1 DEF ActiveIn, Issued, FamilyKeepsOwnerAndExpiry
  <2>3. ActiveIn(rows[req[r].token].family) \in SUBSET Tokens
    BY DEF ActiveIn
  <2> QED BY <1>1, <2>1, <2>2, <2>3 DEF RowsRevoked
<1>5. ASSUME NEW t \in Tokens, IssueInsert(r, t) PROVE FamilyOpened
  <2>1. /\ t \in Unused /\ req[r].token = None
        /\ rows' = [rows EXCEPT ![t] = RowOf(r, t, now + req[r].life)]
    BY <1>5 DEF IssueInsert, At, Presented, Knows
  <2>2. req[r].access \in Clock /\ now + req[r].life \in Times
    BY LifeAssumption, BoundAssumption DEF TypeOK, Request, Clock, Times
  <2> QED BY <1>1, <2>1, <2>2 DEF FamilyOpened, RowOf
<1>6. ASSUME NEW t \in Tokens, RotateInsert(r, t) PROVE FamilyContinued
  <2>1. /\ t \in Unused /\ req[r].token \in Issued
        /\ rows[req[r].token].user = req[r].user
        /\ rows[req[r].token].state = "revoked"
        /\ rows' = [rows EXCEPT ![t] = Successor(r)]
    BY <1>6 DEF RotateInsert, At, Presented, Knows
  <2>2. req[r].access \in Clock
    BY DEF TypeOK, Request
  <2> QED BY <2>1, <2>2 DEF FamilyContinued, Successor, RowOf
<1> QED BY <1>0, <1>2, <1>3, <1>4, <1>5, <1>6 DEF RowChange

(* A row once issued keeps its columns, and stays revoked once it is. *)
RowsKept ==
  \A t \in Issued :
    /\ t \in Issued'
    /\ rows'[t].user = rows[t].user
    /\ rows'[t].family = rows[t].family
    /\ rows'[t].expiry = rows[t].expiry
    /\ rows'[t].parent = rows[t].parent
    /\ rows[t].state = "revoked" => rows'[t].state = "revoked"

LEMMA RowsAreKept == TypeOK /\ (rows' = rows \/ RowChange) => RowsKept
<1> SUFFICES ASSUME TypeOK, rows' = rows \/ RowChange PROVE RowsKept
  OBVIOUS
<1>0. rows \in [Tokens -> Row]
  BY DEF TypeOK
<1>1. CASE rows' = rows
  BY <1>1 DEF RowsKept, Issued
<1>2. CASE RowsRevoked
  <2>1. PICK S \in SUBSET Tokens : rows' = Revoked(S)
    BY <1>2 DEF RowsRevoked
  <2> QED BY <1>0, <2>1, RevokedRows DEF RowsKept, Issued
<1>3. CASE FamilyOpened
  BY <1>0, <1>3 DEF FamilyOpened, RowsKept, Issued, Unused
<1>4. CASE FamilyContinued
  BY <1>0, <1>4 DEF FamilyContinued, RowsKept, Issued, Unused
<1> QED BY <1>1, <1>2, <1>3, <1>4 DEF RowChange

LEMMA TablePreserved ==
  IInv /\ (rows' = rows \/ RowChange)
    => IssuedHaveOwner' /\ FamilyKeepsOwnerAndExpiry' /\ SpentIsRevoked'
<1> SUFFICES ASSUME IInv, rows' = rows \/ RowChange
             PROVE  IssuedHaveOwner' /\ FamilyKeepsOwnerAndExpiry' /\ SpentIsRevoked'
  OBVIOUS
<1> USE DEF IInv
<1>0. rows \in [Tokens -> Row] /\ RowsKept
  BY RowsAreKept DEF TypeOK
<1>1. CASE rows' = rows
  BY <1>1 DEF IssuedHaveOwner, FamilyKeepsOwnerAndExpiry, SpentIsRevoked, Issued
<1>2. CASE RowsRevoked
  <2>1. PICK S \in SUBSET Tokens : /\ \A t \in S : t \in Issued
                                  /\ rows' = Revoked(S)
    BY <1>2 DEF RowsRevoked
  <2>2. \A t \in Tokens : /\ rows'[t].user = rows[t].user
                          /\ rows'[t].family = rows[t].family
                          /\ rows'[t].expiry = rows[t].expiry
                          /\ rows'[t].parent = rows[t].parent
                          /\ rows'[t].state = IF t \in S THEN "revoked" ELSE rows[t].state
    BY <1>0, <2>1, RevokedRows
  <2>3. Issued' = Issued
    BY <2>1, <2>2 DEF Issued
  <2>4. IssuedHaveOwner' /\ FamilyKeepsOwnerAndExpiry'
    BY <2>2, <2>3 DEF IssuedHaveOwner, FamilyKeepsOwnerAndExpiry, Issued
  <2>5. \A t \in Issued : t \in Tokens /\ rows[t].parent \in Tokens \union {None}
    BY <1>0 DEF Issued, Row
  <2>6. SpentIsRevoked'
    BY <2>2, <2>3, <2>5 DEF SpentIsRevoked
  <2> QED BY <2>4, <2>6
<1>3. CASE FamilyOpened
  <2>1. PICK t \in Unused, u \in Users, a \in Clock, e \in Times :
          rows' = [rows EXCEPT ![t] = [state |-> "active", user |-> u, family |-> t,
                                       access |-> a, expiry |-> e, parent |-> None]]
    BY <1>3 DEF FamilyOpened
  <2> DEFINE new == [state |-> "active", user |-> u, family |-> t,
                     access |-> a, expiry |-> e, parent |-> None]
  <2>2. /\ t \in Tokens /\ t \notin Issued /\ rows'[t] = new
        /\ \A s \in Tokens \ {t} : rows'[s] = rows[s]
        /\ Issued' = Issued \union {t}
    BY <1>0, <2>1 DEF Unused, Issued
  <2>3. IssuedHaveOwner' /\ FamilyKeepsOwnerAndExpiry'
    BY <2>2 DEF IssuedHaveOwner, FamilyKeepsOwnerAndExpiry, Issued
  <2>4. SpentIsRevoked'
    <3> SUFFICES ASSUME NEW s \in Issued', rows'[s].parent # None
                 PROVE  rows'[rows'[s].parent].state = "revoked"
      BY DEF SpentIsRevoked
    <3>1. s \in Issued /\ s # t /\ rows'[s] = rows[s]
      BY <2>2 DEF Issued
    <3>2. rows[s].parent \in Tokens /\ rows[rows[s].parent].state = "revoked"
      BY <1>0, <3>1 DEF SpentIsRevoked, Issued, Row
    <3> QED BY <2>2, <3>1, <3>2 DEF Issued
  <2> QED BY <2>3, <2>4
<1>4. CASE FamilyContinued
  <2>1. PICK t \in Unused, p \in Issued, a \in Clock :
          /\ rows[p].state = "revoked"
          /\ rows' = [rows EXCEPT ![t] =
               [state |-> "active", user |-> rows[p].user, family |-> rows[p].family,
                access |-> a, expiry |-> rows[p].expiry, parent |-> p]]
    BY <1>4 DEF FamilyContinued
  <2> DEFINE new == [state |-> "active", user |-> rows[p].user, family |-> rows[p].family,
                     access |-> a, expiry |-> rows[p].expiry, parent |-> p]
  <2>2. /\ t \in Tokens /\ t \notin Issued /\ rows'[t] = new /\ p # t
        /\ \A s \in Tokens \ {t} : rows'[s] = rows[s]
        /\ Issued' = Issued \union {t}
    BY <1>0, <2>1 DEF Unused, Issued
  <2>3. IssuedHaveOwner' /\ FamilyKeepsOwnerAndExpiry'
    BY <2>2 DEF IssuedHaveOwner, FamilyKeepsOwnerAndExpiry, Issued
  <2>4. SpentIsRevoked'
    <3> SUFFICES ASSUME NEW s \in Issued', rows'[s].parent # None
                 PROVE  rows'[rows'[s].parent].state = "revoked"
      BY DEF SpentIsRevoked
    <3>1. CASE s = t
      BY <2>1, <2>2, <3>1 DEF Issued
    <3>2. CASE s # t
      <4>1. s \in Issued /\ rows'[s] = rows[s]
        BY <2>2, <3>2 DEF Issued
      <4>2. rows[s].parent \in Tokens /\ rows[rows[s].parent].state = "revoked"
        BY <1>0, <4>1 DEF SpentIsRevoked, Issued, Row
      <4> QED BY <2>2, <4>1, <4>2 DEF Issued
    <3> QED BY <3>1, <3>2
  <2> QED BY <2>3, <2>4
<1> QED BY <1>1, <1>2, <1>3, <1>4 DEF RowChange

LEMMA PresentedPreserved == IInv /\ [Next]_vars /\ RowsKept => Presented'
<1> SUFFICES ASSUME IInv, [Next]_vars, RowsKept PROVE Presented'
  OBVIOUS
<1> USE DEF IInv
<1>0. req \in [Requests -> Request] /\ rows \in [Tokens -> Row]
  BY DEF TypeOK
<1>1. ASSUME NEW q \in Requests, req'[q] = req[q] PROVE Knows(q)'
  BY <1>1 DEF Presented, Knows, RowsKept
<1>2. ASSUME NEW q \in Requests, req'[q] = Idle PROVE Knows(q)'
  BY <1>2 DEF Knows, Idle
<1>10. ASSUME NEW r \in Requests, CutShort(r) PROVE Presented'
  BY <1>0, <1>1, <1>2, <1>10 DEF CutShort, Done, Presented
<1>11. ASSUME NEW r \in Requests, req[r].step # "idle",
              NEW step \in {"reuseWindow", "reuseLock", "resetUnlock", "revokeAll"},
              ReadSetting(r, step)
       PROVE  Presented'
  <2>1. CASE Goto(r, step)
    <3>1. req'[r].step = step /\ req'[r].user = req[r].user
      BY <1>0, <2>1 DEF Goto, Request
    <3>2. Knows(r)'
      BY <1>11, <3>1 DEF Presented, Knows
    <3> QED BY <1>0, <1>1, <2>1, <3>2 DEF Goto, Presented
  <2>2. CASE CutShort(r)
    BY <1>10, <2>2
  <2> QED BY <1>11, <2>1, <2>2 DEF ReadSetting
<1>3. ASSUME NEW r \in Requests, SignIn(r) PROVE Presented'
  <2>1. ASSUME NEW u \in Users, NEW life \in {ShortLife, LongLife}, BeginIssue(r, u, life)
        PROVE Presented'
    BY <1>0, <1>1, <2>1 DEF BeginIssue, Presented, Knows, Idle
  <2>2. ASSUME IssueRevoke(r) PROVE Presented'
    BY <1>0, <1>1, <2>2 DEF IssueRevoke, Goto, At, Presented, Knows
  <2>3. ASSUME NEW t \in Tokens, IssueInsert(r, t) PROVE Presented'
    BY <1>0, <1>1, <1>2, <2>3 DEF IssueInsert, Done, Presented
  <2> QED BY <1>3, <2>1, <2>2, <2>3 DEF SignIn
<1>4. ASSUME NEW r \in Requests, Refresh(r) PROVE Presented'
  <2>1. ASSUME NEW t \in Tokens, NEW access \in Clock, RefreshLoad(r, t, access)
        PROVE Presented'
    <3>1. rows[t].user \in Users /\ t \in Issued' /\ rows'[t].user = rows[t].user
      BY <2>1 DEF RefreshLoad, IssuedHaveOwner, RowsKept
    <3>2. Knows(r)'
      BY <1>0, <2>1, <3>1 DEF RefreshLoad, Knows, Idle
    <3> QED BY <1>0, <1>1, <2>1, <3>2 DEF RefreshLoad, Presented
  <2>2. ASSUME RefreshMismatch(r) \/ RefreshExpired(r) PROVE Presented'
    BY <1>0, <1>1, <1>2, <2>2 DEF RefreshMismatch, RefreshExpired, Done, Presented
  <2>3. ASSUME RefreshReused(r) \/ RefreshValid(r) \/ RefreshSign(r) PROVE Presented'
    <3>0. /\ req'[r].step \in {"reuseRevoke", "refreshSign", "rotateRevoke"}
          /\ req'[r].token = req[r].token /\ req'[r].user = req[r].user
      BY <1>0, <2>3 DEF RefreshReused, RefreshValid, RefreshSign, Goto, Request
    <3>2. req[r].step \in {"refreshFind", "refreshSign"}
      BY <2>3 DEF RefreshReused, RefreshValid, RefreshSign, At
    <3>1. Knows(r)'
      BY <3>0, <3>2 DEF Presented, Knows, RowsKept
    <3> QED BY <1>0, <1>1, <2>3, <3>1
            DEF RefreshReused, RefreshValid, RefreshSign, Goto, Presented
  <2>4. ASSUME RotateRevoke(r) PROVE Presented'
    <3>1. /\ req[r].token \in Issued /\ rows[req[r].token].user = req[r].user
          /\ req[r].user \in Users
      BY <2>4 DEF RotateRevoke, At, Presented, Knows
    <3>2. rows'[req[r].token].state = "revoked"
      BY <1>0, <2>4, <3>1 DEF RotateRevoke, Revoked, Issued, Row
    <3>3. /\ req'[r].token = req[r].token /\ req'[r].user = req[r].user
          /\ req'[r].step = "rotateInsert"
      BY <1>0, <2>4 DEF RotateRevoke, Goto, Request
    <3>4. Knows(r)'
      BY <3>1, <3>2, <3>3 DEF Knows, RowsKept
    <3> QED BY <1>0, <1>1, <2>4, <3>4 DEF RotateRevoke, Goto, Presented
  <2>5. ASSUME NEW t \in Tokens, RotateInsert(r, t) PROVE Presented'
    BY <1>0, <1>1, <1>2, <2>5 DEF RotateInsert, Done, Presented
  <2> QED BY <1>4, <2>1, <2>2, <2>3, <2>4, <2>5 DEF Refresh
<1>5. ASSUME NEW r \in Requests, HandleReuse(r) PROVE Presented'
  <2>1. ASSUME ReuseRevoke(r) \/ ReuseWindow(r) PROVE Presented'
    <3>0. /\ req'[r].step \in {"reuseCount", "reuseReadThreshold"}
          /\ req'[r].user = req[r].user
      BY <1>0, <2>1 DEF ReuseRevoke, ReuseWindow, Goto, CountReuse, Request
    <3>2. req[r].step # "idle"
      BY <2>1 DEF ReuseRevoke, ReuseWindow, At
    <3>1. Knows(r)'
      BY <3>0, <3>2 DEF Presented, Knows
    <3> QED BY <1>0, <1>1, <2>1, <3>1 DEF ReuseRevoke, ReuseWindow, Goto, CountReuse, Presented
  <2>2. ASSUME ReuseCount(r) PROVE Presented'
    <3>1. Knows(r)'
      BY <1>0, <2>2 DEF ReuseCount, AfterCount, At, Presented, Knows
    <3> QED BY <1>0, <1>1, <2>2, <3>1 DEF ReuseCount, Presented
  <2>3. ASSUME ReuseLock(r) PROVE Presented'
    BY <1>0, <1>1, <1>2, <2>3 DEF ReuseLock, Done, Presented
  <2>4. ASSUME ReuseReadWindow(r) \/ ReuseReadThreshold(r) PROVE Presented'
    BY <1>11, <2>4 DEF ReuseReadWindow, ReuseReadThreshold, At
  <2> QED BY <1>5, <2>1, <2>2, <2>3, <2>4 DEF HandleReuse
<1>6. ASSUME NEW r \in Requests, Withdraw(r) PROVE Presented'
  <2>1. ASSUME NEW t \in Tokens, RevokeTokenFind(r, t) PROVE Presented'
    <3>1. t \in Issued /\ rows[t].user \in Users
      BY <2>1 DEF RevokeTokenFind, Issued, IssuedHaveOwner
    <3>2. Knows(r)'
      BY <1>0, <2>1, <3>1 DEF RevokeTokenFind, Knows, Idle, RowsKept
    <3> QED BY <1>0, <1>1, <2>1, <3>2 DEF RevokeTokenFind, Presented
  <2>2. ASSUME NEW u \in Users, NEW access \in Clock, BeginSignOut(r, u, access)
        PROVE Presented'
    BY <1>0, <1>1, <2>2 DEF BeginSignOut, Presented, Knows, Idle
  <2>3. ASSUME NEW u \in Users, NEW access \in Clock, BeginRevokeAll(r, u, access)
        PROVE Presented'
    BY <1>0, <1>1, <2>3 DEF BeginRevokeAll, Presented, Knows, Idle
  <2>4. ASSUME SignOutFind(r) PROVE Presented'
    <3>1. CASE Done(r)
      BY <1>0, <1>1, <1>2, <3>1 DEF Done, Presented
    <3>2. CASE \E t \in ActiveOf(req[r].user) :
                 req' = [req EXCEPT ![r].step = "revokeFamily", ![r].token = t]
      <4>1. PICK t \in ActiveOf(req[r].user) :
              req' = [req EXCEPT ![r].step = "revokeFamily", ![r].token = t]
        BY <3>2
      <4>2. t \in Issued /\ rows[t].user = req[r].user /\ req[r].user \in Users
        BY <2>4 DEF ActiveOf, Issued, SignOutFind, At, Presented, Knows
      <4>3. Knows(r)'
        BY <1>0, <4>1, <4>2 DEF Knows, RowsKept
      <4> QED BY <1>0, <1>1, <4>1, <4>3 DEF Presented
    <3> QED BY <2>4, <3>1, <3>2 DEF SignOutFind
  <2>5. ASSUME RevokeFamily(r) \/ RevokeAll(r) PROVE Presented'
    BY <1>0, <1>1, <1>2, <2>5 DEF RevokeFamily, RevokeAll, Done, Presented
  <2> QED BY <1>6, <2>1, <2>2, <2>3, <2>4, <2>5 DEF Withdraw
<1>7. ASSUME NEW r \in Requests, LockAndUnlock(r) PROVE Presented'
  <2>1. ASSUME NEW u \in Users, BeginReset(r, u) PROVE Presented'
    <3>1. Knows(r)'
      BY <1>0, <2>1 DEF BeginReset, Knows, Idle
    <3> QED BY <1>0, <1>1, <2>1, <3>1 DEF BeginReset, Presented
  <2>2. ASSUME NEW u \in Users, BeginWrongPassword(r, u) PROVE Presented'
    BY <1>0, <1>1, <2>2 DEF BeginWrongPassword, Presented, Knows, Idle
  <2>3. ASSUME ResetUnlock(r) \/ ResetCounter(r) PROVE Presented'
    <3>0. /\ req'[r].step \in {"resetCounter", "revokeAll"}
          /\ req'[r].user = req[r].user
      BY <1>0, <2>3 DEF ResetUnlock, ResetCounter, Goto, Request
    <3>2. req[r].step # "idle"
      BY <2>3 DEF ResetUnlock, ResetCounter, At
    <3>1. Knows(r)'
      BY <3>0, <3>2 DEF Presented, Knows
    <3> QED BY <1>0, <1>1, <2>3, <3>1 DEF ResetUnlock, ResetCounter, Goto, Presented
  <2>4. ASSUME LockAttempts(r) PROVE Presented'
    BY <1>0, <1>1, <1>2, <2>4 DEF LockAttempts, Done, Presented
  <2>5. ASSUME ResetReadUnlock(r) PROVE Presented'
    BY <1>11, <2>5 DEF ResetReadUnlock, At
  <2> QED BY <1>7, <2>1, <2>2, <2>3, <2>4, <2>5 DEF LockAndUnlock
<1>8. ASSUME NEW r \in Requests, Abort(r) PROVE Presented'
  BY <1>8, <1>10 DEF Abort
<1>9. ASSUME Tick \/ LoseSettings \/ UNCHANGED vars PROVE Presented'
  BY <1>1, <1>9 DEF Tick, LoseSettings, vars, Presented
<1> QED BY <1>3, <1>4, <1>5, <1>6, <1>7, <1>8, <1>9 DEF Next

-------------------------------------------------------------------------------
LEMMA InitialInvariant == Init => IInv
<1> USE BoundAssumption, LifeAssumption, ReuseAssumption
<1>1. Init => TypeOK
  BY DEF Init, TypeOK, NoRow, Row, NoCounter, Counter, CountCap, Idle, Request,
         Steps, LockReasons, Clock, Times
<1>2. Init => Presented
  BY DEF Init, Presented, Knows, Idle
<1>3. Init => IssuedHaveOwner /\ FamilyKeepsOwnerAndExpiry /\ SpentIsRevoked
  BY DEF Init, Issued, NoRow, IssuedHaveOwner, FamilyKeepsOwnerAndExpiry, SpentIsRevoked
<1> QED BY <1>1, <1>2, <1>3 DEF IInv

LEMMA InvariantPreserved == IInv /\ [Next]_vars => IInv'
<1> SUFFICES ASSUME IInv, [Next]_vars PROVE IInv'
  OBVIOUS
<1>1. rows' = rows \/ RowChange
  BY TableSteps
<1>2. RowsKept
  BY <1>1, RowsAreKept DEF IInv
<1> QED BY <1>1, <1>2, TypePreserved, PresentedPreserved, TablePreserved DEF IInv

LEMMA InductiveInvariant == Spec => []IInv
BY InitialInvariant, InvariantPreserved, PTL DEF Spec

(* The variables of RefreshTokens always have their types. *)
THEOREM TypeCorrect == Spec => []TypeOK
<1>1. IInv => TypeOK
  BY DEF IInv
<1> QED BY <1>1, InductiveInvariant, PTL

(* Rotation never moves a session to another user or past its expiry date,
   for any interleaving of rotate(), create() and the revocations, and any
   failure between their statements.                                         *)
THEOREM FamilyOwnerAndExpiry == Spec => []FamilyKeepsOwnerAndExpiry
<1>1. IInv => FamilyKeepsOwnerAndExpiry
  BY DEF IInv
<1> QED BY <1>1, InductiveInvariant, PTL

(* rotate() never leaves a token usable beside its successor. *)
THEOREM SpentTokensRevoked == Spec => []SpentIsRevoked
<1>1. IInv => SpentIsRevoked
  BY DEF IInv
<1> QED BY <1>1, InductiveInvariant, PTL

(* The table implements TokenLedger: the first row is its empty ledger, and
   every step is one of its steps or leaves it alone.                        *)
THEOREM ImplementsLedger == Spec => LedgerImplemented
<1>1. Init => Ledger!Init
  BY DEF Init, NoRow, Ledger!Init
<1>2. IInv /\ [Next]_vars => [Ledger!Next]_(Ledger!vars)
  <2> SUFFICES ASSUME IInv, [Next]_vars PROVE [Ledger!Next]_(Ledger!vars)
    OBVIOUS
  <2>0. rows \in [Tokens -> Row] /\ rows' \in [Tokens -> Row]
    BY TypePreserved DEF IInv, TypeOK
  <2>1. CASE rows' = rows
    BY <2>1 DEF Ledger!vars
  <2>2. CASE RowsRevoked
    <3>1. PICK u \in Users, S \in SUBSET Tokens :
            /\ \A t \in S : t \in Issued /\ rows[t].user = u
            /\ rows' = Revoked(S)
      BY <2>2 DEF RowsRevoked
    <3>5. PICK A \in SUBSET Tokens : A = {t \in S : rows[t].state = "active"}
      OBVIOUS
    <3>2. \A t \in Tokens :
            /\ rows'[t].user = rows[t].user
            /\ rows'[t].family = rows[t].family
            /\ rows'[t].expiry = rows[t].expiry
            /\ rows'[t].state = IF t \in S THEN "revoked" ELSE rows[t].state
      BY <2>0, <3>1, RevokedRows
    <3>3. \A t \in Tokens :
            rows'[t].state = IF t \in A THEN "revoked" ELSE rows[t].state
      BY <2>0, <3>1, <3>2, <3>5 DEF Row, Issued
    <3>6. A \in SUBSET Ledger!Held(u)
      BY <3>1, <3>5 DEF Ledger!Held
    <3>4. Ledger!Revoke(u)
      BY <3>2, <3>3, <3>6 DEF Ledger!Revoke
    <3> QED BY <3>4 DEF Ledger!Next
  <2>3. CASE FamilyOpened
    <3>1. PICK t \in Unused, u \in Users, a \in Clock, e \in Times :
            rows' = [rows EXCEPT ![t] = [state |-> "active", user |-> u, family |-> t,
                                         access |-> a, expiry |-> e, parent |-> None]]
      BY <2>3 DEF FamilyOpened
    <3>2. t \in Tokens /\ rows[t].state = "unused"
      BY DEF Unused
    <3>3. Ledger!Open(t, u, e)
      BY <2>0, <3>1, <3>2 DEF Ledger!Open, Ledger!Issue
    <3> QED BY <3>2, <3>3 DEF Ledger!Next
  <2>4. CASE FamilyContinued
    <3>1. PICK t \in Unused, p \in Issued, a \in Clock :
            /\ rows[p].state = "revoked"
            /\ rows' = [rows EXCEPT ![t] =
                 [state |-> "active", user |-> rows[p].user, family |-> rows[p].family,
                  access |-> a, expiry |-> rows[p].expiry, parent |-> p]]
      BY <2>4 DEF FamilyContinued
    <3>2. t \in Tokens /\ rows[t].state = "unused" /\ p \in Tokens
      BY DEF Unused, Issued
    <3>3. Ledger!Succeed(t, p)
      BY <2>0, <3>1, <3>2 DEF Ledger!Succeed, Ledger!Issue
    <3> QED BY <3>2, <3>3 DEF Ledger!Next
  <2> QED BY <2>1, <2>2, <2>3, <2>4, TableSteps DEF RowChange
<1> QED BY <1>1, <1>2, InductiveInvariant, PTL DEF Spec, LedgerImplemented, Ledger!Spec

-------------------------------------------------------------------------------
(* The reuse counter and what its handlers owe it.  The steps that touch
   neither, and what a request that takes one of them has seen of the lock.  *)
Aside(r) ==
  /\ reuse' = reuse /\ lockReason' = lockReason /\ owed' = owed
  /\ ~OwesTtl(r) /\ ~OwesLock(r) /\ ~At(r, "reuseCount")
  /\ \A q \in Requests \ {r} : req'[q] = req[q]
  /\ \/ req'[r].seenLock = "none"
     \/ req'[r].seenLock = req[r].seenLock /\ req'[r].user = req[r].user
     \/ req'[r].user \in Users /\ req'[r].seenLock = lockReason[req'[r].user]
  /\ req'[r].step = "resetReadUnlock" => "resetPassword" \in Operations
  /\ req'[r].step = "resetUnlock" => At(r, "resetReadUnlock") /\ UnlockOnReset

(* A reuse handler that has read a setting. *)
HasRead(r) ==
  /\ reuse' = reuse /\ lockReason' = lockReason /\ owed' = owed
  /\ \/ At(r, "reuseReadWindow") /\ Goto(r, "reuseWindow")
     \/ At(r, "reuseReadThreshold") /\ Goto(r, "reuseLock")

(* A request that ends with an error, from a refused read or a failure. *)
Stops(r) ==
  /\ reuse' = reuse /\ lockReason' = lockReason
  /\ req[r].user \in Users
  /\ CutShort(r)

LEMMA ActorSteps ==
  ASSUME IInv, NEW r \in Requests,
         \/ SignIn(r) \/ Refresh(r) \/ HandleReuse(r)
         \/ Withdraw(r) \/ LockAndUnlock(r) \/ Abort(r)
  PROVE  \/ ReuseCount(r) \/ ReuseWindow(r) \/ ReuseLock(r)
         \/ ResetUnlock(r) \/ ResetCounter(r) \/ LockAttempts(r)
         \/ Aside(r) \/ HasRead(r) \/ Stops(r)
<1>0. req \in [Requests -> Request]
  BY DEF IInv, TypeOK
<1> USE DEF OwesTtl, OwesLock
<1>1. ASSUME SignIn(r) PROVE Aside(r)
  <2>1. ASSUME NEW u \in Users, NEW life \in {ShortLife, LongLife}, BeginIssue(r, u, life)
        PROVE  Aside(r)
    BY <1>0, <2>1 DEF BeginIssue, Starts, At, Idle, Aside
  <2>2. ASSUME IssueRevoke(r) PROVE Aside(r)
    BY <1>0, <2>2 DEF IssueRevoke, At, Goto, Aside, Request
  <2>3. ASSUME NEW t \in Tokens, IssueInsert(r, t) PROVE Aside(r)
    BY <1>0, <2>3 DEF IssueInsert, At, Done, Idle, Aside
  <2> QED BY <1>1, <2>1, <2>2, <2>3 DEF SignIn
<1>2. ASSUME Refresh(r) PROVE Aside(r)
  <2>1. ASSUME NEW t \in Tokens, NEW access \in Clock, RefreshLoad(r, t, access)
        PROVE  Aside(r)
    <3>1. rows[t].user \in Users
      BY <2>1 DEF RefreshLoad, IInv, IssuedHaveOwner
    <3> QED BY <1>0, <2>1, <3>1 DEF RefreshLoad, Starts, At, Idle, Aside
  <2>2. ASSUME RefreshMismatch(r) \/ RefreshExpired(r) PROVE Aside(r)
    BY <1>0, <2>2 DEF RefreshMismatch, RefreshExpired, At, Done, Idle, Aside
  <2>3. ASSUME RefreshReused(r) \/ RefreshValid(r) \/ RotateRevoke(r) PROVE Aside(r)
    BY <1>0, <2>3 DEF RefreshReused, RefreshValid, RotateRevoke, At, Goto, Aside, Request
  <2>4. ASSUME RefreshSign(r) PROVE Aside(r)
    BY <1>0, <2>4 DEF RefreshSign, At, Aside, Request
  <2>5. ASSUME NEW t \in Tokens, RotateInsert(r, t) PROVE Aside(r)
    BY <1>0, <2>5 DEF RotateInsert, At, Done, Idle, Aside
  <2> QED BY <1>2, <2>1, <2>2, <2>3, <2>4, <2>5 DEF Refresh
<1>3. ASSUME ReuseRevoke(r) PROVE Aside(r)
  BY <1>0, <1>3 DEF ReuseRevoke, CountReuse, At, Aside, Request
<1>4. ASSUME Withdraw(r) PROVE Aside(r)
  <2>1. ASSUME NEW t \in Tokens, RevokeTokenFind(r, t) PROVE Aside(r)
    BY <1>0, <2>1 DEF RevokeTokenFind, Starts, At, Idle, Aside
  <2>2. ASSUME NEW u \in Users, NEW access \in Clock,
               BeginSignOut(r, u, access) \/ BeginRevokeAll(r, u, access)
        PROVE  Aside(r)
    BY <1>0, <2>2 DEF BeginSignOut, BeginRevokeAll, Starts, At, Idle, Aside
  <2>3. ASSUME SignOutFind(r) PROVE Aside(r)
    BY <1>0, <2>3 DEF SignOutFind, At, Done, Idle, Aside, Request
  <2>4. ASSUME RevokeFamily(r) \/ RevokeAll(r) PROVE Aside(r)
    BY <1>0, <2>4 DEF RevokeFamily, RevokeAll, At, Done, Idle, Aside
  <2> QED BY <1>4, <2>1, <2>2, <2>3, <2>4 DEF Withdraw
<1>5. ASSUME NEW u \in Users, BeginReset(r, u) PROVE Aside(r)
  BY <1>0, <1>5 DEF BeginReset, Starts, At, Idle, Aside
<1>6. ASSUME NEW u \in Users, BeginWrongPassword(r, u) PROVE Aside(r)
  BY <1>0, <1>6 DEF BeginWrongPassword, Starts, At, Idle, Aside
<1>7. ASSUME Abort(r) PROVE Stops(r)
  BY <1>7 DEF Abort, Stops, At, IInv, Presented, Knows
<1>8. ASSUME ReuseReadWindow(r) \/ ReuseReadThreshold(r) PROVE HasRead(r) \/ Stops(r)
  BY <1>8 DEF ReuseReadWindow, ReuseReadThreshold, ReadSetting, HasRead, Stops, At,
              IInv, Presented, Knows
<1>9. ASSUME ResetReadUnlock(r) PROVE Aside(r) \/ Stops(r)
  <2>1. CASE CutShort(r)
    BY <1>9, <2>1 DEF ResetReadUnlock, Stops, At, IInv, Presented, Knows
  <2>2. CASE UNCHANGED owed /\ Goto(r, IF UnlockOnReset /\ req[r].seenLock = "tooManyAttempts"
                                       THEN "resetUnlock" ELSE "revokeAll")
    BY <1>0, <1>9, <2>2 DEF ResetReadUnlock, At, Goto, Aside, Request
  <2> QED BY <1>9, <2>1, <2>2 DEF ResetReadUnlock, ReadSetting
<1> QED BY <1>1, <1>2, <1>3, <1>4, <1>5, <1>6, <1>7, <1>8, <1>9 DEF HandleReuse, LockAndUnlock

LEMMA ReuseSteps ==
  ASSUME IInv, [Next]_vars
  PROVE  \/ \E r \in Requests :
              \/ ReuseCount(r) \/ ReuseWindow(r) \/ ReuseLock(r)
              \/ ResetUnlock(r) \/ ResetCounter(r) \/ LockAttempts(r)
              \/ Aside(r) \/ HasRead(r) \/ Stops(r)
         \/ Tick
         \/ reuse' = reuse /\ lockReason' = lockReason /\ owed' = owed /\ req' = req
BY ActorSteps DEF Next, LoseSettings, vars

(* A duty towards the counter of u that nobody has done yet. *)
Pending(d, u) ==
  d \in owed[u] \/ \E r \in Requests : req[r].user = u /\ d \in Owes(r)

(* The steps that do not do duty d for the counter of u, nor drop it. *)
Keeps(r, d, u) ==
  \/ ReuseCount(r) \/ ResetUnlock(r) \/ LockAttempts(r)
  \/ Aside(r) \/ HasRead(r) \/ Stops(r)
  \/ ReuseWindow(r) /\ (d = "lock" \/ u # req[r].user)
  \/ ReuseLock(r) /\ (d = "ttl" \/ u # req[r].user \/ ~AtThreshold(req[r].count))
  \/ ResetCounter(r) /\ u # req[r].user

(* Such a step leaves the duty pending: it goes on towards it, or is cut short
   and leaves it on record.                                                  *)
LEMMA PendingKept ==
  ASSUME IInv, NEW r \in Requests, NEW u \in Users, NEW d \in Duties,
         Keeps(r, d, u), Pending(d, u)
  PROVE  Pending(d, u)'
<1>0. /\ req \in [Requests -> Request] /\ owed \in [Users -> SUBSET Duties]
  BY DEF IInv, TypeOK
<1> USE DEF Duties
<1>1. /\ \A q \in Requests \ {r} : req'[q] = req[q]
      /\ d \in owed[u] => d \in owed'[u]
  BY <1>0 DEF Keeps, ReuseCount, ResetUnlock, LockAttempts, Aside, HasRead, Stops, CutShort,
              ReuseWindow, ReuseLock, ResetCounter, Goto, Done
<1>2. ASSUME NEW q \in Requests, q # r, req[q].user = u, d \in Owes(q)
      PROVE  req'[q].user = u /\ d \in Owes(q)'
  BY <1>1, <1>2 DEF Owes, OwesTtl, OwesLock
<1>3. ASSUME req[r].user = u, d \in Owes(r)
      PROVE  d \in owed'[u] \/ (req'[r].user = u /\ d \in Owes(r)')
  <2>1. /\ d = "ttl" => OwesTtl(r)
        /\ d = "lock" => OwesLock(r)
        /\ OwesTtl(r) \/ OwesLock(r)
    BY <1>3 DEF Owes
  <2>2. CASE ReuseCount(r) \/ ResetUnlock(r) \/ LockAttempts(r) \/ Aside(r) \/ ResetCounter(r)
    BY <2>1, <2>2 DEF ReuseCount, ResetUnlock, LockAttempts, Aside, ResetCounter, At,
                      OwesTtl, OwesLock
  <2>3. CASE HasRead(r)
    <3>1. /\ req'[r].user = req[r].user /\ req'[r].count = req[r].count
          /\ \/ req[r].step = "reuseReadWindow" /\ req'[r].step = "reuseWindow"
             \/ req[r].step = "reuseReadThreshold" /\ req'[r].step = "reuseLock"
      BY <1>0, <2>3 DEF HasRead, Goto, At, Request
    <3> QED BY <1>3, <2>1, <3>1 DEF Owes, OwesTtl, OwesLock
  <2>4. CASE Stops(r)
    BY <1>0, <1>3, <2>4 DEF Stops, CutShort
  <2>5. CASE ReuseWindow(r) /\ d = "lock"
    <3>1. /\ req'[r].user = req[r].user /\ req'[r].count = req[r].count
          /\ req'[r].step = "reuseReadThreshold"
      BY <1>0, <2>5 DEF ReuseWindow, Goto, Request
    <3> QED BY <1>3, <2>1, <2>5, <3>1 DEF Owes, OwesLock
  <2>6. CASE ReuseLock(r) /\ (d = "ttl" \/ u # req[r].user \/ ~AtThreshold(req[r].count))
    BY <1>3, <2>1, <2>6 DEF ReuseLock, At, OwesTtl, OwesLock, AtThreshold
  <2> QED BY <1>3, <2>2, <2>3, <2>4, <2>5, <2>6 DEF Keeps
<1> QED BY <1>1, <1>2, <1>3 DEF Pending

LEMMA DeadlinePreserved == IInv /\ CounterHasDeadline /\ [Next]_vars => CounterHasDeadline'
<1> DEFINE Good(u) == reuse[u].count = 0 \/ reuse[u].deadline # None \/ Pending("ttl", u)
<1>a. \A u \in Users : Pending("ttl", u) <=>
         "ttl" \in owed[u] \/ \E r \in Requests : req[r].user = u /\ OwesTtl(r)
  BY DEF Pending, Owes, Duties
<1>b. \A u \in Users : Pending("ttl", u)' =>
         "ttl" \in owed'[u] \/ \E r \in Requests : req'[r].user = u /\ OwesTtl(r)'
  BY DEF Pending, Owes, Duties
<1> SUFFICES ASSUME IInv, \A u \in Users : Good(u), [Next]_vars, NEW u \in Users
             PROVE  Good(u)'
  BY <1>a, <1>b DEF CounterHasDeadline
<1> USE ReuseAssumption, BoundAssumption
<1>0. /\ req \in [Requests -> Request] /\ reuse \in [Users -> Counter]
      /\ now \in Nat /\ now + Window # None /\ "ttl" \in Duties
  BY NoneAssumption DEF IInv, TypeOK, Clock, Duties
<1>1. ASSUME NEW r \in Requests, ReuseCount(r) PROVE Good(u)'
  <2>1. CASE u # req[r].user
    <3>1. reuse'[u] = reuse[u]
      BY <1>0, <1>1, <2>1 DEF ReuseCount
    <3> QED BY <1>0, <1>1, <3>1, PendingKept DEF Keeps
  <2>2. CASE u = req[r].user /\ reuse[u].count = 0
    <3>1. req'[r].step = "reuseReadWindow" /\ req'[r].user = u
      BY <1>0, <1>1, <2>2 DEF ReuseCount, AfterCount, CountCap, Request
    <3>2. "ttl" \in Owes(r)'
      BY <1>0, <3>1 DEF Owes, OwesTtl
    <3> QED BY <3>1, <3>2 DEF Pending
  <2>3. CASE u = req[r].user /\ reuse[u].count # 0
    <3>1. reuse'[u].deadline = reuse[u].deadline
      BY <1>0, <1>1, <2>3 DEF ReuseCount, Counter
    <3> QED BY <1>0, <1>1, <2>3, <3>1, PendingKept DEF Keeps
  <2> QED BY <2>1, <2>2, <2>3
<1>2. ASSUME NEW r \in Requests, ReuseWindow(r) PROVE Good(u)'
  <2>1. CASE u # req[r].user
    <3>1. reuse'[u] = reuse[u]
      BY <1>0, <1>2, <2>1 DEF ReuseWindow
    <3> QED BY <1>0, <1>2, <2>1, <3>1, PendingKept DEF Keeps
  <2>2. CASE u = req[r].user
    <3>1. reuse[u].count > 0 => reuse'[u].deadline = now + Window
      BY <1>0, <1>2, <2>2 DEF ReuseWindow, Counter
    <3>2. reuse[u].count = 0 => reuse'[u].count = 0
      BY <1>0, <1>2, <2>2 DEF ReuseWindow
    <3>3. reuse[u].count \in Nat
      BY <1>0 DEF Counter, CountCap
    <3> QED BY <1>0, <3>1, <3>2, <3>3
  <2> QED BY <2>1, <2>2
<1>3. ASSUME NEW r \in Requests, ResetCounter(r) PROVE Good(u)'
  <2>1. CASE u = req[r].user
    BY <1>0, <1>3, <2>1 DEF ResetCounter, NoCounter
  <2>2. CASE u # req[r].user
    <3>1. reuse'[u] = reuse[u]
      BY <1>0, <1>3, <2>2 DEF ResetCounter
    <3> QED BY <1>0, <1>3, <2>2, <3>1, PendingKept DEF Keeps
  <2> QED BY <2>1, <2>2
<1>4. ASSUME NEW r \in Requests,
             \/ ReuseLock(r) \/ ResetUnlock(r) \/ LockAttempts(r)
             \/ Aside(r) \/ HasRead(r) \/ Stops(r)
      PROVE  Good(u)'
  <2>1. reuse' = reuse
    BY <1>4 DEF ReuseLock, ResetUnlock, LockAttempts, Aside, HasRead, Stops
  <2>2. Keeps(r, "ttl", u)
    BY <1>4 DEF Keeps
  <2> QED BY <1>0, <2>1, <2>2, PendingKept
<1>5. CASE Tick
  <2>1. CASE reuse[u].deadline = now + 1
    BY <1>5, <2>1 DEF Tick, NoCounter
  <2>2. CASE reuse[u].deadline # now + 1
    BY <1>5, <2>2 DEF Tick, Pending, Owes, OwesTtl, OwesLock
  <2> QED BY <2>1, <2>2
<1>6. CASE reuse' = reuse /\ owed' = owed /\ req' = req
  BY <1>6 DEF Pending, Owes, OwesTtl, OwesLock
<1> QED BY <1>1, <1>2, <1>3, <1>4, <1>5, <1>6, ReuseSteps

(* The counter of a user's reuses forgets: whatever the requests in flight,
   resets among them, it has a TTL, or the handler that made it 1 is about to
   give it one or was cut short before it had, by a failure or by the refused
   read of the setting.                                                      *)
THEOREM CountersForget == Spec => []CounterHasDeadline
<1>1. Init => CounterHasDeadline
  BY DEF Init, NoCounter, CounterHasDeadline
<1> QED BY <1>1, DeadlinePreserved, InductiveInvariant, PTL DEF Spec

-------------------------------------------------------------------------------
(* No password reset unlocks. *)
NoUnlocks == "resetPassword" \in Operations => ~UnlockOnReset

(* A request that has seen its user locked works for a user who still is. *)
SeenStands ==
  \A r \in Requests :
    req[r].seenLock # "none" => /\ req[r].user \in Users
                                /\ lockReason[req[r].user] # "none"

NothingUnlocks ==
  \A r \in Requests : /\ ~At(r, "resetUnlock")
                      /\ At(r, "resetReadUnlock") => ~UnlockOnReset

LockInv == ThresholdLocks /\ SeenStands /\ NothingUnlocks

(* What each step leaves of the locks that requests have seen. *)
LEMMA SeenPreserved ==
  ASSUME IInv, LockInv, NoUnlocks, NEW r \in Requests,
         \/ ReuseCount(r) \/ ReuseWindow(r) \/ ReuseLock(r)
         \/ ResetUnlock(r) \/ ResetCounter(r) \/ LockAttempts(r)
         \/ Aside(r) \/ HasRead(r) \/ Stops(r)
  PROVE  /\ SeenStands' /\ NothingUnlocks'
         /\ ~ResetUnlock(r)
         /\ \A u \in Users : lockReason[u] # "none" => lockReason'[u] # "none"
<1>0. /\ req \in [Requests -> Request] /\ lockReason \in [Users -> LockReasons]
  BY DEF IInv, TypeOK
<1>1. ~ResetUnlock(r)
  BY DEF ResetUnlock, LockInv, NothingUnlocks
<1>2. CASE Aside(r)
  <2>1. SeenStands'
    BY <1>2 DEF Aside, LockInv, SeenStands
  <2>2. NothingUnlocks'
    BY <1>2 DEF Aside, LockInv, NothingUnlocks, NoUnlocks, At
  <2> QED BY <1>1, <1>2, <2>1, <2>2 DEF Aside
<1>3. CASE ~Aside(r)
  <2>1. /\ \A q \in Requests \ {r} : req'[q] = req[q]
        /\ req'[r].step \notin {"resetReadUnlock", "resetUnlock"}
        /\ \/ req'[r].seenLock = "none"
           \/ req'[r].seenLock = req[r].seenLock /\ req'[r].user = req[r].user
    BY <1>0, <1>1, <1>3
       DEF ReuseCount, AfterCount, ReuseWindow, ReuseLock, ResetCounter, LockAttempts,
           HasRead, Stops, CutShort, Goto, Done, Idle, Request
  <2>2. \A u \in Users : lockReason[u] # "none" => lockReason'[u] # "none"
    BY <1>0, <1>1, <1>3
       DEF ReuseCount, ReuseWindow, ReuseLock, ResetCounter, LockAttempts, HasRead, Stops, Lock
  <2>3. SeenStands'
    BY <2>1, <2>2 DEF LockInv, SeenStands
  <2>4. NothingUnlocks'
    BY <2>1 DEF LockInv, NothingUnlocks, At
  <2> QED BY <1>1, <2>2, <2>3, <2>4
<1> QED BY <1>2, <1>3

LEMMA LockInvPreserved == IInv /\ LockInv /\ NoUnlocks /\ [Next]_vars => LockInv'
<1> DEFINE Good(u) == \/ reuse[u].count < MaxFamilies
                      \/ lockReason[u] # "none"
                      \/ Pending("lock", u)
<1>a. \A u \in Users : Pending("lock", u) <=>
         "lock" \in owed[u] \/ \E r \in Requests : req[r].user = u /\ OwesLock(r)
  BY DEF Pending, Owes, Duties
<1>b. \A u \in Users : Pending("lock", u)' =>
         "lock" \in owed'[u] \/ \E r \in Requests : req'[r].user = u /\ OwesLock(r)'
  BY DEF Pending, Owes, Duties
<1>c. (\A u \in Users : Good(u)') => ThresholdLocks'
  BY <1>b DEF ThresholdLocks
<1> SUFFICES ASSUME IInv, LockInv, NoUnlocks, [Next]_vars PROVE LockInv'
  OBVIOUS
<1>d. \A u \in Users : Good(u)
  BY <1>a DEF LockInv, ThresholdLocks
<1> USE ReuseAssumption
<1>0. /\ req \in [Requests -> Request] /\ reuse \in [Users -> Counter]
      /\ lockReason \in [Users -> LockReasons] /\ "lock" \in Duties
  BY DEF IInv, TypeOK, Duties
<1>1. ASSUME NEW r \in Requests, ReuseCount(r), NEW u \in Users PROVE Good(u)'
  <2>1. CASE u # req[r].user
    <3>1. reuse'[u] = reuse[u] /\ lockReason' = lockReason
      BY <1>0, <1>1, <2>1 DEF ReuseCount
    <3> QED BY <1>0, <1>1, <1>d, <3>1, PendingKept DEF Keeps
  <2>2. CASE u = req[r].user
    <3>1. /\ reuse'[u].count = req'[r].count
          /\ req'[r].user = u
          /\ req'[r].step \in {"reuseReadWindow", "reuseReadThreshold"}
          /\ req'[r].count \in Nat
      BY <1>0, <1>1, <2>2 DEF ReuseCount, AfterCount, CountCap, Request, Counter
    <3>2. CASE req'[r].count >= MaxFamilies
      <4>1. "lock" \in Owes(r)'
        BY <1>0, <3>1, <3>2 DEF Owes, OwesLock
      <4> QED BY <3>1, <4>1 DEF Pending
    <3> QED BY <3>1, <3>2
  <2> QED BY <2>1, <2>2
<1>2. ASSUME NEW r \in Requests, ReuseLock(r), NEW u \in Users PROVE Good(u)'
  <2>1. reuse' = reuse
    BY <1>2 DEF ReuseLock
  <2>2. \A v \in Users : lockReason[v] # "none" => lockReason'[v] # "none"
    BY <1>2, SeenPreserved
  <2>3. CASE u = req[r].user /\ AtThreshold(req[r].count)
    <3>1. CASE req[r].seenLock = "none"
      <4>1. Escalates("none", "suspiciousActivity")
        BY DEF Escalates, Severity
      <4> QED BY <1>0, <1>2, <2>3, <3>1, <4>1 DEF ReuseLock, Lock
    <3>2. CASE req[r].seenLock # "none"
      BY <2>2, <2>3, <3>2 DEF LockInv, SeenStands
    <3> QED BY <3>1, <3>2
  <2>4. CASE ~(u = req[r].user /\ AtThreshold(req[r].count))
    <3>1. Keeps(r, "lock", u)
      BY <1>2, <2>4 DEF Keeps
    <3> QED BY <1>0, <1>d, <2>1, <2>2, <3>1, PendingKept
  <2> QED BY <2>3, <2>4
<1>3. ASSUME NEW r \in Requests, ResetCounter(r), NEW u \in Users PROVE Good(u)'
  <2>1. CASE u = req[r].user
    BY <1>0, <1>3, <2>1 DEF ResetCounter, NoCounter
  <2>2. CASE u # req[r].user
    <3>1. reuse'[u] = reuse[u] /\ lockReason' = lockReason
      BY <1>0, <1>3, <2>2 DEF ResetCounter
    <3> QED BY <1>0, <1>3, <1>d, <2>2, <3>1, PendingKept DEF Keeps
  <2> QED BY <2>1, <2>2
<1>4. ASSUME NEW r \in Requests, NEW u \in Users,
             \/ ReuseWindow(r) \/ ResetUnlock(r) \/ LockAttempts(r)
             \/ Aside(r) \/ HasRead(r) \/ Stops(r)
      PROVE  Good(u)'
  <2>1. reuse'[u].count = reuse[u].count
    BY <1>0, <1>4 DEF ReuseWindow, ResetUnlock, LockAttempts, Aside, HasRead, Stops, Counter
  <2>2. Keeps(r, "lock", u)
    BY <1>4 DEF Keeps
  <2>3. lockReason[u] # "none" => lockReason'[u] # "none"
    BY <1>4, SeenPreserved
  <2> QED BY <1>0, <1>d, <2>1, <2>2, <2>3, PendingKept
<1>5. ASSUME Tick, NEW u \in Users PROVE Good(u)'
  <2>1. CASE reuse[u].deadline = now + 1
    BY <1>5, <2>1 DEF Tick, NoCounter
  <2>2. CASE reuse[u].deadline # now + 1
    BY <1>5, <1>d, <2>2 DEF Tick, Pending, Owes, OwesTtl, OwesLock
  <2> QED BY <2>1, <2>2
<1>6. ASSUME reuse' = reuse, lockReason' = lockReason, owed' = owed, req' = req, NEW u \in Users
      PROVE  Good(u)'
  BY <1>6, <1>d DEF Pending, Owes, OwesTtl, OwesLock
<1>7. \A u \in Users : Good(u)'
  BY <1>1, <1>2, <1>3, <1>4, <1>5, <1>6, ReuseSteps
<1>8. SeenStands' /\ NothingUnlocks'
  <2>1. CASE lockReason' = lockReason /\ req' = req
    BY <2>1 DEF LockInv, SeenStands, NothingUnlocks, At
  <2> QED BY <2>1, SeenPreserved, ReuseSteps DEF Tick
<1> QED BY <1>7, <1>8, <1>c DEF LockInv

(* Enough reused tokens lock the account: whatever the requests in flight,
   whatever fails and whatever lock failed passwords write meanwhile, a user
   whose counter is at the threshold is locked, or a handler that counted as
   much is about to lock him, or one was cut short before it could and none
   has since; where no password reset unlocks.                               *)
THEOREM ReusesLock == Spec => [](NoUnlocks => ThresholdLocks)
<1>1. Init => LockInv
  BY ReuseAssumption
     DEF Init, NoCounter, Idle, LockInv, ThresholdLocks, SeenStands, NothingUnlocks, At
<1>2. Init => (NoUnlocks => LockInv)
  BY <1>1
<1>3. IInv /\ (NoUnlocks => LockInv) /\ [Next]_vars => (NoUnlocks => LockInv)'
  BY LockInvPreserved DEF NoUnlocks
<1>4. (NoUnlocks => LockInv) => (NoUnlocks => ThresholdLocks)
  BY DEF LockInv
<1> QED BY <1>2, <1>3, <1>4, InductiveInvariant, PTL DEF Spec

-------------------------------------------------------------------------------
(* Requests that do not overlap: there is one at a time, which may still stop
   at any of its statements.                                                 *)
OneAtATime == \A r, s \in Requests : r = s

(* What the one request has reached between its UPDATE and its INSERT. *)
Working(r) ==
  /\ req[r].step = "issueInsert" => ActiveOf(req[r].user) = {}
  /\ req[r].step \in {"refreshSign", "rotateRevoke"} =>
       rows[req[r].token].state = "active"
  /\ req[r].step = "rotateInsert" =>
       /\ ActiveOf(req[r].user) = {}
       /\ rows[req[r].token].family \notin compromised

OneSession == \A u \in Users : \A s, t \in ActiveOf(u) : s = t

SerialInv ==
  /\ \A r \in Requests : Working(r)
  /\ OneSession
  /\ compromised \subseteq Issued
  /\ CompromisedStaysDead

(* Revoking rows makes none active. *)
LEMMA RevokingIsSafe ==
  ASSUME IInv, SerialInv, NEW S \in SUBSET Tokens, S \subseteq Issued, rows' = Revoked(S)
  PROVE  /\ OneSession'
         /\ Issued' = Issued
         /\ \A f : ActiveIn(f)' = ActiveIn(f) \ S
         /\ \A u : ActiveOf(u)' = ActiveOf(u) \ S
<1>1. \A t \in Tokens :
        /\ rows'[t].user = rows[t].user
        /\ rows'[t].family = rows[t].family
        /\ rows'[t].state = IF t \in S THEN "revoked" ELSE rows[t].state
  BY RevokedRows DEF IInv, TypeOK
<1>2. Issued' = Issued
  BY <1>1 DEF Issued
<1>3. ASSUME NEW f PROVE ActiveIn(f)' = ActiveIn(f) \ S
  BY <1>1 DEF ActiveIn
<1>4. ASSUME NEW u PROVE ActiveOf(u)' = ActiveOf(u) \ S
  BY <1>1 DEF ActiveOf
<1>5. OneSession'
  BY <1>4 DEF SerialInv, OneSession
<1> QED BY <1>2, <1>3, <1>4, <1>5

(* A new row of a user who has no active one, in a family that is not
   compromised, keeps everything.                                            *)
LEMMA InsertingIsSafe ==
  ASSUME IInv, SerialInv, NEW t \in Unused, NEW row, row.state = "active",
         ActiveOf(row.user) = {}, row.family \notin compromised,
         rows' = [rows EXCEPT ![t] = row], compromised' = compromised
  PROVE  OneSession' /\ compromised' \subseteq Issued' /\ CompromisedStaysDead'
<1>0. /\ t \in Tokens /\ t \notin Issued /\ rows'[t] = row
      /\ \A s \in Tokens \ {t} : rows'[s] = rows[s]
  BY DEF IInv, TypeOK, Unused, Issued
<1>1. ASSUME NEW u \in Users, NEW s \in ActiveOf(u)', NEW v \in ActiveOf(u)' PROVE s = v
  <2>1. ASSUME NEW w \in ActiveOf(u)', w # t PROVE w \in ActiveOf(u)
    BY <1>0, <2>1 DEF ActiveOf
  <2>2. t \in ActiveOf(u)' => ActiveOf(u) = {}
    BY <1>0 DEF ActiveOf
  <2> QED BY <2>1, <2>2 DEF SerialInv, OneSession
<1>2. Issued \subseteq Issued'
  BY <1>0 DEF Issued
<1>3. ASSUME NEW f \in compromised, NEW s \in ActiveIn(f)' PROVE FALSE
  <2>1. s # t
    BY <1>0, <1>3 DEF ActiveIn
  <2>2. s \in ActiveIn(f)
    BY <1>0, <2>1 DEF ActiveIn
  <2> QED BY <1>3, <2>2 DEF SerialInv, CompromisedStaysDead
<1>4. OneSession'
  BY <1>1 DEF OneSession
<1>5. CompromisedStaysDead'
  BY <1>3 DEF CompromisedStaysDead
<1> QED BY <1>2, <1>4, <1>5 DEF SerialInv

(* The steps of the one request that leave the table alone. *)
LEMMA WaitingIsSafe ==
  ASSUME IInv, SerialInv, OneAtATime, NEW r \in Requests,
         rows' = rows, compromised' = compromised,
         req' # req => Working(r)'
  PROVE  SerialInv'
<1>1. ASSUME NEW q \in Requests PROVE Working(q)'
  <2>1. q = r
    BY DEF OneAtATime
  <2>2. CASE req' = req
    BY <2>2 DEF SerialInv, Working, ActiveOf
  <2> QED BY <2>1, <2>2
<1>2. OneSession' /\ compromised' \subseteq Issued' /\ CompromisedStaysDead'
  BY DEF SerialInv, OneSession, CompromisedStaysDead, ActiveOf, ActiveIn, Issued
<1> QED BY <1>1, <1>2 DEF SerialInv

LEMMA WithdrawingIsSafe ==
  ASSUME IInv, SerialInv, OneAtATime, NEW r \in Requests,
         \/ IssueRevoke(r) \/ RotateRevoke(r) \/ ReuseRevoke(r)
         \/ RevokeFamily(r) \/ RevokeAll(r)
  PROVE  SerialInv'
<1>0. /\ req \in [Requests -> Request] /\ \A q \in Requests : q = r
      /\ req[r].user \in Users
  BY DEF IInv, TypeOK, OneAtATime, Presented, Knows, At,
         IssueRevoke, RotateRevoke, ReuseRevoke, RevokeFamily, RevokeAll
<1>1. ASSUME NEW S \in SUBSET Tokens, S \subseteq Issued, rows' = Revoked(S),
             compromised' = compromised, Working(r)'
      PROVE  SerialInv'
  <2>1. CompromisedStaysDead'
    BY <1>1, RevokingIsSafe DEF SerialInv, CompromisedStaysDead
  <2> QED BY <1>0, <1>1, <2>1, RevokingIsSafe DEF SerialInv
<1>2. ASSUME IssueRevoke(r) PROVE SerialInv'
  <2>1. /\ ActiveOf(req[r].user) \in SUBSET Tokens /\ ActiveOf(req[r].user) \subseteq Issued
        /\ rows' = Revoked(ActiveOf(req[r].user)) /\ compromised' = compromised
    BY <1>2 DEF IssueRevoke, ActiveOf, Issued
  <2>2. req'[r].step = "issueInsert" /\ req'[r].user = req[r].user
    BY <1>0, <1>2 DEF IssueRevoke, Goto, Request
  <2>3. Working(r)'
    BY <2>1, <2>2, RevokingIsSafe DEF Working
  <2> QED BY <1>1, <2>1, <2>3
<1>3. ASSUME RotateRevoke(r) PROVE SerialInv'
  <2>1. /\ req[r].token \in Issued /\ rows[req[r].token].user = req[r].user
        /\ rows[req[r].token].state = "active"
    BY <1>3 DEF RotateRevoke, At, IInv, Presented, Knows, SerialInv, Working
  <2>2. /\ {req[r].token} \in SUBSET Tokens /\ {req[r].token} \subseteq Issued
        /\ rows' = Revoked({req[r].token}) /\ compromised' = compromised
    BY <1>3, <2>1 DEF RotateRevoke, Issued
  <2>3. req[r].token \in ActiveOf(req[r].user)
    BY <2>1 DEF ActiveOf, Issued
  <2>4. ActiveOf(req[r].user)' = {}
    <3>1. \A t \in ActiveOf(req[r].user) : t = req[r].token
      BY <1>0, <2>3 DEF SerialInv, OneSession
    <3>2. req'[r].user = req[r].user
      BY <1>0, <1>3 DEF RotateRevoke, Goto, Request
    <3> QED BY <2>2, <3>1, <3>2, RevokingIsSafe
  <2>5. rows[req[r].token].family \notin compromised
    BY <2>1 DEF SerialInv, CompromisedStaysDead, ActiveIn, Issued
  <2>6. /\ req'[r].step = "rotateInsert" /\ req'[r].user = req[r].user
        /\ req'[r].token = req[r].token
    BY <1>0, <1>3 DEF RotateRevoke, Goto, Request
  <2>7. rows'[req[r].token].family = rows[req[r].token].family
    BY <2>1, <2>2, RevokedRows DEF IInv, TypeOK, Issued
  <2>8. Working(r)'
    BY <2>2, <2>4, <2>5, <2>6, <2>7 DEF Working
  <2> QED BY <1>1, <2>2, <2>8
<1>4. ASSUME ReuseRevoke(r) PROVE SerialInv'
  <2> DEFINE f == rows[req[r].token].family
  <2>1. req[r].token \in Issued
    BY <1>4 DEF ReuseRevoke, At, IInv, Presented, Knows
  <2>2. f \in Issued
    BY <2>1 DEF IInv, FamilyKeepsOwnerAndExpiry
  <2>3. /\ ActiveIn(f) \in SUBSET Tokens /\ ActiveIn(f) \subseteq Issued
        /\ rows' = Revoked(ActiveIn(f)) /\ compromised' = compromised \union {f}
    BY <1>4 DEF ReuseRevoke, ActiveIn, Issued
  <2>4. req'[r].step = "reuseCount"
    BY <1>0, <1>4 DEF ReuseRevoke, CountReuse, Request
  <2>5. Working(r)'
    BY <2>4 DEF Working
  <2> HIDE DEF f
  <2>6. /\ OneSession' /\ Issued' = Issued
        /\ \A g : ActiveIn(g)' = ActiveIn(g) \ ActiveIn(f)
    BY <2>3, RevokingIsSafe
  <2>7. CompromisedStaysDead'
    BY <2>3, <2>6 DEF SerialInv, CompromisedStaysDead
  <2> QED BY <1>0, <2>2, <2>3, <2>5, <2>6, <2>7 DEF SerialInv
<1>5. ASSUME RevokeFamily(r) PROVE SerialInv'
  <2>1. /\ ActiveIn(rows[req[r].token].family) \in SUBSET Tokens
        /\ ActiveIn(rows[req[r].token].family) \subseteq Issued
        /\ rows' = Revoked(ActiveIn(rows[req[r].token].family))
        /\ compromised' = compromised
    BY <1>5 DEF RevokeFamily, ActiveIn, Issued
  <2>2. Working(r)'
    BY <1>0, <1>5 DEF RevokeFamily, Done, Idle, Working
  <2> QED BY <1>1, <2>1, <2>2
<1>6. ASSUME RevokeAll(r) PROVE SerialInv'
  <2>1. /\ ActiveOf(req[r].user) \in SUBSET Tokens /\ ActiveOf(req[r].user) \subseteq Issued
        /\ rows' = Revoked(ActiveOf(req[r].user)) /\ compromised' = compromised
    BY <1>6 DEF RevokeAll, ActiveOf, Issued
  <2>2. Working(r)'
    BY <1>0, <1>6 DEF RevokeAll, Done, Idle, Working
  <2> QED BY <1>1, <2>1, <2>2
<1> QED BY <1>2, <1>3, <1>4, <1>5, <1>6

LEMMA IssuingIsSafe ==
  ASSUME IInv, SerialInv, OneAtATime, NEW r \in Requests, NEW t \in Tokens,
         IssueInsert(r, t) \/ RotateInsert(r, t)
  PROVE  SerialInv'
<1>0. /\ req \in [Requests -> Request] /\ \A q \in Requests : q = r
      /\ t \in Unused /\ compromised' = compromised
  BY DEF IInv, TypeOK, OneAtATime, IssueInsert, RotateInsert
<1>1. Working(r)'
  BY <1>0 DEF IssueInsert, RotateInsert, Done, Idle, Working
<1>2. ASSUME IssueInsert(r, t)
      PROVE  OneSession' /\ compromised' \subseteq Issued' /\ CompromisedStaysDead'
  <2> DEFINE row == RowOf(r, t, now + req[r].life)
  <2>1. row.state = "active" /\ row.user = req[r].user /\ row.family = t
    BY DEF RowOf
  <2>2. ActiveOf(req[r].user) = {}
    BY <1>2 DEF IssueInsert, At, SerialInv, Working
  <2>3. t \notin compromised
    BY <1>0 DEF SerialInv, Issued, Unused
  <2>4. rows' = [rows EXCEPT ![t] = row]
    BY <1>2 DEF IssueInsert
  <2> HIDE DEF row
  <2> QED BY <1>0, <2>1, <2>2, <2>3, <2>4, InsertingIsSafe
<1>3. ASSUME RotateInsert(r, t)
      PROVE  OneSession' /\ compromised' \subseteq Issued' /\ CompromisedStaysDead'
  <2> DEFINE row == Successor(r)
  <2>1. /\ row.state = "active" /\ row.user = req[r].user
        /\ row.family = rows[req[r].token].family
    BY DEF Successor, RowOf
  <2>2. ActiveOf(req[r].user) = {} /\ rows[req[r].token].family \notin compromised
    BY <1>3 DEF RotateInsert, At, SerialInv, Working
  <2>3. rows' = [rows EXCEPT ![t] = row]
    BY <1>3 DEF RotateInsert
  <2> HIDE DEF row
  <2> QED BY <1>0, <2>1, <2>2, <2>3, InsertingIsSafe
<1> QED BY <1>0, <1>1, <1>2, <1>3 DEF SerialInv

(* Every other step waits: the token a refresh goes on with is active. *)
Waits(r) == rows' = rows /\ compromised' = compromised /\ (req' # req => Working(r)')

LEMMA SerialSteps ==
  ASSUME IInv, SerialInv, OneAtATime, NEW r \in Requests,
         \/ SignIn(r) \/ Refresh(r) \/ HandleReuse(r)
         \/ Withdraw(r) \/ LockAndUnlock(r) \/ Abort(r)
  PROVE  \/ IssueRevoke(r) \/ RotateRevoke(r) \/ ReuseRevoke(r)
         \/ RevokeFamily(r) \/ RevokeAll(r)
         \/ \E t \in Tokens : IssueInsert(r, t) \/ RotateInsert(r, t)
         \/ Waits(r)
<1>0. req \in [Requests -> Request]
  BY DEF IInv, TypeOK
<1>1. ASSUME req'[r].step \notin {"issueInsert", "refreshSign", "rotateRevoke", "rotateInsert"}
      PROVE  Working(r)'
  BY <1>1 DEF Working
<1>2. ASSUME NEW u \in Users, NEW life \in {ShortLife, LongLife}, BeginIssue(r, u, life)
      PROVE  Waits(r)
  BY <1>0, <1>1, <1>2 DEF BeginIssue, Idle, Waits
<1>3. ASSUME NEW t \in Tokens, NEW access \in Clock, RefreshLoad(r, t, access)
      PROVE  Waits(r)
  BY <1>0, <1>1, <1>3 DEF RefreshLoad, Idle, Waits
<1>4. ASSUME RefreshMismatch(r) \/ RefreshReused(r) \/ RefreshExpired(r) PROVE Waits(r)
  BY <1>0, <1>1, <1>4 DEF RefreshMismatch, RefreshReused, RefreshExpired, Done, Goto, Idle,
                          Request, Waits
<1>5. ASSUME RefreshValid(r) \/ RefreshSign(r) PROVE Waits(r)
  <2>1. /\ req'[r].step \in {"refreshSign", "rotateRevoke"} /\ req'[r].token = req[r].token
        /\ rows[req[r].token].state = "active" /\ rows' = rows
        /\ compromised' = compromised
    BY <1>0, <1>5 DEF RefreshValid, RefreshSign, At, Goto, Request, SerialInv, Working
  <2>2. Working(r)'
    BY <2>1 DEF Working
  <2> QED BY <2>1, <2>2 DEF Waits
<1>12. ASSUME ReuseReadWindow(r) \/ ReuseReadThreshold(r) \/ ResetReadUnlock(r)
       PROVE  Waits(r)
  BY <1>0, <1>1, <1>12 DEF ReuseReadWindow, ReuseReadThreshold, ResetReadUnlock,
                           ReadSetting, CutShort, Done, Goto, Idle, Request, Waits
<1>6. ASSUME ReuseCount(r) \/ ReuseWindow(r) \/ ReuseLock(r) PROVE Waits(r)
  BY <1>0, <1>1, <1>6 DEF ReuseCount, AfterCount, ReuseWindow, ReuseLock, Done, Goto, Idle,
                          Request, Waits
<1>7. ASSUME NEW t \in Tokens, RevokeTokenFind(r, t) PROVE Waits(r)
  BY <1>0, <1>1, <1>7 DEF RevokeTokenFind, Idle, Waits
<1>8. ASSUME NEW u \in Users, NEW access \in Clock,
             BeginSignOut(r, u, access) \/ BeginRevokeAll(r, u, access)
      PROVE  Waits(r)
  BY <1>0, <1>1, <1>8 DEF BeginSignOut, BeginRevokeAll, Idle, Waits
<1>9. ASSUME SignOutFind(r) PROVE Waits(r)
  BY <1>0, <1>1, <1>9 DEF SignOutFind, Done, Idle, Request, Waits
<1>10. ASSUME NEW u \in Users, BeginReset(r, u) \/ BeginWrongPassword(r, u) PROVE Waits(r)
  BY <1>0, <1>1, <1>10 DEF BeginReset, BeginWrongPassword, Idle, Waits
<1>11. ASSUME ResetUnlock(r) \/ ResetCounter(r) \/ LockAttempts(r) \/ Abort(r) PROVE Waits(r)
  BY <1>0, <1>1, <1>11 DEF ResetUnlock, ResetCounter, LockAttempts, Abort, CutShort, Done,
                           Goto, Idle, Request, Waits
<1> QED BY <1>2, <1>3, <1>4, <1>5, <1>6, <1>7, <1>8, <1>9, <1>10, <1>11, <1>12
        DEF SignIn, Refresh, HandleReuse, Withdraw, LockAndUnlock

LEMMA SerialInvPreserved == IInv /\ SerialInv /\ OneAtATime /\ [Next]_vars => SerialInv'
<1> SUFFICES ASSUME IInv, SerialInv, OneAtATime, [Next]_vars PROVE SerialInv'
  OBVIOUS
<1>1. ASSUME NEW r \in Requests, Waits(r) PROVE SerialInv'
  BY <1>1, WaitingIsSafe DEF Waits
<1>2. CASE Tick \/ LoseSettings \/ UNCHANGED vars
  BY <1>2 DEF Tick, LoseSettings, vars, SerialInv, Working, OneSession, CompromisedStaysDead,
              ActiveOf, ActiveIn, Issued
<1> QED BY <1>1, <1>2, SerialSteps, WithdrawingIsSafe, IssuingIsSafe DEF Next

LEMMA SerialInvariant == Spec => [](OneAtATime => SerialInv)
<1>1. Init => SerialInv
  BY DEF Init, NoRow, Idle, SerialInv, Working, OneSession, CompromisedStaysDead,
         ActiveOf, ActiveIn, Issued
<1>2. Init => (OneAtATime => SerialInv)
  BY <1>1
<1>3. IInv /\ (OneAtATime => SerialInv) /\ [Next]_vars => (OneAtATime => SerialInv)'
  BY SerialInvPreserved DEF OneAtATime
<1> QED BY <1>2, <1>3, InductiveInvariant, PTL DEF Spec

(* A user holds one session: where requests do not overlap, at most one of his
   tokens is active, whatever statement of a request fails.                  *)
THEOREM OneActive == Spec => [](OneAtATime => AtMostOneActive)
<1>1. ASSUME OneSession, NEW u \in Users PROVE Cardinality(ActiveOf(u)) <= 1
  <2>1. CASE ActiveOf(u) = {}
    BY <2>1, FS_EmptySet
  <2>2. CASE ActiveOf(u) # {}
    <3>1. PICK t : t \in ActiveOf(u)
      BY <2>2
    <3>2. ActiveOf(u) = {t}
      BY <1>1, <3>1 DEF OneSession
    <3> QED BY <3>2, FS_Singleton
  <2> QED BY <2>1, <2>2
<1>2. (OneAtATime => SerialInv) => (OneAtATime => AtMostOneActive)
  BY <1>1 DEF SerialInv, AtMostOneActive
<1> QED BY <1>2, SerialInvariant, PTL

(* A family whose reuse was acted upon is never usable again: where requests
   do not overlap, no rotation inserts into it, whatever fails.              *)
THEOREM CompromisedDead == Spec => [](OneAtATime => CompromisedStaysDead)
<1>1. (OneAtATime => SerialInv) => (OneAtATime => CompromisedStaysDead)
  BY DEF SerialInv
<1> QED BY <1>1, SerialInvariant, PTL
===============================================================================
