-------------------------- MODULE SignInSessionProofs --------------------------
(***************************************************************************)
(* Proofs, for any number of requests, sessions and tokens, that           *)
(* SignInSession is well typed and that tokens are issued for a session    *)
(* only after the factors it asks for were shown in it; and, for requests  *)
(* that come one at a time, that a session is granted once, does not come  *)
(* back, and is marked when its exchange token can be redeemed.            *)
(*                                                                         *)
(* The argument: the flags of a session are claims about what was shown    *)
(* (Claims), and what was shown stays so. A copy is therefore as true when *)
(* it is written back, or decided on, as when it was read, whatever other  *)
(* handlers wrote meanwhile; a session that passed the check of exchange   *)
(* may be granted (MayBeGranted) however its key looks later.              *)
(*                                                                         *)
(* One at a time: who holds a copy holds that of a session nothing was     *)
(* issued for (SessionsInv), and a token leads to a session that is        *)
(* marked, or that its handler is about to mark (RedeemInv).               *)
(***************************************************************************)
EXTENDS SignInSession, TLAPS

(* p is the history proved, q a request.                                     *)
Shown(p, s, f) == \E u \in Emails[s] : <<u, f>> \in p[s]

Claims(p, s, c) ==
  /\ c.user # None => c.user \in Emails[s]
  /\ c.primary => Shown(p, s, "primary")
  /\ c.mfaVerified => Shown(p, s, "totp")
  /\ c.deviceTrusted => Shown(p, s, "totp") \/ Shown(p, s, "device")

(* Not so between the primary factor and the reading of the policy.          *)
PolicyRead(p, s, c) == c.primary /\ c.policy = "DISABLED" => Shown(p, s, "waived")

MayBeGranted(p, s) ==
  /\ Shown(p, s, "primary")
  /\ \E f \in {"totp", "device", "waived"} : Shown(p, s, f)

BeforeGrant == {"exGet", "exDel", "exKey", "exReverse", "exMark",
                "tkSession", "tkDel", "tkDelSession", "xsDelete", "issue"}

RequestOK(p, q) ==
  /\ q.step # "idle" => q.session \in Sessions
  /\ q.step \notin {"idle", "tkSession"} =>
       /\ q.user \in Emails[q.session]
       /\ Claims(p, q.session, q.copy)
       /\ q.step \notin {"mfaStatus", "mfaPolicy"} => PolicyRead(p, q.session, q.copy)
  /\ q.step \in BeforeGrant => MayBeGranted(p, q.session)

RequestsOK == \A r \in Requests : RequestOK(proved, req[r])

StoreOK ==
  \A s \in Sessions : store[s] # None =>
    Claims(proved, s, store[s]) /\ PolicyRead(proved, s, store[s])

ReverseOK == \A t \in Tokens : reverse[t] # None => MayBeGranted(proved, reverse[t])

HoldersOK ==
  \A s \in Sessions : /\ holders[s] \subseteq Emails[s]
                      /\ holders[s] # {} => MayBeGranted(proved, s)

(* Only one person's email is typed into the forms of a session.             *)
OnePerson == \A s \in Sessions : \A u, v \in Emails[s] : u = v

IInv == TypeOK /\ RequestsOK /\ StoreOK /\ ReverseOK /\ HoldersOK

-------------------------------------------------------------------------------
(* What was shown stays shown *)

LEMMA StaysTrue ==
  ASSUME NEW p, NEW q, NEW s, p[s] \subseteq q[s]
  PROVE  /\ \A f : Shown(p, s, f) => Shown(q, s, f)
         /\ \A c : Claims(p, s, c) => Claims(q, s, c)
         /\ \A c : PolicyRead(p, s, c) => PolicyRead(q, s, c)
         /\ MayBeGranted(p, s) => MayBeGranted(q, s)
<1>1. \A f : Shown(p, s, f) => Shown(q, s, f)
  BY DEF Shown
<1> QED BY <1>1 DEF Claims, PolicyRead, MayBeGranted

LEMMA RequestStaysTrue ==
  ASSUME NEW p, NEW q, \A s \in Sessions : p[s] \subseteq q[s], NEW x, RequestOK(p, x)
  PROVE  RequestOK(q, x)
<1>1. CASE x.step = "idle"
  BY <1>1 DEF RequestOK, BeforeGrant
<1>2. CASE x.step # "idle"
  <2>1. p[x.session] \subseteq q[x.session]
    BY <1>2 DEF RequestOK
  <2> QED BY <1>2, <2>1, StaysTrue DEF RequestOK
<1> QED BY <1>1, <1>2

LEMMA IdleOK == Idle \in Request /\ \A p : RequestOK(p, Idle)
BY DEF Idle, FreshSession, Request, Session, Steps, RequestOK, BeforeGrant

(* An action is the next value of one request and of the tables.             *)
Tables ==
  /\ store \in [Sessions -> Session \union {None}]
  /\ magic \in [Users -> Tokens \union {None}]
  /\ current \in [Users -> Tokens \union {None}]
  /\ reverse \in [Tokens -> Sessions \union {None}]
  /\ drawn \in SUBSET Tokens /\ created \in SUBSET Sessions
  /\ policy \in Policies /\ mfa \in SUBSET Users /\ trusted \in SUBSET Users
  /\ granted \in [Sessions -> 0..MaxGrants]
  /\ holders \in [Sessions -> SUBSET Users]

LEMMA OneRequest ==
  ASSUME IInv, NEW r \in Requests, NEW q \in Request, req' = [req EXCEPT ![r] = q],
         proved' \in [Sessions -> SUBSET (Users \X Factors)],
         \A s \in Sessions : proved[s] \subseteq proved'[s],
         RequestOK(proved', q), Tables', StoreOK', ReverseOK', HoldersOK'
  PROVE  IInv'
<1>1. TypeOK'
  BY DEF IInv, TypeOK, Tables
<1>2. RequestsOK'
  <2> SUFFICES ASSUME NEW x \in Requests PROVE RequestOK(proved', req'[x])
    BY DEF RequestsOK
  <2>1. CASE x = r
    BY <2>1 DEF IInv, TypeOK
  <2>2. CASE x # r
    <3>1. req'[x] = req[x] /\ RequestOK(proved, req[x])
      BY <2>2 DEF IInv, TypeOK, RequestsOK
    <3> QED BY <3>1, RequestStaysTrue
  <2> QED BY <2>1, <2>2
<1> QED BY <1>1, <1>2 DEF IInv

LEMMA OnlyRequest ==
  ASSUME IInv, NEW r \in Requests, NEW q \in Request, req' = [req EXCEPT ![r] = q],
         RequestOK(proved, q), UNCHANGED <<redis, drawn, created, settings, history>>
  PROVE  IInv'
<1>1. Tables' /\ StoreOK' /\ ReverseOK' /\ HoldersOK'
  BY DEF IInv, TypeOK, Tables, StoreOK, ReverseOK, HoldersOK, redis, settings, history
<1>2. proved' = proved /\ proved' \in [Sessions -> SUBSET (Users \X Factors)]
  BY DEF IInv, TypeOK, history
<1> QED BY <1>1, <1>2, OneRequest

LEMMA OnlyTables ==
  ASSUME IInv, NEW r \in Requests, NEW q \in Request, req' = [req EXCEPT ![r] = q],
         RequestOK(proved, q), Tables', StoreOK', ReverseOK', HoldersOK', UNCHANGED proved
  PROVE  IInv'
<1>1. proved' \in [Sessions -> SUBSET (Users \X Factors)]
  BY DEF IInv, TypeOK
<1> QED BY <1>1, OneRequest

LEMMA Finished ==
  ASSUME IInv, NEW r \in Requests, Done(r), UNCHANGED <<redis, drawn, created, settings, history>>
  PROVE  IInv'
BY IdleOK, OnlyRequest DEF Done

(* Something is shown by request r, which goes on as q.                      *)
LEMMA Proving ==
  ASSUME IInv, NEW r \in Requests, NEW q \in Request, req' = [req EXCEPT ![r] = q],
         NEW s \in Sessions, NEW X \in SUBSET (Users \X Factors),
         proved' = [proved EXCEPT ![s] = @ \union X], RequestOK(proved', q),
         UNCHANGED <<redis, drawn, created, policy, mfa, granted, holders>>,
         trusted' \in SUBSET Users
  PROVE  IInv'
<1>1. /\ proved' \in [Sessions -> SUBSET (Users \X Factors)]
      /\ \A t \in Sessions : proved[t] \subseteq proved'[t]
  BY DEF IInv, TypeOK
<1>2. Tables'
  BY DEF IInv, TypeOK, Tables, redis
<1>3. \A t \in Sessions :
        /\ \A c : Claims(proved, t, c) => Claims(proved', t, c)
        /\ \A c : PolicyRead(proved, t, c) => PolicyRead(proved', t, c)
        /\ MayBeGranted(proved, t) => MayBeGranted(proved', t)
  BY <1>1, StaysTrue
<1>4. StoreOK' /\ HoldersOK'
  BY <1>3 DEF IInv, StoreOK, HoldersOK, redis
<1>5. ReverseOK'
  <2>1. \A t \in Tokens : reverse[t] # None => reverse[t] \in Sessions
    BY DEF IInv, TypeOK
  <2> QED BY <1>3, <2>1 DEF IInv, ReverseOK, redis
<1> QED BY <1>1, <1>2, <1>4, <1>5, OneRequest

(* A request that has the copy of a session, and the facts about it.         *)
LEMMA Working ==
  ASSUME IInv, NEW r \in Requests, req[r].step \notin {"idle", "tkSession"}
  PROVE  /\ req[r] \in Request /\ RequestOK(proved, req[r])
         /\ req[r].session \in Sessions /\ req[r].user \in Users
         /\ req[r].user \in Emails[req[r].session]
<1>1. req[r] \in Request /\ RequestOK(proved, req[r])
  BY DEF IInv, TypeOK, RequestsOK
<1> QED BY <1>1, EmailsAssumption DEF RequestOK

(* The next step of a request that keeps all it has.                         *)
LEMMA GoesOn ==
  ASSUME IInv, NEW r \in Requests, NEW step \in Steps \ {"idle", "tkSession"},
         req[r].step \notin {"idle", "tkSession", "mfaStatus", "mfaPolicy"},
         step \in BeforeGrant => req[r].step \in BeforeGrant
  PROVE  /\ [req[r] EXCEPT !.step = step] \in Request
         /\ RequestOK(proved, [req[r] EXCEPT !.step = step])
<1>1. req[r] \in Request /\ RequestOK(proved, req[r])
  BY Working
<1> DEFINE q == [req[r] EXCEPT !.step = step]
<1>3. /\ q \in Request /\ q.step = step /\ q.session = req[r].session
      /\ q.user = req[r].user /\ q.copy = req[r].copy
  BY <1>1 DEF Request
<1> HIDE DEF q
<1>4. RequestOK(proved, q)
  BY <1>1, <1>3 DEF RequestOK
<1> QED BY <1>3, <1>4 DEF q


LEMMA Continues ==
  ASSUME IInv, NEW r \in Requests, NEW step \in Steps \ {"idle", "tkSession"}, Goto(r, step),
         req[r].step \notin {"idle", "tkSession", "mfaStatus", "mfaPolicy"},
         step \in BeforeGrant => req[r].step \in BeforeGrant,
         UNCHANGED <<redis, drawn, created, settings, history>>
  PROVE  IInv'
<1> DEFINE q == [req[r] EXCEPT !.step = step]
<1>1. req' = [req EXCEPT ![r] = q]
  BY DEF Goto
<1>2. q \in Request /\ RequestOK(proved, q)
  BY GoesOn
<1> QED BY <1>1, <1>2, OnlyRequest

LEMMA Loads ==
  ASSUME IInv, NEW r \in Requests, NEW s \in Sessions, NEW step \in Steps,
         step \notin {"idle", "tkSession"}, NEW user \in Emails[s],
         NEW token \in Tokens \union {None}, Load(r, s, step, user, token),
         step \in BeforeGrant => MayBeGranted(proved, s),
         UNCHANGED <<redis, drawn, created, settings, history>>
  PROVE  IInv'
<1> DEFINE q == [Idle EXCEPT !.step = step, !.session = s, !.copy = store[s],
                             !.user = user, !.token = token]
<1>1. req' = [req EXCEPT ![r] = q]
  BY DEF Load
<1>2. /\ store[s] \in Session /\ user \in Users
      /\ Claims(proved, s, store[s]) /\ PolicyRead(proved, s, store[s])
  BY EmailsAssumption DEF Load, Live, IInv, TypeOK, StoreOK
<1>3. /\ q \in Request /\ q.step = step /\ q.session = s
      /\ q.user = user /\ q.copy = store[s]
  BY <1>2 DEF Idle, Request
<1> HIDE DEF q
<1>4. RequestOK(proved, q)
  BY <1>2, <1>3 DEF RequestOK
<1> QED BY <1>1, <1>3, <1>4, OnlyRequest

(* The user of a session is one whose email was typed into its forms; an
   exchangeable one has shown what the session asks for.                     *)
LEMMA StoredUser ==
  ASSUME IInv, NEW s \in Sessions, Live(s)
  PROVE  /\ store[s].user # None => store[s].user \in Emails[s]
         /\ Exchangeable(store[s]) => store[s].user # None /\ MayBeGranted(proved, s)
<1>1. /\ store[s] \in Session
      /\ Claims(proved, s, store[s]) /\ PolicyRead(proved, s, store[s])
  BY DEF IInv, TypeOK, StoreOK, Live
<1> QED BY <1>1 DEF Claims, PolicyRead, MayBeGranted, Exchangeable, MfaMissing

-------------------------------------------------------------------------------
(* The session key *)

LEMMA CreateKept ==
  ASSUME IInv, NEW s \in Sessions, CreateSession(s)
  PROVE  IInv'
<1>1. FreshSession \in Session
  BY DEF FreshSession, Session
<1>2. /\ store' \in [Sessions -> Session \union {None}]
      /\ created' \in SUBSET Sessions
      /\ \A t \in Sessions : store'[t] = IF t = s THEN FreshSession ELSE store[t]
  BY <1>1 DEF CreateSession, IInv, TypeOK
<1>3. UNCHANGED <<magic, current, reverse, drawn, policy, mfa, trusted, req, proved, granted, holders>>
  BY DEF CreateSession, settings, history
<1>4. \A p : Claims(p, s, FreshSession) /\ PolicyRead(p, s, FreshSession)
  BY DEF FreshSession, Claims, PolicyRead
<1>5. StoreOK'
  BY <1>2, <1>3, <1>4 DEF IInv, StoreOK
<1> QED BY <1>2, <1>3, <1>5 DEF IInv, TypeOK, RequestsOK, ReverseOK, HoldersOK

LEMMA UpdateKept ==
  ASSUME IInv, NEW r \in Requests, UpdateTtl(r) \/ UpdateSet(r)
  PROVE  IInv'
<1>1. CASE UpdateTtl(r)
  <2>1. "set" \in Steps \ {"idle", "tkSession"} /\ "set" \notin BeforeGrant
    BY DEF Steps, BeforeGrant
  <2> QED BY <1>1, <2>1, Finished, Continues DEF UpdateTtl, At
<1>2. CASE UpdateSet(r)
  <2>1. /\ req[r] \in Request /\ RequestOK(proved, req[r]) /\ req[r].session \in Sessions
    BY <1>2, Working DEF UpdateSet, At
  <2>2. /\ req[r].copy \in Session /\ req[r].next \in {"idle", "linkCreate"}
        /\ Claims(proved, req[r].session, req[r].copy)
        /\ PolicyRead(proved, req[r].session, req[r].copy)
    BY <1>2, <2>1 DEF UpdateSet, At, Request, RequestOK
  <2>3. /\ store' \in [Sessions -> Session \union {None}]
        /\ \A t \in Sessions : store'[t] = IF t = req[r].session THEN req[r].copy ELSE store[t]
    BY <1>2, <2>1, <2>2 DEF UpdateSet, IInv, TypeOK
  <2>4. UNCHANGED <<magic, current, reverse, drawn, created, policy, mfa, trusted,
                    proved, granted, holders>>
    BY <1>2 DEF UpdateSet, settings, history
  <2>5. StoreOK'
    BY <2>1, <2>2, <2>3, <2>4 DEF IInv, StoreOK
  <2>6. Tables' /\ ReverseOK' /\ HoldersOK'
    BY <2>3, <2>4 DEF IInv, TypeOK, Tables, ReverseOK, HoldersOK
  <2>7. CASE req[r].next = "idle"
    BY <1>2, <2>4, <2>5, <2>6, <2>7, IdleOK, OnlyTables DEF UpdateSet, Done
  <2>8. CASE req[r].next = "linkCreate"
    <3> DEFINE q == [req[r] EXCEPT !.step = "linkCreate"]
    <3>1. "linkCreate" \in Steps \ {"idle", "tkSession"} /\ "linkCreate" \notin BeforeGrant
      BY DEF Steps, BeforeGrant
    <3>2. q \in Request /\ RequestOK(proved, q)
      BY <1>2, <3>1, GoesOn DEF UpdateSet, At
    <3>3. req' = [req EXCEPT ![r] = q]
      BY <1>2, <2>8 DEF UpdateSet, Goto
    <3> HIDE DEF q
    <3> QED BY <2>4, <2>5, <2>6, <3>2, <3>3, OnlyTables
  <2> QED BY <2>2, <2>7, <2>8
<1> QED BY <1>1, <1>2

-------------------------------------------------------------------------------
(* Primary authentication and second factor *)

(* A request goes on with its copy changed to c.                             *)
LEMMA NewCopy ==
  ASSUME IInv, NEW r \in Requests, req[r].step \notin {"idle", "tkSession"},
         NEW c \in Session, NEW step \in Steps \ {"idle", "tkSession"},
         NEW next \in {"idle", "linkCreate"}, NEW p,
         \A s \in Sessions : proved[s] \subseteq p[s], step \notin BeforeGrant,
         Claims(p, req[r].session, c),
         step \notin {"mfaStatus", "mfaPolicy"} => PolicyRead(p, req[r].session, c)
  PROVE  /\ [req[r] EXCEPT !.copy = c, !.step = step, !.next = next] \in Request
         /\ RequestOK(p, [req[r] EXCEPT !.copy = c, !.step = step, !.next = next])
<1> DEFINE q == [req[r] EXCEPT !.copy = c, !.step = step, !.next = next]
<1>1. /\ req[r] \in Request /\ req[r].session \in Sessions
      /\ req[r].user \in Emails[req[r].session]
  BY Working
<1>2. /\ q \in Request /\ q.step = step /\ q.session = req[r].session
      /\ q.user = req[r].user /\ q.copy = c
  BY <1>1 DEF Request
<1> HIDE DEF q
<1>3. RequestOK(p, q)
  BY <1>1, <1>2 DEF RequestOK
<1> QED BY <1>2, <1>3 DEF q

LEMMA PrimaryVerifiedKept ==
  ASSUME IInv, NEW r \in Requests, NEW known \in BOOLEAN, PrimaryVerified(r, known),
         req[r].step \in {"password", "linkResolve"}
  PROVE  IInv'
<1> DEFINE u == req[r].user
           s == req[r].session
           c == [req[r].copy EXCEPT !.user = u, !.primary = TRUE, !.deviceTrusted = known]
           X == {u} \X (IF known THEN {"primary", "device"} ELSE {"primary"})
           q == [req[r] EXCEPT !.copy = c, !.step = "mfaStatus", !.next = req[r].next]
<1>1. /\ req[r] \in Request /\ RequestOK(proved, req[r]) /\ s \in Sessions
      /\ u \in Users /\ u \in Emails[s] /\ req[r].copy \in Session
      /\ req[r].next \in {"idle", "linkCreate"}
  BY Working DEF Request
<1>2. /\ c \in Session /\ c.user = u /\ c.primary /\ c.deviceTrusted = known
      /\ c.mfaVerified = req[r].copy.mfaVerified
  BY <1>1 DEF Session
<1>3. X \in SUBSET (Users \X Factors) /\ <<u, "primary">> \in X /\ (known => <<u, "device">> \in X)
  BY <1>1 DEF Factors
<1>4. proved' = [proved EXCEPT ![s] = @ \union X]
  BY DEF PrimaryVerified
<1> HIDE DEF c, X
<1>5. /\ \A t \in Sessions : proved[t] \subseteq proved'[t]
      /\ X \subseteq proved'[s]
  BY <1>1, <1>4 DEF IInv, TypeOK
<1>6. Claims(proved', s, c)
  <2>1. req[r].copy.mfaVerified => Shown(proved', s, "totp")
    <3>1. Claims(proved, s, req[r].copy)
      BY <1>1 DEF RequestOK
    <3> QED BY <1>1, <1>5, <3>1, StaysTrue DEF Claims
  <2>2. Shown(proved', s, "primary") /\ (known => Shown(proved', s, "device"))
    BY <1>1, <1>3, <1>5 DEF Shown
  <2> QED BY <1>1, <1>2, <2>1, <2>2 DEF Claims
<1>7. "mfaStatus" \in Steps \ {"idle", "tkSession"} /\ "mfaStatus" \notin BeforeGrant
  BY DEF Steps, BeforeGrant
<1>8. q \in Request /\ RequestOK(proved', q)
  BY <1>1, <1>2, <1>5, <1>6, <1>7, NewCopy
<1>9. req' = [req EXCEPT ![r] = q]
  <2>1. req' = [req EXCEPT ![r].copy = c, ![r].step = "mfaStatus"]
    BY <1>1 DEF PrimaryVerified, c, IInv, TypeOK, Request, Session
  <2> QED BY <1>1, <2>1 DEF IInv, TypeOK, Request
<1> HIDE DEF q
<1>10. /\ UNCHANGED <<redis, drawn, created, policy, mfa, granted, holders>>
       /\ trusted' \in SUBSET Users
  BY DEF PrimaryVerified, settings, IInv, TypeOK
<1> QED BY <1>1, <1>3, <1>4, <1>8, <1>9, <1>10, Proving


LEMMA MfaStatusKept ==
  ASSUME IInv, NEW r \in Requests, MfaStatus(r)
  PROVE  IInv'
<1> DEFINE c == [req[r].copy EXCEPT !.mfaSetup = req[r].user \in mfa]
           q == [req[r] EXCEPT !.copy = c, !.step = "mfaPolicy", !.next = req[r].next]
<1>1. /\ req[r].step = "mfaStatus" /\ req[r] \in Request /\ req[r].copy \in Session
      /\ req[r].next \in {"idle", "linkCreate"} /\ Claims(proved, req[r].session, req[r].copy)
  BY Working DEF MfaStatus, At, Request, RequestOK
<1>2. c \in Session /\ Claims(proved, req[r].session, c)
  <2>1. ASSUME NEW b \in BOOLEAN
        PROVE  /\ [req[r].copy EXCEPT !.mfaSetup = b] \in Session
               /\ Claims(proved, req[r].session, [req[r].copy EXCEPT !.mfaSetup = b])
    BY <1>1 DEF Session, Claims
  <2>2. (req[r].user \in mfa) \in BOOLEAN
    OBVIOUS
  <2> QED BY <2>1, <2>2
<1>3. req' = [req EXCEPT ![r] = q]
  <2>1. req' = [req EXCEPT ![r].copy = c, ![r].step = "mfaPolicy"]
    BY <1>1 DEF MfaStatus, IInv, TypeOK, Request, Session
  <2> QED BY <1>1, <2>1 DEF IInv, TypeOK, Request
<1> HIDE DEF c
<1>4. "mfaPolicy" \in Steps \ {"idle", "tkSession"} /\ "mfaPolicy" \notin BeforeGrant
  BY DEF Steps, BeforeGrant
<1>5. q \in Request /\ RequestOK(proved, q)
  BY <1>1, <1>2, <1>4, NewCopy
<1> HIDE DEF q
<1> QED BY <1>3, <1>5, OnlyRequest DEF MfaStatus

(* The handlers that change their copy and then write it back.               *)
LEMMA Updated ==
  ASSUME IInv, NEW r \in Requests, req[r].step \notin {"idle", "tkSession"},
         NEW c \in Session, Update(r, c), NEW p,
         \A s \in Sessions : proved[s] \subseteq p[s],
         Claims(p, req[r].session, c), PolicyRead(p, req[r].session, c)
  PROVE  \E q \in Request : req' = [req EXCEPT ![r] = q] /\ RequestOK(p, q)
<1> DEFINE q == [req[r] EXCEPT !.copy = c, !.step = "ttl", !.next = req[r].next]
<1>1. req[r] \in Request /\ req[r].next \in {"idle", "linkCreate"}
  BY Working DEF Request
<1>2. "ttl" \in Steps \ {"idle", "tkSession"} /\ "ttl" \notin BeforeGrant
  BY DEF Steps, BeforeGrant
<1>3. q \in Request /\ RequestOK(p, q)
  BY <1>1, <1>2, NewCopy
<1>4. req' = [req EXCEPT ![r] = q]
  BY <1>1 DEF Update, IInv, TypeOK, Request
<1> QED BY <1>3, <1>4

LEMMA MfaPolicyKept ==
  ASSUME IInv, NEW r \in Requests, MfaPolicy(r)
  PROVE  IInv'
<1> DEFINE s == req[r].session
           u == req[r].user
           c == [req[r].copy EXCEPT !.policy = policy]
<1>1. /\ req[r].step = "mfaPolicy" /\ req[r].copy \in Session
      /\ s \in Sessions /\ u \in Users /\ u \in Emails[s]
      /\ Claims(proved, s, req[r].copy)
  BY Working DEF MfaPolicy, At, Request, RequestOK
<1>2. c \in Session /\ Claims(proved, s, c) /\ c.policy = policy
  BY <1>1 DEF Session, Claims, IInv, TypeOK
<1>3. Update(r, c) /\ UNCHANGED <<redis, drawn, created, settings, granted, holders>>
  BY DEF MfaPolicy
<1> HIDE DEF c
<1>4. CASE policy = "DISABLED"
  <2>1. proved' = [proved EXCEPT ![s] = @ \union {<<u, "waived">>}]
    BY <1>4 DEF MfaPolicy, Prove
  <2>2. /\ \A t \in Sessions : proved[t] \subseteq proved'[t]
        /\ <<u, "waived">> \in proved'[s]
    BY <1>1, <2>1 DEF IInv, TypeOK
  <2>3. Claims(proved', s, c) /\ PolicyRead(proved', s, c)
    <3>1. Claims(proved', s, c)
      BY <1>1, <1>2, <2>2, StaysTrue
    <3>2. Shown(proved', s, "waived")
      BY <1>1, <2>2 DEF Shown
    <3> QED BY <3>1, <3>2 DEF PolicyRead
  <2>4. PICK q \in Request : req' = [req EXCEPT ![r] = q] /\ RequestOK(proved', q)
    BY <1>1, <1>2, <1>3, <2>2, <2>3, Updated
  <2>5. {<<u, "waived">>} \in SUBSET (Users \X Factors)
    BY <1>1 DEF Factors
  <2>6. /\ UNCHANGED <<redis, drawn, created, policy, mfa, granted, holders>>
        /\ trusted' \in SUBSET Users
    BY <1>3 DEF settings, IInv, TypeOK
  <2> QED BY <1>1, <2>1, <2>4, <2>5, <2>6, Proving
<1>5. CASE policy # "DISABLED"
  <2>1. UNCHANGED proved /\ PolicyRead(proved, s, c)
    BY <1>2, <1>5 DEF MfaPolicy, PolicyRead
  <2>2. PICK q \in Request : req' = [req EXCEPT ![r] = q] /\ RequestOK(proved, q)
    BY <1>1, <1>2, <1>3, <2>1, Updated
  <2> QED BY <1>3, <2>1, <2>2, OnlyRequest DEF history
<1> QED BY <1>4, <1>5

LEMMA TotpVerifiedKept ==
  ASSUME IInv, NEW r \in Requests, NEW trust \in BOOLEAN, TotpVerified(r, trust)
  PROVE  IInv'
<1> DEFINE s == req[r].session
           u == req[r].user
           c == [req[r].copy EXCEPT !.mfaVerified = TRUE, !.deviceTrusted = @ \/ trust]
<1>1. /\ req[r].step = "totp" /\ req[r].copy \in Session
      /\ s \in Sessions /\ u \in Users /\ u \in Emails[s]
      /\ Claims(proved, s, req[r].copy) /\ PolicyRead(proved, s, req[r].copy)
  BY Working DEF TotpVerified, At, Request, RequestOK
<1>2. /\ c \in Session /\ c.user = req[r].copy.user /\ c.primary = req[r].copy.primary
      /\ c.policy = req[r].copy.policy
  BY <1>1 DEF Session
<1>3. /\ Update(r, c) /\ proved' = [proved EXCEPT ![s] = @ \union {<<u, "totp">>}]
      /\ UNCHANGED <<redis, drawn, created, policy, mfa, granted, holders>>
      /\ trusted' \in SUBSET Users
  BY <1>1 DEF TotpVerified, Prove, IInv, TypeOK
<1> HIDE DEF c
<1>4. /\ \A t \in Sessions : proved[t] \subseteq proved'[t]
      /\ <<u, "totp">> \in proved'[s]
  BY <1>1, <1>3 DEF IInv, TypeOK
<1>5. Shown(proved', s, "totp")
  BY <1>1, <1>4 DEF Shown
<1>6. Claims(proved', s, req[r].copy) /\ PolicyRead(proved', s, req[r].copy)
  BY <1>1, <1>4, StaysTrue
<1>7. Claims(proved', s, c) /\ PolicyRead(proved', s, c)
  BY <1>2, <1>5, <1>6 DEF Claims, PolicyRead
<1>8. PICK q \in Request : req' = [req EXCEPT ![r] = q] /\ RequestOK(proved', q)
  BY <1>1, <1>2, <1>3, <1>4, <1>7, Updated
<1>9. {<<u, "totp">>} \in SUBSET (Users \X Factors)
  BY <1>1 DEF Factors
<1> QED BY <1>1, <1>3, <1>8, <1>9, Proving

LEMMA MagicLinkUserKept ==
  ASSUME IInv, NEW r \in Requests, MagicLinkUser(r)
  PROVE  IInv'
<1> DEFINE s == req[r].session
           c == [req[r].copy EXCEPT !.user = req[r].user]
           q == [req[r] EXCEPT !.copy = c, !.step = "ttl", !.next = "linkCreate"]
<1>1. /\ req[r].step = "magicLink" /\ req[r] \in Request /\ req[r].copy \in Session
      /\ req[r].user \in Users /\ req[r].user \in Emails[s]
      /\ Claims(proved, s, req[r].copy) /\ PolicyRead(proved, s, req[r].copy)
  BY Working DEF MagicLinkUser, At, Request, RequestOK
<1>2. c \in Session /\ Claims(proved, s, c) /\ PolicyRead(proved, s, c)
  BY <1>1 DEF Session, Claims, PolicyRead
<1>3. req' = [req EXCEPT ![r] = q]
  <2>1. req' = [req EXCEPT ![r].copy = c, ![r].step = "ttl", ![r].next = "linkCreate"]
    BY <1>1 DEF MagicLinkUser, IInv, TypeOK, Request, Session
  <2> QED BY <1>1, <2>1 DEF IInv, TypeOK, Request
<1> HIDE DEF c
<1>4. "ttl" \in Steps \ {"idle", "tkSession"} /\ "ttl" \notin BeforeGrant
  BY DEF Steps, BeforeGrant
<1>5. q \in Request /\ RequestOK(proved, q)
  BY <1>1, <1>2, <1>4, NewCopy
<1> HIDE DEF q
<1> QED BY <1>3, <1>5, OnlyRequest DEF MagicLinkUser

(* What is not a claim about a session: the magic-link token, the tokens
   drawn, the exchange token of a user, the session keys that are deleted.    *)
LEMMA SmallTables ==
  ASSUME IInv, UNCHANGED <<created, settings, history>>,
         magic' \in [Users -> Tokens \union {None}],
         current' \in [Users -> Tokens \union {None}],
         drawn' \in SUBSET Tokens,
         store' \in [Sessions -> Session \union {None}],
         \A s \in Sessions : store'[s] \in {store[s], None},
         reverse' \in [Tokens -> Sessions \union {None}],
         \A t \in Tokens : reverse'[t] # None =>
            reverse'[t] = reverse[t] \/ MayBeGranted(proved, reverse'[t])
  PROVE  Tables' /\ StoreOK' /\ ReverseOK' /\ HoldersOK'
<1>1. proved' = proved /\ granted' = granted /\ holders' = holders
      /\ policy' = policy /\ mfa' = mfa /\ trusted' = trusted
  BY DEF settings, history
<1>2. Tables'
  BY <1>1 DEF IInv, TypeOK, Tables
<1>3. StoreOK'
  <2> SUFFICES ASSUME NEW s \in Sessions, store'[s] # None
               PROVE  Claims(proved, s, store'[s]) /\ PolicyRead(proved, s, store'[s])
    BY <1>1 DEF StoreOK
  <2>1. store'[s] = store[s]
    OBVIOUS
  <2> QED BY <2>1 DEF IInv, StoreOK
<1>4. ReverseOK'
  BY <1>1 DEF IInv, ReverseOK
<1> QED BY <1>1, <1>2, <1>3, <1>4 DEF IInv, HoldersOK

LEMMA PrimaryAuthKept ==
  ASSUME IInv, NEW r \in Requests, PrimaryAuth(r)
  PROVE  IInv'
<1>0. /\ "password" \in Steps /\ "magicLink" \in Steps /\ "linkGet" \in Steps
      /\ "linkDel" \in Steps /\ "linkResolve" \in Steps
      /\ {"password", "magicLink", "linkGet", "linkDel", "linkResolve", "linkCreate"}
           \intersect BeforeGrant = {}
  BY DEF Steps, BeforeGrant
<1>1. ASSUME NEW s \in Sessions, NEW u \in Users,
             BeginPassword(r, s, u) \/ BeginMagicLink(r, s, u)
      PROVE  IInv'
  BY <1>0, <1>1, Loads DEF BeginPassword, BeginMagicLink
<1>2. ASSUME NEW known \in BOOLEAN, PasswordVerified(r, known) \/ MagicLinkVerified(r, known)
      PROVE  IInv'
  BY <1>2, PrimaryVerifiedKept DEF PasswordVerified, MagicLinkVerified, At
<1>3. ASSUME NEW s \in Sessions, NEW t \in Tokens, BeginMagicLinkValidate(r, s, t)
      PROVE  IInv'
  <2>1. store[s].user \in Emails[s]
    BY <1>3, StoredUser DEF BeginMagicLinkValidate
  <2> QED BY <1>0, <1>3, <2>1, Loads DEF BeginMagicLinkValidate
<1>4. ASSUME NEW t \in Tokens, MagicLinkCreate(r, t) PROVE IInv'
  <2>1. Tables' /\ StoreOK' /\ ReverseOK' /\ HoldersOK'
    <3>1. /\ magic' \in [Users -> Tokens \union {None}] /\ drawn' \in SUBSET Tokens
          /\ UNCHANGED <<store, current, reverse, created, settings, history>>
      BY <1>4 DEF MagicLinkCreate, IInv, TypeOK
    <3> QED BY <3>1, SmallTables DEF IInv, TypeOK
  <2> QED BY <1>4, <2>1, IdleOK, OnlyTables DEF MagicLinkCreate, Done, history
<1>5. CASE PasswordRefused(r)
  BY <1>5, Finished DEF PasswordRefused
<1>6. CASE ConsumeGet(r)
  BY <1>0, <1>6, Finished, Continues DEF ConsumeGet, At
<1>7. CASE ConsumeDel(r)
  <2> DEFINE q == [req[r] EXCEPT !.step = "linkResolve"]
  <2>1. Tables' /\ StoreOK' /\ ReverseOK' /\ HoldersOK'
    <3>1. /\ magic' \in [Users -> Tokens \union {None}]
          /\ UNCHANGED <<store, current, reverse, drawn, created, settings, history>>
      BY <1>7 DEF ConsumeDel, IInv, TypeOK
    <3> QED BY <3>1, SmallTables DEF IInv, TypeOK
  <2>2. q \in Request /\ RequestOK(proved, q)
    BY <1>0, <1>7, GoesOn DEF ConsumeDel, At
  <2>3. req' = [req EXCEPT ![r] = q] /\ UNCHANGED proved
    BY <1>7 DEF ConsumeDel, Goto, history
  <2> HIDE DEF q
  <2> QED BY <2>1, <2>2, <2>3, OnlyTables
<1> QED BY <1>1, <1>2, <1>3, <1>4, <1>5, <1>6, <1>7, MagicLinkUserKept, MfaStatusKept,
           MfaPolicyKept DEF PrimaryAuth

LEMMA SecondFactorKept ==
  ASSUME IInv, NEW r \in Requests, SecondFactor(r)
  PROVE  IInv'
<1>1. ASSUME NEW s \in Sessions, BeginTotp(r, s) PROVE IInv'
  <2>1. store[s].user \in Emails[s] /\ "totp" \in Steps /\ "totp" \notin BeforeGrant
    BY <1>1, StoredUser DEF BeginTotp, Steps, BeforeGrant
  <2> QED BY <1>1, <2>1, Loads DEF BeginTotp
<1>2. CASE TotpRefused(r)
  BY <1>2, Finished DEF TotpRefused
<1> QED BY <1>1, <1>2, TotpVerifiedKept DEF SecondFactor

-------------------------------------------------------------------------------
(* Exchange and issue *)

(* As GoesOn, with another token.                                            *)
LEMMA GoesOnWith ==
  ASSUME IInv, NEW r \in Requests, NEW step \in Steps \ {"idle", "tkSession"},
         NEW token \in Tokens \union {None},
         req[r].step \notin {"idle", "tkSession", "mfaStatus", "mfaPolicy"},
         step \in BeforeGrant => req[r].step \in BeforeGrant,
         req' = [req EXCEPT ![r].token = token, ![r].step = step]
  PROVE  \E q \in Request : req' = [req EXCEPT ![r] = q] /\ RequestOK(proved, q)
<1> DEFINE q == [req[r] EXCEPT !.token = token, !.step = step]
<1>1. req[r] \in Request /\ RequestOK(proved, req[r])
  BY Working
<1>2. /\ q \in Request /\ q.step = step /\ q.session = req[r].session
      /\ q.user = req[r].user /\ q.copy = req[r].copy
  BY <1>1 DEF Request
<1>3. req' = [req EXCEPT ![r] = q]
  BY DEF IInv, TypeOK
<1> HIDE DEF q
<1>4. RequestOK(proved, q)
  BY <1>1, <1>2 DEF RequestOK
<1> QED BY <1>2, <1>3, <1>4

LEMMA ExchangeKept ==
  ASSUME IInv, NEW r \in Requests, Exchange(r)
  PROVE  IInv'
<1>0. \A step \in {"exGet", "exDel", "exKey", "exReverse", "exMark"} :
        step \in (Steps \ {"idle", "tkSession"}) \intersect BeforeGrant
  BY DEF Steps, BeforeGrant
<1>1. ASSUME NEW s \in Sessions, BeginExchange(r, s) PROVE IInv'
  <2>1. store[s].user \in Emails[s] /\ MayBeGranted(proved, s)
    BY <1>1, StoredUser DEF BeginExchange
  <2> QED BY <1>0, <1>1, <2>1, Loads DEF BeginExchange
<1>2. CASE ExchangeGet(r)
  <2>1. req[r].step = "exGet" /\ current[req[r].user] \in Tokens \union {None}
    BY <1>2, Working DEF ExchangeGet, At, IInv, TypeOK
  <2>2. PICK q \in Request : req' = [req EXCEPT ![r] = q] /\ RequestOK(proved, q)
    <3>1. PICK step \in {"exKey", "exDel"} :
            req' = [req EXCEPT ![r].token = current[req[r].user], ![r].step = step]
      BY <1>2 DEF ExchangeGet
    <3> QED BY <1>0, <2>1, <3>1, GoesOnWith
  <2> QED BY <1>2, <2>2, OnlyRequest DEF ExchangeGet
<1>3. CASE ExchangeDel(r)
  <2> DEFINE q == [req[r] EXCEPT !.step = "exKey"]
  <2>1. /\ reverse' \in [Tokens -> Sessions \union {None}]
        /\ \A t \in Tokens : reverse'[t] # None => reverse'[t] = reverse[t]
        /\ UNCHANGED <<store, magic, current, drawn, created, settings, history>>
    BY <1>3 DEF ExchangeDel, IInv, TypeOK
  <2>2. Tables' /\ StoreOK' /\ ReverseOK' /\ HoldersOK'
    BY <2>1, SmallTables DEF IInv, TypeOK
  <2>3. q \in Request /\ RequestOK(proved, q)
    BY <1>0, <1>3, GoesOn DEF ExchangeDel, At
  <2>4. req' = [req EXCEPT ![r] = q] /\ UNCHANGED proved
    BY <1>3 DEF ExchangeDel, Goto, history
  <2> HIDE DEF q
  <2> QED BY <2>2, <2>3, <2>4, OnlyTables
<1>4. ASSUME NEW t \in Tokens, ExchangeKey(r, t) PROVE IInv'
  <2>1. /\ current' \in [Users -> Tokens \union {None}] /\ drawn' \in SUBSET Tokens
        /\ UNCHANGED <<store, magic, reverse, created, settings, history>>
    BY <1>4 DEF ExchangeKey, IInv, TypeOK
  <2>2. Tables' /\ StoreOK' /\ ReverseOK' /\ HoldersOK'
    BY <2>1, SmallTables DEF IInv, TypeOK
  <2>3. PICK q \in Request : req' = [req EXCEPT ![r] = q] /\ RequestOK(proved, q)
    BY <1>0, <1>4, GoesOnWith DEF ExchangeKey, At
  <2> QED BY <2>1, <2>2, <2>3, OnlyTables DEF history
<1>5. CASE ExchangeReverse(r)
  <2> DEFINE q == [req[r] EXCEPT !.step = "exMark"]
  <2>1. req[r].step = "exReverse" /\ req[r].session \in Sessions
        /\ MayBeGranted(proved, req[r].session)
    BY <1>0, <1>5, Working DEF ExchangeReverse, At, RequestOK
  <2>2. /\ reverse' \in [Tokens -> Sessions \union {None}]
        /\ \A t \in Tokens : reverse'[t] = reverse[t] \/ reverse'[t] = req[r].session
        /\ UNCHANGED <<store, magic, current, drawn, created, settings, history>>
    BY <1>5, <2>1 DEF ExchangeReverse, IInv, TypeOK
  <2>3. Tables' /\ StoreOK' /\ ReverseOK' /\ HoldersOK'
    BY <2>1, <2>2, SmallTables DEF IInv, TypeOK
  <2>4. q \in Request /\ RequestOK(proved, q)
    BY <1>0, <2>1, GoesOn
  <2>5. req' = [req EXCEPT ![r] = q] /\ UNCHANGED proved
    BY <1>5 DEF ExchangeReverse, Goto, history
  <2> HIDE DEF q
  <2> QED BY <2>3, <2>4, <2>5, OnlyTables
<1>6. CASE ExchangeMark(r)
  <2> DEFINE c == [req[r].copy EXCEPT !.exchanged = TRUE]
  <2>1. /\ req[r].step = "exMark" /\ req[r].copy \in Session
        /\ Claims(proved, req[r].session, req[r].copy)
        /\ PolicyRead(proved, req[r].session, req[r].copy)
    BY <1>6, Working DEF ExchangeMark, At, Request, RequestOK
  <2>2. c \in Session /\ Claims(proved, req[r].session, c)
        /\ PolicyRead(proved, req[r].session, c)
    BY <2>1 DEF Session, Claims, PolicyRead
  <2>3. Update(r, c)
    BY <1>6 DEF ExchangeMark
  <2> HIDE DEF c
  <2>4. PICK q \in Request : req' = [req EXCEPT ![r] = q] /\ RequestOK(proved, q)
    BY <2>1, <2>2, <2>3, Updated
  <2> QED BY <1>6, <2>4, OnlyRequest DEF ExchangeMark
<1> QED BY <1>1, <1>2, <1>3, <1>4, <1>5, <1>6 DEF Exchange

LEMMA IssueKept ==
  ASSUME IInv, NEW r \in Requests, Issue(r)
  PROVE  IInv'
<1>0. \A step \in {"tkDel", "tkDelSession", "xsDelete", "issue"} :
        step \in (Steps \ {"idle", "tkSession"}) \intersect BeforeGrant
  BY DEF Steps, BeforeGrant
<1>1. ASSUME NEW t \in Tokens, BeginToken(r, t) PROVE IInv'
  <2> DEFINE q == [Idle EXCEPT !.step = "tkSession", !.token = t, !.session = reverse[t]]
  <2>1. reverse[t] \in Sessions /\ MayBeGranted(proved, reverse[t]) /\ "tkSession" \in Steps
    BY <1>1 DEF BeginToken, IInv, TypeOK, ReverseOK, Steps
  <2>2. q \in Request /\ q.step = "tkSession" /\ q.session = reverse[t]
    BY <2>1, IdleOK DEF Idle, Request
  <2>3. req' = [req EXCEPT ![r] = q]
    BY <1>1 DEF BeginToken
  <2> HIDE DEF q
  <2>4. RequestOK(proved, q)
    BY <2>1, <2>2 DEF RequestOK
  <2> QED BY <1>1, <2>2, <2>3, <2>4, OnlyRequest DEF BeginToken
<1>2. ASSUME NEW s \in Sessions, BeginExchangeSession(r, s) PROVE IInv'
  <2>1. store[s].user \in Emails[s] /\ MayBeGranted(proved, s)
    BY <1>2, StoredUser DEF BeginExchangeSession
  <2> QED BY <1>0, <1>2, <2>1, Loads DEF BeginExchangeSession
<1>3. CASE TokenSession(r)
  <2> DEFINE s == req[r].session
  <2>1. s \in Sessions /\ MayBeGranted(proved, s) /\ req[r].token \in Tokens \union {None}
    BY <1>3 DEF TokenSession, At, IInv, TypeOK, Request, RequestsOK, RequestOK, BeforeGrant
  <2>2. CASE Live(s) /\ store[s].user # None
    <3>1. store[s].user \in Emails[s]
      BY <2>1, <2>2, StoredUser
    <3>2. Load(r, s, "tkDel", store[s].user, req[r].token)
      BY <1>3, <2>2 DEF TokenSession
    <3>3. UNCHANGED <<redis, drawn, created, settings, history>>
      BY <1>3 DEF TokenSession
    <3> HIDE DEF s
    <3> QED BY <1>0, <2>1, <3>1, <3>2, <3>3, Loads
  <2>3. CASE ~(Live(s) /\ store[s].user # None)
    BY <1>3, <2>3, Finished DEF TokenSession
  <2> QED BY <2>2, <2>3
<1>4. CASE TokenDel(r)
  <2> DEFINE q == [req[r] EXCEPT !.step = "tkDelSession"]
  <2>1. /\ reverse' \in [Tokens -> Sessions \union {None}]
        /\ \A t \in Tokens : reverse'[t] # None => reverse'[t] = reverse[t]
        /\ current' \in [Users -> Tokens \union {None}]
        /\ UNCHANGED <<store, magic, drawn, created, settings, history>>
    BY <1>4 DEF TokenDel, IInv, TypeOK
  <2>2. Tables' /\ StoreOK' /\ ReverseOK' /\ HoldersOK'
    BY <2>1, SmallTables DEF IInv, TypeOK
  <2>3. q \in Request /\ RequestOK(proved, q)
    BY <1>0, <1>4, GoesOn DEF TokenDel, At
  <2>4. req' = [req EXCEPT ![r] = q] /\ UNCHANGED proved
    BY <1>4 DEF TokenDel, Goto, history
  <2> HIDE DEF q
  <2> QED BY <2>2, <2>3, <2>4, OnlyTables
<1>5. CASE DeleteSession(r)
  <2> DEFINE q == [req[r] EXCEPT !.step = "issue"]
  <2>1. /\ store' \in [Sessions -> Session \union {None}]
        /\ \A s \in Sessions : store'[s] \in {store[s], None}
        /\ UNCHANGED <<magic, current, reverse, drawn, created, settings, history>>
    BY <1>5 DEF DeleteSession, IInv, TypeOK
  <2>2. Tables' /\ StoreOK' /\ ReverseOK' /\ HoldersOK'
    BY <2>1, SmallTables DEF IInv, TypeOK
  <2>3. q \in Request /\ RequestOK(proved, q)
    BY <1>0, <1>5, GoesOn DEF DeleteSession, At
  <2>4. req' = [req EXCEPT ![r] = q] /\ UNCHANGED proved
    BY <1>5 DEF DeleteSession, Goto, history
  <2> HIDE DEF q
  <2> QED BY <2>2, <2>3, <2>4, OnlyTables
<1>6. CASE IssueTokens(r)
  <2> DEFINE s == req[r].session
  <2>1. /\ req[r].step = "issue" /\ s \in Sessions /\ req[r].user \in Users
        /\ req[r].user \in Emails[s] /\ MayBeGranted(proved, s)
    BY <1>0, <1>6, Working DEF IssueTokens, At, RequestOK
  <2>2. /\ holders' \in [Sessions -> SUBSET Users]
        /\ \A t \in Sessions :
             holders'[t] = IF t = s THEN holders[s] \union {req[r].user} ELSE holders[t]
    BY <1>6, <2>1 DEF IssueTokens, IInv, TypeOK
  <2>3. granted' \in [Sessions -> 0..MaxGrants]
    <3>1. granted[s] \in 0..MaxGrants /\ granted[s] < MaxGrants
      BY <1>6, <2>1 DEF IssueTokens, IInv, TypeOK
    <3>2. granted[s] + 1 \in 0..MaxGrants
      BY <3>1, GrantsAssumption
    <3> QED BY <1>6, <3>2 DEF IssueTokens, IInv, TypeOK
  <2>4. UNCHANGED <<store, magic, current, reverse, drawn, created, policy, mfa, trusted, proved>>
    BY <1>6 DEF IssueTokens, redis, settings
  <2>5. HoldersOK'
    BY <2>1, <2>2, <2>4 DEF IInv, HoldersOK
  <2>6. Tables' /\ StoreOK' /\ ReverseOK'
    BY <2>2, <2>3, <2>4 DEF IInv, TypeOK, Tables, StoreOK, ReverseOK
  <2> QED BY <1>6, <2>4, <2>5, <2>6, IdleOK, OnlyTables DEF IssueTokens, Done
<1> QED BY <1>1, <1>2, <1>3, <1>4, <1>5, <1>6 DEF Issue

-------------------------------------------------------------------------------
(* The theorems *)

LEMMA EnvironmentKept ==
  ASSUME IInv, UNCHANGED <<created, req, proved, granted, holders>>,
         Tables', StoreOK', ReverseOK'
  PROVE  IInv'
BY DEF IInv, TypeOK, Tables, RequestsOK, HoldersOK

LEMMA StepKept == IInv /\ [Next]_vars => IInv'
<1> SUFFICES ASSUME IInv, [Next]_vars PROVE IInv'
  OBVIOUS
<1>1. ASSUME NEW r \in Requests, Abort(r) PROVE IInv'
  BY <1>1, Finished DEF Abort
<1>2. ASSUME NEW u \in Users, ChangeMfa(u) \/ DistrustDevice(u) PROVE IInv'
  <2>1. mfa' \in SUBSET Users /\ trusted' \in SUBSET Users
        /\ UNCHANGED <<redis, drawn, created, policy, req, history>>
    BY <1>2 DEF ChangeMfa, DistrustDevice, IInv, TypeOK
  <2>2. Tables' /\ StoreOK' /\ ReverseOK'
    BY <2>1 DEF IInv, TypeOK, Tables, StoreOK, ReverseOK, redis, history
  <2> QED BY <2>1, <2>2, EnvironmentKept DEF history
<1>3. ASSUME NEW p \in Policies, ChangePolicy(p) PROVE IInv'
  <2>1. Tables' /\ StoreOK' /\ ReverseOK'
    BY <1>3 DEF ChangePolicy, IInv, TypeOK, Tables, StoreOK, ReverseOK, redis, history
  <2> QED BY <1>3, <2>1, EnvironmentKept DEF ChangePolicy, history
<1>4. CASE Expire
  <2>1. UNCHANGED <<drawn, created, settings, req, history>>
    BY <1>4 DEF Expire
  <2>2. /\ magic' \in [Users -> Tokens \union {None}]
        /\ current' \in [Users -> Tokens \union {None}]
    BY <1>4 DEF Expire, IInv, TypeOK
  <2>3. /\ store' \in [Sessions -> Session \union {None}]
        /\ \A s \in Sessions : store'[s] \in {store[s], None}
    BY <1>4 DEF Expire, IInv, TypeOK
  <2>4. /\ reverse' \in [Tokens -> Sessions \union {None}]
        /\ \A t \in Tokens : reverse'[t] # None => reverse'[t] = reverse[t]
    BY <1>4 DEF Expire, IInv, TypeOK
  <2>5. Tables' /\ StoreOK' /\ ReverseOK'
    BY <2>1, <2>2, <2>3, <2>4, SmallTables DEF IInv, TypeOK
  <2> QED BY <2>1, <2>5, EnvironmentKept DEF history
<1>5. CASE UNCHANGED vars
  BY <1>5 DEF vars, redis, settings, history, IInv, TypeOK, RequestsOK, StoreOK, ReverseOK,
              HoldersOK
<1> QED BY <1>1, <1>2, <1>3, <1>4, <1>5, PrimaryAuthKept, SecondFactorKept, ExchangeKept,
           IssueKept, UpdateKept, CreateKept DEF Next

LEMMA InitHolds == Init => IInv
<1> SUFFICES ASSUME Init PROVE IInv
  OBVIOUS
<1>1. TypeOK
  BY IdleOK, GrantsAssumption DEF Init, TypeOK
<1>2. RequestsOK /\ StoreOK /\ ReverseOK /\ HoldersOK
  BY IdleOK DEF Init, RequestsOK, StoreOK, ReverseOK, HoldersOK
<1> QED BY <1>1, <1>2 DEF IInv

LEMMA Invariant == Spec => []IInv
BY InitHolds, StepKept, PTL DEF Spec

(* Type correctness of the sessions, one-time tokens and requests of the
   sign-in service, for any number of each.                                  *)
THEOREM TypeCorrect == Spec => []TypeOK
<1>1. IInv => TypeOK
  BY DEF IInv
<1> QED BY <1>1, Invariant, PTL

(* However the handlers of SignInService interleave on a session, tokens are
   issued for it only after the primary factor and a code, a trusted device or
   no such demand were shown in it, by a person whose email was typed there.
   Where that is one person, tokens go to who showed them.                   *)
THEOREM GrantsProved == Spec => [](OnePerson => GrantsMatchProof)
<1>1. IInv => (OnePerson => GrantsMatchProof)
  <2> SUFFICES ASSUME IInv, OnePerson, NEW s \in Sessions, NEW u \in holders[s]
               PROVE  /\ <<u, "primary">> \in proved[s]
                      /\ \E f \in {"totp", "device", "waived"} : <<u, f>> \in proved[s]
    BY DEF GrantsMatchProof
  <2>1. u \in Emails[s] /\ MayBeGranted(proved, s)
    BY DEF IInv, HoldersOK
  <2>2. \A f : Shown(proved, s, f) => <<u, f>> \in proved[s]
    BY <2>1 DEF Shown, OnePerson
  <2> QED BY <2>1, <2>2 DEF MayBeGranted
<1> QED BY <1>1, Invariant, PTL

-------------------------------------------------------------------------------
(* Requests that do not overlap: what happens to a session after its end.  The
   one request may stop anywhere, and keys expire at any moment.             *)
OneAtATime == \A r, q \in Requests : r = q

(* q is a request. *)
HasCopy(q) == q.step \notin {"idle", "tkSession"}

SessionsInv ==
  /\ \A s \in Sessions : Live(s) \/ granted[s] > 0 => s \in created
  /\ \A s \in Sessions : granted[s] > 0 => ~Live(s)
  /\ \A s \in Sessions : granted[s] <= 1
  /\ \A r \in Requests : HasCopy(req[r]) =>
       /\ req[r].session \in created
       /\ granted[req[r].session] = 0
       /\ req[r].step = "issue" => ~Live(req[r].session)

(* A request that is to write its session back as exchanged.                 *)
Marking(q) == q.step = "exMark" \/ (q.step \in {"ttl", "set"} /\ q.copy.exchanged)

(* The session of an exchange token is marked, or about to be, and so is every
   copy of it that may be written back.                                      *)
RedeemInv ==
  \A t \in Tokens : reverse[t] # None =>
    /\ reverse[t] \in created
    /\ Live(reverse[t]) =>
         \/ store[reverse[t]].exchanged
         \/ \E r \in Requests : req[r].session = reverse[t] /\ Marking(req[r])
    /\ \A r \in Requests : HasCopy(req[r]) /\ req[r].session = reverse[t]
                             => req[r].step = "exMark" \/ req[r].copy.exchanged

(* The steps that leave the sessions alone: a request ends, is about to look
   for its session, loads it, or goes on with its copy.                      *)
KeepsSessions(r) ==
  /\ store' = store /\ created' = created /\ granted' = granted
  /\ \A t \in Tokens : reverse'[t] # None => reverse'[t] = reverse[t]
  /\ \A q \in Requests \ {r} : req'[q] = req[q]

Ends(r) ==
  /\ KeepsSessions(r)
  /\ req'[r] = Idle
  /\ Faults \/ ~Marking(req[r]) \/ ~Live(req[r].session)

Looks(r) == KeepsSessions(r) /\ ~HasCopy(req[r]) /\ ~HasCopy(req'[r])

Opens(r) ==
  /\ KeepsSessions(r)
  /\ ~HasCopy(req[r])
  /\ req'[r].session \in Sessions /\ Live(req'[r].session)
  /\ req'[r].copy = store[req'[r].session]
  /\ req'[r].step # "issue"

Works(r) ==
  /\ KeepsSessions(r)
  /\ HasCopy(req[r]) /\ req[r].step # "exMark" /\ req'[r].step # "issue"
  /\ req'[r].session = req[r].session
  /\ req'[r].copy.exchanged = req[r].copy.exchanged
  /\ req[r].step = "ttl" => req'[r].step = "set"
  /\ req[r].step # "set"

(* A request whose copy becomes c, of the same mark, goes on. *)
LEMMA CopyChanged ==
  ASSUME IInv, NEW r \in Requests, HasCopy(req[r]), req[r].step \notin {"exMark", "ttl", "set"},
         NEW c \in Session, c.exchanged = req[r].copy.exchanged,
         NEW step \in Steps \ {"issue"}, NEW next \in {"idle", "linkCreate"},
         req' = [req EXCEPT ![r] = [req[r] EXCEPT !.copy = c, !.step = step, !.next = next]],
         UNCHANGED <<store, reverse, created, granted>>
  PROVE  Works(r)
<1>1. /\ req'[r].session = req[r].session /\ req'[r].step = step
      /\ req'[r].copy.exchanged = req[r].copy.exchanged
      /\ \A q \in Requests \ {r} : req'[q] = req[q]
  BY DEF IInv, TypeOK, Request
<1> QED BY <1>1 DEF Works, KeepsSessions

LEMMA LoadOpens ==
  ASSUME IInv, NEW r \in Requests, NEW s \in Sessions, NEW step, NEW user, NEW token,
         req[r].step \in {"idle", "tkSession"}, step # "issue",
         Load(r, s, step, user, token), UNCHANGED <<redis, drawn, created, settings, history>>
  PROVE  Opens(r)
<1> DEFINE q == [Idle EXCEPT !.step = step, !.session = s, !.copy = store[s],
                             !.user = user, !.token = token]
<1>1. q.step = step /\ q.session = s /\ q.copy = store[s]
  BY DEF Idle
<1>2. req' = [req EXCEPT ![r] = q]
  BY DEF Load
<1> HIDE DEF q
<1> QED BY <1>1, <1>2 DEF Opens, KeepsSessions, HasCopy, Load, Live, redis, history, IInv, TypeOK

LEMMA PrimarySteps ==
  ASSUME IInv, NEW r \in Requests, PrimaryAuth(r)
  PROVE  Ends(r) \/ Opens(r) \/ Works(r)
<1>0. req \in [Requests -> Request]
  BY DEF IInv, TypeOK
<1>1. ASSUME NEW s \in Sessions, NEW u \in Users,
             BeginPassword(r, s, u) \/ BeginMagicLink(r, s, u)
      PROVE  Opens(r)
  BY <1>1, LoadOpens DEF BeginPassword, BeginMagicLink, Starts, At
<1>2. ASSUME NEW known \in BOOLEAN, PasswordVerified(r, known) \/ MagicLinkVerified(r, known)
      PROVE  Works(r)
  <2> DEFINE c == [req[r].copy EXCEPT !.user = req[r].user, !.primary = TRUE,
                                      !.deviceTrusted = known]
             q == [req[r] EXCEPT !.copy = c, !.step = "mfaStatus", !.next = req[r].next]
  <2>1. /\ req[r] \in Request /\ req[r].copy \in Session /\ req[r].user \in Users
        /\ req[r].step \in {"password", "linkResolve"} /\ "mfaStatus" \in Steps
        /\ req[r].next \in {"idle", "linkCreate"}
        /\ PrimaryVerified(r, known)
    BY <1>2, Working DEF PasswordVerified, MagicLinkVerified, At, Request, Steps
  <2>2. c \in Session /\ c.exchanged = req[r].copy.exchanged
    BY <2>1 DEF Session
  <2>3. req' = [req EXCEPT ![r] = q]
    <3>1. req' = [req EXCEPT ![r].copy = c, ![r].step = "mfaStatus"]
      BY <2>1 DEF PrimaryVerified, IInv, TypeOK, Request, Session
    <3> QED BY <2>1, <3>1 DEF IInv, TypeOK, Request
  <2>4. UNCHANGED <<store, reverse, created, granted>>
    BY <2>1 DEF PrimaryVerified, redis
  <2> HIDE DEF c
  <2> QED BY <2>4, <2>1, <2>2, <2>3, CopyChanged DEF HasCopy
<1>3. ASSUME NEW s \in Sessions, NEW t \in Tokens, BeginMagicLinkValidate(r, s, t)
      PROVE  Opens(r)
  BY <1>3, LoadOpens DEF BeginMagicLinkValidate, Starts, At
<1>4. ASSUME NEW t \in Tokens, MagicLinkCreate(r, t) PROVE Ends(r)
  BY <1>0, <1>4 DEF MagicLinkCreate, At, Done, Ends, KeepsSessions, Marking, history
<1>5. CASE PasswordRefused(r)
  BY <1>0, <1>5 DEF PasswordRefused, At, Done, Ends, KeepsSessions, Marking, redis, history
<1>6. CASE MagicLinkUser(r)
  <2> DEFINE c == [req[r].copy EXCEPT !.user = req[r].user]
             q == [req[r] EXCEPT !.copy = c, !.step = "ttl", !.next = "linkCreate"]
  <2>1. /\ req[r].step = "magicLink" /\ req[r] \in Request /\ req[r].copy \in Session
        /\ req[r].user \in Users /\ "ttl" \in Steps
    BY <1>6, Working DEF MagicLinkUser, At, Request, Steps
  <2>2. c \in Session /\ c.exchanged = req[r].copy.exchanged
    BY <2>1 DEF Session
  <2>3. req' = [req EXCEPT ![r] = q]
    <3>1. req' = [req EXCEPT ![r].copy = c, ![r].step = "ttl", ![r].next = "linkCreate"]
      BY <1>6, <2>1 DEF MagicLinkUser, IInv, TypeOK, Request, Session
    <3> QED BY <2>1, <3>1 DEF IInv, TypeOK, Request
  <2>4. UNCHANGED <<store, reverse, created, granted>>
    BY <1>6 DEF MagicLinkUser, redis, history
  <2> HIDE DEF c
  <2> QED BY <2>4, <2>1, <2>2, <2>3, CopyChanged DEF HasCopy
<1>7. CASE ConsumeGet(r) \/ ConsumeDel(r)
  <2>1. CASE Done(r)
    BY <1>0, <1>7, <2>1 DEF ConsumeGet, ConsumeDel, At, Done, Ends, KeepsSessions, Marking,
                            redis, history
  <2>2. CASE ~Done(r)
    <3>1. Goto(r, "linkDel") \/ Goto(r, "linkResolve")
      BY <1>7, <2>2 DEF ConsumeGet, ConsumeDel
    <3>2. /\ req'[r].session = req[r].session /\ req'[r].copy = req[r].copy
          /\ req'[r].step \in {"linkDel", "linkResolve"}
          /\ \A x \in Requests \ {r} : req'[x] = req[x]
      BY <1>0, <3>1 DEF Goto, Request
    <3> QED BY <1>7, <3>2 DEF ConsumeGet, ConsumeDel, At, Works, KeepsSessions, HasCopy,
                              redis, history
  <2> QED BY <2>1, <2>2
<1>8. CASE MfaStatus(r)
  <2> DEFINE c == [req[r].copy EXCEPT !.mfaSetup = req[r].user \in mfa]
             q == [req[r] EXCEPT !.copy = c, !.step = "mfaPolicy", !.next = req[r].next]
  <2>1. /\ req[r].step = "mfaStatus" /\ req[r] \in Request /\ req[r].copy \in Session
        /\ req[r].next \in {"idle", "linkCreate"} /\ "mfaPolicy" \in Steps
    BY <1>8, Working DEF MfaStatus, At, Request, Steps
  <2>2. c \in Session /\ c.exchanged = req[r].copy.exchanged
    <3>1. ASSUME NEW b \in BOOLEAN
          PROVE  /\ [req[r].copy EXCEPT !.mfaSetup = b] \in Session
                 /\ [req[r].copy EXCEPT !.mfaSetup = b].exchanged = req[r].copy.exchanged
      BY <2>1 DEF Session
    <3>2. (req[r].user \in mfa) \in BOOLEAN
      OBVIOUS
    <3> QED BY <3>1, <3>2
  <2>3. req' = [req EXCEPT ![r] = q]
    <3>1. req' = [req EXCEPT ![r].copy = c, ![r].step = "mfaPolicy"]
      BY <1>8, <2>1 DEF MfaStatus, IInv, TypeOK, Request, Session
    <3> QED BY <2>1, <3>1 DEF IInv, TypeOK, Request
  <2>4. UNCHANGED <<store, reverse, created, granted>>
    BY <1>8 DEF MfaStatus, redis, history
  <2> HIDE DEF c
  <2> QED BY <2>4, <2>1, <2>2, <2>3, CopyChanged DEF HasCopy
<1>9. CASE MfaPolicy(r)
  <2> DEFINE c == [req[r].copy EXCEPT !.policy = policy]
             q == [req[r] EXCEPT !.copy = c, !.step = "ttl", !.next = req[r].next]
  <2>1. /\ req[r].step = "mfaPolicy" /\ req[r] \in Request /\ req[r].copy \in Session
        /\ req[r].next \in {"idle", "linkCreate"} /\ "ttl" \in Steps
    BY <1>9, Working DEF MfaPolicy, At, Request, Steps
  <2>2. c \in Session /\ c.exchanged = req[r].copy.exchanged
    BY <2>1 DEF Session, IInv, TypeOK
  <2>3. Update(r, c)
    BY <1>9 DEF MfaPolicy
  <2>4. UNCHANGED <<store, reverse, created, granted>>
    BY <1>9 DEF MfaPolicy, redis
  <2> HIDE DEF c
  <2>6. req' = [req EXCEPT ![r] = q]
    BY <2>1, <2>3 DEF Update, IInv, TypeOK, Request
  <2> QED BY <2>4, <2>1, <2>2, <2>6, CopyChanged DEF HasCopy
<1> QED BY <1>1, <1>2, <1>3, <1>4, <1>5, <1>6, <1>7, <1>8, <1>9 DEF PrimaryAuth

LEMMA OtherSteps ==
  ASSUME IInv, NEW r \in Requests,
         SecondFactor(r) \/ Exchange(r) \/ Issue(r) \/ UpdateTtl(r) \/ Abort(r)
  PROVE  \/ Ends(r) \/ Looks(r) \/ Opens(r) \/ Works(r)
         \/ ExchangeReverse(r) \/ ExchangeMark(r) \/ DeleteSession(r) \/ IssueTokens(r)
<1>0. req \in [Requests -> Request]
  BY DEF IInv, TypeOK
<1>1. ASSUME NEW s \in Sessions, BeginTotp(r, s) PROVE Opens(r)
  BY <1>1, LoadOpens DEF BeginTotp, Starts, At
<1>2. ASSUME NEW trust \in BOOLEAN, TotpVerified(r, trust) PROVE Works(r)
  <2> DEFINE c == [req[r].copy EXCEPT !.mfaVerified = TRUE, !.deviceTrusted = @ \/ trust]
             q == [req[r] EXCEPT !.copy = c, !.step = "ttl", !.next = req[r].next]
  <2>1. /\ req[r].step = "totp" /\ req[r] \in Request /\ req[r].copy \in Session
        /\ req[r].next \in {"idle", "linkCreate"} /\ "ttl" \in Steps
    BY <1>2, Working DEF TotpVerified, At, Request, Steps
  <2>2. c \in Session /\ c.exchanged = req[r].copy.exchanged
    BY <2>1 DEF Session
  <2>3. Update(r, c) /\ UNCHANGED <<store, reverse, created, granted>>
    BY <1>2 DEF TotpVerified, redis
  <2> HIDE DEF c
  <2>4. req' = [req EXCEPT ![r] = q]
    BY <2>1, <2>3 DEF Update, IInv, TypeOK, Request
  <2> QED BY <2>1, <2>2, <2>3, <2>4, CopyChanged DEF HasCopy
<1>3. CASE TotpRefused(r)
  BY <1>0, <1>3 DEF TotpRefused, At, Done, Ends, KeepsSessions, Marking, redis, history
<1>4. ASSUME NEW s \in Sessions, BeginExchange(r, s) \/ BeginExchangeSession(r, s)
      PROVE  Opens(r)
  BY <1>4, LoadOpens DEF BeginExchange, BeginExchangeSession, Starts, At
<1>5. ASSUME ExchangeGet(r) \/ ExchangeDel(r) \/ (\E t \in Tokens : ExchangeKey(r, t)) \/ TokenDel(r)
      PROVE  Works(r)
  <2>1. /\ req'[r].session = req[r].session /\ req'[r].copy = req[r].copy
        /\ req'[r].step \in {"exKey", "exDel", "exReverse", "tkDelSession"}
        /\ \A x \in Requests \ {r} : req'[x] = req[x]
    <3>1. CASE ExchangeGet(r)
      BY <1>0, <3>1 DEF ExchangeGet, Request
    <3>2. CASE ExchangeDel(r) \/ TokenDel(r)
      BY <1>0, <3>2 DEF ExchangeDel, TokenDel, Goto, Request
    <3>3. ASSUME NEW t \in Tokens, ExchangeKey(r, t)
          PROVE  /\ req'[r].session = req[r].session /\ req'[r].copy = req[r].copy
                 /\ req'[r].step = "exReverse"
                 /\ \A x \in Requests \ {r} : req'[x] = req[x]
      <4>1. req' = [req EXCEPT ![r] = [@ EXCEPT !.token = t, !.step = "exReverse"]]
        BY <1>0, <3>3 DEF ExchangeKey
      <4> QED BY <1>0, <4>1 DEF Request
    <3> QED BY <1>5, <3>1, <3>2, <3>3
  <2>2. req[r].step \in {"exGet", "exDel", "exKey", "tkDel"}
    BY <1>5 DEF ExchangeGet, ExchangeDel, ExchangeKey, TokenDel, At
  <2>3. /\ UNCHANGED <<store, created, granted>>
        /\ \A t \in Tokens : reverse'[t] # None => reverse'[t] = reverse[t]
    BY <1>5 DEF ExchangeGet, ExchangeDel, ExchangeKey, TokenDel, redis, history, IInv, TypeOK
  <2> QED BY <2>1, <2>2, <2>3 DEF Works, KeepsSessions, HasCopy
<1>6. ASSUME NEW t \in Tokens, BeginToken(r, t) PROVE Looks(r)
  BY <1>0, <1>6 DEF BeginToken, Starts, At, Idle, Looks, KeepsSessions, HasCopy, redis, history
<1>7. CASE TokenSession(r)
  <2> DEFINE s == req[r].session
  <2>1. s \in Sessions /\ req[r].step = "tkSession"
    BY <1>7 DEF TokenSession, At, IInv, RequestsOK, RequestOK
  <2>2. CASE Live(s) /\ store[s].user # None
    <3>1. Load(r, s, "tkDel", store[s].user, req[r].token)
      BY <1>7, <2>2 DEF TokenSession
    <3>2. UNCHANGED <<redis, drawn, created, settings, history>>
      BY <1>7 DEF TokenSession
    <3> HIDE DEF s
    <3> QED BY <2>1, <3>1, <3>2, LoadOpens
  <2>3. CASE ~(Live(s) /\ store[s].user # None)
    BY <1>0, <1>7, <2>1, <2>3 DEF TokenSession, Done, Ends, KeepsSessions, Marking,
                                  redis, history
  <2> QED BY <2>2, <2>3
<1>8. CASE UpdateTtl(r)
  <2>1. CASE Live(req[r].session)
    <3>1. /\ req'[r].session = req[r].session /\ req'[r].copy = req[r].copy
          /\ req'[r].step = "set"
          /\ \A x \in Requests \ {r} : req'[x] = req[x]
      BY <1>0, <1>8, <2>1 DEF UpdateTtl, Goto, Request
    <3> QED BY <1>8, <3>1 DEF UpdateTtl, At, Works, KeepsSessions, HasCopy, redis, history
  <2>2. CASE ~Live(req[r].session)
    BY <1>0, <1>8, <2>2 DEF UpdateTtl, Done, Ends, KeepsSessions, redis, history
  <2> QED BY <2>1, <2>2
<1>9. CASE Abort(r)
  BY <1>0, <1>9 DEF Abort, Done, Ends, KeepsSessions, redis, history
<1> QED BY <1>1, <1>2, <1>3, <1>4, <1>5, <1>6, <1>7, <1>8, <1>9
        DEF SecondFactor, Exchange, Issue

(* A session that is gone after its tokens were issued, and one that is not,
   under the steps of the one request.                                       *)
LEMMA SessionsKept ==
  ASSUME IInv, OneAtATime, SessionsInv, NEW r \in Requests,
         Ends(r) \/ Looks(r) \/ Opens(r) \/ Works(r)
  PROVE  SessionsInv'
<1>1. store' = store /\ created' = created /\ granted' = granted
  BY DEF Ends, Looks, Opens, Works, KeepsSessions
<1>2. HasCopy(req'[r]) =>
        /\ req'[r].session \in created
        /\ granted[req'[r].session] = 0
        /\ req'[r].step # "issue"
  <2>1. CASE Ends(r) \/ Looks(r)
    BY <2>1 DEF Ends, Looks, HasCopy, Idle
  <2>2. CASE Opens(r)
    <3>1. /\ req'[r].session \in Sessions /\ Live(req'[r].session)
          /\ granted[req'[r].session] \in Nat
      BY <2>2 DEF Opens, IInv, TypeOK
    <3> QED BY <2>2, <3>1 DEF Opens, SessionsInv
  <2>3. CASE Works(r)
    BY <2>3 DEF Works, SessionsInv
  <2> QED BY <2>1, <2>2, <2>3
<1>3. ASSUME NEW q \in Requests, HasCopy(req'[q])
      PROVE  /\ req'[q].session \in created
             /\ granted[req'[q].session] = 0
             /\ req'[q].step # "issue"
  BY <1>2, <1>3 DEF OneAtATime
<1> QED BY <1>1, <1>3 DEF SessionsInv, Live, HasCopy

LEMMA RedeemKept ==
  ASSUME IInv, OneAtATime, ~Faults, RedeemInv, NEW r \in Requests,
         Ends(r) \/ Looks(r) \/ Opens(r) \/ Works(r)
  PROVE  RedeemInv'
<1>1. /\ store' = store /\ created' = created
      /\ \A t \in Tokens : reverse'[t] # None => reverse'[t] = reverse[t]
  BY DEF Ends, Looks, Opens, Works, KeepsSessions
<1>2. \A q \in Requests : q = r
  BY DEF OneAtATime
<1> SUFFICES ASSUME NEW t \in Tokens, reverse'[t] # None
             PROVE  /\ reverse[t] \in created
                    /\ Live(reverse[t]) =>
                         \/ store[reverse[t]].exchanged
                         \/ req'[r].session = reverse[t] /\ Marking(req'[r])
                    /\ HasCopy(req'[r]) /\ req'[r].session = reverse[t]
                         => req'[r].step = "exMark" \/ req'[r].copy.exchanged
  BY <1>1, <1>2 DEF RedeemInv, Live
<1>3. /\ reverse[t] # None /\ reverse[t] \in created
      /\ Live(reverse[t]) =>
           \/ store[reverse[t]].exchanged
           \/ req[r].session = reverse[t] /\ Marking(req[r])
      /\ HasCopy(req[r]) /\ req[r].session = reverse[t]
           => req[r].step = "exMark" \/ req[r].copy.exchanged
  BY <1>1, <1>2 DEF RedeemInv
<1>4. CASE Ends(r)
  BY <1>3, <1>4 DEF Ends, HasCopy, Idle
<1>5. CASE Looks(r)
  BY <1>3, <1>5 DEF Looks, HasCopy, Marking
<1>6. CASE Opens(r)
  BY <1>3, <1>6 DEF Opens, HasCopy, Marking
<1>7. CASE Works(r)
  BY <1>3, <1>7 DEF Works, HasCopy, Marking
<1> QED BY <1>4, <1>5, <1>6, <1>7

(* The five steps that change a session or the index of exchange tokens.     *)
LEMMA WriterKept ==
  ASSUME IInv, OneAtATime, SessionsInv, ~Faults => RedeemInv, NEW r \in Requests,
         \/ UpdateSet(r) \/ ExchangeReverse(r) \/ ExchangeMark(r)
         \/ DeleteSession(r) \/ IssueTokens(r)
  PROVE  SessionsInv' /\ (~Faults => RedeemInv')
<1>s. PICK s : s = req[r].session
  OBVIOUS
<1>0. /\ req \in [Requests -> Request] /\ store \in [Sessions -> Session \union {None}]
      /\ reverse \in [Tokens -> Sessions \union {None}]
      /\ granted \in [Sessions -> 0..MaxGrants]
      /\ \A q \in Requests : q = r
  BY DEF IInv, TypeOK, OneAtATime
<1>1. /\ HasCopy(req[r]) /\ s \in Sessions /\ s \in created /\ granted[s] = 0
      /\ req[r].step = "issue" => ~Live(s)
      /\ req[r].copy \in Session
  BY <1>s, Working DEF UpdateSet, ExchangeReverse, ExchangeMark, DeleteSession, IssueTokens, At,
                 HasCopy, SessionsInv, Request
<1>2. ASSUME ~Faults, NEW t \in Tokens, reverse[t] # None
      PROVE  /\ reverse[t] \in created
             /\ Live(reverse[t]) =>
                  \/ store[reverse[t]].exchanged
                  \/ s = reverse[t] /\ Marking(req[r])
             /\ s = reverse[t] => req[r].step = "exMark" \/ req[r].copy.exchanged
  BY <1>s, <1>0, <1>1, <1>2 DEF RedeemInv
<1>3. ASSUME /\ \A x \in Sessions : Live(x)' \/ granted'[x] > 0 => x \in created
             /\ \A x \in Sessions : granted'[x] > 0 => ~Live(x)'
             /\ \A x \in Sessions : granted'[x] <= 1
             /\ HasCopy(req'[r]) => /\ req'[r].session = s /\ granted'[s] = 0
                                    /\ req'[r].step = "issue" => ~Live(s)',
             created' = created
      PROVE  SessionsInv'
  <2>1. ASSUME NEW q \in Requests, HasCopy(req'[q])
        PROVE  /\ req'[q].session \in created
               /\ granted'[req'[q].session] = 0
               /\ req'[q].step = "issue" => store'[req'[q].session] = None
    BY <1>0, <1>1, <1>3, <2>1 DEF Live
  <2> QED BY <1>3, <2>1 DEF SessionsInv, HasCopy, Live
<1>4. ASSUME \A t \in Tokens : reverse'[t] # None =>
               /\ reverse'[t] \in created'
               /\ Live(reverse[t])' =>
                    \/ store'[reverse'[t]].exchanged
                    \/ req'[r].session = reverse'[t] /\ Marking(req'[r])
               /\ HasCopy(req'[r]) /\ req'[r].session = reverse'[t]
                    => req'[r].step = "exMark" \/ req'[r].copy.exchanged
      PROVE  RedeemInv'
  BY <1>0, <1>4 DEF RedeemInv
<1>5. \A x \in Sessions : /\ Live(x) \/ granted[x] > 0 => x \in created
                          /\ granted[x] > 0 => ~Live(x)
                          /\ granted[x] <= 1
  BY DEF SessionsInv
<1>6. CASE UpdateSet(r)
  <2>1. /\ store' = [store EXCEPT ![s] = req[r].copy] /\ req[r].step = "set"
        /\ UNCHANGED <<reverse, created, granted>>
    BY <1>s, <1>6 DEF UpdateSet, At, history
  <2>2. HasCopy(req'[r]) => /\ req'[r].session = s /\ req'[r].step # "issue"
                            /\ req'[r].copy = req[r].copy
    <3>1. CASE Done(r)
      BY <1>0, <3>1 DEF Done, Idle, HasCopy
    <3>2. CASE Goto(r, "linkCreate")
      BY <1>s, <1>0, <3>2 DEF Goto, Request
    <3> QED BY <1>0, <1>6, <3>1, <3>2 DEF UpdateSet, Request
  <2>3. SessionsInv'
    BY <1>0, <1>1, <1>3, <1>5, <2>1, <2>2 DEF Live
  <2>4. ASSUME ~Faults PROVE RedeemInv'
    <3>1. \A t \in Tokens : reverse[t] # None => reverse[t] \in Sessions
      BY <1>0
    <3>2. \A x \in Sessions : store'[x] = IF x = s THEN req[r].copy ELSE store[x]
      BY <1>0, <1>1, <2>1
    <3> QED BY <1>0, <1>1, <1>2, <1>4, <2>1, <2>2, <2>4, <3>1, <3>2 DEF Live
  <2> QED BY <2>3, <2>4
<1>7. CASE ExchangeReverse(r)
  <2>1. /\ reverse' = [reverse EXCEPT ![req[r].token] = s] /\ req[r].step = "exReverse"
        /\ UNCHANGED <<store, created, granted>>
    BY <1>s, <1>7 DEF ExchangeReverse, At, history
  <2>2. req'[r].session = s /\ req'[r].step = "exMark"
    BY <1>s, <1>0, <1>7 DEF ExchangeReverse, Goto, Request
  <2>3. SessionsInv'
    BY <1>0, <1>1, <1>3, <1>5, <2>1, <2>2 DEF Live
  <2>4. ASSUME ~Faults PROVE RedeemInv'
    <3>1. \A t \in Tokens : reverse'[t] = s \/ reverse'[t] = reverse[t]
      BY <1>0, <2>1
    <3>2. Marking(req'[r]) /\ ~Marking(req[r])
      BY <2>1, <2>2 DEF Marking
    <3> QED BY <1>0, <1>1, <1>2, <1>4, <2>1, <2>2, <2>4, <3>1, <3>2 DEF Live
  <2> QED BY <2>3, <2>4
<1>8. CASE ExchangeMark(r)
  <2> DEFINE c == [req[r].copy EXCEPT !.exchanged = TRUE]
  <2>1. UNCHANGED <<store, reverse, created, granted>> /\ Update(r, c)
    BY <1>8 DEF ExchangeMark, redis, history
  <2>2. c.exchanged
    BY <1>1 DEF Session
  <2> HIDE DEF c
  <2>3. req'[r].session = s /\ req'[r].step = "ttl" /\ req'[r].copy.exchanged
    BY <1>s, <1>0, <2>1, <2>2 DEF Update, Request
  <2>4. SessionsInv'
    BY <1>0, <1>1, <1>3, <1>5, <2>1, <2>3 DEF Live
  <2>5. ASSUME ~Faults PROVE RedeemInv'
    <3>1. Marking(req'[r])
      BY <2>3 DEF Marking
    <3> QED BY <1>0, <1>2, <1>4, <2>1, <2>3, <2>5, <3>1 DEF Live
  <2> QED BY <2>4, <2>5
<1>9. CASE DeleteSession(r)
  <2>1. /\ store' = [store EXCEPT ![s] = None] /\ req[r].step \in {"tkDelSession", "xsDelete"}
        /\ UNCHANGED <<reverse, created, granted>>
    BY <1>s, <1>9 DEF DeleteSession, At, history
  <2>2. req'[r].session = s /\ req'[r].step = "issue" /\ req'[r].copy = req[r].copy
    BY <1>s, <1>0, <1>9 DEF DeleteSession, Goto, Request
  <2>3. \A x \in Sessions : store'[x] = IF x = s THEN None ELSE store[x]
    BY <1>0, <2>1
  <2>4. SessionsInv'
    BY <1>0, <1>1, <1>3, <1>5, <2>1, <2>2, <2>3 DEF Live
  <2>5. ASSUME ~Faults PROVE RedeemInv'
    <3>1. \A t \in Tokens : reverse[t] # None => reverse[t] \in Sessions
      BY <1>0
    <3> QED BY <1>0, <1>1, <1>2, <1>4, <2>1, <2>2, <2>3, <2>5, <3>1 DEF Live
  <2> QED BY <2>4, <2>5
<1>10. CASE IssueTokens(r)
  <2>1. /\ granted' = [granted EXCEPT ![s] = @ + 1] /\ req[r].step = "issue"
        /\ UNCHANGED <<store, reverse, created>> /\ req'[r] = Idle
    BY <1>s, <1>0, <1>10 DEF IssueTokens, At, Done, redis
  <2>2. \A x \in Sessions : granted'[x] = IF x = s THEN 1 ELSE granted[x]
    BY <1>0, <1>1, <2>1
  <2>3. ~HasCopy(req'[r])
    BY <2>1 DEF HasCopy, Idle
  <2>4. SessionsInv'
    BY <1>0, <1>1, <1>3, <1>5, <2>1, <2>2, <2>3 DEF Live
  <2>5. ASSUME ~Faults PROVE RedeemInv'
    <3>1. ~Marking(req[r])
      BY <2>1 DEF Marking
    <3> QED BY <1>0, <1>2, <1>4, <2>1, <2>3, <2>5, <3>1 DEF Live
  <2> QED BY <2>4, <2>5
<1> QED BY <1>6, <1>7, <1>8, <1>9, <1>10

LEMMA CreateSessionsKept ==
  ASSUME IInv, SessionsInv, NEW s \in Sessions, CreateSession(s)
  PROVE  SessionsInv' /\ (RedeemInv => RedeemInv')
<1>1. /\ s \notin created /\ created' = created \union {s}
      /\ \A x \in Sessions : store'[x] = IF x = s THEN FreshSession ELSE store[x]
      /\ UNCHANGED <<reverse, granted, req>>
  BY DEF CreateSession, history, IInv, TypeOK
<1>2. /\ \A x \in Sessions : granted[x] \in Nat
      /\ \A t \in Tokens : reverse[t] # None => reverse[t] \in Sessions
      /\ \A r \in Requests : HasCopy(req[r]) => req[r].session \in Sessions
  BY Working DEF IInv, TypeOK, HasCopy
<1>3. SessionsInv'
  BY <1>1, <1>2 DEF SessionsInv, Live, HasCopy
<1>4. ASSUME RedeemInv PROVE RedeemInv'
  BY <1>1, <1>2, <1>4 DEF RedeemInv, Live, HasCopy, Marking
<1> QED BY <1>3, <1>4

(* The TTL of a key ends, a setting or an enrolment changes. *)
LEMMA RestKept ==
  ASSUME IInv, SessionsInv, UNCHANGED <<created, granted, req>>,
         \A s \in Sessions : store'[s] \in {store[s], None},
         \A t \in Tokens : reverse'[t] # None => reverse'[t] = reverse[t]
  PROVE  SessionsInv' /\ (RedeemInv => RedeemInv')
<1>1. /\ \A t \in Tokens : reverse[t] # None => reverse[t] \in Sessions
      /\ \A r \in Requests : HasCopy(req[r]) => req[r].session \in Sessions
  BY Working DEF IInv, TypeOK, HasCopy
<1>2. SessionsInv'
  BY <1>1 DEF SessionsInv, Live, HasCopy
<1>3. ASSUME RedeemInv PROVE RedeemInv'
  BY <1>1, <1>3 DEF RedeemInv, Live, HasCopy, Marking
<1> QED BY <1>2, <1>3

SerialInv == SessionsInv /\ (~Faults => RedeemInv)

LEMMA SerialStepKept == IInv /\ OneAtATime /\ SerialInv /\ [Next]_vars => SerialInv'
<1> SUFFICES ASSUME IInv, OneAtATime, SerialInv, [Next]_vars PROVE SerialInv'
  OBVIOUS
<1> USE DEF SerialInv
<1>1. ASSUME NEW r \in Requests, Ends(r) \/ Looks(r) \/ Opens(r) \/ Works(r)
      PROVE  SerialInv'
  BY <1>1, SessionsKept, RedeemKept
<1>2. ASSUME NEW r \in Requests,
             \/ UpdateSet(r) \/ ExchangeReverse(r) \/ ExchangeMark(r)
             \/ DeleteSession(r) \/ IssueTokens(r)
      PROVE  SerialInv'
  BY <1>2, WriterKept
<1>4. CASE Expire
  <2>1. /\ UNCHANGED <<created, granted, req>>
        /\ \A s \in Sessions : store'[s] \in {store[s], None}
        /\ \A t \in Tokens : reverse'[t] # None => reverse'[t] = reverse[t]
    BY <1>4 DEF Expire, history, IInv, TypeOK
  <2> QED BY <2>1, RestKept
<1>5. CASE UNCHANGED vars
  BY <1>5, RestKept DEF vars, redis, history
<1>3. ASSUME NEW u \in Users, ChangeMfa(u) \/ DistrustDevice(u) PROVE SerialInv'
  BY <1>3, RestKept DEF ChangeMfa, DistrustDevice, redis, history
<1>6. ASSUME NEW p \in Policies, ChangePolicy(p) PROVE SerialInv'
  BY <1>6, RestKept DEF ChangePolicy, redis, history
<1> QED BY <1>1, <1>2, <1>3, <1>4, <1>5, <1>6, PrimarySteps, OtherSteps, CreateSessionsKept
        DEF Next

LEMMA SerialInvariant == Spec => [](OneAtATime => SerialInv)
<1>1. Init => SerialInv
  BY DEF Init, Idle, SerialInv, SessionsInv, RedeemInv, HasCopy, Live
<1>2. Init => (OneAtATime => SerialInv)
  BY <1>1
<1>3. IInv /\ (OneAtATime => SerialInv) /\ [Next]_vars => (OneAtATime => SerialInv)'
  BY SerialStepKept DEF OneAtATime
<1> QED BY <1>2, <1>3, Invariant, PTL DEF Spec

(* A session is good for one issue of tokens: where requests do not overlap,
   token() and exchangeSession() together succeed at most once for it,
   whatever fails and whatever expires.                                      *)
THEOREM OneGrant == Spec => [](OneAtATime => OneGrantPerSession)
<1>1. (OneAtATime => SerialInv) => (OneAtATime => OneGrantPerSession)
  BY DEF SerialInv, SessionsInv, OneGrantPerSession
<1> QED BY <1>1, SerialInvariant, PTL

(* A session whose tokens were issued never comes back to Redis: where
   requests do not overlap, none of them writes back an older copy of it.    *)
THEOREM ConsumedGone == Spec => [](OneAtATime => ConsumedStaysGone)
<1>1. (OneAtATime => SerialInv) => (OneAtATime => ConsumedStaysGone)
  BY DEF SerialInv, SessionsInv, ConsumedStaysGone
<1> QED BY <1>1, SerialInvariant, PTL

(* An exchange token opens only a session marked exchanged: where requests do
   not overlap and run to their end, exchange() marks the session whose token
   it drew and no later update of the session takes the mark away.           *)
THEOREM RedeemableMarked == Spec => [](OneAtATime /\ ~Faults => RedeemableMeansExchanged)
<1>1. (OneAtATime => SerialInv) => (OneAtATime /\ ~Faults => RedeemableMeansExchanged)
  BY DEF SerialInv, RedeemInv, RedeemableMeansExchanged
<1> QED BY <1>1, SerialInvariant, PTL
===============================================================================
