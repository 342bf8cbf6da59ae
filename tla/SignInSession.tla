---------------------------- MODULE SignInSession ----------------------------
(***************************************************************************)
(* The pending sign-in: the auth session a browser works through (one JSON *)
(* value in Redis), the magic-link and exchange tokens it gives rise to,   *)
(* and the end of it, where tokens are issued once for the session.        *)
(*                                                                         *)
(* A handler loads the session, awaits the database and Redis, and writes  *)
(* its whole copy back: AuthSessionRedisService.update reads the key's TTL *)
(* and then SETs it.  Requests on one session interleave at every await.   *)
(* Keys leave Redis when their TTL ends, here at any moment.               *)
(***************************************************************************)
EXTENDS Naturals, FiniteSets

CONSTANTS Users,      \* accounts
          Sessions,   \* session ids that may be created
          Tokens,     \* one-time tokens that may be drawn
          Requests,   \* HTTP requests that may be in flight together
          None,       \* undefined, or no such key in Redis
          Operations, \* what the clients of a run call
          Policies,   \* values of the MFA_POLICY setting
          Emails,     \* Emails[s]: whose email is typed into the forms of session s
          MaxGrants,  \* bound of the history counter "granted"
          Faults      \* TRUE: any statement may fail and end its request

AllOperations ==
  {"password", "magicLink", "magicLinkValidate", "totp", "exchange", "token",
   "exchangeSession", "mfa", "device", "policy"}

ASSUME NoneAssumption == None \notin Users \union Sessions \union Tokens
ASSUME OperationsAssumption == Operations \subseteq AllOperations
ASSUME PoliciesAssumption == Policies \subseteq {"DISABLED", "OPTIONAL", "REQUIRED"}
                             /\ Policies # {}
ASSUME EmailsAssumption == Emails \in [Sessions -> SUBSET Users]
ASSUME FaultsAssumption == Faults \in BOOLEAN
ASSUME GrantsAssumption == MaxGrants \in Nat

VARIABLES store,    \* AUTH_SESSION_KEY(session) -> session
          magic,    \* OTT_KEY(user, MagicLink) -> token hash
          current,  \* OTT_KEY(user, Exchange) -> token hash
          reverse,  \* OTT_EXCHANGE_KEY(token hash) -> session
          drawn,    \* the random tokens drawn so far
          created,  \* the sessions created so far
          policy,   \* the MFA_POLICY setting
          mfa,      \* users with a verified multi_factor_auth row
          trusted,  \* users with a device trusted now
          req,      \* the requests in flight
          proved,   \* history: what was shown in a session, and by whom
          granted,  \* history: how often tokens were issued for a session
          holders   \* history: to whom

redis == <<store, magic, current, reverse>>
settings == <<policy, mfa, trusted>>
history == <<proved, granted, holders>>
vars == <<redis, drawn, created, settings, req, history>>

-------------------------------------------------------------------------------
(* Types *)

Session == [user: Users \union {None}, primary: BOOLEAN,
            policy: Policies \union {"DISABLED"},
            mfaSetup: BOOLEAN, mfaVerified: BOOLEAN, deviceTrusted: BOOLEAN,
            exchanged: BOOLEAN]

\* createFirstParty and createThirdParty.
FreshSession == [user |-> None, primary |-> FALSE,
                 policy |-> "DISABLED",
                 mfaSetup |-> FALSE, mfaVerified |-> FALSE, deviceTrusted |-> FALSE,
                 exchanged |-> FALSE]

Steps == {"idle", "password", "magicLink", "linkCreate", "linkGet", "linkDel",
          "linkResolve", "mfaStatus", "mfaPolicy", "totp", "exGet", "exDel", "exKey",
          "exReverse", "exMark", "ttl", "set", "tkSession", "tkDel", "tkDelSession",
          "xsDelete", "issue"}

Request == [step: Steps, session: Sessions \union {None},
            copy: Session, user: Users \union {None}, token: Tokens \union {None},
            next: {"idle", "linkCreate"}]
Idle == [step |-> "idle", session |-> None, copy |-> FreshSession, user |-> None,
         token |-> None, next |-> "idle"]

Factors == {"primary", "totp", "device", "waived"}

TypeOK ==
  /\ store \in [Sessions -> Session \union {None}]
  /\ magic \in [Users -> Tokens \union {None}]
  /\ current \in [Users -> Tokens \union {None}]
  /\ reverse \in [Tokens -> Sessions \union {None}]
  /\ drawn \in SUBSET Tokens
  /\ created \in SUBSET Sessions
  /\ policy \in Policies
  /\ mfa \in SUBSET Users
  /\ trusted \in SUBSET Users
  /\ req \in [Requests -> Request]
  /\ proved \in [Sessions -> SUBSET (Users \X Factors)]
  /\ granted \in [Sessions -> 0..MaxGrants]
  /\ holders \in [Sessions -> SUBSET Users]

-------------------------------------------------------------------------------
(* Helpers *)

At(r, step) == req[r].step = step
Goto(r, step) == req' = [req EXCEPT ![r].step = step]
Done(r) == req' = [req EXCEPT ![r] = Idle]
Starts(r, op) == At(r, "idle") /\ op \in Operations
Live(s) == store[s] # None

\* _getSession, then on to step with the copy read and the input of the request.
Load(r, s, step, user, token) ==
  /\ Live(s)
  /\ req' = [req EXCEPT ![r] = [Idle EXCEPT !.step = step, !.session = s,
                                            !.copy = store[s], !.user = user,
                                            !.token = token]]

\* Request r goes on to write its copy back, changed to c.
Update(r, c) == req' = [req EXCEPT ![r].copy = c, ![r].step = "ttl"]

Prove(r, factor) ==
  proved' = [proved EXCEPT ![req[r].session] = @ \union {<<req[r].user, factor>>}]

(* The user of r has shown the primary factor: registerOrUpdate finds the device
   of the browser ("known": the user's trusted device) or makes a new one.   *)
PrimaryVerified(r, known) ==
  LET u == req[r].user IN
  /\ known => u \in trusted
  /\ req' = [req EXCEPT ![r].copy.user = u, ![r].copy.primary = TRUE,
                        ![r].copy.deviceTrusted = known, ![r].step = "mfaStatus"]
  /\ proved' = [proved EXCEPT ![req[r].session] = @ \union
       ({u} \X (IF known THEN {"primary", "device"} ELSE {"primary"}))]
  /\ UNCHANGED <<redis, drawn, created, settings, granted, holders>>

\* The condition exchange and exchangeSession put on a session, as a refusal.
MfaMissing(c) == c.policy # "DISABLED" /\ ~c.mfaVerified /\ ~c.deviceTrusted

\* Mutant: a second factor is asked only of users who have set one up.
ExchangeableWithoutSetup(c) ==
  c.primary /\ ~(c.mfaSetup /\ MfaMissing(c)) /\ ~c.exchanged /\ c.user # None

Exchangeable(c) == c.primary /\ ~MfaMissing(c) /\ ~c.exchanged /\ c.user # None

\* Mutant: a user without a second factor is never asked to set one up.
NextStepLax(c) ==
  CASE ~c.primary -> "primaryAuth"
    [] c.primary /\ c.policy # "DISABLED" /\ c.mfaSetup
         /\ ~c.mfaVerified /\ ~c.deviceTrusted -> "mfaAuth"
    [] OTHER -> "complete"

\* AuthSessionStatusOutputDto._resolveNextStep.
NextStep(c) ==
  CASE ~c.primary -> "primaryAuth"
    [] c.primary /\ c.policy = "REQUIRED" /\ ~c.mfaSetup -> "mfaSetup"
    [] c.primary /\ c.policy # "DISABLED" /\ c.mfaSetup
         /\ ~c.mfaVerified /\ ~c.deviceTrusted -> "mfaAuth"
    [] OTHER -> "complete"

-------------------------------------------------------------------------------
(* The session key *)

CreateSession(s) ==
  /\ s \notin created
  /\ created' = created \union {s}
  /\ store' = [store EXCEPT ![s] = FreshSession]
  /\ UNCHANGED <<magic, current, reverse, drawn, settings, req, history>>

\* update(): a key without TTL left is an error, else SET follows the TTL.
UpdateTtl(r) ==
  /\ At(r, "ttl")
  /\ IF Live(req[r].session) THEN Goto(r, "set") ELSE Done(r)
  /\ UNCHANGED <<redis, drawn, created, settings, history>>

UpdateSet(r) ==
  /\ At(r, "set")
  /\ store' = [store EXCEPT ![req[r].session] = req[r].copy]
  /\ IF req[r].next = "idle" THEN Done(r) ELSE Goto(r, req[r].next)
  /\ UNCHANGED <<magic, current, reverse, drawn, created, settings, history>>

-------------------------------------------------------------------------------
(* Primary authentication *)

\* primaryAuthPassword; a wrong password, a lock or a delay only ends it here.
BeginPassword(r, s, u) ==
  /\ Starts(r, "password")
  /\ u \in Emails[s]
  /\ Load(r, s, "password", u, None)
  /\ UNCHANGED <<redis, drawn, created, settings, history>>

PasswordVerified(r, known) == At(r, "password") /\ PrimaryVerified(r, known)

PasswordRefused(r) ==
  /\ At(r, "password")
  /\ Done(r)
  /\ UNCHANGED <<redis, drawn, created, settings, history>>

\* primaryAuthMagicLink: the user id goes into the session, then the token is
\* created and mailed.
BeginMagicLink(r, s, u) ==
  /\ Starts(r, "magicLink")
  /\ u \in Emails[s]
  /\ drawn # Tokens
  /\ Load(r, s, "magicLink", u, None)
  /\ UNCHANGED <<redis, drawn, created, settings, history>>

MagicLinkUser(r) ==
  /\ At(r, "magicLink")
  /\ req' = [req EXCEPT ![r].copy.user = req[r].user, ![r].step = "ttl",
                        ![r].next = "linkCreate"]
  /\ UNCHANGED <<redis, drawn, created, settings, history>>

MagicLinkCreate(r, t) ==
  /\ At(r, "linkCreate")
  /\ t \notin drawn
  /\ drawn' = drawn \union {t}
  /\ magic' = [magic EXCEPT ![req[r].user] = t]
  /\ Done(r)
  /\ UNCHANGED <<store, current, reverse, created, settings, history>>

\* primaryAuthMagicLinkValidate: consume() compares, then deletes.
BeginMagicLinkValidate(r, s, t) ==
  /\ Starts(r, "magicLinkValidate")
  /\ t \in drawn
  /\ Live(s) /\ store[s].user # None
  /\ Load(r, s, "linkGet", store[s].user, t)
  /\ UNCHANGED <<redis, drawn, created, settings, history>>

ConsumeGet(r) ==
  /\ At(r, "linkGet")
  /\ IF magic[req[r].user] = req[r].token THEN Goto(r, "linkDel") ELSE Done(r)
  /\ UNCHANGED <<redis, drawn, created, settings, history>>

ConsumeDel(r) ==
  /\ At(r, "linkDel")
  /\ magic' = [magic EXCEPT ![req[r].user] = None]
  /\ Goto(r, "linkResolve")
  /\ UNCHANGED <<store, current, reverse, drawn, created, settings, history>>

MagicLinkVerified(r, known) == At(r, "linkResolve") /\ PrimaryVerified(r, known)

\* _resolveMfaStatus: the row of the user, then the setting.
MfaStatus(r) ==
  /\ At(r, "mfaStatus")
  /\ req' = [req EXCEPT ![r].copy.mfaSetup = req[r].user \in mfa, ![r].step = "mfaPolicy"]
  /\ UNCHANGED <<redis, drawn, created, settings, history>>

MfaPolicy(r) ==
  /\ At(r, "mfaPolicy")
  /\ Update(r, [req[r].copy EXCEPT !.policy = policy])
  /\ IF policy = "DISABLED" THEN Prove(r, "waived") ELSE UNCHANGED proved
  /\ UNCHANGED <<redis, drawn, created, settings, granted, holders>>

-------------------------------------------------------------------------------
(* Second factor: mfaAuthTotpValidate *)

BeginTotp(r, s) ==
  /\ Starts(r, "totp")
  /\ Live(s) /\ store[s].user # None /\ store[s].primary
  /\ Load(r, s, "totp", store[s].user, None)
  /\ UNCHANGED <<redis, drawn, created, settings, history>>

\* A code of the verified secret; the device becomes trusted if asked for.
TotpVerified(r, trust) ==
  LET u == req[r].user IN
  /\ At(r, "totp")
  /\ u \in mfa
  /\ trusted' = IF trust THEN trusted \union {u} ELSE trusted
  /\ Update(r, [req[r].copy EXCEPT !.mfaVerified = TRUE,
                                   !.deviceTrusted = @ \/ trust])
  /\ Prove(r, "totp")
  /\ UNCHANGED <<redis, drawn, created, policy, mfa, granted, holders>>

TotpRefused(r) ==
  /\ At(r, "totp")
  /\ Done(r)
  /\ UNCHANGED <<redis, drawn, created, settings, history>>

-------------------------------------------------------------------------------
(* exchange: an exchange token is created for the session (four statements of
   createExchangeToken), then the session is marked exchanged.               *)

BeginExchange(r, s) ==
  /\ Starts(r, "exchange")
  /\ Live(s) /\ Exchangeable(store[s])
  /\ drawn # Tokens
  /\ Load(r, s, "exGet", store[s].user, None)
  /\ UNCHANGED <<redis, drawn, created, settings, history>>

ExchangeGet(r) ==
  LET old == current[req[r].user] IN
  /\ At(r, "exGet")
  /\ req' = [req EXCEPT ![r].token = old,
                        ![r].step = IF old = None THEN "exKey" ELSE "exDel"]
  /\ UNCHANGED <<redis, drawn, created, settings, history>>

ExchangeDel(r) ==
  /\ At(r, "exDel")
  /\ reverse' = [reverse EXCEPT ![req[r].token] = None]
  /\ Goto(r, "exKey")
  /\ UNCHANGED <<store, magic, current, drawn, created, settings, history>>

ExchangeKey(r, t) ==
  /\ At(r, "exKey")
  /\ t \notin drawn
  /\ drawn' = drawn \union {t}
  /\ current' = [current EXCEPT ![req[r].user] = t]
  /\ req' = [req EXCEPT ![r].token = t, ![r].step = "exReverse"]
  /\ UNCHANGED <<store, magic, reverse, created, settings, history>>

\* Mutant: the index entry keeps the user of the token, not its session.
ExchangeReverseUser(r) ==
  /\ At(r, "exReverse")
  /\ reverse' = [reverse EXCEPT ![req[r].token] = req[r].user]
  /\ Goto(r, "exMark")
  /\ UNCHANGED <<store, magic, current, drawn, created, settings, history>>

ExchangeReverse(r) ==
  /\ At(r, "exReverse")
  /\ reverse' = [reverse EXCEPT ![req[r].token] = req[r].session]
  /\ Goto(r, "exMark")
  /\ UNCHANGED <<store, magic, current, drawn, created, settings, history>>

\* Mutant: the session is written back unmarked.
ExchangeMarkNothing(r) ==
  /\ At(r, "exMark")
  /\ Goto(r, "ttl")
  /\ UNCHANGED <<redis, drawn, created, settings, history>>

ExchangeMark(r) ==
  /\ At(r, "exMark")
  /\ Update(r, [req[r].copy EXCEPT !.exchanged = TRUE])
  /\ UNCHANGED <<redis, drawn, created, settings, history>>

-------------------------------------------------------------------------------
(* The two ways tokens are issued *)

\* token: consumeExchangeToken reads the index, then the session, deletes both
\* token keys, then the session.
BeginToken(r, t) ==
  /\ Starts(r, "token")
  /\ reverse[t] # None
  /\ req' = [req EXCEPT ![r] = [Idle EXCEPT !.step = "tkSession", !.token = t,
                                            !.session = reverse[t]]]
  /\ UNCHANGED <<redis, drawn, created, settings, history>>

TokenSession(r) ==
  LET s == req[r].session IN
  /\ At(r, "tkSession")
  /\ IF Live(s) /\ store[s].user # None
     THEN Load(r, s, "tkDel", store[s].user, req[r].token)
     ELSE Done(r)
  /\ UNCHANGED <<redis, drawn, created, settings, history>>

TokenDel(r) ==
  /\ At(r, "tkDel")
  /\ reverse' = [reverse EXCEPT ![req[r].token] = None]
  /\ current' = [current EXCEPT ![req[r].user] = None]
  /\ Goto(r, "tkDelSession")
  /\ UNCHANGED <<store, magic, drawn, created, settings, history>>

BeginExchangeSession(r, s) ==
  /\ Starts(r, "exchangeSession")
  /\ Live(s) /\ Exchangeable(store[s])
  /\ Load(r, s, "xsDelete", store[s].user, None)
  /\ UNCHANGED <<redis, drawn, created, settings, history>>

\* Mutant: the session is left in Redis.
DeleteNothing(r) ==
  /\ At(r, "tkDelSession") \/ At(r, "xsDelete")
  /\ Goto(r, "issue")
  /\ UNCHANGED <<redis, drawn, created, settings, history>>

DeleteSession(r) ==
  /\ At(r, "tkDelSession") \/ At(r, "xsDelete")
  /\ store' = [store EXCEPT ![req[r].session] = None]
  /\ Goto(r, "issue")
  /\ UNCHANGED <<magic, current, reverse, drawn, created, settings, history>>

\* _issueTokens for the user of the copy, modelled in RefreshTokens.
IssueTokens(r) ==
  /\ At(r, "issue")
  /\ granted[req[r].session] < MaxGrants
  /\ granted' = [granted EXCEPT ![req[r].session] = @ + 1]
  /\ holders' = [holders EXCEPT ![req[r].session] = @ \union {req[r].user}]
  /\ Done(r)
  /\ UNCHANGED <<redis, drawn, created, settings, proved>>

-------------------------------------------------------------------------------
(* The environment *)

ChangeMfa(u) ==
  /\ "mfa" \in Operations
  /\ mfa' = IF u \in mfa THEN mfa \ {u} ELSE mfa \union {u}
  /\ UNCHANGED <<redis, drawn, created, policy, trusted, req, history>>

\* A trusted device is distrusted or deleted, or its trust ends.
DistrustDevice(u) ==
  /\ "device" \in Operations
  /\ u \in trusted
  /\ trusted' = trusted \ {u}
  /\ UNCHANGED <<redis, drawn, created, policy, mfa, req, history>>

ChangePolicy(p) ==
  /\ "policy" \in Operations
  /\ policy' = p
  /\ UNCHANGED <<redis, drawn, created, mfa, trusted, req, history>>

\* The TTL of a key ends.
Expire ==
  /\ \/ /\ \E s \in Sessions : Live(s) /\ store' = [store EXCEPT ![s] = None]
        /\ UNCHANGED <<magic, current, reverse>>
     \/ /\ \E u \in Users : magic[u] # None /\ magic' = [magic EXCEPT ![u] = None]
        /\ UNCHANGED <<store, current, reverse>>
     \/ /\ \E u \in Users : current[u] # None /\ current' = [current EXCEPT ![u] = None]
        /\ UNCHANGED <<store, magic, reverse>>
     \/ /\ \E t \in Tokens : reverse[t] # None /\ reverse' = [reverse EXCEPT ![t] = None]
        /\ UNCHANGED <<store, magic, current>>
  /\ UNCHANGED <<drawn, created, settings, req, history>>

\* A statement fails, or the process dies: what was written stays written.
Abort(r) ==
  /\ Faults
  /\ ~At(r, "idle")
  /\ Done(r)
  /\ UNCHANGED <<redis, drawn, created, settings, history>>

Init ==
  /\ store = [s \in Sessions |-> None]
  /\ magic = [u \in Users |-> None]
  /\ current = [u \in Users |-> None]
  /\ reverse = [t \in Tokens |-> None]
  /\ drawn = {} /\ created = {}
  /\ policy \in Policies
  /\ mfa \in SUBSET Users
  /\ trusted = {}
  /\ req = [r \in Requests |-> Idle]
  /\ proved = [s \in Sessions |-> {}]
  /\ granted = [s \in Sessions |-> 0]
  /\ holders = [s \in Sessions |-> {}]

PrimaryAuth(r) ==
  \/ \E s \in Sessions, u \in Users : BeginPassword(r, s, u) \/ BeginMagicLink(r, s, u)
  \/ \E known \in BOOLEAN : PasswordVerified(r, known) \/ MagicLinkVerified(r, known)
  \/ \E s \in Sessions, t \in Tokens : BeginMagicLinkValidate(r, s, t)
  \/ \E t \in Tokens : MagicLinkCreate(r, t)
  \/ PasswordRefused(r) \/ MagicLinkUser(r) \/ ConsumeGet(r) \/ ConsumeDel(r)
  \/ MfaStatus(r) \/ MfaPolicy(r)

SecondFactor(r) ==
  \/ \E s \in Sessions : BeginTotp(r, s)
  \/ \E trust \in BOOLEAN : TotpVerified(r, trust)
  \/ TotpRefused(r)

Exchange(r) ==
  \/ \E s \in Sessions : BeginExchange(r, s)
  \/ \E t \in Tokens : ExchangeKey(r, t)
  \/ ExchangeGet(r) \/ ExchangeDel(r) \/ ExchangeReverse(r) \/ ExchangeMark(r)

Issue(r) ==
  \/ \E t \in Tokens : BeginToken(r, t)
  \/ \E s \in Sessions : BeginExchangeSession(r, s)
  \/ TokenSession(r) \/ TokenDel(r) \/ DeleteSession(r) \/ IssueTokens(r)

Next ==
  \/ \E r \in Requests : \/ PrimaryAuth(r) \/ SecondFactor(r) \/ Exchange(r)
                         \/ Issue(r) \/ UpdateTtl(r) \/ UpdateSet(r) \/ Abort(r)
  \/ \E s \in Sessions : CreateSession(s)
  \/ \E u \in Users : ChangeMfa(u) \/ DistrustDevice(u)
  \/ \E p \in Policies : ChangePolicy(p)
  \/ Expire

Spec == Init /\ [][Next]_vars

-------------------------------------------------------------------------------
(* Properties *)

\* Tokens issued for a session go to a user who showed, in that session, the
\* primary factor and either a code, a trusted device, or that neither was asked
\* for: the checks of exchange and exchangeSession read a copy of the session
\* that password, magic-link and code handlers rewrite meanwhile.
GrantsMatchProof ==
  \A s \in Sessions : \A u \in holders[s] :
    /\ <<u, "primary">> \in proved[s]
    /\ \E f \in {"totp", "device", "waived"} : <<u, f>> \in proved[s]

\* A session is good for one issue of tokens, by token() or by exchangeSession().
OneGrantPerSession == \A s \in Sessions : granted[s] <= 1

\* Once tokens were issued for a session it is out of Redis for good: no handler
\* that loaded it earlier writes it back.
ConsumedStaysGone == \A s \in Sessions : granted[s] > 0 => ~Live(s)

\* An exchange token that can be redeemed belongs to a session marked exchanged,
\* once the handler that drew it is done.
RedeemableMeansExchanged ==
  \A t \in Tokens :
    LET s == reverse[t] IN
      s # None /\ Live(s) /\ (\A r \in Requests : req[r].session # s)
        => store[s].exchanged

(* A session that the client is told to be complete, and that was not exchanged,
   passes every check of exchange and exchangeSession.  One case excepted: under
   OPTIONAL a user who has set no second factor up is told complete and refused,
   though doc/controller-description.md:157 promises access.                  *)
CompleteIsExchangeable ==
  \A s \in Sessions :
    LET c == store[s] IN
      Live(s) /\ NextStep(c) = "complete" /\ ~c.exchanged
        => Exchangeable(c) \/ (c.policy = "OPTIONAL" /\ ~c.mfaSetup)
===============================================================================
