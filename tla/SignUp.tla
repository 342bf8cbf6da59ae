-------------------------------- MODULE SignUp --------------------------------
(***************************************************************************)
(* From a registration to a user: signUp, resendVerificationEmail and      *)
(* verifyEmail of SignUpService over the tables registration and user.     *)
(*                                                                         *)
(* An account is an email in a tenant; both tables hold an account once,   *)
(* but registrations are looked up by the email alone.  No transaction     *)
(* spans two statements, so a request may stop, or another come, between   *)
(* any two of them.  checkEmail, and requests that are refused, change no  *)
(* state.  The password of a sign-up is named by its registration.         *)
(***************************************************************************)
EXTENDS Naturals, FiniteSets

CONSTANTS Emails,           \* addresses people sign up with
          Tenants,          \* tenants they sign up to
          Requests,         \* handlers that may run together
          MaxRegistrations, \* bound: sign-ups that may get past the check
          MaxTokens,        \* bound: verification tokens that may be drawn
          MaxUsers,         \* bound: user rows that may be inserted
          Faults            \* TRUE: any statement may fail and end its request

ASSUME AccountsAssumption == Emails # {} /\ Tenants # {}

ASSUME BoundAssumption == /\ MaxRegistrations \in Nat /\ MaxTokens \in Nat
                          /\ MaxUsers \in Nat /\ Faults \in BOOLEAN

VARIABLES registration, \* table registration
          user,         \* table user, each with its first password
          mailed,       \* verification tokens that were mailed
          drawnFor,     \* history: the registration a token was drawn for, 0 for none
          shown,        \* history: the token that made a user, 0 for none
          overlapped,   \* history: two requests have been in flight together
          failed,       \* history: a request did not run to its end
          req           \* the requests in flight

history == <<shown, overlapped, failed>>
vars == <<registration, user, mailed, drawnFor, history, req>>

-------------------------------------------------------------------------------
(* Types *)

Accounts == Emails \X Tenants
Registrations == 1..MaxRegistrations
Tokens == 1..MaxTokens
Users == 1..MaxUsers

\* expired stands for emailVerificationTokenExpiresAt < now.
Registration == [pending: BOOLEAN, account: Accounts, token: 0..MaxTokens, expired: BOOLEAN]

\* password 0: the user has none yet.
User == [state: {"unused", "present", "deleted"}, account: Accounts,
         password: 0..MaxRegistrations]

Steps == {"idle", "check", "insert", "mail", "select", "update", "reinsert",
          "user", "password", "remove"}

\* registration, account and token are the copy of a row that a request works on.
Request == [step: Steps, account: Accounts, registration: 0..MaxRegistrations,
            token: 0..MaxTokens, user: 0..MaxUsers, unread: SUBSET {"registration", "user"}]

TypeOK ==
  /\ registration \in [Registrations -> Registration]
  /\ user \in [Users -> User]
  /\ mailed \in SUBSET Tokens
  /\ drawnFor \in [Tokens -> 0..MaxRegistrations]
  /\ shown \in [Users -> 0..MaxTokens]
  /\ overlapped \in BOOLEAN
  /\ failed \in BOOLEAN
  /\ req \in [Requests -> Request]

-------------------------------------------------------------------------------
(* Helpers *)

At(r, step) == req[r].step = step
Goto(r, step) == req' = [req EXCEPT ![r].step = step]
Done(r) == req' = [req EXCEPT ![r].step = "idle", ![r].registration = 0, ![r].token = 0,
                              ![r].user = 0, ![r].unread = {}]

\* existsByEmail of the two entity services: by email and tenant.
IsRegistered(a) == \E g \in Registrations : registration[g].pending /\ registration[g].account = a
IsUser(a) == \E u \in Users : user[u].state = "present" /\ user[u].account = a

\* findByEmail: any row with the email, in whatever tenant.
FoundByEmail(e) == {g \in Registrations : registration[g].pending
                                            /\ registration[g].account[1] = e}

\* Identifiers are taken in order.
NextToken(k) == drawnFor[k] = 0 /\ \A j \in Tokens : j < k => drawnFor[j] # 0
SignedUp(g) == \E k \in Tokens : drawnFor[k] = g
NextRegistration(g) == ~SignedUp(g) /\ \A h \in Registrations : h < g => SignedUp(h)
NextUser(u) == user[u].state = "unused" /\ \A v \in Users : v < u => user[v].state # "unused"

\* Bounds: a request starts only with the identifiers left that it may need.
Checking == Cardinality({r \in Requests : At(r, "check")})
HasToken == Cardinality({k \in Tokens : drawnFor[k] = 0}) > Checking
HasRegistration == Cardinality({g \in Registrations : ~SignedUp(g)}) > Checking
HasUser == Cardinality({u \in Users : user[u].state = "unused"})
             > Cardinality({r \in Requests : At(r, "user")})

Starts(r) ==
  /\ At(r, "idle")
  /\ overlapped' = (overlapped \/ \E s \in Requests \ {r} : ~At(s, "idle"))
  /\ UNCHANGED <<shown, failed>>

-------------------------------------------------------------------------------
(* signUp *)

BeginSignUp(r, a) ==
  /\ Starts(r)
  /\ HasToken /\ HasRegistration
  /\ req' = [req EXCEPT ![r].step = "check", ![r].account = a,
                        ![r].unread = {"registration", "user"}]
  /\ UNCHANGED <<registration, user, mailed, drawnFor>>

\* The two queries of the Promise.all are answered in any order; a token is
\* drawn when neither has found the account.
Check(r, table) ==
  /\ At(r, "check")
  /\ table \in req[r].unread
  /\ CASE (table = "registration" /\ IsRegistered(req[r].account))
            \/ (table = "user" /\ IsUser(req[r].account)) -> Done(r) /\ UNCHANGED drawnFor
       [] OTHER ->
            IF req[r].unread = {table}
            THEN \E g \in Registrations, k \in Tokens :
                   /\ NextRegistration(g) /\ NextToken(k)
                   /\ drawnFor' = [drawnFor EXCEPT ![k] = g]
                   /\ req' = [req EXCEPT ![r].step = "insert", ![r].unread = {},
                                         ![r].registration = g, ![r].token = k]
            ELSE /\ req' = [req EXCEPT ![r].unread = @ \ {table}]
                 /\ UNCHANGED drawnFor
  /\ UNCHANGED <<registration, user, mailed, history>>

\* save() of a row whose account is taken, or whose id is, fails.
InsertRow(r) ==
  /\ IF IsRegistered(req[r].account) \/ registration[req[r].registration].pending
     THEN Done(r) /\ UNCHANGED registration
     ELSE /\ registration' = [registration EXCEPT ![req[r].registration] =
               [pending |-> TRUE, account |-> req[r].account, token |-> req[r].token,
                expired |-> FALSE]]
          /\ Goto(r, "mail")
  /\ UNCHANGED <<user, mailed, drawnFor, history>>

Insert(r) == At(r, "insert") /\ InsertRow(r)

SendMail(r) ==
  /\ At(r, "mail")
  /\ mailed' = mailed \union {req[r].token}
  /\ Done(r)
  /\ UNCHANGED <<registration, user, drawnFor, history>>

-------------------------------------------------------------------------------
(* resendVerificationEmail.  save() looks the id up and then updates the row, *)
(* or inserts the whole copy when the id is not there.                        *)

BeginResend(r, e) ==
  /\ Starts(r)
  /\ HasToken
  /\ \E g \in FoundByEmail(e), k \in Tokens :
       /\ NextToken(k)
       /\ drawnFor' = [drawnFor EXCEPT ![k] = g]
       /\ req' = [req EXCEPT ![r].step = "select", ![r].account = registration[g].account,
                             ![r].registration = g, ![r].token = k]
  /\ UNCHANGED <<registration, user, mailed>>

SaveSelect(r) ==
  /\ At(r, "select")
  /\ Goto(r, IF registration[req[r].registration].pending THEN "update" ELSE "reinsert")
  /\ UNCHANGED <<registration, user, mailed, drawnFor, history>>

\* An UPDATE of a row that is gone meanwhile changes nothing and succeeds.
SaveUpdate(r) ==
  /\ At(r, "update")
  /\ registration' = IF registration[req[r].registration].pending
                     THEN [registration EXCEPT ![req[r].registration].token = req[r].token,
                                               ![req[r].registration].expired = FALSE]
                     ELSE registration
  /\ Goto(r, "mail")
  /\ UNCHANGED <<user, mailed, drawnFor, history>>

SaveReinsert(r) == At(r, "reinsert") /\ InsertRow(r)

-------------------------------------------------------------------------------
(* verifyEmail *)

\* Token and expiry date are checked on the copy that was read.
BeginVerify(r, e, k) ==
  /\ Starts(r)
  /\ HasUser
  /\ \E g \in FoundByEmail(e) :
       /\ ~registration[g].expired
       /\ registration[g].token = k
       /\ req' = [req EXCEPT ![r].step = "user", ![r].account = registration[g].account,
                             ![r].registration = g, ![r].token = k]
  /\ UNCHANGED <<registration, user, mailed, drawnFor>>

\* Mutant: the password is left to a first reset.
CreateUserOnly(r) ==
  /\ At(r, "user")
  /\ IF IsUser(req[r].account)
     THEN Done(r) /\ UNCHANGED <<user, shown>>
     ELSE \E u \in Users :
            /\ NextUser(u)
            /\ user' = [user EXCEPT ![u] = [state |-> "present", account |-> req[r].account,
                                            password |-> 0]]
            /\ shown' = [shown EXCEPT ![u] = req[r].token]
            /\ req' = [req EXCEPT ![r].step = "remove", ![r].user = u]
  /\ UNCHANGED <<registration, mailed, drawnFor, overlapped, failed>>

\* The unique constraint refuses an account that is a user already.
CreateUser(r) ==
  /\ At(r, "user")
  /\ IF IsUser(req[r].account)
     THEN Done(r) /\ UNCHANGED <<user, shown>>
     ELSE \E u \in Users :
            /\ NextUser(u)
            /\ user' = [user EXCEPT ![u] = [state |-> "present", account |-> req[r].account,
                                            password |-> 0]]
            /\ shown' = [shown EXCEPT ![u] = req[r].token]
            /\ req' = [req EXCEPT ![r].step = "password", ![r].user = u]
  /\ UNCHANGED <<registration, mailed, drawnFor, overlapped, failed>>

\* Mutant: the registration is looked up again, by its email.
CreatePasswordReload(r) ==
  /\ At(r, "password")
  /\ \E g \in FoundByEmail(req[r].account[1]) :
       user' = [user EXCEPT ![req[r].user].password = g]
  /\ Goto(r, "remove")
  /\ UNCHANGED <<registration, mailed, drawnFor, history>>

\* createFromHash, with the hash of the copy; the foreign key refuses a user who is gone.
CreatePassword(r) ==
  /\ At(r, "password")
  /\ IF user[req[r].user].state = "present"
     THEN /\ user' = [user EXCEPT ![req[r].user].password = req[r].registration]
          /\ Goto(r, "remove")
     ELSE Done(r) /\ UNCHANGED user
  /\ UNCHANGED <<registration, mailed, drawnFor, history>>

\* Mutant: the registration is left in its table.
RemoveNothing(r) ==
  /\ At(r, "remove")
  /\ Done(r)
  /\ UNCHANGED <<registration, user, mailed, drawnFor, history>>

Remove(r) ==
  /\ At(r, "remove")
  /\ registration' = [registration EXCEPT ![req[r].registration].pending = FALSE]
  /\ Done(r)
  /\ UNCHANGED <<user, mailed, drawnFor, history>>

-------------------------------------------------------------------------------
(* Around the handlers *)

\* The owner of an account, who has a password, deletes it; passwords go with it.
DeleteUser(u) ==
  /\ user[u].state = "present" /\ user[u].password # 0
  /\ user' = [user EXCEPT ![u].state = "deleted"]
  /\ UNCHANGED <<registration, mailed, drawnFor, history, req>>

\* The verification token outlives OTT_EMAIL_VERIFICATION_TTL.
Expire(g) ==
  /\ registration[g].pending /\ ~registration[g].expired
  /\ registration' = [registration EXCEPT ![g].expired = TRUE]
  /\ UNCHANGED <<user, mailed, drawnFor, history, req>>

\* A statement fails or the process ends: the rest of the handler does not run.
Abort(r) ==
  /\ Faults
  /\ ~At(r, "idle")
  /\ failed' = TRUE
  /\ Done(r)
  /\ UNCHANGED <<registration, user, mailed, drawnFor, shown, overlapped>>

-------------------------------------------------------------------------------
(* The specification *)

Init ==
  /\ registration = [g \in Registrations |-> [pending |-> FALSE, token |-> 0, expired |-> FALSE,
                                              account |-> CHOOSE a \in Accounts : TRUE]]
  /\ user = [u \in Users |-> [state |-> "unused", password |-> 0,
                              account |-> CHOOSE a \in Accounts : TRUE]]
  /\ mailed = {}
  /\ drawnFor = [k \in Tokens |-> 0]
  /\ shown = [u \in Users |-> 0]
  /\ overlapped = FALSE
  /\ failed = FALSE
  /\ req = [r \in Requests |-> [step |-> "idle", account |-> CHOOSE a \in Accounts : TRUE,
                                registration |-> 0, token |-> 0, user |-> 0, unread |-> {}]]

\* A handler that was started; its statements are answered.
Step(r) ==
  \/ \E table \in {"registration", "user"} : Check(r, table)
  \/ Insert(r) \/ SendMail(r)
  \/ SaveSelect(r) \/ SaveUpdate(r) \/ SaveReinsert(r)
  \/ CreateUser(r) \/ CreatePassword(r) \/ Remove(r)

Begin(r) ==
  \/ \E a \in Accounts : BeginSignUp(r, a)
  \/ \E e \in Emails : BeginResend(r, e)
  \/ \E e \in Emails, k \in mailed : BeginVerify(r, e, k)

Next ==
  \/ \E r \in Requests : Begin(r) \/ Step(r) \/ Abort(r)
  \/ \E u \in Users : DeleteUser(u)
  \/ \E g \in Registrations : Expire(g)

\* The event loop goes on with every handler whose statement was answered.
Fairness == \A r \in Requests : WF_vars(Step(r))

Spec == Init /\ [][Next]_vars /\ Fairness

-------------------------------------------------------------------------------
(* Properties *)

Present == {u \in Users : user[u].state = "present"}
Has(u) == user[u].state = "present" /\ user[u].password # 0

\* Whatever overlaps and fails, a user has the password of the registration whose
\* token was shown, and is in that registration's tenant (the copy verifyEmail keeps).
PasswordAsRegistered ==
  \A u \in Users : user[u].password # 0 =>
    /\ shown[u] \in mailed
    /\ user[u].password = drawnFor[shown[u]]
    /\ registration[user[u].password].account = user[u].account

\* An account is a registration or a user, never both, once its requests have
\* ended, where they did not overlap or fail (signUp, verifyEmail, resend).
OnePlace ==
  (~overlapped /\ ~failed /\ \A r \in Requests : At(r, "idle")) =>
    ~ \E a \in Accounts : IsRegistered(a) /\ IsUser(a)

\* Where requests did not overlap, a user without a password has its registration
\* still: a verifyEmail that stopped has lost nothing that the person had entered.
PasswordlessKeepsRegistration ==
  ~overlapped => \A u \in Present : user[u].password = 0 => IsRegistered(user[u].account)

\* A verifyEmail that accepted its token ends in a user with a password, however
\* requests overlap, unless a statement failed (two verifies, one unique constraint).
VerifiedEndsUsable ==
  \A r \in Requests, a \in Accounts :
    (At(r, "user") /\ req[r].account = a)
      ~> (failed \/ \E u \in Users : Has(u) /\ user[u].account = a)
===============================================================================
