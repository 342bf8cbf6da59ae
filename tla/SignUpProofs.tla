----------------------------- MODULE SignUpProofs -----------------------------
(***************************************************************************)
(* Proofs, for any number of requests, emails and tenants, that SignUp is  *)
(* well typed and that a user has the password that was entered with the   *)
(* registration whose token was shown, in the tenant of that registration; *)
(* and, where requests have not overlapped, that an account is in one of   *)
(* the two tables and that a verification stopped half way loses nothing.  *)
(*                                                                         *)
(* The argument: a token belongs to one registration for ever (Drawn), and *)
(* until it is mailed to one request (UnmailedIsHeldOnce). The first       *)
(* insertion of a registration therefore meets no copy of it (New), so     *)
(* that every copy agrees with the table about the account (CopyAccount).  *)
(*                                                                         *)
(* Without overlap what a request has read stays so until it writes        *)
(* (StillSo), and a user beside a registration is one whose verification   *)
(* is under way (OnlyWhileVerifying).                                      *)
(***************************************************************************)
EXTENDS SignUp, TLAPS

BeforeMail == {"insert", "mail", "select", "update", "reinsert"}
Verifying == {"user", "password", "remove"}

(* What a request holds is a registration and a token that was drawn for it. *)
Holds(r) ==
  req[r].step \in BeforeMail \union Verifying =>
    /\ req[r].registration \in Registrations
    /\ req[r].token \in Tokens
    /\ drawnFor[req[r].token] = req[r].registration

(* A first insertion: nobody else has seen the registration or its token.    *)
New(r) ==
  req[r].step = "insert" =>
    /\ ~registration[req[r].registration].pending
    /\ req[r].token \notin mailed
    /\ \A k \in Tokens : drawnFor[k] = req[r].registration => k = req[r].token

CopyAccount(r) ==
  req[r].step \in (BeforeMail \ {"insert"}) \union Verifying =>
    registration[req[r].registration].account = req[r].account

ShownMailed(r) == req[r].step \in Verifying => req[r].token \in mailed

MadeUser(r) ==
  req[r].step = "password" =>
    /\ req[r].user \in Users
    /\ user[req[r].user].state # "unused"
    /\ shown[req[r].user] = req[r].token
    /\ user[req[r].user].account = req[r].account

RowDrawn ==
  \A g \in Registrations : registration[g].pending =>
    registration[g].token \in Tokens /\ drawnFor[registration[g].token] = g

MailedDrawn == \A k \in mailed : drawnFor[k] # 0

UnmailedIsHeldOnce ==
  \A r, s \in Requests :
    (r # s /\ req[r].step \in BeforeMail /\ req[s].step \in BeforeMail)
      => req[r].token # req[s].token

Copies == \A r \in Requests : Holds(r) /\ New(r) /\ CopyAccount(r) /\ ShownMailed(r) /\ MadeUser(r)

IInv == /\ TypeOK /\ Copies /\ RowDrawn /\ MailedDrawn /\ UnmailedIsHeldOnce
        /\ PasswordAsRegistered

-------------------------------------------------------------------------------
(* Types *)

NoAccount == CHOOSE a \in Accounts : TRUE

LEMMA AccountsExist == NoAccount \in Accounts
<1>1. PICK e \in Emails, t \in Tenants : TRUE
  BY AccountsAssumption
<1>2. <<e, t>> \in Accounts
  BY DEF Accounts
<1> QED BY <1>2 DEF NoAccount

LEMMA GotoTyped ==
  ASSUME TypeOK, NEW r \in Requests, NEW step \in Steps, Goto(r, step)
  PROVE  req' \in [Requests -> Request]
<1>1. [req[r] EXCEPT !.step = step] \in Request
  BY DEF TypeOK, Request
<1> QED BY <1>1 DEF TypeOK, Goto

LEMMA DoneTyped ==
  ASSUME TypeOK, NEW r \in Requests, Done(r)
  PROVE  req' \in [Requests -> Request]
<1>1. req[r] \in Request /\ 0 \in 0..MaxRegistrations /\ 0 \in 0..MaxTokens
      /\ 0 \in 0..MaxUsers /\ {} \subseteq {"registration", "user"} /\ "idle" \in Steps
  BY BoundAssumption DEF TypeOK, Steps
<1>2. [req[r] EXCEPT !.step = "idle", !.registration = 0, !.token = 0,
                     !.user = 0, !.unread = {}] \in Request
  BY <1>1 DEF Request
<1> QED BY <1>2 DEF TypeOK, Done

LEMMA Fields ==
  ASSUME TypeOK, NEW r \in Requests
  PROVE  /\ req[r] \in Request /\ req[r].account \in Accounts
         /\ req[r].registration \in 0..MaxRegistrations
         /\ req[r].token \in 0..MaxTokens /\ req[r].user \in 0..MaxUsers
BY DEF TypeOK, Request

LEMMA RowTyped ==
  ASSUME TypeOK, NEW g, NEW row \in Registration
  PROVE  [registration EXCEPT ![g] = row] \in [Registrations -> Registration]
BY DEF TypeOK

LEMMA UserTyped ==
  ASSUME TypeOK, NEW u, NEW row \in User
  PROVE  [user EXCEPT ![u] = row] \in [Users -> User]
BY DEF TypeOK

LEMMA CheckTypes ==
  ASSUME TypeOK, NEW r \in Requests, NEW table \in {"registration", "user"}, Check(r, table)
  PROVE  TypeOK'
<1>1. CASE Done(r) /\ UNCHANGED drawnFor
  BY <1>1, DoneTyped DEF Check, TypeOK, history
<1>2. CASE \E g \in Registrations, k \in Tokens :
             /\ drawnFor' = [drawnFor EXCEPT ![k] = g]
             /\ req' = [req EXCEPT ![r].step = "insert", ![r].unread = {},
                                   ![r].registration = g, ![r].token = k]
  <2>1. PICK g \in Registrations, k \in Tokens :
             /\ drawnFor' = [drawnFor EXCEPT ![k] = g]
             /\ req' = [req EXCEPT ![r].step = "insert", ![r].unread = {},
                                   ![r].registration = g, ![r].token = k]
    BY <1>2
  <2>2. /\ g \in 0..MaxRegistrations /\ k \in 0..MaxTokens /\ "insert" \in Steps
        /\ {} \subseteq {"registration", "user"}
    BY BoundAssumption DEF Registrations, Tokens, Steps
  <2>3. [req[r] EXCEPT !.step = "insert", !.unread = {}, !.registration = g,
                       !.token = k] \in Request
    BY <2>2, Fields DEF Request
  <2>4. req' \in [Requests -> Request]
    BY <2>1, <2>3 DEF TypeOK
  <2> QED BY <2>1, <2>2, <2>4 DEF Check, TypeOK, history
<1>3. CASE req' = [req EXCEPT ![r].unread = @ \ {table}] /\ UNCHANGED drawnFor
  <2>1. [req[r] EXCEPT !.unread = @ \ {table}] \in Request
    BY Fields DEF Request
  <2>2. req' \in [Requests -> Request]
    BY <1>3, <2>1 DEF TypeOK
  <2> QED BY <1>3, <2>2 DEF Check, TypeOK, history
<1> QED BY <1>1, <1>2, <1>3 DEF Check

LEMMA InsertTypes ==
  ASSUME TypeOK, NEW r \in Requests, InsertRow(r)
  PROVE  TypeOK'
<1>1. req' \in [Requests -> Request]
  <2>1. "mail" \in Steps
    BY DEF Steps
  <2> QED BY <2>1, GotoTyped, DoneTyped DEF InsertRow
<1>2. [pending |-> TRUE, account |-> req[r].account, token |-> req[r].token,
       expired |-> FALSE] \in Registration
  BY Fields DEF Registration
<1>3. registration' \in [Registrations -> Registration]
  BY <1>2, RowTyped DEF InsertRow, TypeOK
<1> QED BY <1>1, <1>3 DEF InsertRow, TypeOK, history

LEMMA StepTypes ==
  ASSUME TypeOK, NEW r \in Requests, Holds(r), Step(r)
  PROVE  TypeOK'
<1>0. /\ "mail" \in Steps /\ "update" \in Steps /\ "reinsert" \in Steps
      /\ "password" \in Steps /\ "remove" \in Steps
  BY DEF Steps
<1>3. CASE SendMail(r)
  <2>1. req' \in [Requests -> Request]
    BY <1>3, DoneTyped DEF SendMail
  <2>2. mailed' \in SUBSET Tokens
    BY <1>3 DEF SendMail, TypeOK, At, Holds, BeforeMail
  <2> QED BY <1>3, <2>1, <2>2 DEF SendMail, TypeOK, history
<1>4. CASE SaveSelect(r)
  <2>1. req' \in [Requests -> Request]
    BY <1>0, <1>4, GotoTyped DEF SaveSelect
  <2> QED BY <1>4, <2>1 DEF SaveSelect, TypeOK, history
<1>5. CASE SaveUpdate(r)
  <2>1. req' \in [Requests -> Request]
    BY <1>0, <1>5, GotoTyped DEF SaveUpdate
  <2>2. registration' \in [Registrations -> Registration]
    <3> DEFINE g == req[r].registration
    <3>1. \/ registration' = registration
          \/ /\ registration' = [registration EXCEPT ![g] =
                    [@ EXCEPT !.token = req[r].token, !.expired = FALSE]]
      BY <1>5 DEF SaveUpdate
    <3>2. CASE g \in Registrations
      <4>1. registration[g] \in Registration
        BY <3>2 DEF TypeOK
      <4>2. [registration[g] EXCEPT !.token = req[r].token, !.expired = FALSE] \in Registration
        BY <4>1, Fields DEF Registration
      <4> QED BY <3>1, <3>2, <4>2, RowTyped DEF TypeOK
    <3>3. CASE g \notin Registrations
      BY <3>1, <3>3 DEF TypeOK
    <3> QED BY <3>2, <3>3
  <2> QED BY <1>5, <2>1, <2>2 DEF SaveUpdate, TypeOK, history
<1>6. CASE CreateUser(r)
  <2>1. CASE Done(r) /\ UNCHANGED <<user, shown>>
    BY <1>6, <2>1, DoneTyped DEF CreateUser, TypeOK
  <2>2. ASSUME NEW u \in Users,
               user' = [user EXCEPT ![u] = [state |-> "present", account |-> req[r].account,
                                            password |-> 0]],
               shown' = [shown EXCEPT ![u] = req[r].token],
               req' = [req EXCEPT ![r].step = "password", ![r].user = u]
        PROVE  TypeOK'
    <3>1. u \in 0..MaxUsers /\ 0 \in 0..MaxRegistrations
      BY BoundAssumption DEF Users
    <3>2. [state |-> "present", account |-> req[r].account, password |-> 0] \in User
      BY <3>1, Fields DEF User
    <3>3. user' \in [Users -> User]
      BY <2>2, <3>2, UserTyped
    <3>4. [req[r] EXCEPT !.step = "password", !.user = u] \in Request
      BY <1>0, <3>1, Fields DEF Request
    <3>5. req' \in [Requests -> Request]
      BY <2>2, <3>4 DEF TypeOK
    <3>6. shown' \in [Users -> 0..MaxTokens]
      BY <2>2, Fields DEF TypeOK
    <3> QED BY <1>6, <3>3, <3>5, <3>6 DEF CreateUser, TypeOK
  <2> QED BY <1>6, <2>1, <2>2 DEF CreateUser
<1>7. CASE CreatePassword(r)
  <2>1. req' \in [Requests -> Request]
    BY <1>0, <1>7, GotoTyped, DoneTyped DEF CreatePassword
  <2>2. user' \in [Users -> User]
    <3> DEFINE u == req[r].user
    <3>1. \/ user' = user
          \/ user' = [user EXCEPT ![u] = [@ EXCEPT !.password = req[r].registration]]
      BY <1>7 DEF CreatePassword
    <3>2. CASE u \in Users
      <4>1. [user[u] EXCEPT !.password = req[r].registration] \in User
        BY <3>2, Fields DEF User, TypeOK
      <4> QED BY <3>1, <3>2, <4>1, UserTyped DEF TypeOK
    <3>3. CASE u \notin Users
      BY <3>1, <3>3 DEF TypeOK
    <3> QED BY <3>2, <3>3
  <2> QED BY <1>7, <2>1, <2>2 DEF CreatePassword, TypeOK, history
<1>8. CASE Remove(r)
  <2>1. req' \in [Requests -> Request]
    BY <1>8, DoneTyped DEF Remove
  <2>2. registration' \in [Registrations -> Registration]
    <3> DEFINE g == req[r].registration
    <3>1. registration' = [registration EXCEPT ![g] = [@ EXCEPT !.pending = FALSE]]
      BY <1>8 DEF Remove
    <3>2. CASE g \in Registrations
      <4>1. [registration[g] EXCEPT !.pending = FALSE] \in Registration
        BY <3>2 DEF Registration, TypeOK
      <4> QED BY <3>1, <3>2, <4>1, RowTyped DEF TypeOK
    <3>3. CASE g \notin Registrations
      BY <3>1, <3>3 DEF TypeOK
    <3> QED BY <3>2, <3>3
  <2> QED BY <1>8, <2>1, <2>2 DEF Remove, TypeOK, history
<1> QED BY <1>3, <1>4, <1>5, <1>6, <1>7, <1>8, CheckTypes, InsertTypes
        DEF Step, Insert, SaveReinsert

LEMMA BeginTypes ==
  ASSUME TypeOK, NEW r \in Requests, Begin(r)
  PROVE  TypeOK'
<1>0. req[r] \in Request
  BY DEF TypeOK
<1>1. ASSUME NEW a \in Accounts, BeginSignUp(r, a) PROVE TypeOK'
  <2>1. req' \in [Requests -> Request]
    BY <1>0, <1>1 DEF BeginSignUp, TypeOK, Request, Steps
  <2> QED BY <1>1, <2>1 DEF BeginSignUp, Starts, TypeOK
<1>2. ASSUME NEW e \in Emails, BeginResend(r, e) PROVE TypeOK'
  <2>1. PICK g \in FoundByEmail(e), k \in Tokens :
          /\ drawnFor' = [drawnFor EXCEPT ![k] = g]
          /\ req' = [req EXCEPT ![r].step = "select", ![r].account = registration[g].account,
                                ![r].registration = g, ![r].token = k]
    BY <1>2 DEF BeginResend
  <2>2. g \in 0..MaxRegistrations /\ k \in 0..MaxTokens /\ registration[g].account \in Accounts
    BY BoundAssumption DEF FoundByEmail, TypeOK, Registrations, Registration, Tokens
  <2>3. req' \in [Requests -> Request]
    BY <1>0, <2>1, <2>2 DEF TypeOK, Request, Steps
  <2>4. drawnFor' \in [Tokens -> 0..MaxRegistrations]
    BY <2>1, <2>2 DEF TypeOK
  <2> QED BY <1>2, <2>3, <2>4 DEF BeginResend, Starts, TypeOK
<1>3. ASSUME NEW e \in Emails, NEW k \in mailed, BeginVerify(r, e, k) PROVE TypeOK'
  <2>1. PICK g \in FoundByEmail(e) :
          req' = [req EXCEPT ![r].step = "user", ![r].account = registration[g].account,
                             ![r].registration = g, ![r].token = k]
    BY <1>3 DEF BeginVerify
  <2>2. g \in 0..MaxRegistrations /\ k \in 0..MaxTokens /\ registration[g].account \in Accounts
    BY BoundAssumption DEF FoundByEmail, TypeOK, Registrations, Registration, Tokens
  <2>3. req' \in [Requests -> Request]
    BY <1>0, <2>1, <2>2 DEF TypeOK, Request, Steps
  <2> QED BY <1>3, <2>3 DEF BeginVerify, Starts, TypeOK
<1> QED BY <1>1, <1>2, <1>3 DEF Begin

-------------------------------------------------------------------------------
(* The copies, one action at a time *)

(* A request that has ended holds nothing, and disturbs nobody.              *)
OthersAsBefore(r) == \A s \in Requests \ {r} : req'[s] = req[s]

LEMMA DoneHolds ==
  ASSUME IInv, NEW r \in Requests, Done(r)
  PROVE  OthersAsBefore(r) /\ req'[r].step = "idle"
BY DEF IInv, TypeOK, Done, OthersAsBefore

LEMMA GotoHolds ==
  ASSUME IInv, NEW r \in Requests, NEW step, Goto(r, step)
  PROVE  /\ OthersAsBefore(r)
         /\ req'[r].step = step /\ req'[r].registration = req[r].registration
         /\ req'[r].token = req[r].token /\ req'[r].user = req[r].user
         /\ req'[r].account = req[r].account
<1>1. req[r] \in Request
  BY DEF IInv, TypeOK
<1>2. req' = [req EXCEPT ![r] = [req[r] EXCEPT !.step = step]]
  BY DEF Goto
<1> QED BY <1>1, <1>2 DEF IInv, TypeOK, OthersAsBefore, Request

(* The tables and tokens as they were.                                       *)
LEMMA Ended ==
  ASSUME IInv, NEW r \in Requests, Done(r),
         UNCHANGED <<registration, user, mailed, drawnFor, shown>>, TypeOK'
  PROVE  IInv'
<1>1. OthersAsBefore(r) /\ req'[r].step = "idle"
  BY DoneHolds
<1>2. Copies'
  <2> SUFFICES ASSUME NEW s \in Requests
               PROVE  (Holds(s) /\ New(s) /\ CopyAccount(s) /\ ShownMailed(s) /\ MadeUser(s))'
    BY DEF Copies
  <2>1. CASE s = r
    BY <1>1, <2>1 DEF Holds, New, CopyAccount, ShownMailed, MadeUser, BeforeMail, Verifying
  <2>2. CASE s # r
    BY <1>1, <2>2 DEF IInv, Copies, OthersAsBefore, Holds, New, CopyAccount, ShownMailed, MadeUser
  <2> QED BY <2>1, <2>2
<1>3. UnmailedIsHeldOnce'
  BY <1>1 DEF IInv, OthersAsBefore, UnmailedIsHeldOnce, BeforeMail
<1> QED BY <1>2, <1>3 DEF IInv, RowDrawn, MailedDrawn, PasswordAsRegistered

(* A request that has read, and holds nothing yet.                           *)
LEMMA Waiting ==
  ASSUME IInv, NEW r \in Requests, OthersAsBefore(r), req'[r].step = "check",
         UNCHANGED <<registration, user, mailed, drawnFor, shown>>, TypeOK'
  PROVE  IInv'
<1>1. Copies'
  <2> SUFFICES ASSUME NEW s \in Requests
               PROVE  (Holds(s) /\ New(s) /\ CopyAccount(s) /\ ShownMailed(s) /\ MadeUser(s))'
    BY DEF Copies
  <2>1. CASE s = r
    BY <2>1 DEF Holds, New, CopyAccount, ShownMailed, MadeUser, BeforeMail, Verifying
  <2>2. CASE s # r
    BY <2>2 DEF IInv, Copies, OthersAsBefore, Holds, New, CopyAccount, ShownMailed, MadeUser
  <2> QED BY <2>1, <2>2
<1>2. UnmailedIsHeldOnce'
  BY DEF IInv, OthersAsBefore, UnmailedIsHeldOnce, BeforeMail
<1> QED BY <1>1, <1>2 DEF IInv, RowDrawn, MailedDrawn, PasswordAsRegistered

LEMMA SelectKept ==
  ASSUME IInv, NEW r \in Requests, SaveSelect(r), TypeOK'
  PROVE  IInv'
<1>0. PICK step \in {"update", "reinsert"} : Goto(r, step)
  BY DEF SaveSelect
<1>1. /\ OthersAsBefore(r)
      /\ req'[r].step = step /\ req'[r].registration = req[r].registration
      /\ req'[r].token = req[r].token /\ req'[r].account = req[r].account
  BY <1>0, GotoHolds
<1>2. req[r].step = "select" /\ UNCHANGED <<registration, user, mailed, drawnFor, shown>>
  BY DEF SaveSelect, At, history
<1>3. Copies'
  <2> SUFFICES ASSUME NEW s \in Requests
               PROVE  (Holds(s) /\ New(s) /\ CopyAccount(s) /\ ShownMailed(s) /\ MadeUser(s))'
    BY DEF Copies
  <2>1. CASE s = r
    BY <1>1, <1>2, <2>1 DEF IInv, Copies, Holds, New, CopyAccount, ShownMailed, MadeUser, BeforeMail, Verifying
  <2>2. CASE s # r
    BY <1>1, <1>2, <2>2 DEF IInv, Copies, OthersAsBefore, Holds, New, CopyAccount, ShownMailed, MadeUser
  <2> QED BY <2>1, <2>2
<1>4. UnmailedIsHeldOnce'
  BY <1>1, <1>2 DEF IInv, OthersAsBefore, UnmailedIsHeldOnce, BeforeMail
<1> QED BY <1>2, <1>3, <1>4 DEF IInv, RowDrawn, MailedDrawn, PasswordAsRegistered

LEMMA UpdateKept ==
  ASSUME IInv, NEW r \in Requests, SaveUpdate(r), TypeOK'
  PROVE  IInv'
<1>1. /\ OthersAsBefore(r)
      /\ req'[r].step = "mail" /\ req'[r].registration = req[r].registration
      /\ req'[r].token = req[r].token /\ req'[r].account = req[r].account
  BY GotoHolds DEF SaveUpdate
<1>2. req[r].step = "update" /\ UNCHANGED <<user, mailed, drawnFor, shown>>
  BY DEF SaveUpdate, At, history
<1>3. /\ req[r].registration \in Registrations /\ req[r].token \in Tokens
      /\ drawnFor[req[r].token] = req[r].registration
  BY <1>2 DEF IInv, Copies, Holds, BeforeMail
<1>4. \A g \in Registrations :
        /\ registration'[g].pending = registration[g].pending
        /\ registration'[g].account = registration[g].account
        /\ \/ registration'[g].token = registration[g].token
           \/ g = req[r].registration /\ registration'[g].token = req[r].token
  <2>1. \A g \in Registrations : registration[g] \in Registration
    BY DEF IInv, TypeOK
  <2>2. \/ registration' = registration
        \/ registration' = [registration EXCEPT ![req[r].registration] =
             [registration[req[r].registration] EXCEPT !.token = req[r].token,
                                                       !.expired = FALSE]]
    BY DEF SaveUpdate
  <2> DEFINE row == [registration[req[r].registration] EXCEPT !.token = req[r].token,
                                                              !.expired = FALSE]
  <2>3. /\ row.pending = registration[req[r].registration].pending
        /\ row.account = registration[req[r].registration].account
        /\ row.token = req[r].token
    BY <1>3, <2>1 DEF Registration
  <2> HIDE DEF row
  <2> QED BY <1>3, <2>2, <2>3 DEF IInv, TypeOK, row
<1>5. Copies'
  <2> SUFFICES ASSUME NEW s \in Requests
               PROVE  (Holds(s) /\ New(s) /\ CopyAccount(s) /\ ShownMailed(s) /\ MadeUser(s))'
    BY DEF Copies
  <2>1. CASE s = r
    BY <1>1, <1>2, <1>3, <1>4, <2>1 DEF IInv, Copies, Holds, New, CopyAccount, ShownMailed, MadeUser, BeforeMail, Verifying
  <2>2. CASE s # r
    BY <1>1, <1>2, <1>4, <2>2 DEF IInv, Copies, OthersAsBefore, Holds, New, CopyAccount, ShownMailed, MadeUser, BeforeMail, Verifying
  <2> QED BY <2>1, <2>2
<1>6. UnmailedIsHeldOnce'
  BY <1>1, <1>2 DEF IInv, OthersAsBefore, UnmailedIsHeldOnce, BeforeMail
<1>7. RowDrawn'
  BY <1>2, <1>3, <1>4 DEF IInv, RowDrawn
<1>8. PasswordAsRegistered'
  <2>1. \A u \in Users : user[u].password # 0 => user[u].password \in Registrations
    BY DEF IInv, TypeOK, User, Registrations
  <2> QED BY <1>2, <1>4, <2>1 DEF IInv, PasswordAsRegistered
<1> QED BY <1>2, <1>5, <1>6, <1>7, <1>8 DEF IInv, MailedDrawn

LEMMA RemoveKept ==
  ASSUME IInv, NEW r \in Requests, Remove(r), TypeOK'
  PROVE  IInv'
<1>1. OthersAsBefore(r) /\ req'[r].step = "idle"
  BY DoneHolds DEF Remove
<1>2. UNCHANGED <<user, mailed, drawnFor, shown>>
  BY DEF Remove, history
<1>3. \A g \in Registrations :
        /\ registration'[g].pending => registration[g].pending
        /\ registration'[g].account = registration[g].account
        /\ registration'[g].token = registration[g].token
  <2>1. \A g \in Registrations : registration[g] \in Registration
    BY DEF IInv, TypeOK
  <2>2. registration' = [registration EXCEPT ![req[r].registration] =
             [registration[req[r].registration] EXCEPT !.pending = FALSE]]
    BY DEF Remove
  <2> QED BY <2>1, <2>2 DEF IInv, TypeOK, Registration
<1>4. Copies'
  <2> SUFFICES ASSUME NEW s \in Requests
               PROVE  (Holds(s) /\ New(s) /\ CopyAccount(s) /\ ShownMailed(s) /\ MadeUser(s))'
    BY DEF Copies
  <2>1. CASE s = r
    BY <1>1, <2>1 DEF Holds, New, CopyAccount, ShownMailed, MadeUser, BeforeMail, Verifying
  <2>2. CASE s # r
    BY <1>1, <1>2, <1>3, <2>2 DEF IInv, Copies, OthersAsBefore, Holds, New, CopyAccount, ShownMailed, MadeUser, BeforeMail, Verifying
  <2> QED BY <2>1, <2>2
<1>5. UnmailedIsHeldOnce'
  BY <1>1 DEF IInv, OthersAsBefore, UnmailedIsHeldOnce, BeforeMail
<1>6. RowDrawn'
  BY <1>2, <1>3 DEF IInv, RowDrawn
<1>7. PasswordAsRegistered'
  <2>1. \A u \in Users : user[u].password # 0 => user[u].password \in Registrations
    BY DEF IInv, TypeOK, User, Registrations
  <2> QED BY <1>2, <1>3, <2>1 DEF IInv, PasswordAsRegistered
<1> QED BY <1>2, <1>4, <1>5, <1>6, <1>7 DEF IInv, MailedDrawn

LEMMA ExpireKept ==
  ASSUME IInv, NEW g \in Registrations, Expire(g)
  PROVE  IInv'
<1>1. \A h \in Registrations :
        /\ registration'[h].pending = registration[h].pending
        /\ registration'[h].account = registration[h].account
        /\ registration'[h].token = registration[h].token
        /\ registration'[h] \in Registration
  <2>1. \A h \in Registrations : registration[h] \in Registration
    BY DEF IInv, TypeOK
  <2>2. registration' = [registration EXCEPT ![g] = [registration[g] EXCEPT !.expired = TRUE]]
    BY DEF Expire
  <2> QED BY <2>1, <2>2 DEF IInv, TypeOK, Registration
<1>2. UNCHANGED <<user, mailed, drawnFor, history, req>>
  BY DEF Expire
<1>3. TypeOK'
  <2>1. registration' \in [Registrations -> Registration]
    BY <1>1 DEF Expire, IInv, TypeOK
  <2> QED BY <1>2, <2>1 DEF IInv, TypeOK, history
<1>4. Copies'
  BY <1>1, <1>2 DEF IInv, Copies, Holds, New, CopyAccount, ShownMailed, MadeUser, BeforeMail, Verifying, history
<1>5. PasswordAsRegistered'
  <2>1. \A u \in Users : user[u].password # 0 => user[u].password \in Registrations
    BY DEF IInv, TypeOK, User, Registrations
  <2> QED BY <1>1, <1>2, <2>1 DEF IInv, PasswordAsRegistered, history
<1> QED BY <1>1, <1>2, <1>3, <1>4, <1>5
        DEF IInv, RowDrawn, MailedDrawn, UnmailedIsHeldOnce

LEMMA MailKept ==
  ASSUME IInv, NEW r \in Requests, SendMail(r), TypeOK'
  PROVE  IInv'
<1>1. OthersAsBefore(r) /\ req'[r].step = "idle"
  BY DoneHolds DEF SendMail
<1>2. /\ req[r].step = "mail" /\ mailed' = mailed \union {req[r].token}
      /\ UNCHANGED <<registration, user, drawnFor, shown>>
  BY DEF SendMail, At, history
<1>3. drawnFor[req[r].token] # 0
  BY <1>2 DEF IInv, Copies, Holds, BeforeMail, Registrations
<1>4. Copies'
  <2> SUFFICES ASSUME NEW s \in Requests
               PROVE  (Holds(s) /\ New(s) /\ CopyAccount(s) /\ ShownMailed(s) /\ MadeUser(s))'
    BY DEF Copies
  <2>1. CASE s = r
    BY <1>1, <2>1 DEF Holds, New, CopyAccount, ShownMailed, MadeUser, BeforeMail, Verifying
  <2>2. CASE s # r
    <3>1. req[s].step = "insert" => req[s].token # req[r].token
      BY <1>2, <2>2 DEF IInv, UnmailedIsHeldOnce, BeforeMail
    <3> QED BY <1>1, <1>2, <2>2, <3>1 DEF IInv, Copies, OthersAsBefore, Holds, New, CopyAccount, ShownMailed, MadeUser
  <2> QED BY <2>1, <2>2
<1>5. UnmailedIsHeldOnce'
  BY <1>1 DEF IInv, OthersAsBefore, UnmailedIsHeldOnce, BeforeMail
<1> QED BY <1>2, <1>3, <1>4, <1>5 DEF IInv, RowDrawn, MailedDrawn, PasswordAsRegistered

LEMMA CreateUserKept ==
  ASSUME IInv, NEW r \in Requests, CreateUser(r), TypeOK'
  PROVE  IInv'
<1>1. CASE Done(r) /\ UNCHANGED <<user, shown>>
  BY <1>1, Ended DEF CreateUser
<1>2. ASSUME NEW u \in Users, NextUser(u),
             user' = [user EXCEPT ![u] = [state |-> "present", account |-> req[r].account,
                                          password |-> 0]],
             shown' = [shown EXCEPT ![u] = req[r].token],
             req' = [req EXCEPT ![r].step = "password", ![r].user = u]
      PROVE  IInv'
  <2>1. req[r] \in Request /\ req[r].step = "user"
    BY DEF IInv, TypeOK, CreateUser, At
  <2>2. req' = [req EXCEPT ![r] = [req[r] EXCEPT !.step = "password", !.user = u]]
    BY <1>2
  <2>3. /\ OthersAsBefore(r)
        /\ req'[r].step = "password" /\ req'[r].registration = req[r].registration
        /\ req'[r].token = req[r].token /\ req'[r].account = req[r].account
        /\ req'[r].user = u
    BY <2>1, <2>2 DEF IInv, TypeOK, OthersAsBefore, Request
  <2>4. /\ user'[u].state = "present" /\ user'[u].account = req[r].account
        /\ user'[u].password = 0 /\ shown'[u] = req[r].token
        /\ \A v \in Users \ {u} : user'[v] = user[v] /\ shown'[v] = shown[v]
        /\ user[u].state = "unused"
    BY <1>2 DEF IInv, TypeOK, NextUser
  <2>5. UNCHANGED <<registration, mailed, drawnFor>>
    BY DEF CreateUser
  <2>6. Copies'
    <3> SUFFICES ASSUME NEW s \in Requests
                 PROVE  (Holds(s) /\ New(s) /\ CopyAccount(s) /\ ShownMailed(s) /\ MadeUser(s))'
      BY DEF Copies
    <3>1. CASE s = r
      BY <2>1, <2>3, <2>4, <2>5, <3>1 DEF IInv, Copies, Holds, New, CopyAccount, ShownMailed, MadeUser, BeforeMail, Verifying
    <3>2. CASE s # r
      BY <2>3, <2>4, <2>5, <3>2 DEF IInv, Copies, OthersAsBefore, Holds, New, CopyAccount, ShownMailed, MadeUser
    <3> QED BY <3>1, <3>2
  <2>7. UnmailedIsHeldOnce'
    BY <2>3 DEF IInv, OthersAsBefore, UnmailedIsHeldOnce, BeforeMail
  <2>8. PasswordAsRegistered'
    BY <2>4, <2>5 DEF IInv, PasswordAsRegistered
  <2> QED BY <2>5, <2>6, <2>7, <2>8 DEF IInv, RowDrawn, MailedDrawn
<1> QED BY <1>1, <1>2 DEF CreateUser

LEMMA CreatePasswordKept ==
  ASSUME IInv, NEW r \in Requests, CreatePassword(r), TypeOK'
  PROVE  IInv'
<1>1. CASE Done(r) /\ UNCHANGED user
  BY <1>1, Ended DEF CreatePassword, history
<1>2. CASE Goto(r, "remove")
           /\ user' = [user EXCEPT ![req[r].user].password = req[r].registration]
  <2>1. req[r].step = "password" /\ UNCHANGED <<registration, mailed, drawnFor, shown>>
    BY DEF CreatePassword, At, history
  <2>2. /\ OthersAsBefore(r)
        /\ req'[r].step = "remove" /\ req'[r].registration = req[r].registration
        /\ req'[r].token = req[r].token /\ req'[r].account = req[r].account
    BY <1>2, GotoHolds
  <2>3. /\ req[r].registration \in Registrations /\ req[r].token \in mailed
        /\ drawnFor[req[r].token] = req[r].registration
        /\ registration[req[r].registration].account = req[r].account
        /\ req[r].user \in Users /\ shown[req[r].user] = req[r].token
        /\ user[req[r].user].account = req[r].account
    BY <2>1 DEF IInv, Copies, Holds, CopyAccount, ShownMailed, MadeUser, BeforeMail, Verifying
  <2>4. \A u \in Users :
          /\ user'[u].state = user[u].state /\ user'[u].account = user[u].account
          /\ \/ user'[u].password = user[u].password
             \/ u = req[r].user /\ user'[u].password = req[r].registration
    <3>1. \A u \in Users : user[u] \in User
      BY DEF IInv, TypeOK
    <3>2. user' = [user EXCEPT ![req[r].user] =
                     [user[req[r].user] EXCEPT !.password = req[r].registration]]
      BY <1>2
    <3> DEFINE row == [user[req[r].user] EXCEPT !.password = req[r].registration]
    <3>3. /\ row.state = user[req[r].user].state /\ row.account = user[req[r].user].account
          /\ row.password = req[r].registration
      BY <2>3, <3>1 DEF User
    <3> HIDE DEF row
    <3> QED BY <3>2, <3>3 DEF IInv, TypeOK, row
  <2>5. Copies'
    <3> SUFFICES ASSUME NEW s \in Requests
                 PROVE  (Holds(s) /\ New(s) /\ CopyAccount(s) /\ ShownMailed(s) /\ MadeUser(s))'
      BY DEF Copies
    <3>1. CASE s = r
      BY <2>1, <2>2, <2>3, <3>1 DEF IInv, Copies, Holds, New, CopyAccount, ShownMailed, MadeUser, BeforeMail, Verifying
    <3>2. CASE s # r
      BY <2>1, <2>2, <2>4, <3>2 DEF IInv, Copies, OthersAsBefore, Holds, New, CopyAccount, ShownMailed, MadeUser
    <3> QED BY <3>1, <3>2
  <2>6. UnmailedIsHeldOnce'
    BY <2>2 DEF IInv, OthersAsBefore, UnmailedIsHeldOnce, BeforeMail
  <2>7. PasswordAsRegistered'
    BY <2>1, <2>3, <2>4 DEF IInv, PasswordAsRegistered
  <2> QED BY <2>1, <2>5, <2>6, <2>7 DEF IInv, RowDrawn, MailedDrawn
<1> QED BY <1>1, <1>2 DEF CreatePassword

LEMMA DeleteUserKept ==
  ASSUME IInv, NEW u \in Users, DeleteUser(u)
  PROVE  IInv'
<1>1. \A v \in Users :
        /\ user'[v] \in User /\ user'[v].account = user[v].account
        /\ user'[v].password = user[v].password
        /\ user[v].state # "unused" => user'[v].state # "unused"
  <2>1. \A v \in Users : user[v] \in User
    BY DEF IInv, TypeOK
  <2>2. user' = [user EXCEPT ![u] = [user[u] EXCEPT !.state = "deleted"]]
    BY DEF DeleteUser
  <2> QED BY <2>1, <2>2 DEF IInv, TypeOK, User
<1>2. UNCHANGED <<registration, mailed, drawnFor, history, req>>
  BY DEF DeleteUser
<1>3. TypeOK'
  <2>1. user' \in [Users -> User]
    BY <1>1 DEF DeleteUser, IInv, TypeOK
  <2> QED BY <1>2, <2>1 DEF IInv, TypeOK, history
<1>4. Copies'
  BY <1>1, <1>2 DEF IInv, Copies, Holds, New, CopyAccount, ShownMailed, MadeUser, history
<1> QED BY <1>1, <1>2, <1>3, <1>4
        DEF IInv, RowDrawn, MailedDrawn, UnmailedIsHeldOnce, PasswordAsRegistered, history

(* The first insertion of a registration meets no other copy of it; a second
   one, by a resend, writes the account that is there already.               *)
LEMMA InsertKept ==
  ASSUME IInv, NEW r \in Requests, InsertRow(r), At(r, "insert") \/ At(r, "reinsert"), TypeOK'
  PROVE  IInv'
<1> DEFINE g == req[r].registration
<1>1. CASE Done(r) /\ UNCHANGED registration
  BY <1>1, Ended DEF InsertRow, history
<1>2. CASE /\ Goto(r, "mail")
           /\ registration' = [registration EXCEPT ![g] =
                [pending |-> TRUE, account |-> req[r].account, token |-> req[r].token,
                 expired |-> FALSE]]
  <2>1. UNCHANGED <<user, mailed, drawnFor, shown>> /\ req[r].step \in {"insert", "reinsert"}
    BY DEF InsertRow, At, history
  <2>2. /\ OthersAsBefore(r)
        /\ req'[r].step = "mail" /\ req'[r].registration = g
        /\ req'[r].token = req[r].token /\ req'[r].account = req[r].account
    BY <1>2, GotoHolds
  <2>3. g \in Registrations /\ req[r].token \in Tokens /\ drawnFor[req[r].token] = g
    BY <2>1 DEF IInv, Copies, Holds, BeforeMail
  <2>4. /\ registration'[g].pending /\ registration'[g].account = req[r].account
        /\ registration'[g].token = req[r].token
        /\ \A h \in Registrations \ {g} : registration'[h] = registration[h]
    BY <1>2, <2>3 DEF IInv, TypeOK
  <2>5. ASSUME NEW s \in Requests, s # r, req[s].step = "insert"
        PROVE  req[s].registration # g
    <3>1. req[s].token # req[r].token
      BY <2>1, <2>5 DEF IInv, UnmailedIsHeldOnce, BeforeMail
    <3>2. \A k \in Tokens : drawnFor[k] = req[s].registration => k = req[s].token
      BY <2>5 DEF IInv, Copies, New
    <3> QED BY <2>3, <3>1, <3>2
  <2>6. ASSUME NEW s \in Requests, s # r, req[r].step = "insert",
               req[s].step \in BeforeMail \union Verifying
        PROVE  req[s].registration # g
    <3>1. /\ req[s].token \in Tokens /\ drawnFor[req[s].token] = req[s].registration
          /\ req[s].step \in Verifying => req[s].token \in mailed
      BY <2>6 DEF IInv, Copies, Holds, ShownMailed
    <3>2. /\ req[r].token \notin mailed
          /\ \A k \in Tokens : drawnFor[k] = g => k = req[r].token
      BY <2>6 DEF IInv, Copies, New
    <3>3. req[s].step \in BeforeMail => req[s].token # req[r].token
      BY <2>1, <2>6 DEF IInv, UnmailedIsHeldOnce, BeforeMail
    <3> QED BY <2>6, <3>1, <3>2, <3>3
  <2>7. req[r].step = "reinsert" => registration[g].account = req[r].account
    BY DEF IInv, Copies, CopyAccount, BeforeMail
  <2>8. ASSUME NEW u \in Users, user[u].password # 0
        PROVE  registration'[user[u].password].account = user[u].account
    <3>1. /\ user[u].password \in Registrations /\ shown[u] \in mailed
          /\ shown[u] \in Tokens /\ drawnFor[shown[u]] = user[u].password
          /\ registration[user[u].password].account = user[u].account
      BY <2>8 DEF IInv, TypeOK, User, Registrations, PasswordAsRegistered
    <3>2. req[r].step = "insert" => user[u].password # g
      BY <3>1 DEF IInv, Copies, New
    <3> QED BY <2>1, <2>4, <2>7, <3>1, <3>2
  <2>9. Copies'
    <3> SUFFICES ASSUME NEW s \in Requests
                 PROVE  (Holds(s) /\ New(s) /\ CopyAccount(s) /\ ShownMailed(s) /\ MadeUser(s))'
      BY DEF Copies
    <3>1. CASE s = r
      BY <2>1, <2>2, <2>3, <2>4, <3>1 DEF Holds, New, CopyAccount, ShownMailed, MadeUser, BeforeMail, Verifying
    <3>2. CASE s # r
      <4>0. req'[s] = req[s]
        BY <2>2, <3>2 DEF OthersAsBefore
      <4>1. Holds(s) /\ New(s) /\ CopyAccount(s) /\ ShownMailed(s) /\ MadeUser(s)
        BY DEF IInv, Copies
      <4>2. New(s)'
        BY <2>1, <2>4, <2>5, <3>2, <4>0, <4>1 DEF New, Holds, BeforeMail
      <4>3. CopyAccount(s)'
        BY <2>1, <2>4, <2>6, <2>7, <3>2, <4>0, <4>1 DEF CopyAccount, Holds
      <4>4. Holds(s)' /\ ShownMailed(s)' /\ MadeUser(s)'
        BY <2>1, <4>0, <4>1 DEF Holds, ShownMailed, MadeUser
      <4> QED BY <4>2, <4>3, <4>4
    <3> QED BY <3>1, <3>2
  <2>10. UnmailedIsHeldOnce'
    BY <2>1, <2>2 DEF IInv, OthersAsBefore, UnmailedIsHeldOnce, BeforeMail
  <2>11. RowDrawn'
    BY <2>1, <2>3, <2>4 DEF IInv, RowDrawn
  <2>12. PasswordAsRegistered'
    BY <2>1, <2>8 DEF IInv, PasswordAsRegistered
  <2> QED BY <2>1, <2>9, <2>10, <2>11, <2>12 DEF IInv, MailedDrawn
<1> QED BY <1>1, <1>2 DEF InsertRow

(* A token that is drawn for a registration: nobody has it, and no first
   insertion is about to be made of a registration that has a token.         *)
LEMMA Drawn ==
  ASSUME IInv, NEW r \in Requests, NEW g \in Registrations, NEW k \in Tokens, NextToken(k),
         drawnFor' = [drawnFor EXCEPT ![k] = g],
         UNCHANGED <<registration, user, mailed, shown>>, OthersAsBefore(r),
         req'[r].registration = g, req'[r].token = k,
         \/ req'[r].step = "select" /\ registration[g].pending
            /\ req'[r].account = registration[g].account
         \/ req'[r].step = "insert" /\ ~SignedUp(g),
         TypeOK'
  PROVE  IInv'
<1>1. /\ drawnFor[k] = 0 /\ drawnFor'[k] = g /\ 0 \notin Registrations
      /\ \A j \in Tokens \ {k} : drawnFor'[j] = drawnFor[j]
  BY DEF NextToken, IInv, TypeOK, Registrations
<1>2. \A j \in mailed : j \in Tokens /\ j # k /\ drawnFor'[j] = drawnFor[j]
  BY <1>1 DEF IInv, TypeOK, MailedDrawn
<1>3. ASSUME NEW s \in Requests, req[s].step \in BeforeMail \union Verifying
      PROVE  req[s].token \in Tokens \ {k}
  BY <1>1, <1>3 DEF IInv, Copies, Holds
<1>4. RowDrawn' /\ MailedDrawn'
  BY <1>1, <1>2 DEF IInv, RowDrawn, MailedDrawn
<1>5. Copies'
  <2> SUFFICES ASSUME NEW s \in Requests
               PROVE  (Holds(s) /\ New(s) /\ CopyAccount(s) /\ ShownMailed(s) /\ MadeUser(s))'
    BY DEF Copies
  <2>1. CASE s = r
    <3>1. req'[r].step = "insert" => ~registration[g].pending
      BY DEF IInv, RowDrawn, SignedUp
    <3> QED BY <1>1, <1>2, <2>1, <3>1
            DEF Holds, New, CopyAccount, ShownMailed, MadeUser, BeforeMail, Verifying, SignedUp
  <2>2. CASE s # r
    <3>0. req'[s] = req[s] /\ Holds(s) /\ New(s) /\ CopyAccount(s) /\ ShownMailed(s) /\ MadeUser(s)
      BY <2>2 DEF IInv, Copies, OthersAsBefore
    <3>1. req[s].step = "insert" => req[s].registration # g
      BY <3>0 DEF Holds, New, BeforeMail, SignedUp
    <3>2. Holds(s)' /\ New(s)'
      BY <1>1, <1>3, <3>0, <3>1 DEF Holds, New, BeforeMail
    <3> QED BY <3>0, <3>2 DEF CopyAccount, ShownMailed, MadeUser
  <2> QED BY <2>1, <2>2
<1>6. UnmailedIsHeldOnce'
  BY <1>3 DEF IInv, OthersAsBefore, UnmailedIsHeldOnce, BeforeMail
<1>7. PasswordAsRegistered'
  BY <1>2 DEF IInv, PasswordAsRegistered
<1> QED BY <1>4, <1>5, <1>6, <1>7 DEF IInv

LEMMA CheckKept ==
  ASSUME IInv, NEW r \in Requests, NEW table \in {"registration", "user"}, Check(r, table),
         TypeOK'
  PROVE  IInv'
<1>1. CASE Done(r) /\ UNCHANGED drawnFor
  BY <1>1, Ended DEF Check, history
<1>2. ASSUME NEW g \in Registrations, NEW k \in Tokens, NextRegistration(g), NextToken(k),
             drawnFor' = [drawnFor EXCEPT ![k] = g],
             req' = [req EXCEPT ![r].step = "insert", ![r].unread = {},
                                ![r].registration = g, ![r].token = k]
      PROVE  IInv'
  <2>1. req[r] \in Request
    BY DEF IInv, TypeOK
  <2>2. req' = [req EXCEPT ![r] = [req[r] EXCEPT !.step = "insert", !.unread = {},
                                                 !.registration = g, !.token = k]]
    BY <1>2
  <2>3. OthersAsBefore(r) /\ req'[r].step = "insert"
        /\ req'[r].registration = g /\ req'[r].token = k
    BY <2>1, <2>2 DEF IInv, TypeOK, OthersAsBefore, Request
  <2> QED BY <1>2, <2>3, Drawn DEF NextRegistration, Check, history
<1>3. CASE req' = [req EXCEPT ![r].unread = @ \ {table}] /\ UNCHANGED drawnFor
  <2>1. req[r] \in Request /\ req[r].step = "check"
    BY DEF IInv, TypeOK, Check, At
  <2>2. req' = [req EXCEPT ![r] = [req[r] EXCEPT !.unread = @ \ {table}]]
    BY <1>3
  <2>3. OthersAsBefore(r) /\ req'[r].step = "check"
    BY <2>1, <2>2 DEF IInv, TypeOK, OthersAsBefore, Request
  <2> QED BY <1>3, <2>3, Waiting DEF Check, history
<1> QED BY <1>1, <1>2, <1>3 DEF Check

LEMMA BeginSignUpKept ==
  ASSUME IInv, NEW r \in Requests, NEW a \in Accounts, BeginSignUp(r, a), TypeOK'
  PROVE  IInv'
<1>1. req[r] \in Request
  BY DEF IInv, TypeOK
<1>2. req' = [req EXCEPT ![r] = [req[r] EXCEPT !.step = "check", !.account = a,
                                   !.unread = {"registration", "user"}]]
  BY DEF BeginSignUp
<1>3. OthersAsBefore(r) /\ req'[r].step = "check"
  BY <1>1, <1>2 DEF IInv, TypeOK, OthersAsBefore, Request
<1> QED BY <1>3, Waiting DEF BeginSignUp, Starts

LEMMA BeginResendKept ==
  ASSUME IInv, NEW r \in Requests, NEW e \in Emails, BeginResend(r, e), TypeOK'
  PROVE  IInv'
<1>1. PICK g \in FoundByEmail(e), k \in Tokens :
        /\ NextToken(k)
        /\ drawnFor' = [drawnFor EXCEPT ![k] = g]
        /\ req' = [req EXCEPT ![r].step = "select", ![r].account = registration[g].account,
                              ![r].registration = g, ![r].token = k]
  BY DEF BeginResend
<1>2. req[r] \in Request /\ g \in Registrations /\ registration[g].pending
  BY DEF IInv, TypeOK, FoundByEmail
<1>3. req' = [req EXCEPT ![r] = [req[r] EXCEPT !.step = "select",
                !.account = registration[g].account, !.registration = g, !.token = k]]
  BY <1>1
<1>4. OthersAsBefore(r) /\ req'[r].step = "select" /\ req'[r].registration = g
      /\ req'[r].token = k /\ req'[r].account = registration[g].account
  BY <1>2, <1>3 DEF IInv, TypeOK, OthersAsBefore, Request
<1> QED BY <1>1, <1>2, <1>4, Drawn DEF BeginResend, Starts

LEMMA BeginVerifyKept ==
  ASSUME IInv, NEW r \in Requests, NEW e \in Emails, NEW k \in mailed, BeginVerify(r, e, k),
         TypeOK'
  PROVE  IInv'
<1>1. PICK g \in FoundByEmail(e) :
        /\ registration[g].token = k
        /\ req' = [req EXCEPT ![r].step = "user", ![r].account = registration[g].account,
                              ![r].registration = g, ![r].token = k]
  BY DEF BeginVerify
<1>2. req[r] \in Request /\ g \in Registrations /\ k \in Tokens /\ drawnFor[k] = g
  BY <1>1 DEF IInv, TypeOK, FoundByEmail, RowDrawn
<1>3. req' = [req EXCEPT ![r] = [req[r] EXCEPT !.step = "user",
                !.account = registration[g].account, !.registration = g, !.token = k]]
  BY <1>1
<1>4. OthersAsBefore(r) /\ req'[r].step = "user" /\ req'[r].registration = g
      /\ req'[r].token = k /\ req'[r].account = registration[g].account
  BY <1>2, <1>3 DEF IInv, TypeOK, OthersAsBefore, Request
<1>5. UNCHANGED <<registration, user, mailed, drawnFor, shown>>
  BY DEF BeginVerify, Starts
<1>6. Copies'
  <2> SUFFICES ASSUME NEW s \in Requests
               PROVE  (Holds(s) /\ New(s) /\ CopyAccount(s) /\ ShownMailed(s) /\ MadeUser(s))'
    BY DEF Copies
  <2>1. CASE s = r
    BY <1>2, <1>4, <1>5, <2>1 DEF Holds, New, CopyAccount, ShownMailed, MadeUser, BeforeMail, Verifying
  <2>2. CASE s # r
    BY <1>4, <1>5, <2>2 DEF IInv, Copies, OthersAsBefore, Holds, New, CopyAccount, ShownMailed, MadeUser
  <2> QED BY <2>1, <2>2
<1>7. UnmailedIsHeldOnce'
  BY <1>4 DEF IInv, OthersAsBefore, UnmailedIsHeldOnce, BeforeMail
<1> QED BY <1>5, <1>6, <1>7 DEF IInv, RowDrawn, MailedDrawn, PasswordAsRegistered

-------------------------------------------------------------------------------
(* The theorems *)

LEMMA StepKept == IInv /\ [Next]_vars => IInv'
<1> SUFFICES ASSUME IInv, [Next]_vars PROVE IInv'
  OBVIOUS
<1>0. TypeOK /\ \A r \in Requests : Holds(r)
  BY DEF IInv, Copies
<1>1. ASSUME NEW r \in Requests, Begin(r) PROVE IInv'
  <2>1. TypeOK'
    BY <1>0, <1>1, BeginTypes
  <2> QED BY <1>1, <2>1, BeginSignUpKept, BeginResendKept, BeginVerifyKept DEF Begin
<1>2. ASSUME NEW r \in Requests, Step(r) PROVE IInv'
  <2>1. TypeOK'
    BY <1>0, <1>2, StepTypes
  <2> QED BY <1>2, <2>1, CheckKept, InsertKept, MailKept, SelectKept, UpdateKept,
             CreateUserKept, CreatePasswordKept, RemoveKept DEF Step, Insert, SaveReinsert
<1>3. ASSUME NEW r \in Requests, Abort(r) PROVE IInv'
  <2>1. TypeOK'
    BY <1>0, <1>3, DoneTyped DEF Abort, TypeOK
  <2> QED BY <1>3, <2>1, Ended DEF Abort
<1>4. CASE UNCHANGED vars
  BY <1>4 DEF vars, history, IInv, TypeOK, Copies, Holds, New, CopyAccount, ShownMailed, MadeUser, RowDrawn, MailedDrawn,
              UnmailedIsHeldOnce, PasswordAsRegistered
<1> QED BY <1>1, <1>2, <1>3, <1>4, DeleteUserKept, ExpireKept DEF Next

LEMMA InitHolds == Init => IInv
<1> SUFFICES ASSUME Init PROVE IInv
  OBVIOUS
<1>1. /\ 0 \in 0..MaxRegistrations /\ 0 \in 0..MaxTokens /\ 0 \in 0..MaxUsers
      /\ {} \subseteq {"registration", "user"} /\ NoAccount \in Accounts
      /\ "idle" \in Steps
  BY BoundAssumption, AccountsExist DEF Steps
<1>2. /\ [pending |-> FALSE, token |-> 0, expired |-> FALSE, account |-> NoAccount]
           \in Registration
      /\ [state |-> "unused", password |-> 0, account |-> NoAccount] \in User
      /\ [step |-> "idle", account |-> NoAccount, registration |-> 0, token |-> 0,
          user |-> 0, unread |-> {}] \in Request
  BY <1>1 DEF Registration, User, Request
<1>3. TypeOK
  <2>1. /\ registration \in [Registrations -> Registration]
        /\ user \in [Users -> User] /\ req \in [Requests -> Request]
    BY <1>2 DEF Init, NoAccount
  <2>2. drawnFor \in [Tokens -> 0..MaxRegistrations] /\ shown \in [Users -> 0..MaxTokens]
    BY <1>1 DEF Init
  <2> QED BY <2>1, <2>2 DEF Init, TypeOK
<1>4. \A r \in Requests : req[r].step = "idle"
  BY DEF Init
<1>5. Copies /\ UnmailedIsHeldOnce
  BY <1>4 DEF Copies, UnmailedIsHeldOnce, Holds, New, CopyAccount, ShownMailed, MadeUser, BeforeMail, Verifying
<1>6. RowDrawn /\ MailedDrawn /\ PasswordAsRegistered
  BY DEF Init, RowDrawn, MailedDrawn, PasswordAsRegistered
<1> QED BY <1>3, <1>5, <1>6 DEF IInv

LEMMA Invariant == Spec => []IInv
BY InitHolds, StepKept, PTL DEF Spec

(* Type correctness of the registrations, users, tokens and requests of
   SignUpService, for any number of each.                                    *)
THEOREM TypeCorrect == Spec => []TypeOK
<1>1. IInv => TypeOK
  BY DEF IInv
<1> QED BY <1>1, Invariant, PTL

(* However sign-ups, resends and verifications overlap, and wherever they
   stop, a user has the password and the tenant of the registration whose
   token was shown: verifyEmail works on one copy of it from its check on.   *)
THEOREM PasswordsAsRegistered == Spec => []PasswordAsRegistered
<1>1. IInv => PasswordAsRegistered
  BY DEF IInv
<1> QED BY <1>1, Invariant, PTL

-------------------------------------------------------------------------------
(* Requests that do not overlap.  The constraints of the two tables hold in any
   case; while no two requests have been in flight together, what a request
   has checked or read is still so when it acts on it.                       *)
OneRow ==
  /\ \A g, h \in Registrations :
       registration[g].pending /\ registration[h].pending
         /\ registration[g].account = registration[h].account => g = h
  /\ \A u, v \in Present : user[u].account = user[v].account => u = v

Alone == \A r, s \in Requests : req[r].step # "idle" /\ req[s].step # "idle" => r = s

StillSo(r) ==
  /\ req[r].step # "reinsert"
  /\ req[r].step \in {"select", "update", "user", "password", "remove"}
       => registration[req[r].registration].pending
  /\ req[r].step = "check" /\ "user" \notin req[r].unread => ~IsUser(req[r].account)
  /\ req[r].step = "insert" => ~IsUser(req[r].account)
  /\ req[r].step = "password" =>
       user[req[r].user].state = "present" /\ user[req[r].user].password = 0
  /\ req[r].step = "remove" =>
       \A u \in Present : user[u].account = req[r].account => user[u].password # 0

(* An account is in both tables only while verifyEmail moves it. *)
OnlyWhileVerifying ==
  \A a \in Accounts : IsRegistered(a) /\ IsUser(a) =>
    \E r \in Requests : req[r].step \in {"password", "remove"} /\ req[r].account = a

NothingLost == \A u \in Present : user[u].password = 0 => IsRegistered(user[u].account)

SerialPart ==
  /\ Alone /\ (\A r \in Requests : StillSo(r))
  /\ (~failed => OnlyWhileVerifying) /\ NothingLost

SerialInv == OneRow /\ (~overlapped => SerialPart)

(* r is the one request in flight, and none has overlapped. *)
Only(r) == ~overlapped /\ \A s \in Requests \ {r} : req[s].step = "idle"

LEMMA OnlyOne ==
  ASSUME SerialInv, NEW r \in Requests, req[r].step # "idle", ~overlapped
  PROVE  Only(r) /\ StillSo(r) /\ NothingLost /\ (~failed => OnlyWhileVerifying)
BY DEF SerialInv, SerialPart, Alone, Only

LEMMA OneStep ==
  ASSUME NEW r \in Requests, OthersAsBefore(r), OneRow',
         ~overlapped' => /\ Only(r) /\ StillSo(r)' /\ NothingLost'
                         /\ (~failed' => OnlyWhileVerifying')
  PROVE  SerialInv'
<1> SUFFICES ASSUME ~overlapped' PROVE SerialPart'
  BY DEF SerialInv
<1>0. Only(r) /\ StillSo(r)' /\ NothingLost' /\ (~failed' => OnlyWhileVerifying')
  OBVIOUS
<1>1. \A s \in Requests \ {r} : req'[s].step = "idle"
  BY <1>0 DEF Only, OthersAsBefore
<1>2. Alone'
  BY <1>1 DEF Alone
<1>3. \A s \in Requests : StillSo(s)'
  <2> SUFFICES ASSUME NEW s \in Requests PROVE StillSo(s)'
    OBVIOUS
  <2>1. CASE s = r
    BY <1>0, <2>1 DEF StillSo
  <2>2. CASE s # r
    BY <1>1, <2>2 DEF StillSo
  <2> QED BY <2>1, <2>2
<1> QED BY <1>0, <1>2, <1>3 DEF SerialPart

(* A step that changes neither table and is not the end of a verifyEmail.    *)
LEMMA Quiet ==
  ASSUME SerialInv, NEW r \in Requests, OthersAsBefore(r), UNCHANGED <<registration, user>>,
         req[r].step \notin {"password", "remove"},
         ~overlapped' => Only(r) /\ StillSo(r)', ~failed' => ~failed
  PROVE  SerialInv'
<1>1. OneRow'
  BY DEF SerialInv, OneRow, Present
<1>2. ASSUME ~overlapped PROVE NothingLost' /\ (~failed' => OnlyWhileVerifying')
  <2>1. NothingLost'
    BY <1>2 DEF SerialInv, SerialPart, NothingLost, Present, IsRegistered
  <2>2. ASSUME ~failed' PROVE OnlyWhileVerifying'
    BY <1>2, <2>2 DEF SerialInv, SerialPart, OnlyWhileVerifying, IsRegistered, IsUser, OthersAsBefore
  <2> QED BY <2>1, <2>2
<1> QED BY <1>1, <1>2, OneStep DEF Only

LEMMA IdleQuiet ==
  ASSUME IInv, SerialInv, NEW r \in Requests, Done(r), UNCHANGED <<registration, user, overlapped>>,
         req[r].step # "idle",
         req[r].step \notin {"password", "remove"} \/ failed', ~failed' => ~failed
  PROVE  SerialInv'
<1>1. OthersAsBefore(r) /\ req'[r].step = "idle"
  BY DoneHolds
<1>2. StillSo(r)'
  BY <1>1 DEF StillSo
<1>3. ~overlapped' => Only(r)
  BY OnlyOne
<1>4. OneRow'
  BY DEF SerialInv, OneRow, Present
<1>5. ASSUME ~overlapped PROVE NothingLost'
  BY <1>5 DEF SerialInv, SerialPart, NothingLost, Present, IsRegistered
<1>6. CASE req[r].step \notin {"password", "remove"}
  BY <1>1, <1>2, <1>3, <1>6, Quiet
<1>7. CASE failed'
  BY <1>1, <1>2, <1>3, <1>4, <1>5, <1>7, OneStep
<1> QED BY <1>6, <1>7

(* A step of the one request in flight, told by its effect on the tables.    *)
LEMMA CheckSerial ==
  ASSUME IInv, SerialInv, NEW r \in Requests, NEW table \in {"registration", "user"},
         Check(r, table)
  PROVE  SerialInv'
<1>0. req[r].step = "check" /\ UNCHANGED <<registration, user, overlapped, failed>>
  BY DEF Check, At, history
<1>1. CASE Done(r)
  BY <1>0, <1>1, IdleQuiet
<1>2. CASE ~Done(r)
  <2>0. ~(table = "user" /\ IsUser(req[r].account)) /\ table \in req[r].unread
    BY <1>2 DEF Check
  <2>1. ASSUME ~overlapped
        PROVE  Only(r) /\ ("user" \notin req[r].unread \ {table} => ~IsUser(req[r].account))
    <3>1. Only(r) /\ StillSo(r)
      BY <1>0, <2>1, OnlyOne
    <3> QED BY <1>0, <2>0, <3>1 DEF StillSo
  <2>2. CASE req' = [req EXCEPT ![r].unread = @ \ {table}]
    <3>1. /\ OthersAsBefore(r) /\ req'[r].step = "check" /\ req'[r].account = req[r].account
          /\ req'[r].unread = req[r].unread \ {table}
      <4>1. req[r] \in Request
        BY DEF IInv, TypeOK
      <4>2. req' = [req EXCEPT ![r] = [req[r] EXCEPT !.unread = @ \ {table}]]
        BY <2>2
      <4> QED BY <1>0, <4>1, <4>2 DEF IInv, TypeOK, OthersAsBefore, Request
    <3>2. ~overlapped => StillSo(r)'
      BY <1>0, <2>1, <3>1 DEF StillSo, IsUser
    <3> QED BY <1>0, <2>1, <3>1, <3>2, Quiet
  <2>3. ASSUME NEW g \in Registrations, NEW k \in Tokens, req[r].unread = {table},
               req' = [req EXCEPT ![r].step = "insert", ![r].unread = {},
                                  ![r].registration = g, ![r].token = k]
        PROVE  SerialInv'
    <3>1. OthersAsBefore(r) /\ req'[r].step = "insert" /\ req'[r].account = req[r].account
      <4>1. req[r] \in Request
        BY DEF IInv, TypeOK
      <4>2. req' = [req EXCEPT ![r] = [req[r] EXCEPT !.step = "insert", !.unread = {},
                                                     !.registration = g, !.token = k]]
        BY <2>3
      <4> QED BY <4>1, <4>2 DEF IInv, TypeOK, OthersAsBefore, Request
    <3>2. ~overlapped => StillSo(r)'
      BY <1>0, <2>1, <2>3, <3>1 DEF StillSo, IsUser
    <3> QED BY <1>0, <2>1, <3>1, <3>2, Quiet
  <2> QED BY <1>2, <2>2, <2>3 DEF Check
<1> QED BY <1>1, <1>2

LEMMA BeginSerial ==
  ASSUME IInv, SerialInv, NEW r \in Requests, Begin(r)
  PROVE  SerialInv'
<1>0. /\ req[r].step = "idle" /\ UNCHANGED <<registration, user, failed>>
      /\ ~overlapped' => Only(r)
  BY DEF Begin, BeginSignUp, BeginResend, BeginVerify, Starts, At, Only
<1>1. req[r] \in Request /\ req \in [Requests -> Request]
  BY DEF IInv, TypeOK
<1>2. ASSUME NEW a \in Accounts, BeginSignUp(r, a) PROVE SerialInv'
  <2>1. req' = [req EXCEPT ![r] = [req[r] EXCEPT !.step = "check", !.account = a,
                                     !.unread = {"registration", "user"}]]
    BY <1>2 DEF BeginSignUp
  <2>2. OthersAsBefore(r) /\ req'[r].step = "check" /\ "user" \in req'[r].unread
    BY <1>1, <2>1 DEF OthersAsBefore, Request
  <2>3. StillSo(r)'
    BY <2>2 DEF StillSo
  <2> QED BY <1>0, <2>2, <2>3, Quiet
<1>3. ASSUME NEW e \in Emails, NEW g \in FoundByEmail(e), NEW k \in Tokens,
             NEW step \in {"select", "user"},
             req' = [req EXCEPT ![r].step = step, ![r].account = registration[g].account,
                                ![r].registration = g, ![r].token = k]
      PROVE  SerialInv'
  <2>1. req' = [req EXCEPT ![r] = [req[r] EXCEPT !.step = step,
                  !.account = registration[g].account, !.registration = g, !.token = k]]
    BY <1>3
  <2>2. OthersAsBefore(r) /\ req'[r].step = step /\ req'[r].registration = g
    BY <1>1, <2>1 DEF OthersAsBefore, Request
  <2>3. registration[g].pending /\ UNCHANGED registration
    BY <1>0 DEF FoundByEmail
  <2>4. StillSo(r)'
    BY <2>2, <2>3 DEF StillSo
  <2> QED BY <1>0, <2>2, <2>4, Quiet
<1>4. ASSUME NEW e \in Emails, BeginResend(r, e) PROVE SerialInv'
  BY <1>3, <1>4 DEF BeginResend
<1>5. ASSUME NEW e \in Emails, NEW k \in mailed, BeginVerify(r, e, k) PROVE SerialInv'
  <2>1. k \in Tokens
    BY DEF IInv, TypeOK
  <2> QED BY <1>3, <1>5, <2>1 DEF BeginVerify
<1> QED BY <1>2, <1>4, <1>5 DEF Begin

LEMMA InsertSerial ==
  ASSUME IInv, SerialInv, NEW r \in Requests, req[r].step \in {"insert", "reinsert"},
         InsertRow(r)
  PROVE  SerialInv'
<1>0. UNCHANGED <<user, overlapped, failed>>
  BY DEF InsertRow, history
<1>1. CASE Done(r) /\ UNCHANGED registration
  BY <1>0, <1>1, IdleQuiet
<1>2. CASE ~IsRegistered(req[r].account) /\ ~registration[req[r].registration].pending
  <2> DEFINE n == req[r].registration
             a == req[r].account
             row == [pending |-> TRUE, account |-> a, token |-> req[r].token, expired |-> FALSE]
  <2>1. /\ n \in Registrations /\ a \in Accounts
        /\ registration \in [Registrations -> Registration]
    BY Fields DEF IInv, TypeOK, Copies, Holds, BeforeMail
  <2>2. /\ registration' = [registration EXCEPT ![n] = row] /\ Goto(r, "mail")
    BY <1>2 DEF InsertRow
  <2>3. /\ row.pending = TRUE /\ row.account = a
    OBVIOUS
  <2> HIDE DEF row
  <2>4. /\ registration'[n].pending = TRUE /\ registration'[n].account = a
        /\ \A g \in Registrations \ {n} : registration'[g] = registration[g]
    BY <2>1, <2>2, <2>3
  <2>5. PICK m \in Registrations : m = n
    BY <2>1
  <2>6. PICK b \in Accounts : b = a
    BY <2>1
  <2> HIDE DEF n, a
  <2>7. \A c \in Accounts : IsRegistered(c)' => c = b \/ IsRegistered(c)
    BY <2>4, <2>5, <2>6 DEF IsRegistered
  <2>8. \A c \in Accounts : IsRegistered(c) => IsRegistered(c)'
    BY <1>2, <2>4, <2>5 DEF IsRegistered, n
  <2>9. OneRow'
    <3>1. \A g \in Registrations : registration[g].pending => registration[g].account # b
      BY <1>2, <2>6 DEF IsRegistered, a
    <3>2. \A g, h \in Registrations :
            registration'[g].pending /\ registration'[h].pending
              /\ registration'[g].account = registration'[h].account => g = h
      BY <2>4, <2>5, <2>6, <3>1 DEF SerialInv, OneRow
    <3> QED BY <1>0, <3>2 DEF SerialInv, OneRow, Present
  <2>10. OthersAsBefore(r) /\ req'[r].step = "mail"
    BY <2>2, GotoHolds
  <2>11. ASSUME ~overlapped'
         PROVE  Only(r) /\ StillSo(r)' /\ NothingLost' /\ (~failed' => OnlyWhileVerifying')
    <3>1. Only(r) /\ StillSo(r) /\ NothingLost /\ (~failed => OnlyWhileVerifying)
      BY <1>0, <2>11, OnlyOne
    <3>2. ~IsUser(b)
      BY <3>1, <2>6 DEF StillSo, a
    <3>3. StillSo(r)'
      BY <2>10 DEF StillSo
    <3>4. NothingLost'
      <4>1. \A u \in Present : user[u].account \in Accounts
        BY DEF IInv, TypeOK, User, Present
      <4> QED BY <1>0, <2>8, <3>1, <4>1 DEF NothingLost, Present
    <3>5. ASSUME ~failed', NEW c \in Accounts, IsRegistered(c)', IsUser(c)'
          PROVE  FALSE
      <4>1. IsUser(c) /\ IsRegistered(c) /\ ~failed
        BY <1>0, <2>7, <3>2, <3>5 DEF IsUser
      <4>2. PICK s \in Requests : req[s].step \in {"password", "remove"}
        BY <3>1, <4>1 DEF OnlyWhileVerifying
      <4> QED BY <3>1, <4>2 DEF Only
    <3>6. ~failed' => OnlyWhileVerifying'
      BY <3>5 DEF OnlyWhileVerifying
    <3> QED BY <3>1, <3>3, <3>4, <3>6
  <2> QED BY <2>9, <2>10, <2>11, OneStep
<1> QED BY <1>1, <1>2 DEF InsertRow

LEMMA MailSerial ==
  ASSUME IInv, SerialInv, NEW r \in Requests, SendMail(r)
  PROVE  SerialInv'
BY IdleQuiet DEF SendMail, At, history

LEMMA SelectSerial ==
  ASSUME IInv, SerialInv, NEW r \in Requests, SaveSelect(r)
  PROVE  SerialInv'
<1>0. req[r].step = "select" /\ UNCHANGED <<registration, user, overlapped, failed>>
  BY DEF SaveSelect, At, history
<1>1. PICK step \in {"update", "reinsert"} :
        Goto(r, step) /\ (step = "update" <=> registration[req[r].registration].pending)
  BY DEF SaveSelect
<1>2. OthersAsBefore(r) /\ req'[r].step = step /\ req'[r].registration = req[r].registration
  BY <1>1, GotoHolds
<1>3. ASSUME ~overlapped' PROVE Only(r) /\ StillSo(r)'
  <2>1. Only(r) /\ StillSo(r)
    BY <1>0, <1>3, OnlyOne
  <2> QED BY <1>0, <1>1, <1>2, <2>1 DEF StillSo
<1> QED BY <1>0, <1>2, <1>3, Quiet

(* The accounts of the tables as they were: what SaveUpdate and Expire leave. *)
SameAccounts ==
  /\ \A g \in Registrations : /\ registration'[g].pending = registration[g].pending
                               /\ registration'[g].account = registration[g].account
  /\ user' = user

LEMMA SameKept ==
  ASSUME SerialInv, SameAccounts
  PROVE  /\ OneRow'
         /\ NothingLost => NothingLost'
         /\ \A a \in Accounts : (IsRegistered(a)' <=> IsRegistered(a)) /\ (IsUser(a)' <=> IsUser(a))
<1>1. OneRow'
  BY DEF SerialInv, OneRow, Present, SameAccounts
<1>2. \A a : (IsRegistered(a)' <=> IsRegistered(a)) /\ (IsUser(a)' <=> IsUser(a))
  BY DEF IsRegistered, IsUser, SameAccounts
<1>3. NothingLost => NothingLost'
  BY <1>2 DEF NothingLost, Present, SameAccounts
<1> QED BY <1>1, <1>2, <1>3

LEMMA UpdateSerial ==
  ASSUME IInv, SerialInv, NEW r \in Requests, SaveUpdate(r)
  PROVE  SerialInv'
<1>0. /\ req[r].step = "update" /\ UNCHANGED <<user, overlapped, failed>> /\ Goto(r, "mail")
  BY DEF SaveUpdate, At, history
<1>1. OthersAsBefore(r) /\ req'[r].step = "mail"
  BY <1>0, GotoHolds
<1>2. SameAccounts
  <2> DEFINE g == req[r].registration
             row == [registration[g] EXCEPT !.token = req[r].token, !.expired = FALSE]
  <2>1. g \in Registrations /\ registration \in [Registrations -> Registration]
    BY <1>0 DEF IInv, TypeOK, Copies, Holds, BeforeMail
  <2>2. row.pending = registration[g].pending /\ row.account = registration[g].account
    BY <2>1 DEF Registration
  <2>3. registration' = registration \/ registration' = [registration EXCEPT ![g] = row]
    BY DEF SaveUpdate
  <2> HIDE DEF row
  <2> QED BY <1>0, <2>1, <2>2, <2>3 DEF SameAccounts
<1>3. ASSUME ~overlapped'
      PROVE  Only(r) /\ StillSo(r)' /\ NothingLost' /\ (~failed' => OnlyWhileVerifying')
  <2>1. Only(r) /\ NothingLost /\ (~failed => OnlyWhileVerifying)
    BY <1>0, <1>3, OnlyOne
  <2>2. StillSo(r)'
    BY <1>1 DEF StillSo
  <2>3. ~failed' => OnlyWhileVerifying'
    BY <1>0, <1>1, <1>2, <2>1, SameKept DEF OnlyWhileVerifying, OthersAsBefore
  <2> QED BY <1>2, <2>1, <2>2, <2>3, SameKept
<1> QED BY <1>1, <1>2, <1>3, SameKept, OneStep

LEMMA CreateUserSerial ==
  ASSUME IInv, SerialInv, NEW r \in Requests, CreateUser(r)
  PROVE  SerialInv'
<1>0. /\ req[r].step = "user" /\ UNCHANGED <<registration, overlapped, failed>>
  BY DEF CreateUser, At
<1>1. CASE Done(r) /\ UNCHANGED <<user, shown>>
  BY <1>0, <1>1, IdleQuiet
<1>2. ASSUME NEW u \in Users, NextUser(u), ~IsUser(req[r].account),
             user' = [user EXCEPT ![u] = [state |-> "present", account |-> req[r].account,
                                          password |-> 0]],
             req' = [req EXCEPT ![r].step = "password", ![r].user = u]
      PROVE  SerialInv'
  <2>1. PICK b \in Accounts : b = req[r].account
    BY Fields DEF IInv
  <2>2. /\ user \in [Users -> User] /\ user[u].state = "unused"
    BY <1>2 DEF IInv, TypeOK, NextUser
  <2>3. /\ user'[u].state = "present" /\ user'[u].account = b /\ user'[u].password = 0
        /\ \A v \in Users \ {u} : user'[v] = user[v]
    BY <1>2, <2>1, <2>2
  <2>4. /\ OthersAsBefore(r) /\ req'[r].step = "password" /\ req'[r].user = u
        /\ req'[r].account = b /\ req'[r].registration = req[r].registration
    <3>1. req[r] \in Request
      BY DEF IInv, TypeOK
    <3>2. req' = [req EXCEPT ![r] = [req[r] EXCEPT !.step = "password", !.user = u]]
      BY <1>2
    <3> QED BY <2>1, <3>1, <3>2 DEF IInv, TypeOK, OthersAsBefore, Request
  <2>5. Present' = Present \union {u}
    BY <2>2, <2>3 DEF Present
  <2>6. OneRow'
    <3>1. \A v \in Present : user[v].account # b
      BY <1>2, <2>1 DEF IsUser, Present
    <3>2. \A v, w \in Present' : user'[v].account = user'[w].account => v = w
      BY <2>2, <2>3, <2>5, <3>1 DEF SerialInv, OneRow, Present
    <3>3. \A g, h \in Registrations :
             registration'[g].pending /\ registration'[h].pending
               /\ registration'[g].account = registration'[h].account => g = h
      BY <1>0 DEF SerialInv, OneRow
    <3> QED BY <3>2, <3>3 DEF OneRow
  <2>7. ASSUME ~overlapped'
        PROVE  Only(r) /\ StillSo(r)' /\ NothingLost' /\ (~failed' => OnlyWhileVerifying')
    <3>1. Only(r) /\ StillSo(r) /\ NothingLost /\ (~failed => OnlyWhileVerifying)
      BY <1>0, <2>7, OnlyOne
    <3>2. /\ req[r].registration \in Registrations
          /\ registration[req[r].registration].pending
          /\ registration[req[r].registration].account = b
      BY <1>0, <2>1, <3>1 DEF StillSo, IInv, Copies, Holds, CopyAccount, Verifying
    <3>3. IsRegistered(b)
      BY <3>2 DEF IsRegistered
    <3>4. StillSo(r)'
      BY <1>0, <2>3, <2>4, <3>2 DEF StillSo
    <3>5. NothingLost'
      <4>1. \A v \in Present' : user'[v].password = 0 => IsRegistered(user'[v].account)
        BY <2>2, <2>3, <2>5, <3>1, <3>3 DEF NothingLost, Present
      <4> QED BY <1>0, <4>1 DEF NothingLost, IsRegistered
    <3>6. ASSUME ~failed', NEW c \in Accounts, IsRegistered(c)', IsUser(c)'
          PROVE  \E s \in Requests : req'[s].step \in {"password", "remove"}
                                       /\ req'[s].account = c
      <4>1. CASE c = b
        BY <2>4, <4>1
      <4>2. CASE c # b
        <5>1. IsRegistered(c) /\ IsUser(c) /\ ~failed
          BY <1>0, <2>3, <3>6, <4>2 DEF IsRegistered, IsUser
        <5>2. PICK s \in Requests : req[s].step \in {"password", "remove"}
          BY <3>1, <5>1 DEF OnlyWhileVerifying
        <5> QED BY <1>0, <3>1, <5>2 DEF Only
      <4> QED BY <4>1, <4>2
    <3>7. ~failed' => OnlyWhileVerifying'
      BY <3>6 DEF OnlyWhileVerifying
    <3> QED BY <3>1, <3>4, <3>5, <3>7
  <2> QED BY <2>4, <2>6, <2>7, OneStep
<1> QED BY <1>1, <1>2 DEF CreateUser

LEMMA CreatePasswordSerial ==
  ASSUME IInv, SerialInv, NEW r \in Requests, CreatePassword(r)
  PROVE  SerialInv'
<1>0. /\ req[r].step = "password" /\ UNCHANGED <<registration, overlapped, failed>>
  BY DEF CreatePassword, At, history
<1>1. CASE user[req[r].user].state # "present"
  <2>1. Done(r) /\ UNCHANGED user
    BY <1>1 DEF CreatePassword
  <2>2. OthersAsBefore(r) /\ OneRow'
    BY <1>0, <2>1, DoneHolds DEF SerialInv, OneRow, Present
  <2>3. overlapped'
    BY <1>0, <1>1, OnlyOne DEF StillSo
  <2> QED BY <2>2, <2>3, OneStep
<1>2. CASE user[req[r].user].state = "present"
  <2>1. PICK u \in Users : u = req[r].user
    BY <1>0 DEF IInv, Copies, MadeUser
  <2>2. PICK b \in Accounts : b = req[r].account
    BY Fields DEF IInv
  <2>3. PICK g \in Registrations : g = req[r].registration
    BY <1>0 DEF IInv, Copies, Holds, Verifying
  <2>4. /\ user' = [user EXCEPT ![u] = [user[u] EXCEPT !.password = g]] /\ Goto(r, "remove")
    BY <1>2, <2>1, <2>3 DEF CreatePassword
  <2> DEFINE row == [user[u] EXCEPT !.password = g]
  <2>5. /\ row.state = user[u].state /\ row.account = user[u].account /\ row.password = g
        /\ g # 0 /\ user \in [Users -> User]
    BY BoundAssumption DEF IInv, TypeOK, User, Registrations
  <2>6. user' = [user EXCEPT ![u] = row]
    BY <2>4
  <2> HIDE DEF row
  <2>7. /\ \A v \in Users : user'[v].state = user[v].state /\ user'[v].account = user[v].account
        /\ user'[u].password # 0 /\ \A v \in Users \ {u} : user'[v] = user[v]
    BY <2>5, <2>6
  <2>8. OthersAsBefore(r) /\ req'[r].step = "remove" /\ req'[r].account = b
        /\ req'[r].registration = g
    BY <2>2, <2>3, <2>4, GotoHolds
  <2>9. OneRow'
    <3>1. \A v, w \in Present' : user'[v].account = user'[w].account => v = w
      BY <2>7 DEF SerialInv, OneRow, Present
    <3> QED BY <1>0, <3>1 DEF SerialInv, OneRow
  <2>10. ASSUME ~overlapped'
         PROVE  Only(r) /\ StillSo(r)' /\ NothingLost' /\ (~failed' => OnlyWhileVerifying')
    <3>1. Only(r) /\ StillSo(r) /\ NothingLost /\ (~failed => OnlyWhileVerifying)
      BY <1>0, <2>10, OnlyOne
    <3>2. registration[g].pending
      BY <1>0, <2>3, <3>1 DEF StillSo
    <3>3. user[u].account = b
      BY <1>0, <2>1, <2>2 DEF IInv, Copies, MadeUser
    <3>4. \A v \in Present' : user'[v].account = b => user'[v].password # 0
      BY <1>2, <2>1, <2>7, <3>3 DEF SerialInv, OneRow, Present
    <3>5. StillSo(r)'
      BY <1>0, <2>8, <3>2, <3>4 DEF StillSo
    <3>6. NothingLost'
      <4>1. \A v \in Present' : user'[v].password = 0 => IsRegistered(user'[v].account)
        BY <2>7, <3>1 DEF NothingLost, Present
      <4> QED BY <1>0, <4>1 DEF NothingLost, IsRegistered
    <3>7. ASSUME ~failed', NEW c \in Accounts, IsRegistered(c)', IsUser(c)'
          PROVE  \E s \in Requests : req'[s].step \in {"password", "remove"}
                                       /\ req'[s].account = c
      <4>1. IsRegistered(c) /\ IsUser(c) /\ ~failed
        BY <1>0, <2>7, <3>7 DEF IsRegistered, IsUser
      <4>2. PICK s \in Requests : req[s].step \in {"password", "remove"} /\ req[s].account = c
        BY <3>1, <4>1 DEF OnlyWhileVerifying
      <4>3. s = r /\ c = b
        BY <2>2, <3>1, <4>2 DEF Only
      <4> QED BY <2>8, <4>3
    <3>8. ~failed' => OnlyWhileVerifying'
      BY <3>7 DEF OnlyWhileVerifying
    <3> QED BY <3>1, <3>5, <3>6, <3>8
  <2> QED BY <2>8, <2>9, <2>10, OneStep
<1> QED BY <1>1, <1>2

(* The one place where an account leaves a table that OnlyWhileVerifying and
   NothingLost look at: its user has a password by then.                     *)
LEMMA RemoveSerial ==
  ASSUME IInv, SerialInv, NEW r \in Requests, Remove(r)
  PROVE  SerialInv'
<1>0. /\ req[r].step = "remove" /\ UNCHANGED <<user, overlapped, failed>>
      /\ OthersAsBefore(r) /\ req'[r].step = "idle"
  BY DoneHolds DEF Remove, At, history
<1>1. PICK n \in Registrations : n = req[r].registration
  BY <1>0 DEF IInv, Copies, Holds, Verifying
<1>2. PICK b \in Accounts : b = req[r].account
  BY Fields DEF IInv
<1>3. registration[n].account = b /\ registration \in [Registrations -> Registration]
  BY <1>0, <1>1, <1>2 DEF IInv, TypeOK, Copies, CopyAccount, Verifying
<1> DEFINE row == [registration[n] EXCEPT !.pending = FALSE]
<1>4. row.pending = FALSE /\ row.account = b
  BY <1>3 DEF Registration
<1>5. registration' = [registration EXCEPT ![n] = row]
  BY <1>1 DEF Remove
<1> HIDE DEF row
<1>6. /\ registration'[n].pending = FALSE
      /\ \A g \in Registrations \ {n} : registration'[g] = registration[g]
  BY <1>3, <1>4, <1>5
<1>7. OneRow'
  <2>1. \A g, h \in Registrations :
           registration'[g].pending /\ registration'[h].pending
             /\ registration'[g].account = registration'[h].account => g = h
    BY <1>6 DEF SerialInv, OneRow
  <2> QED BY <1>0, <2>1 DEF SerialInv, OneRow, Present
<1>8. ASSUME ~overlapped'
      PROVE  Only(r) /\ StillSo(r)' /\ NothingLost' /\ (~failed' => OnlyWhileVerifying')
  <2>1. Only(r) /\ StillSo(r) /\ NothingLost /\ (~failed => OnlyWhileVerifying)
    BY <1>0, <1>8, OnlyOne
  <2>2. registration[n].pending
    BY <1>0, <1>1, <2>1 DEF StillSo
  <2>3. ~IsRegistered(b)'
    BY <1>3, <1>6, <2>2 DEF IsRegistered, SerialInv, OneRow
  <2>4. \A c \in Accounts : IsRegistered(c)' => IsRegistered(c)
    BY <1>6 DEF IsRegistered
  <2>5. \A c \in Accounts \ {b} : IsRegistered(c) => IsRegistered(c)'
    BY <1>3, <1>6 DEF IsRegistered
  <2>6. StillSo(r)'
    BY <1>0 DEF StillSo
  <2>7. NothingLost'
    <3>1. \A u \in Present : user[u].account \in Accounts
      BY DEF IInv, TypeOK, User, Present
    <3>2. \A u \in Present : user[u].password = 0 => user[u].account # b
      BY <1>0, <1>2, <2>1 DEF StillSo
    <3> QED BY <1>0, <2>1, <2>5, <3>1, <3>2 DEF NothingLost, Present
  <2>8. ASSUME ~failed', NEW c \in Accounts, IsRegistered(c)', IsUser(c)'
        PROVE  FALSE
    <3>1. IsRegistered(c) /\ IsUser(c) /\ ~failed
      BY <1>0, <2>4, <2>8 DEF IsUser
    <3>2. PICK s \in Requests : req[s].step \in {"password", "remove"} /\ req[s].account = c
      BY <2>1, <3>1 DEF OnlyWhileVerifying
    <3>3. s = r /\ c = b
      BY <1>2, <2>1, <3>2 DEF Only
    <3> QED BY <2>3, <2>8, <3>3
  <2>9. ~failed' => OnlyWhileVerifying'
    BY <2>8 DEF OnlyWhileVerifying
  <2> QED BY <2>1, <2>6, <2>7, <2>9
<1> QED BY <1>0, <1>7, <1>8, OneStep

(* What is done around the handlers, while they wait.                        *)
LEMMA AroundSerial ==
  ASSUME SerialInv, UNCHANGED <<req, overlapped, failed>>, OneRow',
         NothingLost => NothingLost', OnlyWhileVerifying => OnlyWhileVerifying',
         \A r \in Requests : StillSo(r) => StillSo(r)'
  PROVE  SerialInv'
BY DEF SerialInv, SerialPart, Alone

LEMMA DeleteUserSerial ==
  ASSUME IInv, SerialInv, NEW u \in Users, DeleteUser(u)
  PROVE  SerialInv'
<1>0. /\ user[u].state = "present" /\ user[u].password # 0
      /\ UNCHANGED <<registration, req, overlapped, failed>>
  BY DEF DeleteUser, history
<1> DEFINE row == [user[u] EXCEPT !.state = "deleted"]
<1>1. row.state = "deleted" /\ user \in [Users -> User] /\ user' = [user EXCEPT ![u] = row]
  BY DEF DeleteUser, IInv, TypeOK, User
<1> HIDE DEF row
<1>2. user'[u].state = "deleted" /\ \A v \in Users \ {u} : user'[v] = user[v]
  BY <1>1
<1>3. Present' = Present \ {u}
  BY <1>2 DEF Present
<1>4. OneRow'
  <2>1. \A v, w \in Present' : user'[v].account = user'[w].account => v = w
    BY <1>2, <1>3 DEF SerialInv, OneRow, Present
  <2> QED BY <1>0, <2>1 DEF SerialInv, OneRow
<1>5. \A c : IsUser(c)' => IsUser(c)
  BY <1>2 DEF IsUser
<1>6. NothingLost => NothingLost'
  <2>1. \A v \in Present' : v \in Present /\ user'[v] = user[v]
    BY <1>2, <1>3 DEF Present
  <2> QED BY <1>0, <2>1 DEF NothingLost, IsRegistered
<1>7. OnlyWhileVerifying => OnlyWhileVerifying'
  BY <1>0, <1>5 DEF OnlyWhileVerifying, IsRegistered
<1>8. ASSUME NEW r \in Requests, StillSo(r) PROVE StillSo(r)'
  <2>1. req[r].step = "password" => req[r].user \in Users \ {u}
    BY <1>0, <1>8 DEF StillSo, IInv, Copies, MadeUser
  <2>2. ~IsUser(req[r].account) => ~IsUser(req[r].account)'
    BY <1>0, <1>2 DEF IsUser
  <2>3. req[r].step = "password" =>
          user'[req[r].user].state = "present" /\ user'[req[r].user].password = 0
    BY <1>2, <1>8, <2>1 DEF StillSo
  <2>4. req[r].step = "remove" =>
          \A v \in Present' : user'[v].account = req[r].account => user'[v].password # 0
    BY <1>2, <1>3, <1>8 DEF StillSo, Present
  <2> QED BY <1>0, <1>8, <2>2, <2>3, <2>4 DEF StillSo
<1> QED BY <1>0, <1>4, <1>6, <1>7, <1>8, AroundSerial

LEMMA ExpireSerial ==
  ASSUME IInv, SerialInv, NEW g \in Registrations, Expire(g)
  PROVE  SerialInv'
<1>0. UNCHANGED <<user, req, overlapped, failed>>
  BY DEF Expire, history
<1> DEFINE row == [registration[g] EXCEPT !.expired = TRUE]
<1>1. /\ row.pending = registration[g].pending /\ row.account = registration[g].account
      /\ registration \in [Registrations -> Registration]
      /\ registration' = [registration EXCEPT ![g] = row]
  BY DEF Expire, IInv, TypeOK, Registration
<1> HIDE DEF row
<1>2. SameAccounts
  BY <1>0, <1>1 DEF SameAccounts
<1>3. OnlyWhileVerifying => OnlyWhileVerifying'
  BY <1>0, <1>2, SameKept DEF OnlyWhileVerifying
<1>4. ASSUME NEW r \in Requests, StillSo(r) PROVE StillSo(r)'
  <2>1. req[r].step \in {"select", "update", "user", "password", "remove"}
          => req[r].registration \in Registrations
    BY DEF IInv, Copies, Holds, BeforeMail, Verifying
  <2>2. IsUser(req[r].account)' <=> IsUser(req[r].account)
    BY <1>0 DEF IsUser
  <2> QED BY <1>0, <1>2, <1>4, <2>1, <2>2 DEF StillSo, SameAccounts, Present
<1> QED BY <1>0, <1>2, <1>3, <1>4, SameKept, AroundSerial

LEMMA SerialKept == IInv /\ SerialInv /\ [Next]_vars => SerialInv'
<1> SUFFICES ASSUME IInv, SerialInv, [Next]_vars PROVE SerialInv'
  OBVIOUS
<1>1. ASSUME NEW r \in Requests, Step(r) PROVE SerialInv'
  <2>1. ASSUME Insert(r) \/ SaveReinsert(r) PROVE SerialInv'
    BY <2>1, InsertSerial DEF Insert, SaveReinsert, At
  <2> QED BY <1>1, <2>1, CheckSerial, MailSerial, SelectSerial, UpdateSerial, CreateUserSerial,
             CreatePasswordSerial, RemoveSerial DEF Step
<1>2. ASSUME NEW r \in Requests, Abort(r) PROVE SerialInv'
  BY <1>2, IdleQuiet DEF Abort, At
<1>3. CASE UNCHANGED vars
  <2>1. UNCHANGED <<registration, user, req, overlapped, failed>>
    BY <1>3 DEF vars, history
  <2>2. OneRow' /\ (NothingLost => NothingLost') /\ (OnlyWhileVerifying => OnlyWhileVerifying')
    BY <2>1 DEF SerialInv, OneRow, NothingLost, OnlyWhileVerifying, Present, IsRegistered, IsUser
  <2>3. ASSUME NEW r \in Requests, StillSo(r) PROVE StillSo(r)'
    BY <2>1, <2>3 DEF StillSo, Present, IsUser
  <2> QED BY <2>1, <2>2, <2>3, AroundSerial
<1> QED BY <1>1, <1>2, <1>3, BeginSerial, DeleteUserSerial, ExpireSerial DEF Next

LEMMA SerialInit == Init => SerialInv
<1> SUFFICES ASSUME Init PROVE SerialInv
  OBVIOUS
<1>1. /\ \A r \in Requests : req[r].step = "idle"
      /\ \A g \in Registrations : registration[g].pending = FALSE
      /\ \A u \in Users : user[u].state = "unused"
  BY DEF Init
<1>2. OneRow /\ Alone /\ NothingLost /\ OnlyWhileVerifying
  BY <1>1 DEF OneRow, Alone, NothingLost, OnlyWhileVerifying, Present, IsRegistered
<1>3. \A r \in Requests : StillSo(r)
  BY <1>1 DEF StillSo
<1> QED BY <1>2, <1>3 DEF SerialInv, SerialPart

LEMMA SerialInvariant == Spec => []SerialInv
BY Invariant, SerialInit, SerialKept, PTL DEF Spec

(* Where requests came one at a time and ran to their ends, an account is a
   registration or a user and never both, with any number of each: signUp
   refuses a user, verifyEmail removes the row it was shown, and a resend
   never brings back a row that is gone.                                     *)
THEOREM AccountInOnePlace == Spec => []OnePlace
<1>1. SerialInv => OnePlace
  BY DEF SerialInv, SerialPart, OnlyWhileVerifying, OnePlace, At
<1> QED BY <1>1, SerialInvariant, PTL

(* Where requests came one at a time, wherever each of them stopped, a user
   without a password still has the registration to verify again: nothing
   that the person had entered is lost between the three writes of verifyEmail. *)
THEOREM StoppedVerifyLosesNothing == Spec => []PasswordlessKeepsRegistration
<1>1. SerialInv => PasswordlessKeepsRegistration
  BY DEF SerialInv, SerialPart, NothingLost, PasswordlessKeepsRegistration
<1> QED BY <1>1, SerialInvariant, PTL
===============================================================================
