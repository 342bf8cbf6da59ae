---------------------------- MODULE MultiFactorAuth ----------------------------
(***************************************************************************)
(* The multi_factor_auth row of one user: setup, verify and disable of     *)
(* MultiFactorAuthService, each a read of the row, an await or more, and a *)
(* write that takes no account of what the row has become.  The password   *)
(* that opens every handler is verified before, and changes nothing here.  *)
(*                                                                         *)
(* A row has its own secret, so a code is named by the row it was made     *)
(* for; a set of recovery codes is named by the verification that drew it. *)
(***************************************************************************)
EXTENDS Naturals, FiniteSets

CONSTANTS Requests, \* handlers that may run together
          MaxRows,  \* bound: rows that may be inserted
          MaxCodes, \* bound: sets of recovery codes that may be drawn
          Faults    \* TRUE: any statement may fail and end its request

ASSUME RequestsAssumption == IsFiniteSet(Requests)
ASSUME BoundAssumption == MaxRows \in Nat /\ MaxCodes \in Nat /\ Faults \in BOOLEAN

VARIABLES row,        \* table multi_factor_auth, the rows of this user
          made,       \* the rows inserted so far, numbered in order
          shown,      \* secrets the user was shown, as QR codes
          codes,      \* the sets of recovery codes drawn so far
          told,       \* the recovery codes the user was told last, 0 for none
          signedIn,   \* the user has refresh tokens
          proved,     \* history: rows a code of whose secret was accepted by verify
          removed,    \* history: rows that disable has removed
          contested,  \* history: those of them that were being verified just then
          overlapped, \* history: two requests have been in flight together
          failed,     \* history: a request did not run to its end
          req         \* the requests in flight

history == <<proved, removed, contested, overlapped, failed>>
vars == <<row, made, shown, codes, told, signedIn, history, req>>

-------------------------------------------------------------------------------
(* Types *)

Rows == 1..MaxRows
Row == [present: BOOLEAN, verified: BOOLEAN, codes: 0..MaxCodes]
NoRow == [present |-> FALSE, verified |-> FALSE, codes |-> 0]
NewRow == [present |-> TRUE, verified |-> FALSE, codes |-> 0]

Steps == {"idle", "remove", "insert", "show", "hash", "select", "update", "reinsert", "tell",
          "disable", "refreshTokens", "tokens"}
Request == [step: Steps, row: 0..MaxRows, codes: 0..MaxCodes]
Idle == [step |-> "idle", row |-> 0, codes |-> 0]

TypeOK ==
  /\ row \in [Rows -> Row]
  /\ made \in 0..MaxRows
  /\ shown \in SUBSET Rows
  /\ codes \in 0..MaxCodes
  /\ told \in 0..MaxCodes
  /\ signedIn \in BOOLEAN
  /\ proved \in SUBSET Rows
  /\ removed \in SUBSET Rows
  /\ contested \in SUBSET Rows
  /\ overlapped \in BOOLEAN
  /\ failed \in BOOLEAN
  /\ req \in [Requests -> Request]

-------------------------------------------------------------------------------
(* Helpers *)

At(r, step) == req[r].step = step
Goto(r, step) == req' = [req EXCEPT ![r].step = step]
Done(r) == req' = [req EXCEPT ![r] = Idle]

Starts(r) ==
  /\ At(r, "idle")
  /\ overlapped' = (overlapped \/ \E s \in Requests \ {r} : ~At(s, "idle"))
  /\ UNCHANGED <<proved, removed, contested, failed>>

Present == {i \in Rows : row[i].present}
Enabled == {i \in Present : row[i].verified}

\* Bound: a setup starts with a row left for it.
Inserting == {r \in Requests : req[r].step \in {"remove", "insert"}}
HasRoom == MaxRows - made > Cardinality(Inserting)

-------------------------------------------------------------------------------
(* setup *)

BeginSetup(r) ==
  /\ Starts(r)
  /\ HasRoom
  /\ \/ /\ Present = {}
        /\ req' = [req EXCEPT ![r].step = "insert"]
     \/ \E i \in Present \ Enabled :
          req' = [req EXCEPT ![r].step = "remove", ![r].row = i]
  /\ UNCHANGED <<row, made, shown, codes, told, signedIn>>

\* remove(existing): by id, whatever the row is by now.
SetupRemove(r) ==
  /\ At(r, "remove")
  /\ row' = [row EXCEPT ![req[r].row] = NoRow]
  /\ req' = [req EXCEPT ![r].step = "insert", ![r].row = 0]
  /\ UNCHANGED <<made, shown, codes, told, signedIn, history>>

\* The unique user_id refuses a second row.
SetupInsert(r) ==
  /\ At(r, "insert")
  /\ IF Present = {}
     THEN /\ made' = made + 1
          /\ row' = [row EXCEPT ![made'] = NewRow]
          /\ req' = [req EXCEPT ![r].step = "show", ![r].row = made']
     ELSE Done(r) /\ UNCHANGED <<row, made>>
  /\ UNCHANGED <<shown, codes, told, signedIn, history>>

SetupShow(r) ==
  /\ At(r, "show")
  /\ shown' = shown \union {req[r].row}
  /\ Done(r)
  /\ UNCHANGED <<row, made, codes, told, signedIn, history>>

-------------------------------------------------------------------------------
(* verify, with a code made from a secret that was shown *)

\* Mutant: a code of any secret that was shown will do, no row is looked for.
BeginVerifyShown(r) ==
  /\ At(r, "idle")
  /\ overlapped' = (overlapped \/ \E s \in Requests \ {r} : ~At(s, "idle"))
  /\ codes < MaxCodes
  /\ codes' = codes + 1
  /\ \E i \in shown :
       /\ proved' = proved \union {i}
       /\ req' = [req EXCEPT ![r].step = "hash", ![r].row = i, ![r].codes = codes + 1]
  /\ UNCHANGED <<row, made, shown, told, signedIn, removed, contested, failed>>

BeginVerify(r) ==
  /\ At(r, "idle")
  /\ overlapped' = (overlapped \/ \E s \in Requests \ {r} : ~At(s, "idle"))
  /\ codes < MaxCodes
  /\ codes' = codes + 1
  /\ \E i \in Present \intersect shown :
       /\ proved' = proved \union {i}
       /\ req' = [req EXCEPT ![r].step = "hash", ![r].row = i, ![r].codes = codes + 1]
  /\ UNCHANGED <<row, made, shown, told, signedIn, removed, contested, failed>>

\* The ten recovery codes are hashed; then save() looks the id up.
HashCodes(r) ==
  /\ At(r, "hash")
  /\ Goto(r, "select")
  /\ UNCHANGED <<row, made, shown, codes, told, signedIn, history>>

SaveSelect(r) ==
  /\ At(r, "select")
  /\ Goto(r, IF row[req[r].row].present THEN "update" ELSE "reinsert")
  /\ UNCHANGED <<row, made, shown, codes, told, signedIn, history>>

\* Mutant: whatever row the user has is verified.
SaveUpdateByUser(r) ==
  /\ At(r, "update")
  /\ row' = [i \in Rows |-> IF row[i].present
                            THEN [row[i] EXCEPT !.verified = TRUE, !.codes = req[r].codes]
                            ELSE row[i]]
  /\ Goto(r, "tell")
  /\ UNCHANGED <<made, shown, codes, told, signedIn, history>>

\* Mutant: the hashes are computed for the answer and not stored.
SaveUpdateFlag(r) ==
  /\ At(r, "update")
  /\ row' = [row EXCEPT ![req[r].row].verified = row[req[r].row].present]
  /\ Goto(r, "tell")
  /\ UNCHANGED <<made, shown, codes, told, signedIn, history>>

SaveUpdate(r) ==
  /\ At(r, "update")
  /\ row' = IF row[req[r].row].present
            THEN [row EXCEPT ![req[r].row].verified = TRUE, ![req[r].row].codes = req[r].codes]
            ELSE row
  /\ Goto(r, "tell")
  /\ UNCHANGED <<made, shown, codes, told, signedIn, history>>

\* The whole copy is inserted, verified, unless the user has a row by now.
SaveReinsert(r) ==
  /\ At(r, "reinsert")
  /\ IF Present = {}
     THEN /\ row' = [row EXCEPT ![req[r].row] =
                       [present |-> TRUE, verified |-> TRUE, codes |-> req[r].codes]]
          /\ Goto(r, "tell")
     ELSE Done(r) /\ UNCHANGED row
  /\ UNCHANGED <<made, shown, codes, told, signedIn, history>>

Tell(r) ==
  /\ At(r, "tell")
  /\ told' = req[r].codes
  /\ Done(r)
  /\ UNCHANGED <<row, made, shown, codes, signedIn, history>>

-------------------------------------------------------------------------------
(* disable *)

BeginDisable(r) ==
  /\ Starts(r)
  /\ \E i \in Enabled \intersect shown :
       req' = [req EXCEPT ![r].step = "disable", ![r].row = i]
  /\ UNCHANGED <<row, made, shown, codes, told, signedIn>>

\* A verification of row i is under way, its code accepted and its row not yet saved.
Verifying(i) ==
  \E s \in Requests : req[s].step \in {"hash", "select", "reinsert"} /\ req[s].row = i

\* What the histories keep of the removal of row i.
Count(i) ==
  /\ removed' = removed \union {i}
  /\ contested' = IF Verifying(i) THEN contested \union {i} ELSE contested \ {i}

Disable(r) ==
  /\ At(r, "disable")
  /\ row' = [row EXCEPT ![req[r].row] = NoRow]
  /\ Count(req[r].row)
  /\ Goto(r, "refreshTokens")
  /\ UNCHANGED <<made, shown, codes, told, signedIn, proved, overlapped, failed>>

\* Mutant: only the one-time tokens are revoked.
DisableKeepSignedIn(r) ==
  /\ At(r, "refreshTokens")
  /\ Goto(r, "tokens")
  /\ UNCHANGED <<row, made, shown, codes, told, signedIn, history>>

\* revokeAllForUser of the refresh tokens
DisableSignOut(r) ==
  /\ At(r, "refreshTokens")
  /\ signedIn' = FALSE
  /\ Goto(r, "tokens")
  /\ UNCHANGED <<row, made, shown, codes, told, history>>

\* revokeAllForUser of the one-time tokens, modelled in Passwords.
DisableTokens(r) ==
  /\ At(r, "tokens")
  /\ Done(r)
  /\ UNCHANGED <<row, made, shown, codes, told, signedIn, history>>

-------------------------------------------------------------------------------
(* Around the handlers *)

SignIn ==
  /\ ~signedIn
  /\ signedIn' = TRUE
  /\ UNCHANGED <<row, made, shown, codes, told, history, req>>

\* A statement fails or the process ends: what was written stays written.
Abort(r) ==
  /\ Faults
  /\ ~At(r, "idle")
  /\ failed' = TRUE
  /\ Done(r)
  /\ UNCHANGED <<row, made, shown, codes, told, signedIn, proved, removed, contested, overlapped>>

-------------------------------------------------------------------------------
(* The specification *)

Init ==
  /\ row = [i \in Rows |-> NoRow]
  /\ made = 0
  /\ shown = {}
  /\ codes = 0
  /\ told = 0
  /\ signedIn = FALSE
  /\ proved = {}
  /\ removed = {}
  /\ contested = {}
  /\ overlapped = FALSE
  /\ failed = FALSE
  /\ req = [r \in Requests |-> Idle]

Step(r) ==
  \/ SetupRemove(r) \/ SetupInsert(r) \/ SetupShow(r)
  \/ HashCodes(r) \/ SaveSelect(r) \/ SaveUpdate(r) \/ SaveReinsert(r) \/ Tell(r)
  \/ Disable(r) \/ DisableSignOut(r) \/ DisableTokens(r)

Next ==
  \/ \E r \in Requests : \/ BeginSetup(r) \/ BeginVerify(r) \/ BeginDisable(r)
                         \/ Step(r) \/ Abort(r)
  \/ SignIn

\* A handler whose statement was answered goes on.
Fairness == \A r \in Requests : WF_vars(Step(r))

Spec == Init /\ [][Next]_vars /\ Fairness

-------------------------------------------------------------------------------
(* Properties *)

Quiet == \A r \in Requests : At(r, "idle")

\* However setups, verifications and disablings interleave and fail, MFA is on only
\* with a secret that a code was shown for: nobody is locked out by a QR code that
\* was never scanned (the save of a copy that is not the user's row any more).
EnabledMeansProved == Enabled \subseteq proved

(* However requests interleave and fail, a row that disable has removed comes back
   only through the save of a verification that was under way just then: no setup,
   no verification of an older QR code and no second save revives it later.       *)
DisabledStaysOff == \A i \in removed \ contested : ~row[i].present

\* Where requests did not overlap or fail, the recovery codes of the row are those
\* the user was told last.
ToldCodesStored ==
  (~overlapped /\ ~failed /\ Quiet) => \A i \in Enabled : row[i].codes = told

\* A user whose MFA is turned off is signed out by the same request, however
\* requests overlap, unless a statement failed.
DisableSignsOut ==
  \A r \in Requests : At(r, "disable") ~> (failed \/ ~signedIn)
===============================================================================
