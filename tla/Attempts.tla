------------------------------- MODULE Attempts -------------------------------
(***************************************************************************)
(* The attempts on one account: failed passwords and failed MFA codes are  *)
(* counted on the user row, a counter at its maximum refuses further       *)
(* attempts for a cooldown, failed passwords at a second threshold lock    *)
(* the account, and a password reset unlocks it.                           *)
(*                                                                         *)
(* A handler decides on the copy of the user it loaded at its start; the   *)
(* counters are incremented by an UPDATE that returns the new value.  Time *)
(* is the age of the last failure, which is all that the code asks for.    *)
(***************************************************************************)
EXTENDS Naturals, FiniteSets

CONSTANTS Requests,    \* handlers that may run together
          MaxAttempts, \* PRIMARY_AUTH_MAX_ATTEMPTS and MFA_AUTH_MAX_ATTEMPTS
          Cooldown,    \* PRIMARY_AUTH_COOLDOWN_SEC and MFA_AUTH_COOLDOWN_SEC, in ticks
          Threshold,   \* PRIMARY_AUTH_LOCK_ACCOUNT_THRESHOLD
          MaxCount,    \* bound: the counters are not followed beyond it
          Factors,     \* the factors that are attempted in a run
          Faults       \* TRUE: any statement may fail and end its request

\* A maximum of zero would refuse, and a threshold of zero lock, without any failure.
ASSUME LimitsAssumption == /\ MaxAttempts \in Nat \ {0} /\ Cooldown \in Nat /\ Threshold \in Nat \ {0}
                           /\ MaxCount \in Nat /\ MaxCount > MaxAttempts /\ MaxCount >= Threshold
ASSUME RequestsAssumption == IsFiniteSet(Requests)
ASSUME FactorsAssumption == Factors \subseteq {"password", "totp"} /\ Faults \in BOOLEAN

VARIABLES count,      \* primaryFailedAttemptCount, mfaFailedAttemptCount
          age,        \* ticks since the last failure; Cooldown: none, or long ago
          lockReason, \* user.lockReason, "none" for an account that is not locked
          tested,     \* history: wrong values tested since the counter was cleared
          burst,      \* history: those of them since the cooldown last ran out
          failed,     \* history: a request did not run to its end; ends the other two
          req         \* the requests in flight

history == <<tested, burst, failed>>
vars == <<count, age, lockReason, history, req>>

-------------------------------------------------------------------------------
(* Types *)

AllFactors == {"password", "totp"}
Reasons == {"none", "tooManyAttempts", "suspiciousActivity"}
Counts == 0..MaxCount
Steps == {"idle", "test", "record", "threshold", "lock", "clear",
          "unlock", "clearPassword", "clearTotp"}
Request == [step: Steps, factor: AllFactors, wrong: BOOLEAN, count: Counts]
New(step, factor, wrong) == [step |-> step, factor |-> factor, wrong |-> wrong, count |-> 0]
Idle == New("idle", "password", FALSE)

TypeOK ==
  /\ count \in [AllFactors -> Counts]
  /\ age \in [AllFactors -> 0..Cooldown]
  /\ lockReason \in Reasons
  /\ tested \in [AllFactors -> Counts]
  /\ burst \in [AllFactors -> Counts]
  /\ failed \in BOOLEAN
  /\ req \in [Requests -> Request]

-------------------------------------------------------------------------------
(* Helpers *)

At(r, step) == req[r].step = step
Goto(r, step) == req' = [req EXCEPT ![r].step = step]
Done(r) == req' = [req EXCEPT ![r] = Idle]

\* Bound: counting stops at MaxCount.
Plus1(n) == IF n < MaxCount THEN n + 1 ELSE n

IsCooldownExpired(f) == age[f] = Cooldown
IsTemporarilyLocked(f) == count[f] >= MaxAttempts /\ ~IsCooldownExpired(f)

\* resetPasswordAttempts, resetMfaAttempts; the histories start again with the counter.
Clear(f) ==
  /\ count' = [count EXCEPT ![f] = 0]
  /\ age' = [age EXCEPT ![f] = Cooldown]
  /\ tested' = [tested EXCEPT ![f] = 0]
  /\ burst' = [burst EXCEPT ![f] = 0]

-------------------------------------------------------------------------------
(* primaryAuthPassword and mfaAuthTotpValidate.  A refused attempt changes   *)
(* no counter; the user is loaded and refused in one step.                   *)

BeginPassword(r, wrong) ==
  /\ At(r, "idle") /\ "password" \in Factors
  /\ lockReason = "none"
  /\ ~IsTemporarilyLocked("password")
  /\ req' = [req EXCEPT ![r] = New("test", "password", wrong)]
  /\ UNCHANGED <<count, age, lockReason, history>>

\* Mutant: an attempt during the cooldown is an attempt like any other.
BeginTotpAlways(r, wrong) ==
  /\ At(r, "idle") /\ "totp" \in Factors
  /\ lockReason = "none"
  /\ req' = [req EXCEPT ![r] = New("test", "totp", wrong)]
  /\ UNCHANGED <<count, age, lockReason, history>>

BeginTotp(r, wrong) ==
  /\ At(r, "idle") /\ "totp" \in Factors
  /\ lockReason = "none"
  /\ ~IsTemporarilyLocked("totp")
  /\ req' = [req EXCEPT ![r] = New("test", "totp", wrong)]
  /\ UNCHANGED <<count, age, lockReason, history>>

\* verifyUserPassword or validateTotpForUser: the value is found right or wrong.
Test(r) ==
  LET f == req[r].factor IN
  /\ At(r, "test")
  /\ IF req[r].wrong
     THEN /\ tested' = [tested EXCEPT ![f] = IF failed THEN 0 ELSE Plus1(@)]
          /\ burst' = [burst EXCEPT ![f] = IF failed THEN 0 ELSE Plus1(@)]
          /\ Goto(r, "record")
     ELSE Goto(r, "clear") /\ UNCHANGED <<tested, burst>>
  /\ UNCHANGED <<count, age, lockReason, failed>>

\* Mutant: the counter stops at the maximum.
RecordFailedPasswordCapped(r) ==
  /\ At(r, "record") /\ req[r].factor = "password"
  /\ count' = [count EXCEPT !["password"] = IF @ < MaxAttempts THEN @ + 1 ELSE @]
  /\ age' = [age EXCEPT !["password"] = 0]
  /\ req' = [req EXCEPT ![r].step = "threshold", ![r].count = count'["password"]]
  /\ UNCHANGED <<lockReason, history>>

\* UPDATE ... SET count = count + 1 RETURNING count
RecordFailedPassword(r) ==
  /\ At(r, "record") /\ req[r].factor = "password"
  /\ count' = [count EXCEPT !["password"] = Plus1(@)]
  /\ age' = [age EXCEPT !["password"] = 0]
  /\ req' = [req EXCEPT ![r].step = "threshold", ![r].count = count'["password"]]
  /\ UNCHANGED <<lockReason, history>>

\* Mutant: the date of the failure is not written.
RecordFailedMfaUndated(r) ==
  /\ At(r, "record") /\ req[r].factor = "totp"
  /\ count' = [count EXCEPT !["totp"] = Plus1(@)]
  /\ Done(r)
  /\ UNCHANGED <<age, lockReason, history>>

RecordFailedMfa(r) ==
  /\ At(r, "record") /\ req[r].factor = "totp"
  /\ count' = [count EXCEPT !["totp"] = Plus1(@)]
  /\ age' = [age EXCEPT !["totp"] = 0]
  /\ Done(r)
  /\ UNCHANGED <<lockReason, history>>

\* Mutant: the threshold itself does not lock yet.
CompareAbove(r) ==
  /\ At(r, "threshold")
  /\ IF req[r].count > Threshold THEN Goto(r, "lock") ELSE Done(r)
  /\ UNCHANGED <<count, age, lockReason, history>>

\* The threshold is read from the settings before it is compared.
Compare(r) ==
  /\ At(r, "threshold")
  /\ IF req[r].count >= Threshold THEN Goto(r, "lock") ELSE Done(r)
  /\ UNCHANGED <<count, age, lockReason, history>>

\* lock() finds no reason on the copy, which was not locked, and writes.
Lock(r) ==
  /\ At(r, "lock")
  /\ lockReason' = "tooManyAttempts"
  /\ Done(r)
  /\ UNCHANGED <<count, age, history>>

ClearAttempts(r) ==
  /\ At(r, "clear")
  /\ Clear(req[r].factor)
  /\ Done(r)
  /\ UNCHANGED <<lockReason, failed>>

-------------------------------------------------------------------------------
(* resetPassword, after the new password is stored: what unlocks, decided on *)
(* the copy loaded before the token was consumed.                            *)

BeginReset(r) ==
  /\ At(r, "idle")
  /\ lockReason = "tooManyAttempts"
  /\ req' = [req EXCEPT ![r] = New("unlock", "password", FALSE)]
  /\ UNCHANGED <<count, age, lockReason, history>>

Unlock(r) ==
  /\ At(r, "unlock")
  /\ lockReason' = "none"
  /\ Goto(r, "clearPassword")
  /\ UNCHANGED <<count, age, history>>

ResetPasswordAttempts(r) ==
  /\ At(r, "clearPassword")
  /\ Clear("password")
  /\ Goto(r, "clearTotp")
  /\ UNCHANGED <<lockReason, failed>>

ResetMfaAttempts(r) ==
  /\ At(r, "clearTotp")
  /\ Clear("totp")
  /\ Done(r)
  /\ UNCHANGED <<lockReason, failed>>

-------------------------------------------------------------------------------
(* Around the handlers *)

\* The reuse handler of the refresh tokens locks, over any lesser reason.
LockSuspicious ==
  /\ lockReason # "suspiciousActivity"
  /\ lockReason' = "suspiciousActivity"
  /\ UNCHANGED <<count, age, history, req>>

\* Time passes; a cooldown that runs out starts a new burst.
Tick ==
  /\ \E f \in AllFactors : age[f] < Cooldown
  /\ age' = [f \in AllFactors |-> IF age[f] < Cooldown THEN age[f] + 1 ELSE Cooldown]
  /\ burst' = [f \in AllFactors |-> IF age[f] + 1 = Cooldown THEN 0 ELSE burst[f]]
  /\ UNCHANGED <<count, lockReason, tested, failed, req>>

\* A statement fails or the process ends: the rest of the handler does not run.
Abort(r) ==
  /\ Faults
  /\ ~At(r, "idle")
  /\ failed' = TRUE
  /\ tested' = [f \in AllFactors |-> 0]
  /\ burst' = [f \in AllFactors |-> 0]
  /\ Done(r)
  /\ UNCHANGED <<count, age, lockReason>>

-------------------------------------------------------------------------------
(* The specification *)

Init ==
  /\ count = [f \in AllFactors |-> 0]
  /\ age = [f \in AllFactors |-> Cooldown]
  /\ lockReason = "none"
  /\ tested = [f \in AllFactors |-> 0]
  /\ burst = [f \in AllFactors |-> 0]
  /\ failed = FALSE
  /\ req = [r \in Requests |-> Idle]

Attempt(r) ==
  \/ \E wrong \in BOOLEAN : BeginPassword(r, wrong) \/ BeginTotp(r, wrong)
  \/ Test(r) \/ RecordFailedPassword(r) \/ RecordFailedMfa(r)
  \/ Compare(r) \/ Lock(r) \/ ClearAttempts(r)

Reset(r) == BeginReset(r) \/ Unlock(r) \/ ResetPasswordAttempts(r) \/ ResetMfaAttempts(r)

Next ==
  \/ \E r \in Requests : Attempt(r) \/ Reset(r) \/ Abort(r)
  \/ LockSuspicious
  \/ Tick

\* Time goes on; nobody has to attempt, to answer or to reset anything.
Spec == Init /\ [][Next]_vars /\ WF_vars(Tick)

-------------------------------------------------------------------------------
(* Properties *)

Untested(f) == {r \in Requests : At(r, "test") /\ req[r].factor = f /\ req[r].wrong}
Unrecorded(f) == {r \in Requests : At(r, "record") /\ req[r].factor = f}

\* However attempts overlap, each wrong value tested is counted (the increment is
\* made in the database), until a success or a reset clears the counter.
EveryFailureCounts ==
  ~failed => \A f \in AllFactors :
    \/ count[f] = MaxCount
    \/ tested[f] <= count[f] + Cardinality(Unrecorded(f))

\* At most MaxAttempts wrong values are tested between two cooldowns, and one more
\* for each request beside: those that loaded the user before the last failure was
\* recorded (isPasswordTemporarilyLocked, isMfaTemporarilyLocked).
BurstBounded ==
  ~failed => \A f \in AllFactors :
    burst[f] + Cardinality(Untested(f)) <= MaxAttempts - 1 + Cardinality(Requests)

\* An account whose failed passwords have reached the lock threshold is locked, or
\* the request that locks it, or the reset that clears the count, is on its way.
ThresholdReachedLocks ==
  (~failed /\ count["password"] >= Threshold) =>
    \/ lockReason # "none"
    \/ \E r \in Requests : req[r].step \in {"threshold", "lock", "clearPassword"}

\* A cooldown ends, however many attempts are made meanwhile: those that it refuses
\* do not extend it, and those that it does not refuse are few.
CooldownEnds ==
  \A f \in AllFactors : IsTemporarilyLocked(f) ~> ~IsTemporarilyLocked(f)
===============================================================================
