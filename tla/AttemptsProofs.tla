---------------------------- MODULE AttemptsProofs ----------------------------
(***************************************************************************)
(* Proofs, for any number of requests and any limits, that Attempts is     *)
(* well typed, that a user whose failed passwords have reached the lock    *)
(* threshold is locked or about to be, that no failed attempt goes         *)
(* uncounted, and how many attempts fit between two cooldowns.             *)
(*                                                                         *)
(* ThresholdReachedLocks is not inductive: it lets a request stand at the  *)
(* comparison that will find its count too small. LockFollows names the    *)
(* count that this request holds.                                          *)
(*                                                                         *)
(* EveryFailureCounts and BurstBounded compare history variables with      *)
(* numbers of requests. A step takes a request aside, to the test of the   *)
(* value, to the record of a failure, or back, or clears a counter; each   *)
(* kind moves the two sides of Counted and Few together.                   *)
(***************************************************************************)
EXTENDS Attempts, FiniteSetTheorems, TLAPS

Follows(r) ==
  \/ req[r].step = "threshold" /\ req[r].count >= Threshold
  \/ req[r].step \in {"lock", "clearPassword"}

LockFollows ==
  (~failed /\ count["password"] >= Threshold) =>
    lockReason # "none" \/ \E r \in Requests : Follows(r)

IInv == TypeOK /\ LockFollows

HandlerStep(r) == Attempt(r) \/ Reset(r) \/ Abort(r)

-------------------------------------------------------------------------------
LEMMA CountTyped ==
  /\ 0 \in Counts
  /\ \A n \in Counts : Plus1(n) \in Counts
BY LimitsAssumption DEF Counts, Plus1

LEMMA IdleTyped == Idle \in Request
BY CountTyped DEF Idle, New, Request, Steps, AllFactors

(* The counters, dates and histories of both factors.                        *)
Data ==
  /\ count \in [AllFactors -> Counts] /\ age \in [AllFactors -> 0..Cooldown]
  /\ tested \in [AllFactors -> Counts] /\ burst \in [AllFactors -> Counts]
  /\ lockReason \in Reasons /\ failed \in BOOLEAN

LEMMA ClearTyped == ASSUME Data, NEW f, Clear(f), UNCHANGED <<lockReason, failed>> PROVE Data'
<1>1. 0 \in Counts /\ Cooldown \in 0..Cooldown
  BY CountTyped, LimitsAssumption
<1> QED BY <1>1 DEF Data, Clear

LEMMA ClearTypedAny ==
  ASSUME Data, NEW f, Clear(f), lockReason' \in Reasons, failed' = failed PROVE Data'
<1>1. 0 \in Counts /\ Cooldown \in 0..Cooldown
  BY CountTyped, LimitsAssumption
<1> QED BY <1>1 DEF Data, Clear

(* Every action of a request keeps the types.                                *)
LEMMA TypesKept ==
  ASSUME TypeOK, NEW r \in Requests, HandlerStep(r)
  PROVE  TypeOK'
<1>0. Data /\ req \in [Requests -> Request] /\ req[r] \in Request
  BY DEF TypeOK, Data
<1>a. /\ Idle \in Request /\ 0 \in Counts /\ 0 \in 0..Cooldown
      /\ \A n \in Counts : Plus1(n) \in Counts
      /\ \A wrong \in BOOLEAN, f \in AllFactors : New("test", f, wrong) \in Request
      /\ New("unlock", "password", FALSE) \in Request
      /\ AllFactors = {"password", "totp"}
  BY IdleTyped, CountTyped, LimitsAssumption DEF New, Request, Steps, AllFactors
<1>1. ASSUME NEW wrong \in BOOLEAN, BeginPassword(r, wrong) PROVE TypeOK'
  <2>1. Data'
    BY <1>0, <1>a, <1>1 DEF BeginPassword, Data, history, AllFactors, Reasons
  <2>2. req' \in [Requests -> Request]
    BY <1>0, <1>a, <1>1 DEF BeginPassword
  <2> QED BY <2>1, <2>2 DEF Data, TypeOK
<1>2. ASSUME NEW wrong \in BOOLEAN, BeginTotp(r, wrong) PROVE TypeOK'
  <2>1. Data'
    BY <1>0, <1>a, <1>2 DEF BeginTotp, Data, history, AllFactors, Reasons
  <2>2. req' \in [Requests -> Request]
    BY <1>0, <1>a, <1>2 DEF BeginTotp
  <2> QED BY <2>1, <2>2 DEF Data, TypeOK
<1>3. CASE Test(r)
  <2>1. Data'
    <3> DEFINE f == req[r].factor
    <3>1. f \in AllFactors
      BY <1>0 DEF Request
    <3>2. \/ tested' = tested /\ burst' = burst
          \/ /\ tested' = [tested EXCEPT ![f] = IF failed THEN 0 ELSE Plus1(tested[f])]
             /\ burst' = [burst EXCEPT ![f] = IF failed THEN 0 ELSE Plus1(burst[f])]
      BY <1>3 DEF Test
    <3>3. tested[f] \in Counts /\ burst[f] \in Counts
      BY <1>0, <3>1 DEF Data
    <3> HIDE DEF f
    <3>4. tested' \in [AllFactors -> Counts] /\ burst' \in [AllFactors -> Counts]
      BY <1>0, <1>a, <3>2, <3>3 DEF Data
    <3> QED BY <1>0, <1>3, <3>4 DEF Test, Data
  <2>2. req' \in [Requests -> Request]
    <3>1. req' = [req EXCEPT ![r].step = "record"] \/ req' = [req EXCEPT ![r].step = "clear"]
      BY <1>3 DEF Test, Goto
    <3> QED BY <1>0, <3>1 DEF Request, Steps
  <2> QED BY <2>1, <2>2 DEF Data, TypeOK
<1>4. CASE RecordFailedPassword(r)
  <2>1. Data'
    BY <1>0, <1>a, <1>4 DEF RecordFailedPassword, Data, history, AllFactors, Reasons
  <2>2. req' \in [Requests -> Request]
    <3>1. count'["password"] \in Counts
      BY <2>1 DEF Data, AllFactors
    <3>2. req' = [req EXCEPT ![r].step = "threshold", ![r].count = count'["password"]]
      BY <1>4 DEF RecordFailedPassword
    <3> QED BY <1>0, <3>1, <3>2 DEF Request, Steps
  <2> QED BY <2>1, <2>2 DEF Data, TypeOK
<1>5. CASE RecordFailedMfa(r)
  <2>1. Data'
    BY <1>0, <1>a, <1>5 DEF RecordFailedMfa, Data, history, AllFactors, Reasons
  <2>2. req' \in [Requests -> Request]
    BY <1>0, <1>a, <1>5 DEF RecordFailedMfa, Done
  <2> QED BY <2>1, <2>2 DEF Data, TypeOK
<1>6. CASE Compare(r)
  <2>1. Data'
    BY <1>0, <1>a, <1>6 DEF Compare, Data, history, AllFactors, Reasons
  <2>2. req' \in [Requests -> Request]
    <3>1. req' = [req EXCEPT ![r].step = "lock"] \/ req' = [req EXCEPT ![r] = Idle]
      BY <1>6 DEF Compare, Goto, Done
    <3>2. [req EXCEPT ![r].step = "lock"] \in [Requests -> Request]
      BY <1>0 DEF Request, Steps
    <3> QED BY <1>0, <1>a, <3>1, <3>2
  <2> QED BY <2>1, <2>2 DEF Data, TypeOK
<1>7. CASE Lock(r)
  <2>1. Data'
    BY <1>0, <1>a, <1>7 DEF Lock, Data, history, AllFactors, Reasons
  <2>2. req' \in [Requests -> Request]
    BY <1>0, <1>a, <1>7 DEF Lock, Done
  <2> QED BY <2>1, <2>2 DEF Data, TypeOK
<1>8. CASE ClearAttempts(r)
  <2>1. Data'
    BY <1>0, <1>8, ClearTyped DEF ClearAttempts
  <2>2. req' \in [Requests -> Request]
    BY <1>0, <1>a, <1>8 DEF ClearAttempts, Done
  <2> QED BY <2>1, <2>2 DEF Data, TypeOK
<1>9. CASE BeginReset(r)
  <2>1. Data'
    BY <1>0, <1>a, <1>9 DEF BeginReset, Data, history, AllFactors, Reasons
  <2>2. req' \in [Requests -> Request]
    BY <1>0, <1>a, <1>9 DEF BeginReset
  <2> QED BY <2>1, <2>2 DEF Data, TypeOK
<1>10. CASE Unlock(r)
  <2>1. Data'
    BY <1>0, <1>a, <1>10 DEF Unlock, Data, history, AllFactors, Reasons
  <2>2. req' \in [Requests -> Request]
    BY <1>0, <1>a, <1>10 DEF Unlock, Goto, Data, AllFactors, Request, Steps
  <2> QED BY <2>1, <2>2 DEF Data, TypeOK
<1>11. CASE ResetPasswordAttempts(r)
  <2>1. Data'
    BY <1>0, <1>11, ClearTyped DEF ResetPasswordAttempts
  <2>2. req' \in [Requests -> Request]
    BY <1>0, <1>a, <1>11 DEF ResetPasswordAttempts, Goto, Data, AllFactors, Request, Steps
  <2> QED BY <2>1, <2>2 DEF Data, TypeOK
<1>12. CASE ResetMfaAttempts(r)
  <2>1. Data'
    BY <1>0, <1>12, ClearTyped DEF ResetMfaAttempts
  <2>2. req' \in [Requests -> Request]
    BY <1>0, <1>a, <1>12 DEF ResetMfaAttempts, Done
  <2> QED BY <2>1, <2>2 DEF Data, TypeOK
<1>13. CASE Abort(r)
  <2>1. Data'
    BY <1>0, <1>a, <1>13 DEF Abort, Data, history, AllFactors, Reasons
  <2>2. req' \in [Requests -> Request]
    BY <1>0, <1>a, <1>13 DEF Abort, Done
  <2> QED BY <2>1, <2>2 DEF Data, TypeOK
<1> QED
  BY <1>1, <1>2, <1>3, <1>4, <1>5, <1>6, <1>7, <1>8, <1>9, <1>10, <1>11, <1>12, <1>13
  DEF HandlerStep, Attempt, Reset

LEMMA OthersUnchanged ==
  ASSUME TypeOK, NEW r \in Requests, HandlerStep(r)
  PROVE  \A s \in Requests \ {r} : req'[s] = req[s]
<1>1. ASSUME NEW wrong \in BOOLEAN, BeginPassword(r, wrong)
      PROVE  \A s \in Requests \ {r} : req'[s] = req[s]
  BY <1>1 DEF BeginPassword, Goto, Done, TypeOK
<1>2. ASSUME NEW wrong \in BOOLEAN, BeginTotp(r, wrong)
      PROVE  \A s \in Requests \ {r} : req'[s] = req[s]
  BY <1>2 DEF BeginTotp, Goto, Done, TypeOK
<1>3. CASE Test(r)
  BY <1>3 DEF Test, Goto, Done, TypeOK
<1>4. CASE RecordFailedPassword(r)
  BY <1>4 DEF RecordFailedPassword, Goto, Done, TypeOK
<1>5. CASE RecordFailedMfa(r)
  BY <1>5 DEF RecordFailedMfa, Goto, Done, TypeOK
<1>6. CASE Compare(r)
  BY <1>6 DEF Compare, Goto, Done, TypeOK
<1>7. CASE Lock(r)
  BY <1>7 DEF Lock, Goto, Done, TypeOK
<1>8. CASE ClearAttempts(r)
  BY <1>8 DEF ClearAttempts, Goto, Done, TypeOK
<1>9. CASE BeginReset(r)
  BY <1>9 DEF BeginReset, Goto, Done, TypeOK
<1>10. CASE Unlock(r)
  BY <1>10 DEF Unlock, Goto, Done, TypeOK
<1>11. CASE ResetPasswordAttempts(r)
  BY <1>11 DEF ResetPasswordAttempts, Goto, Done, TypeOK
<1>12. CASE ResetMfaAttempts(r)
  BY <1>12 DEF ResetMfaAttempts, Goto, Done, TypeOK
<1>13. CASE Abort(r)
  BY <1>13 DEF Abort, Goto, Done, TypeOK
<1> QED
  BY <1>1, <1>2, <1>3, <1>4, <1>5, <1>6, <1>7, <1>8, <1>9, <1>10, <1>11, <1>12, <1>13
  DEF HandlerStep, Attempt, Reset

(* A witness of LockFollows is lost only by its own step.                    *)
LEMMA WitnessStays ==
  ASSUME TypeOK, LockFollows, NEW r \in Requests, HandlerStep(r),
         failed' = failed, count'["password"] = count["password"], lockReason' = lockReason,
         Follows(r) => Follows(r)'
  PROVE  LockFollows'
<1>1. \A s \in Requests \ {r} : Follows(s) => Follows(s)'
  BY OthersUnchanged DEF Follows
<1> QED BY <1>1 DEF LockFollows

LEMMA LockFollowsKept ==
  ASSUME IInv, NEW r \in Requests, HandlerStep(r)
  PROVE  LockFollows'
<1>0. /\ TypeOK /\ LockFollows
      /\ \A s \in Requests \ {r} : req'[s] = req[s]
      /\ req \in [Requests -> Request] /\ req[r] \in Request
      /\ count \in [AllFactors -> Counts]
      /\ Counts \subseteq Nat /\ Threshold \in Nat \ {0}
  BY OthersUnchanged, LimitsAssumption DEF IInv, TypeOK, Counts
<1>1. ASSUME NEW wrong \in BOOLEAN, BeginPassword(r, wrong) PROVE LockFollows'
  <2>1. ~Follows(r) /\ count' = count /\ failed' = failed /\ lockReason' = lockReason
    BY <1>1 DEF BeginPassword, At, Follows, history
  <2> QED BY <1>0, <2>1, WitnessStays
<1>2. ASSUME NEW wrong \in BOOLEAN, BeginTotp(r, wrong) PROVE LockFollows'
  <2>1. ~Follows(r) /\ count' = count /\ failed' = failed /\ lockReason' = lockReason
    BY <1>2 DEF BeginTotp, At, Follows, history
  <2> QED BY <1>0, <2>1, WitnessStays
<1>3. CASE Test(r)
  <2>1. ~Follows(r) /\ count' = count /\ failed' = failed /\ lockReason' = lockReason
    BY <1>3 DEF Test, At, Follows, history
  <2> QED BY <1>0, <2>1, WitnessStays
<1>4. CASE RecordFailedPassword(r)
  <2>1. /\ req'[r].step = "threshold" /\ req'[r].count = count'["password"]
        /\ failed' = failed /\ lockReason' = lockReason
    BY <1>0, <1>4 DEF RecordFailedPassword, Request, history
  <2> QED BY <1>0, <2>1 DEF LockFollows, Follows
<1>5. CASE RecordFailedMfa(r)
  <2>1. count'["password"] = count["password"] /\ failed' = failed /\ lockReason' = lockReason
    BY <1>0, <1>5 DEF RecordFailedMfa, AllFactors, history
  <2>2. ~Follows(r)
    BY <1>5 DEF RecordFailedMfa, At, Follows
  <2> QED BY <1>0, <2>1, <2>2, WitnessStays
<1>6. CASE Compare(r)
  <2>1. count' = count /\ failed' = failed /\ lockReason' = lockReason
    BY <1>6 DEF Compare, history
  <2>2. Follows(r) => req' = [req EXCEPT ![r].step = "lock"]
    BY <1>0, <1>6 DEF Compare, At, Follows, Goto
  <2>3. Follows(r) => Follows(r)'
    BY <1>0, <2>2 DEF Follows, Request
  <2> QED BY <1>0, <2>1, <2>3, WitnessStays
<1>7. CASE Lock(r)
  BY <1>7 DEF Lock, LockFollows
<1>8. CASE ClearAttempts(r)
  <2>0. ~Follows(r) /\ failed' = failed /\ lockReason' = lockReason
    BY <1>8 DEF ClearAttempts, At, Follows
  <2>1. CASE req[r].factor = "password"
    <3>1. count'["password"] = 0
      BY <1>0, <1>8, <2>1 DEF ClearAttempts, Clear, AllFactors
    <3> QED BY <1>0, <3>1 DEF LockFollows
  <2>2. CASE req[r].factor # "password"
    <3>1. count'["password"] = count["password"]
      BY <1>0, <1>8, <2>2 DEF ClearAttempts, Clear, AllFactors
    <3> QED BY <1>0, <2>0, <3>1, WitnessStays
  <2> QED BY <2>1, <2>2
<1>9. CASE BeginReset(r)
  <2>1. ~Follows(r) /\ count' = count /\ failed' = failed /\ lockReason' = lockReason
    BY <1>9 DEF BeginReset, At, Follows, history
  <2> QED BY <1>0, <2>1, WitnessStays
<1>10. CASE Unlock(r)
  <2>1. req'[r].step = "clearPassword"
    BY <1>0, <1>10 DEF Unlock, Goto, Request
  <2> QED BY <2>1 DEF LockFollows, Follows
<1>11. CASE ResetPasswordAttempts(r)
  <2>1. count'["password"] = 0
    BY <1>0, <1>11 DEF ResetPasswordAttempts, Clear, AllFactors
  <2> QED BY <1>0, <2>1 DEF LockFollows
<1>12. CASE ResetMfaAttempts(r)
  <2>1. count'["password"] = count["password"] /\ failed' = failed /\ lockReason' = lockReason
    BY <1>0, <1>12 DEF ResetMfaAttempts, Clear, AllFactors
  <2>2. ~Follows(r)
    BY <1>12 DEF ResetMfaAttempts, At, Follows
  <2> QED BY <1>0, <2>1, <2>2, WitnessStays
<1>13. CASE Abort(r)
  BY <1>13 DEF Abort, LockFollows
<1> QED
  BY <1>1, <1>2, <1>3, <1>4, <1>5, <1>6, <1>7, <1>8, <1>9, <1>10, <1>11, <1>12, <1>13
  DEF HandlerStep, Attempt, Reset

LEMMA StepKept == IInv /\ [Next]_vars => IInv'
<1> SUFFICES ASSUME IInv, [Next]_vars PROVE IInv'
  OBVIOUS
<1>1. ASSUME NEW r \in Requests, HandlerStep(r) PROVE IInv'
  BY <1>1, TypesKept, LockFollowsKept DEF IInv
<1>2. CASE LockSuspicious
  <2>1. TypeOK'
    BY <1>2 DEF LockSuspicious, history, IInv, TypeOK, Reasons
  <2> QED BY <1>2, <2>1 DEF LockSuspicious, IInv, LockFollows
<1>3. CASE Tick
  <2>1. age' \in [AllFactors -> 0..Cooldown]
    <3>1. age \in [AllFactors -> 0..Cooldown]
      BY DEF IInv, TypeOK
    <3>2. \A n \in 0..Cooldown : (IF n < Cooldown THEN n + 1 ELSE Cooldown) \in 0..Cooldown
      BY LimitsAssumption
    <3> QED BY <1>3, <3>1, <3>2 DEF Tick
  <2>2. burst' \in [AllFactors -> Counts]
    BY <1>3, CountTyped DEF Tick, IInv, TypeOK
  <2>3. TypeOK'
    BY <1>3, <2>1, <2>2 DEF Tick, IInv, TypeOK
  <2> QED BY <1>3, <2>3 DEF Tick, IInv, LockFollows, Follows
<1>4. CASE UNCHANGED vars
  BY <1>4 DEF vars, history, IInv, TypeOK, LockFollows, Follows
<1> QED BY <1>1, <1>2, <1>3, <1>4 DEF Next, HandlerStep

LEMMA InitHolds == Init => IInv
<1> SUFFICES ASSUME Init PROVE IInv
  OBVIOUS
<1>1. TypeOK
  <2>1. Cooldown \in 0..Cooldown
    BY LimitsAssumption
  <2> QED BY <2>1, IdleTyped, CountTyped DEF Init, TypeOK, Reasons
<1>2. ~(count["password"] >= Threshold)
  BY LimitsAssumption DEF Init, AllFactors
<1> QED BY <1>1, <1>2 DEF IInv, LockFollows

LEMMA Invariant == Spec => []IInv
BY InitHolds, StepKept, PTL DEF Spec

(* The counters, the dates and every request stay in their types.            *)
THEOREM TypeCorrect == Spec => []TypeOK
<1>1. IInv => TypeOK
  BY DEF IInv
<1> QED BY <1>1, Invariant, PTL

(* An account with as many failed passwords as the threshold is locked, or a
   request is about to lock it or to clear the count, for any number of
   attempts and resets in flight.                                            *)
THEOREM FailuresLock == Spec => []ThresholdReachedLocks
<1>1. IInv => ThresholdReachedLocks
  BY DEF IInv, LockFollows, Follows, ThresholdReachedLocks
<1> QED BY <1>1, Invariant, PTL

-------------------------------------------------------------------------------
(* How many values are tested.  A value that was tested is counted, or its
   request has still to record it.  While no cooldown refuses attempts, the
   counted ones are below the maximum; and each request is at one place.     *)
Cools == Cooldown > 0

Counted(f) ==
  count[f] < MaxCount => /\ tested[f] <= count[f] + Cardinality(Unrecorded(f))
                         /\ burst[f] <= count[f] + Cardinality(Unrecorded(f))

Few(f) ==
  /\ IsCooldownExpired(f) => burst[f] <= Cardinality(Unrecorded(f))
  /\ burst[f] + Cardinality(Untested(f)) <= MaxAttempts - 1 + Cardinality(Requests)

CountInv == ~failed => \A f \in AllFactors : Counted(f) /\ (Cools => Few(f))

(* What a step of request r is to the counter of factor f.                   *)
Kept(f) == UNCHANGED <<count[f], age[f], tested[f], burst[f]>>

Apart(f) == UNCHANGED <<Untested(f), Unrecorded(f)>>

Aside(f) == Kept(f) /\ Apart(f)

Enters(r, f) ==
  /\ Kept(f) /\ ~IsTemporarilyLocked(f)
  /\ r \notin Untested(f) /\ r \notin Unrecorded(f)
  /\ Untested(f)' \subseteq Untested(f) \union {r} /\ Unrecorded(f)' = Unrecorded(f)

Fails(r, f) ==
  /\ UNCHANGED <<count[f], age[f]>>
  /\ tested'[f] <= tested[f] + 1 /\ burst'[f] <= burst[f] + 1
  /\ r \in Untested(f) /\ Untested(f)' = Untested(f) \ {r}
  /\ r \notin Unrecorded(f) /\ Unrecorded(f)' = Unrecorded(f) \union {r}

Records(r, f) ==
  /\ UNCHANGED <<tested[f], burst[f]>>
  /\ count'[f] = Plus1(count[f]) /\ age'[f] = 0
  /\ Untested(f)' = Untested(f)
  /\ r \in Unrecorded(f) /\ Unrecorded(f)' = Unrecorded(f) \ {r}

Clears(f) == tested'[f] = 0 /\ burst'[f] = 0 /\ count'[f] = 0 /\ Apart(f)

LEMMA Seats ==
  ASSUME NEW A \in SUBSET Requests, NEW B \in SUBSET Requests, A \intersect B = {}
  PROVE  /\ Cardinality(A) \in Nat /\ Cardinality(B) \in Nat /\ Cardinality(Requests) \in Nat
         /\ Cardinality(A) + Cardinality(B) <= Cardinality(Requests)
<1>1. IsFiniteSet(A) /\ IsFiniteSet(B)
  BY RequestsAssumption, FS_Subset
<1>2. /\ Cardinality(A) \in Nat /\ Cardinality(B) \in Nat /\ Cardinality(Requests) \in Nat
  BY <1>1, RequestsAssumption, FS_CardinalityType
<1>3. Cardinality(A \union B) = Cardinality(A) + Cardinality(B) - Cardinality(A \intersect B)
  BY <1>1, FS_Union
<1>4. Cardinality(A \intersect B) = 0
  BY FS_EmptySet
<1>5. A \union B \in SUBSET Requests
  OBVIOUS
<1>6. Cardinality(A \union B) <= Cardinality(Requests)
  BY <1>5, RequestsAssumption, FS_Subset
<1> QED BY <1>2, <1>3, <1>4, <1>6

LEMMA OneSeat ==
  ASSUME NEW A \in SUBSET Requests, NEW r
  PROVE  /\ r \in A => Cardinality(A \ {r}) = Cardinality(A) - 1
         /\ r \notin A => Cardinality(A \union {r}) = Cardinality(A) + 1
<1>1. IsFiniteSet(A)
  BY RequestsAssumption, FS_Subset
<1> QED BY <1>1, FS_AddElement, FS_RemoveElement

(* The two places of a factor, before and after any step.                    *)
LEMMA Places ==
  ASSUME NEW f
  PROVE  /\ Untested(f) \in SUBSET Requests /\ Unrecorded(f) \in SUBSET Requests
         /\ Untested(f) \intersect Unrecorded(f) = {}
         /\ Untested(f)' \in SUBSET Requests /\ Unrecorded(f)' \in SUBSET Requests
         /\ Untested(f)' \intersect Unrecorded(f)' = {}
BY DEF Untested, Unrecorded, At

LEMMA Moves ==
  ASSUME TypeOK, NEW r \in Requests, \A s \in Requests \ {r} : req'[s] = req[s],
         NEW f \in AllFactors
  PROVE  /\ Untested(f)' \ {r} = Untested(f) \ {r}
         /\ Unrecorded(f)' \ {r} = Unrecorded(f) \ {r}
         /\ r \in Untested(f) <=> req[r].step = "test" /\ req[r].factor = f /\ req[r].wrong
         /\ r \in Unrecorded(f) <=> req[r].step = "record" /\ req[r].factor = f
         /\ r \in Untested(f)' <=> req'[r].step = "test" /\ req'[r].factor = f /\ req'[r].wrong
         /\ r \in Unrecorded(f)' <=> req'[r].step = "record" /\ req'[r].factor = f
BY DEF Untested, Unrecorded, At

LEMMA SameBut ==
  ASSUME NEW A, NEW B, NEW r, A \ {r} = B \ {r}, r \in A <=> r \in B
  PROVE  A = B
<1>1. \A x : x \in A <=> x \in B
  <2> TAKE x
  <2>1. CASE x = r
    BY <2>1
  <2>2. CASE x # r
    <3>1. x \in A <=> x \in A \ {r}
      BY <2>2
    <3>2. x \in B <=> x \in B \ {r}
      BY <2>2
    <3> QED BY <3>1, <3>2
  <2> QED BY <2>1, <2>2
<1> QED BY <1>1

(* A request that is at neither place of the factor, before or after.        *)
LEMMA Elsewhere ==
  ASSUME TypeOK, NEW r \in Requests, \A s \in Requests \ {r} : req'[s] = req[s],
         NEW f \in AllFactors,
         req[r].step \notin {"test", "record"} \/ req[r].factor # f
           \/ (req[r].step = "test" /\ ~req[r].wrong),
         req'[r].step \notin {"test", "record"} \/ req'[r].factor # f
  PROVE  Apart(f)
<1>1. r \notin Untested(f) /\ r \notin Unrecorded(f) /\ r \notin Untested(f)' /\ r \notin Unrecorded(f)'
  BY Moves
<1>2. Untested(f)' \ {r} = Untested(f) \ {r} /\ Unrecorded(f)' \ {r} = Unrecorded(f) \ {r}
  BY Moves
<1> QED BY <1>1, <1>2, SameBut DEF Apart

LEMMA HandlerKinds ==
  ASSUME TypeOK, NEW r \in Requests, HandlerStep(r), ~failed', NEW f \in AllFactors
  PROVE  /\ ~failed
         /\ Aside(f) \/ Enters(r, f) \/ Fails(r, f) \/ Records(r, f) \/ Clears(f)
<1>0. /\ req \in [Requests -> Request] /\ req[r] \in Request /\ AllFactors = {"password", "totp"}
      /\ count \in [AllFactors -> Counts] /\ age \in [AllFactors -> 0..Cooldown]
      /\ tested \in [AllFactors -> Counts] /\ burst \in [AllFactors -> Counts]
      /\ \A s \in Requests \ {r} : req'[s] = req[s]
      /\ \A n \in Counts : Plus1(n) <= n + 1
  BY OthersUnchanged, LimitsAssumption DEF TypeOK, AllFactors, Plus1, Counts
<1>1. ASSUME NEW wrong \in BOOLEAN, NEW g \in AllFactors, req[r].step = "idle",
             ~IsTemporarilyLocked(g), req' = [req EXCEPT ![r] = New("test", g, wrong)],
             UNCHANGED <<count, age, history>>
      PROVE  ~failed /\ (Aside(f) \/ Enters(r, f))
  <2>1. req'[r].step = "test" /\ req'[r].factor = g /\ Kept(f) /\ ~failed
    BY <1>0, <1>1 DEF New, Kept, history
  <2>2. CASE f # g
    BY <1>0, <1>1, <2>1, <2>2, Elsewhere DEF Aside
  <2>3. CASE f = g
    <3>1. r \notin Untested(f) /\ r \notin Unrecorded(f) /\ r \notin Unrecorded(f)'
      BY <1>0, <1>1, <2>1, Moves
    <3>2. /\ Untested(f)' \subseteq Untested(f) \union {r} /\ Unrecorded(f)' = Unrecorded(f)
      <4>1. Untested(f)' \ {r} = Untested(f) \ {r} /\ Unrecorded(f)' \ {r} = Unrecorded(f) \ {r}
        BY <1>0, Moves
      <4>2. Unrecorded(f)' = Unrecorded(f)
        BY <3>1, <4>1, SameBut
      <4>3. ASSUME NEW x \in Untested(f)' PROVE x \in Untested(f) \union {r}
        <5>1. x # r => x \in Untested(f)' \ {r}
          BY <4>3
        <5> QED BY <4>1, <5>1
      <4> QED BY <4>2, <4>3
    <3> QED BY <1>1, <2>1, <2>3, <3>1, <3>2 DEF Enters
  <2> QED BY <2>2, <2>3
<1>2. ASSUME NEW wrong \in BOOLEAN, BeginPassword(r, wrong) \/ BeginTotp(r, wrong)
      PROVE  ~failed /\ (Aside(f) \/ Enters(r, f))
  BY <1>0, <1>1, <1>2 DEF BeginPassword, BeginTotp, At
<1>3. CASE Test(r)
  <2>1. PICK g \in AllFactors : g = req[r].factor
    BY <1>0 DEF Request
  <2>2. /\ req[r].step = "test" /\ UNCHANGED <<count, age>> /\ ~failed
    BY <1>3 DEF Test, At
  <2>3. CASE ~req[r].wrong
    <3>1. Goto(r, "clear") /\ UNCHANGED <<tested, burst>>
      BY <1>3, <2>3 DEF Test
    <3>2. req'[r].step = "clear"
      BY <1>0, <3>1 DEF Goto, Request
    <3> QED BY <1>0, <2>2, <2>3, <3>1, <3>2, Elsewhere DEF Aside, Kept
  <2>4. CASE req[r].wrong
    <3>1. /\ tested' = [tested EXCEPT ![g] = Plus1(tested[g])]
          /\ burst' = [burst EXCEPT ![g] = Plus1(burst[g])] /\ Goto(r, "record")
      BY <1>3, <2>1, <2>2, <2>4 DEF Test
    <3>2. req'[r].step = "record" /\ req'[r].factor = g
      BY <1>0, <2>1, <3>1 DEF Goto, Request
    <3>3. CASE f # g
      <4>1. Kept(f)
        BY <1>0, <2>2, <3>1, <3>3 DEF Kept
      <4> QED BY <1>0, <2>1, <2>2, <3>2, <3>3, <4>1, Elsewhere DEF Aside
    <3>4. CASE f = g
      <4>1. /\ r \in Untested(f) /\ r \notin Unrecorded(f)
            /\ r \notin Untested(f)' /\ r \in Unrecorded(f)'
        BY <1>0, <2>1, <2>2, <2>4, <3>2, <3>4, Moves
      <4>2. Untested(f)' = Untested(f) \ {r} /\ Unrecorded(f)' = Unrecorded(f) \union {r}
        BY <1>0, <4>1, Moves
      <4>3. tested'[f] <= tested[f] + 1 /\ burst'[f] <= burst[f] + 1
        BY <1>0, <3>1, <3>4
      <4> QED BY <2>2, <4>1, <4>2, <4>3 DEF Fails
    <3> QED BY <2>2, <3>3, <3>4
  <2> QED BY <2>2, <2>3, <2>4
<1>4. ASSUME NEW g \in AllFactors, req[r].step = "record", req[r].factor = g,
             count' = [count EXCEPT ![g] = Plus1(count[g])], age' = [age EXCEPT ![g] = 0],
             req'[r].step \notin {"test", "record"}, UNCHANGED history
      PROVE  ~failed /\ (Aside(f) \/ Records(r, f))
  <2>1. UNCHANGED <<tested, burst>> /\ ~failed
    BY <1>4 DEF history
  <2>2. CASE f # g
    <3>1. Kept(f)
      BY <1>0, <1>4, <2>1, <2>2 DEF Kept
    <3> QED BY <1>0, <1>4, <2>1, <2>2, <3>1, Elsewhere DEF Aside
  <2>3. CASE f = g
    <3>1. r \notin Untested(f) /\ r \in Unrecorded(f) /\ r \notin Untested(f)' /\ r \notin Unrecorded(f)'
      BY <1>0, <1>4, <2>3, Moves
    <3>2. Untested(f)' = Untested(f) /\ Unrecorded(f)' = Unrecorded(f) \ {r}
      BY <1>0, <3>1, Moves
    <3> QED BY <1>0, <1>4, <2>1, <2>3, <3>1, <3>2 DEF Records
  <2> QED BY <2>1, <2>2, <2>3
<1>5. CASE RecordFailedPassword(r)
  <2>1. req'[r].step = "threshold"
    BY <1>0, <1>5 DEF RecordFailedPassword, Request
  <2> QED BY <1>0, <1>4, <1>5, <2>1 DEF RecordFailedPassword, At
<1>6. CASE RecordFailedMfa(r)
  <2>1. req'[r].step = "idle"
    BY <1>0, <1>6 DEF RecordFailedMfa, Done, Idle, New
  <2> QED BY <1>0, <1>4, <1>6, <2>1 DEF RecordFailedMfa, At
<1>7. ASSUME req[r].step \notin {"test", "record"}, req'[r].step \notin {"test", "record"},
             UNCHANGED <<count, age, history>>
      PROVE  ~failed /\ Aside(f)
  BY <1>0, <1>7, Elsewhere DEF Aside, Kept, history
<1>8. CASE Compare(r)
  <2>1. req'[r].step \in {"lock", "idle"}
    BY <1>0, <1>8 DEF Compare, Goto, Done, Idle, New, Request
  <2> QED BY <1>7, <1>8, <2>1 DEF Compare, At
<1>9. CASE Lock(r)
  <2>1. req'[r].step = "idle"
    BY <1>0, <1>9 DEF Lock, Done, Idle, New
  <2> QED BY <1>7, <1>9, <2>1 DEF Lock, At
<1>10. CASE BeginReset(r)
  <2>1. req'[r].step = "unlock"
    BY <1>0, <1>10 DEF BeginReset, New
  <2> QED BY <1>7, <1>10, <2>1 DEF BeginReset, At
<1>11. CASE Unlock(r)
  <2>1. req'[r].step = "clearPassword"
    BY <1>0, <1>11 DEF Unlock, Goto, Request
  <2> QED BY <1>7, <1>11, <2>1 DEF Unlock, At
<1>12. ASSUME NEW g \in AllFactors, Clear(g), req[r].step \notin {"test", "record"},
              req'[r].step \notin {"test", "record"}, failed' = failed
       PROVE  ~failed /\ (Aside(f) \/ Clears(f))
  <2>1. Apart(f)
    BY <1>0, <1>12, Elsewhere
  <2>2. CASE f # g
    BY <1>0, <1>12, <2>1, <2>2 DEF Aside, Kept, Clear
  <2>3. CASE f = g
    BY <1>0, <1>12, <2>1, <2>3 DEF Clears, Clear
  <2> QED BY <1>12, <2>2, <2>3
<1>13. CASE ClearAttempts(r)
  <2>1. req[r].factor \in AllFactors
    BY <1>0 DEF Request
  <2>2. req'[r].step = "idle"
    BY <1>0, <1>13 DEF ClearAttempts, Done, Idle, New
  <2> QED BY <1>12, <1>13, <2>1, <2>2 DEF ClearAttempts, At
<1>14. CASE ResetPasswordAttempts(r)
  <2>1. req'[r].step = "clearTotp"
    BY <1>0, <1>14 DEF ResetPasswordAttempts, Goto, Request
  <2> QED BY <1>0, <1>12, <1>14, <2>1 DEF ResetPasswordAttempts, At
<1>15. CASE ResetMfaAttempts(r)
  <2>1. req'[r].step = "idle"
    BY <1>0, <1>15 DEF ResetMfaAttempts, Done, Idle, New
  <2> QED BY <1>0, <1>12, <1>15, <2>1 DEF ResetMfaAttempts, At
<1>16. ~Abort(r)
  BY DEF Abort
<1> QED
  BY <1>2, <1>3, <1>5, <1>6, <1>8, <1>9, <1>10, <1>11, <1>13, <1>14, <1>15, <1>16
  DEF HandlerStep, Attempt, Reset

(* The sums, one kind of step at a time.                                     *)
LEMMA SumsKept ==
  ASSUME TypeOK, TypeOK', NEW r \in Requests, NEW f \in AllFactors,
         Counted(f), Cools => Few(f),
         Aside(f) \/ Enters(r, f) \/ Fails(r, f) \/ Records(r, f) \/ Clears(f)
  PROVE  Counted(f)' /\ (Cools => Few(f)')
<1> DEFINE n == Cardinality(Requests)
           u == Cardinality(Untested(f))
           v == Cardinality(Untested(f)')
           w == Cardinality(Unrecorded(f))
           x == Cardinality(Unrecorded(f)')
<1>1. /\ n \in Nat /\ u \in Nat /\ v \in Nat /\ w \in Nat /\ x \in Nat
      /\ u + w <= n /\ v + x <= n
  BY Places, Seats
<1>2. /\ count[f] \in 0..MaxCount /\ tested[f] \in Nat /\ burst[f] \in Nat
      /\ count'[f] \in 0..MaxCount /\ tested'[f] \in Nat /\ burst'[f] \in Nat
      /\ age[f] \in 0..Cooldown /\ age'[f] \in 0..Cooldown
      /\ MaxCount \in Nat /\ MaxAttempts \in Nat \ {0} /\ MaxCount > MaxAttempts
  BY LimitsAssumption DEF TypeOK, Counts
<1>3. /\ count[f] < MaxCount => tested[f] <= count[f] + w /\ burst[f] <= count[f] + w
      /\ Cools => /\ age[f] = Cooldown => burst[f] <= w
                  /\ burst[f] + u <= MaxAttempts - 1 + n
  BY DEF Counted, Few, IsCooldownExpired
<1>4. ASSUME count'[f] < MaxCount => tested'[f] <= count'[f] + x /\ burst'[f] <= count'[f] + x,
             Cools => /\ age'[f] = Cooldown => burst'[f] <= x
                      /\ burst'[f] + v <= MaxAttempts - 1 + n
      PROVE  Counted(f)' /\ (Cools => Few(f)')
  BY <1>4 DEF Counted, Few, IsCooldownExpired
<1>5. CASE Aside(f)
  <2>1. u = v /\ w = x
    BY <1>5 DEF Aside, Apart
  <2> HIDE DEF n, u, v, w, x
  <2> QED BY <1>3, <1>4, <1>5, <2>1 DEF Aside, Kept
<1>6. CASE Enters(r, f)
  <2>1. v <= u + 1 /\ w = x
    <3>1. Untested(f)' = Untested(f) \/ Untested(f)' = Untested(f) \union {r}
          \/ Untested(f)' \subseteq Untested(f) \union {r}
      BY <1>6 DEF Enters
    <3>2. Untested(f) \union {r} \in SUBSET Requests
      BY Places
    <3>3. IsFiniteSet(Untested(f) \union {r})
      BY <3>2, RequestsAssumption, FS_Subset
    <3>4. Cardinality(Untested(f)') <= Cardinality(Untested(f) \union {r})
      BY <1>6, <3>3, FS_Subset DEF Enters
    <3>5. Cardinality(Untested(f) \union {r}) = u + 1
      BY <1>6, Places, OneSeat DEF Enters
    <3> QED BY <1>6, <3>4, <3>5 DEF Enters
  <2>2. r \notin Unrecorded(f) /\ r \notin Untested(f)
    BY <1>6 DEF Enters
  <2>3. UNCHANGED <<count[f], age[f], tested[f], burst[f]>>
        /\ (count[f] < MaxAttempts \/ age[f] = Cooldown)
    BY <1>2, <1>6 DEF Enters, Kept, IsTemporarilyLocked, IsCooldownExpired
  <2> HIDE DEF n, u, v, w, x
  <2> QED BY <1>1, <1>2, <1>3, <1>4, <2>1, <2>3
<1>7. CASE Fails(r, f)
  <2>1. v = u - 1 /\ x = w + 1
    BY <1>7, Places, OneSeat DEF Fails
  <2>2. /\ count'[f] = count[f] /\ age'[f] = age[f]
        /\ tested'[f] <= tested[f] + 1 /\ burst'[f] <= burst[f] + 1
    BY <1>7 DEF Fails
  <2> HIDE DEF n, u, v, w, x
  <2> QED BY <1>1, <1>2, <1>3, <1>4, <2>1, <2>2
<1>8. CASE Records(r, f)
  <2>1. v = u /\ x = w - 1
    BY <1>8, Places, OneSeat DEF Records
  <2>2. /\ count'[f] = (IF count[f] < MaxCount THEN count[f] + 1 ELSE count[f])
        /\ age'[f] = 0 /\ tested'[f] = tested[f] /\ burst'[f] = burst[f]
    BY <1>8 DEF Records, Plus1
  <2>3. Cools => Cooldown # 0
    BY LimitsAssumption DEF Cools
  <2> HIDE DEF n, u, v, w, x
  <2> QED BY <1>1, <1>2, <1>3, <1>4, <2>1, <2>2, <2>3
<1>9. CASE Clears(f)
  <2>1. tested'[f] = 0 /\ burst'[f] = 0 /\ count'[f] = 0
    BY <1>9 DEF Clears
  <2> HIDE DEF n, u, v, w, x
  <2> QED BY <1>1, <1>2, <1>4, <2>1
<1> QED BY <1>5, <1>6, <1>7, <1>8, <1>9

LEMMA CountKept == TypeOK /\ TypeOK' /\ CountInv /\ [Next]_vars => CountInv'
<1> SUFFICES ASSUME TypeOK, TypeOK', CountInv, [Next]_vars, ~failed', NEW f \in AllFactors
             PROVE  Counted(f)' /\ (Cools => Few(f)')
  BY DEF CountInv
<1>1. ASSUME NEW r \in Requests, HandlerStep(r)
      PROVE  Counted(f)' /\ (Cools => Few(f)')
  BY <1>1, HandlerKinds, SumsKept DEF CountInv
<1>2. CASE LockSuspicious \/ UNCHANGED vars
  BY <1>2 DEF LockSuspicious, vars, history, CountInv, Counted, Few, IsCooldownExpired,
              Untested, Unrecorded, At
<1>3. CASE Tick
  <2>0. ~failed
    BY <1>3 DEF Tick
  <2>1. UNCHANGED <<count, tested, req>>
    BY <1>3 DEF Tick
  <2>2. Apart(f)
    BY <2>1 DEF Apart, Untested, Unrecorded, At
  <2>3. burst'[f] = 0 \/ (burst'[f] = burst[f] /\ (age'[f] = Cooldown => age[f] = Cooldown))
    <3>1. /\ age'[f] = (IF age[f] < Cooldown THEN age[f] + 1 ELSE Cooldown)
          /\ burst'[f] = (IF age[f] + 1 = Cooldown THEN 0 ELSE burst[f])
          /\ age[f] \in 0..Cooldown
      BY <1>3 DEF Tick, TypeOK
    <3> QED BY <3>1, LimitsAssumption
  <2>4. /\ burst[f] \in Nat /\ burst'[f] \in Nat /\ burst'[f] <= burst[f]
        /\ count[f] \in Nat /\ MaxAttempts \in Nat \ {0}
    BY <2>3, LimitsAssumption DEF TypeOK, Counts
  <2>5. /\ Cardinality(Untested(f)) \in Nat /\ Cardinality(Unrecorded(f)) \in Nat
        /\ Cardinality(Requests) \in Nat
    BY Places, Seats
  <2>6. Counted(f) /\ (Cools => Few(f))
    BY <2>0 DEF CountInv
  <2>7. Counted(f)'
    BY <2>1, <2>2, <2>4, <2>5, <2>6 DEF Counted, Apart
  <2>8. Few(f) => Few(f)'
    BY <2>2, <2>3, <2>4, <2>5 DEF Few, Apart, IsCooldownExpired
  <2> QED BY <2>6, <2>7, <2>8
<1> QED BY <1>1, <1>2, <1>3 DEF Next, HandlerStep

LEMMA CountInit == Init => CountInv
<1> SUFFICES ASSUME Init, NEW f \in AllFactors PROVE Counted(f) /\ (Cools => Few(f))
  BY DEF CountInv
<1>1. Untested(f) = {} /\ Unrecorded(f) = {}
  BY DEF Init, Untested, Unrecorded, At, Idle, New
<1>2. Cardinality(Untested(f)) = 0 /\ Cardinality(Unrecorded(f)) = 0
  BY <1>1, FS_EmptySet
<1>3. tested[f] = 0 /\ burst[f] = 0 /\ count[f] = 0
  BY DEF Init
<1>4. Cardinality(Requests) \in Nat
  BY RequestsAssumption, FS_CardinalityType
<1> QED BY <1>2, <1>3, <1>4, LimitsAssumption DEF Counted, Few

LEMMA CountInvariant == Spec => []CountInv
<1>1. IInv => TypeOK
  BY DEF IInv
<1> QED BY <1>1, CountInit, CountKept, Invariant, PTL DEF Spec

(* Every wrong value that was tested is counted, or about to be, however many
   attempts overlap, until a success or a reset clears the counter.          *)
THEOREM FailuresCount == Spec => []EveryFailureCounts
<1>1. TypeOK /\ CountInv => EveryFailureCounts
  <2> SUFFICES ASSUME TypeOK, CountInv, ~failed, NEW f \in AllFactors, count[f] # MaxCount
               PROVE  tested[f] <= count[f] + Cardinality(Unrecorded(f))
    BY DEF EveryFailureCounts
  <2>1. count[f] < MaxCount
    BY LimitsAssumption DEF TypeOK, Counts
  <2> QED BY <2>1 DEF CountInv, Counted
<1> QED BY <1>1, CountInvariant, TypeCorrect, PTL

(* Where there is a cooldown at all, at most MaxAttempts wrong values are
   tested in one burst, and one more for each request beside: for any maximum,
   any cooldown but zero and any number of requests.                         *)
THEOREM BurstsBounded == Spec => [](Cools => BurstBounded)
<1>1. CountInv => (Cools => BurstBounded)
  BY DEF CountInv, Few, BurstBounded
<1> QED BY <1>1, CountInvariant, PTL
===============================================================================
