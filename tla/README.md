# Authora in TLA+

Authora is a NestJS authentication service: users and credentials in PostgreSQL
(TypeORM), pending sign-ins, one-time tokens, counters and a settings cache in
Redis, emails put on a RabbitMQ queue. Node runs one thread, but every `await`
on the database, Redis or Argon2 lets other requests run, several instances may
share the stores, and only the activation of a configuration uses a transaction.
So the unit of atomicity of these models is **one SQL statement or one Redis
command**, and a request is a small process: a record with the step it has
reached and the copies it has read. What can go wrong lies between two steps.

## Inventory

| Component | State | Operations | Talks to | What makes it correct |
|---|---|---|---|---|
| refresh tokens (`refresh-token-entity.service.ts`) | table `refresh_token`, Redis counter of reuses | create, rotate, verify and reuse handling, revoke a family, revoke all | user lock, settings | one active token per user, families that keep owner and expiry date, no use after revocation, reuse kills the family |
| sign-in (`sign-in.service.ts`) | auth session in Redis | initiate, password, magic link and its validation, TOTP, exchange, token, exchange-session, refresh, revoke | nearly everything | tokens only on the factors the policy asks for, once per session |
| one-time tokens (`one-time-token-redis.service.ts`) | `OTT_KEY(user, type)`, the index of exchange tokens | create, consume, create and consume an exchange token, revoke all | sign-in, account | a token opens one thing once |
| account (`account.service.ts`) | none of its own | change, forgot, reset, delete and its validation, sign-out, devices, sessions | passwords, tokens, users | after a change nothing old works |
| passwords (`password-entity.service.ts`, `job.service.ts`) | table `password` | verify, change, reset, revoke, the nightly expiry job | account, sign-in | one valid password, never one used before, only old ones expire |
| users and locks (`user-entity.service.ts`) | table `user`: lock reason, attempt counters | lock, unlock, count, reset, cooldown | sign-in, reset, reuse handling | a lock is escalated, never downgraded; a full counter locks |
| MFA (`multi-factor-auth*.service.ts`) | one row per user | setup, verify, disable, validate | sign-in | a disabled secret never works again |
| trusted devices (`trusted-device-entity.service.ts`) | table `trusted_device` | register, trust, distrust, delete | sign-in, account | trust is given after a code and ends |
| sign-up (`sign-up.service.ts`) | table `registration` | sign up, resend, verify | users, passwords | an email is a registration or a user, not both |
| settings (`settings.service.ts`) | configuration tables, Redis cache | get, set, activate, refresh | all | a read returns the active configuration |
| password rules (`dto/validator/password`) | none | pure scans | DTOs, password controller | each scan decides what its name says |
| bootstrap (`bootstrap/*.ts`, `main.ts`) | the default rows | one hook per row, and the filling of the cache | database, settings | what listens has been seeded; the administrator has one password |
| guards, middleware, throttling, delay, email, hashing | little or none | | | |

Hard behaviours, and the modules that have them: requests interleaved between a
read and the write decided on it (all modules), a statement that fails or an
instance that dies between two writes (`Faults`), keys and tokens that expire at
any time (`Tick`, `Expire`), copies of a user or a session used after it has
changed, processes that start together (`StartUp`). `PROJECT.json` lists each at
its line.

## Modules

| Module | Models |
|---|---|
| `TokenLedger` | abstract: what the `refresh_token` table promises under any interleaving |
| `RefreshTokens` | the table, the reuse counter, the lock of the user, and the requests on them; refines `TokenLedger` |
| `SignInSession` | the pending sign-in, from its creation to the issue of tokens |
| `Passwords` | the passwords of one account, the tokens that reset or delete it, the expiry job |
| `SignUp` | from a registration to a user: sign-up, resend, verification |
| `Settings` | the Redis cache of the settings against the active configuration rows |
| `Attempts` | the attempt counters of one account, its cooldowns, lock and unlock |
| `MultiFactorAuth` | setup, verification and disabling of one user's second factor |
| `PasswordRules` | the rules for a new password, and check-strength beside the validators |
| `StartUp` | the start-up hooks of several processes on one database |
| `<Module>Proofs` | theorems about `RefreshTokens`, `SignInSession`, `Passwords`, `SignUp`, `Attempts`, `MultiFactorAuth`, `StartUp` |
| `RulesAndSettingsProofs` | theorems about `PasswordRules` and about `Settings` |
| `MC<Module>` | symmetry sets and small values for TLC |

`Attempts` and `RefreshTokens` both hold the lock of a user: `Attempts` counts up to
it with the reuse handler as its environment (`LockSuspicious`), `RefreshTokens` has
the reuse handler with the wrong password at its threshold as environment.
`SignInSession` reads what `MultiFactorAuth` writes as `ChangeMfa`; `SignUp` and
`StartUp` make the accounts that `Passwords` begins with; `StartUp` fills the cache
that `Settings` keeps.

Conventions: `req[r]` is the request (or job) `r`, `At(r, step)` the statement
it will run next; a guard evaluated on a copy just read belongs to the action
that reads it. A refused request is back at `"idle"` without a write. Operators
marked *Mutant* are wrong variants of the operator after them, used to see that a
property can fail; no specification uses them.

### RefreshTokens

`rows` is the table: a row id stands for the clear token and its hash, a family is
named by its first row, and an access token is the second it was signed in (RS256
over subject, email and `iat` gives equal tokens within a second, which is
why the comparison with the stored one is on the clock). `lockReason` stands for
`is_locked` and `lock_reason`, which are only written together. `reuse` is the
Redis counter with its TTL; it saturates one above the threshold, for the code
only asks whether it is 1 or has reached the threshold.

The reuse handler, and a reset after it has stored its password, read settings in the
middle of what they do, with `user.tenant?.id ?? ''`; both load the user without its
tenant. `''` is no slug, so `_findActiveTenantConfig` refuses the read unless Redis holds
the key, and only the set-up of the tests writes keys for `''` (`test/setup.ts:94`, `203`).
`ReadSetting` is that read: `seeded` says whether the keys are there, either way at
the start, and `LoseSettings` lets Redis drop them. `owed` is history: which of the two duties of
the handler, the TTL and the lock, were left undone by one that was cut short; a later
handler that does them, the end of the counter and a reset clear it.

| Code | Actions |
|---|---|
| `_issueTokens`, `create` | BeginIssue, IssueRevoke, IssueInsert |
| `refreshToken`, `findByUserIncludingRevoked`, `verify` | RefreshLoad, RefreshMismatch, RefreshReused, RefreshExpired, RefreshValid, RefreshSign |
| `rotate` | RotateRevoke, RotateInsert |
| `_handleTokenReuse` | ReuseRevoke, ReuseCount, ReuseReadWindow, ReuseWindow, ReuseReadThreshold, ReuseLock |
| `revokeToken`, `signOut`, `revokeAllSessions`, `JwtAuthGuard` | RevokeTokenFind, BeginSignOut, SignOutFind, RevokeFamily, BeginRevokeAll, RevokeAll, Authenticated |
| end of `resetPassword` | BeginReset, ResetReadUnlock, ResetUnlock, ResetCounter, RevokeAll |
| wrong password at the threshold | BeginWrongPassword, LockAttempts |
| failure, time, Redis TTL and loss of keys | Abort, Tick, LoseSettings |

### SignInSession

`store` holds the session JSON by id, `magic` and `current` the `OTT_KEY` of the
two token types sign-in uses, `reverse` the index from exchange token to session.
`AuthSessionRedisService.update` is two commands (TTL, SET) and so two actions;
`createExchangeToken` is up to four. MFA rows, trust and the policy change
at any time (`ChangeMfa`, `DistrustDevice`, `ChangePolicy`); a user has one
trusted device, and a browser presents it or not. Locks and attempt counters only
end a request early and are the alternative `PasswordRefused`, `TotpRefused`. The
writes of a handler to tables nothing here reads (attempts, last-seen dates) are
left out, and GET with EXISTS of `_getSession` is one read. `proved`,
`granted` and `holders` are history: what was shown in a session, how often tokens
were issued for it, and to whom.

### Passwords

One account: accounts share no state here. `password` is the table, `ott` the two
one-time tokens of the account, `exists` the user row. `changePassword`,
`resetPassword` and the sign-in that meets an expired password decide on the rows
they loaded and write in later statements. The job computes its date, then runs
one UPDATE; password expiration is switched on. `ReadUnlock` is the late read of a reset
described under `RefreshTokens`, with `cached` for the key and `refused` as history. `revokeAllForUser` is one DEL (the
exchange token it also reads is in `SignInSession`). A password inserted for a
deleted user is refused by the foreign key.

### SignUp

`registration` and `user` are the two tables; an account is an email in a tenant.
Registrations are found by the email alone (`FoundByEmail`), as `findByEmail` does.
A TypeORM `save` of an entity with an id is a SELECT and then an UPDATE, or an INSERT
of the whole copy when the id is not there: `SaveSelect`, `SaveUpdate`, `SaveReinsert`.
The two queries of `signUp`'s `Promise.all` are two steps in either order (`Check`).
The mail is a step of its own, since a failed one leaves the row. Which password is
which is named by the registration that carried it.

| Code | Actions |
|---|---|
| `signUp` | BeginSignUp, Check, Insert, SendMail |
| `resendVerificationEmail` | BeginResend, SaveSelect, SaveUpdate, SaveReinsert, SendMail |
| `verifyEmail` | BeginVerify, CreateUser, CreatePassword, Remove |
| deletion of an account, time, failure | DeleteUser, Expire, Abort |

### Settings

`config` holds the rows of Authora's configuration or of one tenant's (`scope`, fixed
in a behaviour: they share no row and no key), `cache` the Redis keys. A tenant is
named by its id, its slug or not at all, as the callers do (`ReaderNames`,
`WriterName`); `FindBySlug` succeeds for the slug only. The pipeline of a refresh is
one SET after the other (`Fill`). Settings are Boolean: the column keeps what
PostgreSQL makes of the value, Redis the text (`Stored`, `Serialize`).

| Code | Actions |
|---|---|
| `get`, `getMany` | BeginRead, FindTenant, ReadActive, RefreshActive, Fill, Leave |
| `set` | BeginSet, SetTenant, SetActive, SetRow, SetCache |
| `activateAuthoraConfig`, `activateTenantConfig`, the refreshes, `onApplicationBootstrap` | BeginActivate, ActivateTenant, Activate, RefreshTenant, Boot, RefreshActive, Fill |
| loss of a key, failure | Evict, Abort |

### Attempts

`count` and `age` are the two counters with the date of the last failure, as the
number of ticks since, up to the cooldown: the code asks for no more. An attempt
loads the user and is refused in one step, tests the value, and records it with an
UPDATE that increments in the database. `tested` and `burst` are history.

### MultiFactorAuth

`row` holds the rows ever inserted for one user, each with its own secret; `told` the
recovery codes the user got last; `proved`, `removed` and `contested` (removed while a
verification of that row was under way) are history. `verifyForUser`
ends in the same `save` of a copy as above.

### PasswordRules

A password is typed character by character; `repeat` and `sequence` are the variables
of the two loops after the last one, so the loops can be checked, and proved, without
recursion. The keyboard windows and the parts of an email are operators on the whole
password. `CheckStrength` is the endpoint, asked with any set of rules switched on,
with and without an email, for each outcome of the breach service. The rule about the
email is asked as the controller does, whose test sees a promise (`Promise`, `Falsy`,
`UserInfoErrors`). The specification is `TypingSpec`, so that its names stay
apart from those of `Settings` where a module extends both. Where a setting is not in Redis the
endpoint ends in NotFound (`CheckRefused`), as `Settings` explains.

### StartUp

`hook[p][h]` is where hook `h` of process `p` is. A hook awaits the hooks it calls
(the promise each keeps makes this a wait), looks its default tenant up, finds its
row and inserts it; an insert that meets the unique constraint, or a hook that throws,
ends the process. `Crash` and `Restart` are the process manager's.

## Runs

Each run asks one question; the bounds are the smallest at which the case
happens. Token, session, request and user ids are symmetric where a run has a
symmetry set: no definition compares them for order.

| Run | Instance | Shows |
|---|---|---|
| `refresh_concurrent` | 1 user, 3 rows, 2 requests, reuse threshold 2, settings in Redis or not, faults between two writes | FamilyKeepsOwnerAndExpiry, SpentIsRevoked and the ledger under every interleaving; ThresholdLocks and CounterHasDeadline: what a reuse counter says of the lock and of its TTL, and that only a handler on its way or cut short makes an exception |
| `refresh_serial` | 2 users, 3 rows, 1 request at a time, faults anywhere, every operation | AtMostOneActive and CompromisedStaysDead, which need requests that do not overlap |
| `session_serial` | 1 user, 2 sessions, 3 tokens, 1 request, each of the three policies, no faults | OneGrantPerSession, ConsumedStaysGone, RedeemableMeansExchanged, CompleteIsExchangeable |
| `session_concurrent` | 1 user, 1 session, 2 requests, faults, policy (DISABLED, OPTIONAL) and MFA changing | GrantsMatchProof |
| `passwords_serial` | 4 passwords, 2 tokens, 1 request, faults, clock and job | OnePassword, SecretsDiffer, TokensFollowPassword, OnlyOldExpire |
| `sign_up` | 1 email in 2 tenants, 2 requests, 2 registrations, 3 tokens, 2 users, faults | PasswordAsRegistered and VerifiedEndsUsable however requests overlap; OnePlace and PasswordlessKeepsRegistration where they do not |
| `settings` | 2 configurations, 2 keys, 2 requests, both scopes, evictions, faults | CacheAgrees and AuthoraReadsSeeActive where requests do not overlap; RefreshHeals: a stale key does not outlive the next refresh that nothing overlaps |
| `settings_cold_read` | a tenant, 1 request | **counterexample**: with the key not in Redis, the id of the tenant is looked up as a slug and the read is refused, against `settings.service.spec.ts:137` |
| `attempts` | 2 requests, both factors, maximum 2, cooldown 2, threshold 3, faults | EveryFailureCounts, BurstBounded, ThresholdReachedLocks, CooldownEnds |
| `multi_factor_auth` | 2 requests, 3 rows, 3 sets of codes, faults | EnabledMeansProved, DisabledStaysOff and DisableSignsOut however requests overlap; ToldCodesStored where they do not |
| `password_rules` | two alphabets (`6789:` and `vwxYc`), up to 5 characters, minimum 2, three sets of rules, one email | ScansExact, KeyboardExact |
| `start_up` | 2 processes, 1 crash, with one tenant or several | ListeningMeansSeeded, AdminHasOnePassword, AllListen |

A conflict needs two requests, so two is enough for each race between a read
and a write. Three rows give a family with a successor and another
family, or a chain of two rotations. The clock runs to 1 or 2 so that access
tokens of different seconds, expired tokens and an expired counter occur. Three
tokens let a registration be resent while another is made; two tenants let one
email be registered twice. A threshold above the maximum lets attempts go on after a
cooldown before they lock. The alphabets contain a run of digits with the sign next to
it, and letters that are neighbours in the alphabet and in three layouts; five characters
give a run of four with a character before or after. Two configurations and two keys
let one be activated while the other is read, and a miss be partial. One crash between
any two statements is enough to lose what the second would have written.

Ids that run out (`HasRoom`, `HasToken`, `HasUser`, `drawn # Tokens`), `MaxNow`,
`CountCap`, `MaxCount`, `MaxCodes`, `MaxLength`, `MaxCrashes` and `MaxGrants` are the only
bounds, each a guard named in its module. Where a configuration says
`CHECK_DEADLOCK FALSE` the instance may really stop: ids have run out, every process
listens, or every session or the account is gone and none can be created. In
`refresh_concurrent` a handler may fail wherever it has written something that a later statement
completes: between the UPDATE and the INSERT of a sign-in or a rotation, and at the lock after the INCR; the
two reads of settings after the INCR are refused whenever Redis lacks the key. A failure of either read or of
the EXPIRE leaves what such a refusal leaves, the TTL or the lock undone, and a failure elsewhere no more
than a handler that has not gone on yet. The calls that only revoke, and the reset, are in `refresh_serial`, the
reset also for what it does to the lock (below). In `session_concurrent` the policy
REQUIRED is left out: OPTIONAL and REQUIRED differ in `NextStep` only, which
`GrantsMatchProof` does not use, and the theorem `GrantsProved` is for all three.

**Fairness.** The event loop of Node goes on with a handler whose statement was answered, and
every statement is answered or fails (`Abort`): `WF_vars(Step(r))` for the handlers in
`SignUp` and `MultiFactorAuth`, and for the hooks in `StartUp`. No request has to be
sent, and no statement has to fail. Time passes (`WF_vars(Tick)` in `Attempts`, where
nobody has to attempt anything). A process that has ended is started again
(`WF_vars(Restart(p))`), which is the process manager's; without it nothing would
promise that Authora listens after two instances met on a unique constraint. The other
modules state no fairness: nothing in them waits or retries.

**Overlapping requests.** Several properties hold when requests do not overlap
and fail when they do; the condition is in the property (`overlapped`, `disturbed`) or
in the run (one request). The code takes no lock and no transaction around a
handler, so the following happens, and is why those properties have their condition:

- two refreshes of one token that both read it active leave two active tokens in its
  family (`rotate` does not look at what the row has become), though
  `refresh-token-workflow.scenario.e2e-spec.ts:113` expects one;
- a used token presented with the newer access token is refused by the comparison
  before reuse is looked for (`sign-in.service.ts:429`), and its family lives on;
- a failed password that loaded the user before the reuse handler locked it
  overwrites the lock reason (`user-entity.service.ts:47`), and a reset unlocks on an old copy;
- a handler between TTL and SET of `update()` writes a consumed session back;
- two resets with one token both pass `consume()`, which does not ask whether its DEL
  removed the key;
- a resend that saves a registration verified meanwhile inserts it again, so the
  account is in both tables; a verification that saves an MFA row removed meanwhile
  turns MFA on again, with a secret that was proved, where `entity-state-description.md:50` says
  "Deleted: user disabled 2fa" (`DisabledStaysOff` says that nothing else does);
- a family that is revoked gets an active row from a rotation in flight;
- two changes of password at once leave two active, and a sign-in that found the old one
  expired revokes the new one;
- two verifications of one MFA row store the codes of one and tell those of the other last;
- a refresh of the cache that read before an activation and writes after it leaves
  old values in Redis until the next refresh or set; two calls of `set` may write
  the row and the key in opposite orders.

Without any overlap:

- a setting that is not in Redis is looked up by the id of the tenant as a slug, and refused
  (`settings.service.ts:283`): the run `settings_cold_read` shows it. Refused after the INCR of the
  reuse handler, it leaves a counter without TTL (`refresh-token-entity.service.ts:164`) and no lock
  (`168`), though `token-refresh.e2e-spec.ts:299` expects one: the refusals of `ReuseReadWindow` and
  `ReuseReadThreshold`. Refused after the INSERT of a reset, it leaves the old tokens
  (`account.service.ts:128`), of which `controller-description.md:211` says that all are revoked:
  the refusal of `ReadUnlock`;
- under the policy OPTIONAL a user without MFA is shown "complete" and refused the exchange
  (`sign-in.service.ts:303`, `361`), where `controller-description.md:157` promises tokens:
  the exception that `CompleteIsExchangeable` names;
- check-strength never reports the user-info rule, because the controller does not await
  its promise (`password.controller.ts:123`), though `check-password-strength.input.dto.ts:17` asks for
  the email to check it against: `UserInfoErrors` is empty. A setting refused inside that promise is a
  rejection nobody handles;
- activation of another configuration of a tenant leaves the old values in
  Redis, because the refresh looks the id up as a slug (`switched` in `Settings`); a process that ends
  between the administrator and its password leaves an administrator without one.

The other reads with tenant id `''` come before any write of their handler: `verifyUserPassword`,
the cooldown, the TTL of a token, the job, the validators; refused, the request ends as it began. Two
reads follow a write. `sign-in.service.ts:460` is after the rotation and changes no state; the client is
then left without the token that replaced its own. `sign-in.service.ts:113`, on the tenant of the session,
comes between the count of a wrong password and the comparison, where `Attempts` has `Abort`.

## Proofs

The theorems hold for every value of the constants that satisfies the assumptions
of the module (named `...Assumption`, checked by TLC on every run): any bounds,
and any sets, which have to be finite where something is counted (the requests of
`Attempts` and `MultiFactorAuth`, the processes of `StartUp`, the rows of
`Passwords`). A theorem without a hypothesis allows requests to overlap and
statements to fail wherever the model does; where a property needs more, the
hypothesis is a named operator in the theorem itself:

| Hypothesis | Means | Why it is needed |
|---|---|---|
| `OneAtATime` | there is one request, so none overlaps another; any number of users, rows, tokens and steps | handlers read and write in separate statements, as the list of overlapping requests above tells; the runs on one request satisfy it |
| `NoUnlocks` | a reset, if there is one, does not unlock | it unlocks on a copy of the user read before the lock |
| `OnePerson` | the forms of a session get the email of one person | the flags do not name the user they are about |
| `~Faults` | no statement fails | an exchange that stops before it marks the session leaves a token that can be redeemed |
| `NoOnes` | no Boolean setting is sent as `"1"`; `"true"`, `"false"` and `"0"` are allowed | PostgreSQL makes TRUE of it, and `_deserialize` reads the text in Redis back as false |
| `Cools` | the cooldown is not 0 seconds, which the settings accept | with 0 no attempt is ever refused and the bound is false |

Where the condition is about a behaviour and not about the constants (`overlapped`, `failed`,
`disturbed`, `switched`,
`owed`, `contested`, `refused`), it is in the property and the theorem has none.

| Module | Theorem | States |
|---|---|---|
| `RefreshTokensProofs` | `TypeCorrect` | `[]TypeOK` |
| | `FamilyOwnerAndExpiry` | `[]FamilyKeepsOwnerAndExpiry` |
| | `SpentTokensRevoked` | `[]SpentIsRevoked` |
| | `ImplementsLedger` | `Ledger!Spec` |
| | `CountersForget` | `[]CounterHasDeadline` |
| | `ReusesLock` | `[](NoUnlocks => ThresholdLocks)` |
| | `OneActive`, `CompromisedDead` | `[](OneAtATime => AtMostOneActive)`, `[](OneAtATime => CompromisedStaysDead)` |
| `SignInSessionProofs` | `TypeCorrect`, `GrantsProved` | `[]TypeOK`, `[](OnePerson => GrantsMatchProof)` |
| | `OneGrant`, `ConsumedGone` | `[](OneAtATime => OneGrantPerSession)`, `[](OneAtATime => ConsumedStaysGone)` |
| | `RedeemableMarked` | `[](OneAtATime /\ ~Faults => RedeemableMeansExchanged)` |
| `PasswordsProofs` | `TypesHold` | `[]TypeOK` |
| | `OneValid`, `NeverAgain` | `[](OneAtATime => OnePassword)`, `[](OneAtATime => SecretsDiffer)` |
| | `TokensAreNew`, `ExpiryIsDue` | `[](OneAtATime => TokensFollowPassword)`, `[](OneAtATime => OnlyOldExpire)` |
| `SignUpProofs` | `TypeCorrect`, `PasswordsAsRegistered` | `[]TypeOK`, `[]PasswordAsRegistered` |
| | `AccountInOnePlace`, `StoppedVerifyLosesNothing` | `[]OnePlace`, `[]PasswordlessKeepsRegistration` |
| `AttemptsProofs` | `TypeCorrect`, `FailuresLock` | `[]TypeOK`, `[]ThresholdReachedLocks` |
| | `FailuresCount`, `BurstsBounded` | `[]EveryFailureCounts`, `[](Cools => BurstBounded)` |
| `MultiFactorAuthProofs` | `TypeCorrect`, `OnlyProvedSecrets` | `[]TypeOK`, `[]EnabledMeansProved` |
| | `DisabledForGood`, `CodesAsTold` | `[]DisabledStaysOff`, `[]ToldCodesStored` |
| `RulesAndSettingsProofs` | `TypingCorrect`, `LoopsAreExact` | `[]TypingOK`, `[]ScansExact` |
| | `WindowsAreExact` | `[]KeyboardExact` |
| | `TypeCorrect`, `RefreshesHeal` | `[]TypeOK`, `[]RefreshHeals` |
| | `CacheTold` | `[](NoOnes => CacheAgrees)` |
| | `ReadsAnswerActive` | `[](NoOnes => AuthoraReadsSeeActive)` |
| `StartUpProofs` | `TypeCorrect`, `OnePassword`, `Seeded` | `[]TypeOK`, `[]AdminHasOnePassword`, `[]ListeningMeansSeeded` |

Each is a consequence of `Spec` (of `TypingSpec` for the rules). Every proof of an invariant has three parts: the initial states
satisfy a strengthening, every action keeps it (one step per action), and it implies the
invariant. What the strengthenings say beyond the properties:

**RefreshTokens.** The first four follow from one inductive invariant `IInv`. Type correctness and the two
properties are not inductive as they stand: a rotation copies owner, family and
expiry from the row its request holds, so one must know that this row was issued
and belongs to the request's user (`Presented`), and that an issued row has an
owner (`IssuedHaveOwner`); and the row a rotation is about to succeed must be
revoked and stay so (`Presented` again, with the fact that no action turns a revoked
row active, `RowsAreKept`). `TypePreserved`, `TablePreserved` and
`PresentedPreserved` treat the actions one at a time, or in the classes of
`TableSteps`: an action revokes a set of rows, inserts one, or leaves the table
alone. The refinement uses the same classes: a revocation is `Revoke`, an insert by
sign-in `Open`, one by rotation `Succeed`, anything else a stutter.

For the counter, `Pending` says of a duty (the TTL, the lock) that it is on record in `owed` or that
a handler is on its way to it. Every step is a count, one of the writes that do a duty or
undo it, or one of three classes that touch neither counter nor lock: something else (`Aside`),
a read that was answered (`HasRead`), an end before time (`Stops`); this is `ReuseSteps`. A step that does not
do the duty leaves it pending (`PendingKept`), so a counter without TTL, or at the
threshold, is one that a handler has counted and that is pending, or its duty was done. `ThresholdLocks` needs besides
that a user whom a handler has seen locked still is (`SeenStands`), since such a handler locks nobody;
`NoUnlocks` is for this.
With one request, `OneSession` says that two active rows of a user are the same row and `Working`
what the request has reached between its UPDATE and its INSERT: no row of the user is
active, and the family that a rotation adds to is not a compromised one.

**SignInSession.** The flags of a session are claims about what was shown in it (`Claims`), and
what was shown stays so; a copy is therefore as true when it is written back as when
it was read, whatever other handlers wrote meanwhile, and a session that passed the check
of exchange may be granted (`MayBeGranted`) whatever its key holds when its
token is redeemed. Only `policy` is false for a while, between the primary factor and
the reading of the setting (`PolicyRead`). `OnePerson` assumes that the forms of a session
get the email of one person: the flags do not name the user they are about.

For one request, `SessionsInv` follows a session through its life: a session that was granted is out of the store, and no
handler holds a copy of it, nor of one about to be granted that is still in the store.
`RedeemInv` says that the session of an exchange token is marked, or that a handler is on
its way to write it marked (`Marking`), and that every copy that may be written back is marked too.

**Passwords.** Types come first (`Typed`): a stored row's secret is a secret and a row a request
holds exists (`Written`, `Brought`), which the record type leaves open. Then, with one
request, `Intends` says what a handler about to write relies on: at its insert no row is active, its password
was never used, the rows that the expiry is about to change have outlived their age, the date of
the job lies `MaxAge` back. `Follow` says that a token in Redis was drawn under
the password of now, unless a statement failed, a reset was refused or a request is on its way to delete it; `Stored` that such a
token was drawn.

**SignUp.** A token is drawn for one registration for ever, and until it is mailed
one request holds it (`UnmailedIsHeldOnce`). The first insertion of a registration therefore
meets no copy of it (`New`), and every copy agrees with the table about the account
(`CopyAccount`), also where a resend inserts a row that was deleted meanwhile.
The other two theorems are about behaviours in which nothing has overlapped yet: then at most
one request is under way (`Alone`) and what it read still stands (`StillSo`). An account
is in both tables only while its verification is between the user and the removal
(`OnlyWhileVerifying`), and a user without a password still has its registration,
whichever statement the verification stopped at (`NothingLost`).

**Attempts.** `ThresholdReachedLocks` lets a request stand at the comparison that will find its
count too small; `LockFollows` names the count which that request holds, at least the
threshold. The theorem follows for any threshold, maximum and number of requests.
The two others count requests. Each wrong value tested since the counter was cleared is in the counter or in a
request that has yet to record it (`Counted`); while no cooldown refuses attempts, those
of the current burst that are recorded are fewer than the maximum, and each request is at one place, about to
test or about to record (`Few`). Both are proved over five kinds of step:
a request enters, fails, records, clears, or something else happens
(`Enters`, `Fails`, `Records`, `Clears`, `Aside`), with the theorems on cardinality.

**MultiFactorAuth.** A row is enabled by the save of a copy whose row is in
`proved`; the strengthening says that every request past the check of the code holds a
proved row (`HoldsProved`), that a request holds only a row that was made (`HoldsRow`), and
that every setup on its way to its insert has a row left (`Room`, by counting).
`DisabledStaysOff` needs no condition on overlaps: a row removed while no verification of it was
under way is absent, and no request carries it to a save (`Off`), so the INSERT of a stale copy
cannot be of it (`OffInv`); and a new row gets a number that no row had (`Numbered`).
For `ToldCodesStored`, while nothing has overlapped, one request is under way (`Alone`) with a copy that
is still the row (`StillSo`), and the codes of the enabled row are those the user was told, or is about to be
told by the request under way (`CodesTold`).

**PasswordRules.** `ScansExact` is not inductive: a loop that has not refused says nothing about
how far a run has come. The strengthening describes `run` and `dir`: the run is
the length of the longest stretch that ends at the last character and that the rule
would refuse if it were long enough. The theorem is about passwords of any
length and any alphabet, which no test or run covers.
`WindowsAreExact` says that the windows of four keys that the code enumerates, forwards and
backwards on each row of each layout, are exactly the walks of four neighbouring keys: it rests on
the rows having different keys each (`RowsKeys`), and on lemmas that turn a place in a row into a
window and back.

**Settings.** One configuration is active, always (`OneRow`): an activation is one transaction, and
of a row that exists.
For a request that nothing has run beside, what it read of the active row still stands, and the keys its
refresh has written so far agree with it (`Right`); so a refresh ends in agreement whatever
the cache held, and `RefreshHeals` needs no hypothesis. That a request is alone is
itself part of the invariant: all others are idle (`Lone`), and until something overlaps every request
is alone (`Undisturbed`). For the other two, while nothing has overlapped or failed, the
keys agree unless the one request under way has still to write them (`Settled`), and
`Sound` says what that request owes: between the two writes of `set` only the keys it is about to
write may disagree with the column, and what a read of Authora answers is what it
read from the active row, or from keys that agreed with it. `Active`
does not change under it, since any activation would overlap.

**StartUp.** `OnePassword` needs that no password exists before the administrator
(`NoAdminNoPassword`); `Seeded` that a hook that is done has left its row behind
(`HooksLeave`), and that the keys and the processes about to insert one are no more than the
processes (`KeysCounted`), counted with the theorems on finite sets.

Model-checked only: `CompleteIsExchangeable`, which is about the session of each moment and a
finite table of policies and flags, and the four liveness properties (`VerifiedEndsUsable`, `CooldownEnds`, `DisableSignsOut`,
`AllListen`), since liveness under fairness is out of the prover's reach; and the
counterexample of `settings_cold_read`, which a proof could not show.

## Assumptions about libraries

TypeORM: `save` of an entity with an id is a SELECT and then an UPDATE or an INSERT, `remove` a
DELETE by id, and an UPDATE or DELETE of a row that is gone succeeds; constraints are those of the
entities. Redis: one command is atomic, a pipeline is not. Nest: the hooks of
`onApplicationBootstrap` of a module run together, and a hook that throws ends the
process. PostgreSQL: READ COMMITTED, one statement at a time.

## Not modelled

Middleware, email delivery, throttling and the response delay: no state, or a library's.
Of controllers and DTOs only what decides something is modelled: which arguments
reach the settings and the password rules. Token values cannot be guessed: a client presents what
it was given. Three of the seven one-time token types are never drawn in the source.
An administrator activates a configuration that exists: `activate` does not ask, and with another
id all rows would be off, and every setting unreadable once its key is gone. A Boolean
setting may be sent as `1` or `0` in `Settings` (`Inputs`), though no passing run sends these; the
theorems allow all but `1`, the one text of which the column and Redis make different values.
The listings of devices
and sessions and the login of the super administrator change no state.
