------------------------------- MODULE Settings -------------------------------
(***************************************************************************)
(* SettingsService: settings live in columns of an active configuration    *)
(* row and are read through Redis keys that never expire.  Authora's own   *)
(* settings and those of a tenant share no key and no row, so a behaviour  *)
(* is about one of the two; the code paths differ where this module asks   *)
(* for the scope.                                                          *)
(*                                                                         *)
(* A tenant is looked up by its slug, while the Redis keys hold its id.    *)
(* The settings here are Boolean: a column holds TRUE or FALSE, a Redis    *)
(* key the text that was written.                                          *)
(***************************************************************************)
EXTENDS Naturals

CONSTANTS Configs,    \* configuration rows of the scope
          MaxKeys,    \* number of settings
          Requests,   \* handlers that may run together
          None,       \* no such row, no such key
          Scopes,     \* whose settings a run is about
          Inputs,     \* values an administrator sends
          Operations, \* what the clients of a run call
          Faults      \* TRUE: any statement may fail and end its request

AllOperations == {"read", "set", "activate", "boot", "evict"}

ASSUME ScopesAssumption == Scopes \subseteq {"authora", "tenant"}
ASSUME InputsAssumption == Inputs \subseteq {"true", "false", "1", "0"}
ASSUME NoneAssumption == None \notin Configs
ASSUME OperationsAssumption == Operations \subseteq AllOperations
ASSUME BoundAssumption == MaxKeys \in Nat /\ Faults \in BOOLEAN

VARIABLES scope,      \* whose settings: never changes
          config,     \* the configuration rows of the scope
          cache,      \* the Redis keys settings:authora:k or settings:tenant:<id>:k
          switched,   \* history: another configuration of the tenant was activated
          disturbed,  \* history: two requests have overlapped, or one has failed
          req         \* the requests in flight

history == <<switched, disturbed>>
vars == <<scope, config, cache, history, req>>

-------------------------------------------------------------------------------
(* Types *)

Keys == 1..MaxKeys
Texts == {"true", "false", "1", "0"}
Columns == [Keys -> BOOLEAN]
Config == [active: BOOLEAN, columns: Columns]

\* How a request ends: with an answer, after a refresh of the cache, with NotFound.
Ends == {"answered", "refreshed", "refused"}
Steps == {"idle", "findTenant", "readActive", "refreshActive", "fill", "setTenant", "setActive",
          "setRow", "setCache", "activateTenant", "activate", "refreshTenant"} \union Ends


\* Who names the tenant: by its id, by its slug, or not at all ('' where the
\* relation of the user was not loaded).
Names == {"authora", "id", "slug", "none"}

\* copy: the columns of the row that was read; left: the keys still to write;
\* alone: no other request has been in flight beside this one.
Request == [step: Steps, name: Names, keys: SUBSET Keys, reads: BOOLEAN,
            answer: [Keys -> BOOLEAN], copy: Columns, left: SUBSET Keys,
            text: Texts, config: Configs \union {None}, alone: BOOLEAN]
Blank == [k \in Keys |-> FALSE]
Idle == [step |-> "idle", name |-> "none", keys |-> {}, reads |-> FALSE, answer |-> Blank,
         copy |-> Blank, left |-> {}, text |-> "false", config |-> None, alone |-> FALSE]

TypeOK ==
  /\ scope \in Scopes
  /\ config \in [Configs -> Config]
  /\ cache \in [Keys -> Texts \union {"absent"}]
  /\ switched \in BOOLEAN
  /\ disturbed \in BOOLEAN
  /\ req \in [Requests -> Request]

-------------------------------------------------------------------------------
(* Helpers *)

At(r, step) == req[r].step = step
Goto(r, step) == req' = [req EXCEPT ![r].step = step]
Done(r) == req' = [req EXCEPT ![r] = Idle]

\* A request starts, beside those that are in flight.
Starts(r, op, request) ==
  LET beside == {s \in Requests \ {r} : ~At(s, "idle")} IN
  /\ At(r, "idle")
  /\ op \in Operations
  /\ req' = [s \in Requests |-> CASE s = r -> [request EXCEPT !.alone = (beside = {})]
                                 [] s \in beside -> [req[s] EXCEPT !.alone = FALSE]
                                 [] OTHER -> req[s]]
  /\ disturbed' = (disturbed \/ beside # {})
  /\ UNCHANGED switched

Serialize(b) == IF b THEN "true" ELSE "false"
Deserialize(text) == text = "true"

\* What the Boolean column makes of a value; Redis keeps the text as it came.
Stored(text) == text \in {"true", "1"}

\* Only the keys that hold the id of the tenant are ever written.
Cached(name, k) == IF name \in {"authora", "id"} THEN cache[k] ELSE "absent"

FindBySlug(name) == name = "slug"
Active == {c \in Configs : config[c].active}

\* What the callers of get and getMany, and of set, pass as tenant.
ReaderNames == IF scope = "authora" THEN {"authora"} ELSE {"id", "none"}
WriterName == IF scope = "authora" THEN "authora" ELSE "slug"

-------------------------------------------------------------------------------
(* get and getMany: one MGET, and the database when any key is missing. *)

BeginRead(r, name, keys) ==
  LET hit == \A k \in keys : Cached(name, k) # "absent" IN
  /\ Starts(r, "read", [Idle EXCEPT
       !.name = name, !.keys = keys, !.reads = TRUE,
       !.answer = IF hit THEN [k \in Keys |-> k \in keys /\ Deserialize(Cached(name, k))]
                  ELSE Blank,
       !.step = CASE hit -> "answered"
                  [] ~hit /\ scope = "authora" -> "readActive"
                  [] OTHER -> "findTenant"])
  /\ UNCHANGED <<scope, config, cache>>

FindTenant(r) ==
  /\ At(r, "findTenant")
  /\ Goto(r, IF FindBySlug(req[r].name) THEN "readActive" ELSE "refused")
  /\ UNCHANGED <<scope, config, cache, history>>

\* The answer is taken from this read; Authora's cache from another, below.
ReadActive(r) ==
  /\ At(r, "readActive")
  /\ \/ /\ Active = {}
        /\ Goto(r, "refused")
     \/ \E c \in Active :
          req' = [req EXCEPT ![r].answer = [k \in Keys |-> k \in req[r].keys
                                                             /\ config[c].columns[k]],
                             ![r].copy = config[c].columns,
                             ![r].left = IF scope = "tenant" THEN Keys ELSE {},
                             ![r].step = IF scope = "tenant" THEN "fill" ELSE "refreshActive"]
  /\ UNCHANGED <<scope, config, cache, history>>

\* The read in refreshAuthoraCache and refreshTenantCache, which skip without a row.
RefreshActive(r) ==
  /\ At(r, "refreshActive")
  /\ \/ /\ Active = {}
        /\ Goto(r, "answered")
     \/ \E c \in Active :
          req' = [req EXCEPT ![r].copy = config[c].columns, ![r].left = Keys,
                             ![r].step = "fill"]
  /\ UNCHANGED <<scope, config, cache, history>>

\* Mutant: the pipeline sets only the keys that are not there.
FillAbsent(r) ==
  /\ At(r, "fill")
  /\ cache' = [k \in Keys |-> IF cache[k] = "absent" THEN Serialize(req[r].copy[k]) ELSE cache[k]]
  /\ Goto(r, "refreshed")
  /\ UNCHANGED <<scope, config, history>>

\* The pipeline: one SET after the other, with other clients' commands between.
Fill(r) ==
  /\ At(r, "fill")
  /\ \E k \in req[r].left :
       /\ \A j \in req[r].left : k <= j
       /\ cache' = [cache EXCEPT ![k] = Serialize(req[r].copy[k])]
       /\ req' = [req EXCEPT ![r].left = @ \ {k},
                             ![r].step = IF req[r].left = {k} THEN "refreshed" ELSE "fill"]
  /\ UNCHANGED <<scope, config, history>>

\* The answer, or the NotFoundException, leaves the service.
Leave(r) ==
  /\ req[r].step \in Ends
  /\ Done(r)
  /\ UNCHANGED <<scope, config, cache, history>>

-------------------------------------------------------------------------------
(* set: the row, then one Redis key *)

BeginSet(r, k, text) ==
  /\ Starts(r, "set", [Idle EXCEPT
       !.name = WriterName, !.keys = {k}, !.text = text,
       !.step = IF scope = "authora" THEN "setActive" ELSE "setTenant"])
  /\ UNCHANGED <<scope, config, cache>>

SetTenant(r) ==
  /\ At(r, "setTenant")
  /\ Goto(r, IF FindBySlug(req[r].name) THEN "setActive" ELSE "refused")
  /\ UNCHANGED <<scope, config, cache, history>>

SetActive(r) ==
  /\ At(r, "setActive")
  /\ \/ Active = {} /\ Goto(r, "refused")
     \/ \E c \in Active : req' = [req EXCEPT ![r].config = c, ![r].step = "setRow"]
  /\ UNCHANGED <<scope, config, cache, history>>

\* UPDATE by id: of the row that was active when it was looked up.
SetRow(r) ==
  /\ At(r, "setRow")
  /\ config' = [config EXCEPT ![req[r].config].columns =
                  [k \in Keys |-> IF k \in req[r].keys THEN Stored(req[r].text) ELSE @[k]]]
  /\ Goto(r, "setCache")
  /\ UNCHANGED <<scope, cache, history>>

\* Mutant: the key is left as it is, for the next miss to fill.
SetCacheNothing(r) ==
  /\ At(r, "setCache")
  /\ Done(r)
  /\ UNCHANGED <<scope, config, cache, history>>

SetCache(r) ==
  /\ At(r, "setCache")
  /\ cache' = [k \in Keys |-> IF k \in req[r].keys THEN req[r].text ELSE cache[k]]
  /\ Done(r)
  /\ UNCHANGED <<scope, config, history>>

-------------------------------------------------------------------------------
(* activateAuthoraConfig, activateTenantConfig, and the refresh at start-up *)

BeginActivate(r, c) ==
  /\ Starts(r, "activate", [Idle EXCEPT
       !.name = WriterName, !.config = c,
       !.step = IF scope = "authora" THEN "activate" ELSE "activateTenant"])
  /\ UNCHANGED <<scope, config, cache>>

ActivateTenant(r) ==
  /\ At(r, "activateTenant")
  /\ Goto(r, IF FindBySlug(req[r].name) THEN "activate" ELSE "refused")
  /\ UNCHANGED <<scope, config, cache, history>>

\* Mutant: the cache is left to the keys' next miss.
ActivateOnly(r) ==
  /\ At(r, "activate")
  /\ config' = [c \in Configs |-> [config[c] EXCEPT !.active = (c = req[r].config)]]
  /\ Done(r)
  /\ UNCHANGED <<scope, cache, history>>

\* One transaction: all rows off, this one on.
Activate(r) ==
  /\ At(r, "activate")
  /\ config' = [c \in Configs |-> [config[c] EXCEPT !.active = (c = req[r].config)]]
  /\ switched' = (switched \/ (scope = "tenant" /\ Active # {req[r].config}))
  /\ Goto(r, IF scope = "authora" THEN "refreshActive" ELSE "refreshTenant")
  /\ UNCHANGED <<scope, cache, disturbed>>

\* refreshTenantCache(tenant.id) looks its argument up as a slug.
RefreshTenant(r) ==
  /\ At(r, "refreshTenant")
  /\ IF FindBySlug("id") THEN Goto(r, "refreshActive") ELSE Done(r)
  /\ UNCHANGED <<scope, config, cache, history>>

\* onApplicationBootstrap of an instance that starts on this database and Redis.
Boot(r) ==
  /\ scope = "authora"
  /\ Starts(r, "boot", [Idle EXCEPT !.name = "authora", !.step = "refreshActive"])
  /\ UNCHANGED <<scope, config, cache>>

-------------------------------------------------------------------------------
(* The environment *)

\* Redis loses a key.
Evict(k) ==
  /\ "evict" \in Operations
  /\ cache[k] # "absent"
  /\ cache' = [cache EXCEPT ![k] = "absent"]
  /\ UNCHANGED <<scope, config, history, req>>

\* A statement fails or the process ends: what was written stays written.
Abort(r) ==
  /\ Faults
  /\ req[r].step \notin Ends \union {"idle"}
  /\ disturbed' = TRUE
  /\ Done(r)
  /\ UNCHANGED <<scope, config, cache, switched>>

-------------------------------------------------------------------------------
(* The specification *)

\* Redis is empty and one configuration, with any values, is active.
Init ==
  /\ scope \in Scopes
  /\ \E a \in Configs, values \in [Configs -> Columns] :
       config = [c \in Configs |-> [active |-> c = a, columns |-> values[c]]]
  /\ cache = [k \in Keys |-> "absent"]
  /\ switched = FALSE
  /\ disturbed = FALSE
  /\ req = [r \in Requests |-> Idle]

Begin(r) ==
  \/ \E name \in ReaderNames, keys \in SUBSET Keys \ {{}} : BeginRead(r, name, keys)
  \/ \E k \in Keys, text \in Inputs : BeginSet(r, k, text)
  \/ \E c \in Configs : BeginActivate(r, c)
  \/ Boot(r)

Step(r) ==
  \/ FindTenant(r) \/ ReadActive(r) \/ RefreshActive(r) \/ Fill(r) \/ Leave(r)
  \/ SetTenant(r) \/ SetActive(r) \/ SetRow(r) \/ SetCache(r)
  \/ ActivateTenant(r) \/ Activate(r) \/ RefreshTenant(r)

Next ==
  \/ \E r \in Requests : Begin(r) \/ Step(r) \/ Abort(r)
  \/ \E k \in Keys : Evict(k)

Spec == Init /\ [][Next]_vars

-------------------------------------------------------------------------------
(* Properties *)

Quiet == \A r \in Requests : At(r, "idle")
Agrees == \A k \in Keys, c \in Active : cache[k] # "absent" =>
            Deserialize(cache[k]) = config[c].columns[k]

\* Where requests did not overlap or fail, a key that Redis holds reads back as
\* the column of the active configuration, whatever was set, activated, evicted
\* and refilled; a tenant's until another configuration of it is activated.
CacheAgrees ==
  (~disturbed /\ Quiet /\ ~switched) => Agrees

\* A refresh of the cache (an activation, a start, a read that missed) that no
\* other request overlapped leaves it in agreement, whatever had failed or
\* interleaved before: stale keys do not outlive the next undisturbed refresh.
RefreshHeals ==
  \A r \in Requests : (At(r, "refreshed") /\ req[r].alone) => Agrees

\* A read of Authora's settings, on a cold, warm or partly evicted cache, answers
\* what the active configuration says, where requests did not overlap or fail.
AuthoraReadsSeeActive ==
  (scope = "authora" /\ ~disturbed) =>
    \A r \in Requests : req[r].reads =>
      /\ ~At(r, "refused")
      /\ req[r].step \in {"answered", "refreshed"} =>
           \A k \in req[r].keys, c \in Active : req[r].answer[k] = config[c].columns[k]

\* As settings.service.spec.ts:137 says, "should fallback to SQL when tenant cache
\* is missing": a read of a tenant with an active configuration is not refused.
ColdReadFallsBack ==
  \A r \in Requests : (At(r, "refused") /\ req[r].reads) => Active = {}
===============================================================================
