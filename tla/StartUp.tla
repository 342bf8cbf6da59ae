-------------------------------- MODULE StartUp --------------------------------
(***************************************************************************)
(* The start of Authora on an empty or a half-filled database, by several  *)
(* processes at once.  Nest calls the start-up hooks of one process        *)
(* together and listens when all have ended; a hook that throws ends the   *)
(* process, and whoever runs it starts it again.                           *)
(*                                                                         *)
(* A hook finds its row and inserts it when it is missing.  It runs once   *)
(* per process however often it is called (the promise is kept), so the    *)
(* hooks that call another one wait for it.  Two processes may both miss   *)
(* a row: the second insert breaks the table's unique constraint, where    *)
(* there is one.                                                           *)
(***************************************************************************)
EXTENDS Naturals, FiniteSets

CONSTANTS Processes,  \* instances of Authora on one database
          MaxCrashes  \* bound: how often a process may crash

ASSUME BoundAssumption == MaxCrashes \in Nat
ASSUME ProcessesAssumption == IsFiniteSet(Processes)

VARIABLES multiTenant,  \* ENABLE_MULTI_TENANT, the same in every process
          rows,         \* the default rows in the tables with a unique constraint
          apiKeys,      \* number of rows of api_key
          passwords,    \* number of passwords of the administrator
          cached,       \* the Redis keys of Authora's settings are set
          phase,        \* phase[p]: "starting", "listening" or "down"
          hook,         \* hook[p][h]: where hook h of process p is
          crashes,      \* how many crashes there have been
          fell          \* history: a process has ended

tables == <<rows, apiKeys, passwords, cached>>
vars == <<multiTenant, tables, phase, hook, crashes, fell>>

-------------------------------------------------------------------------------
(* Types *)

\* One hook per bootstrap service, and SettingsService.onApplicationBootstrap.
Hooks == {"tenant", "authora", "tenantConfig", "admin", "apiKey", "settings"}
Rows == Hooks \ {"apiKey", "settings"}
Steps == {"await", "find", "insert", "hash", "insertPassword", "done"}
Phases == {"starting", "listening", "down"}

TypeOK ==
  /\ multiTenant \in BOOLEAN
  /\ rows \in SUBSET Rows
  /\ apiKeys \in Nat
  /\ passwords \in Nat
  /\ cached \in BOOLEAN
  /\ phase \in [Processes -> Phases]
  /\ hook \in [Processes -> [Hooks -> Steps]]
  /\ crashes \in 0..MaxCrashes
  /\ fell \in BOOLEAN

-------------------------------------------------------------------------------
(* Helpers *)

\* Mutant: the calls to the bootstrap of Authora's configuration are left out.
AwaitsTenantsOnly(h) == CASE h \in {"tenantConfig", "apiKey", "admin"} -> {"tenant"}
                          [] h = "settings" -> {"tenantConfig"}
                          [] OTHER -> {}

\* The hooks a hook calls before it looks for its own row.
Awaits(h) == CASE h \in {"tenantConfig", "apiKey"} -> {"tenant"}
               [] h = "admin" -> {"tenant", "authora"}
               [] h = "settings" -> {"authora", "tenantConfig"}
               [] OTHER -> {}

\* Where the hooks of a process begin; with several tenants only the
\* configuration of Authora is made.
First == [h \in Hooks |->
            CASE multiTenant /\ h \notin {"authora", "settings"} -> "done"
              [] h \in {"tenant", "authora"} -> "find"
              [] OTHER -> "await"]

At(p, h, step) == phase[p] = "starting" /\ hook[p][h] = step
Goto(p, h, step) == hook' = [hook EXCEPT ![p][h] = step] /\ UNCHANGED <<phase, fell>>

\* The promises go with the process.
Exit(p) == /\ phase' = [phase EXCEPT ![p] = "down"]
           /\ hook' = [hook EXCEPT ![p] = First]
           /\ fell' = TRUE

\* Mutant: findBySlug and its like find nothing.
ExistsNever(h) == FALSE

\* The row of hook h, or a key of the tenant, active or not.
Exists(h) == IF h = "apiKey" THEN apiKeys > 0 ELSE h \in rows

Init ==
  /\ multiTenant \in BOOLEAN
  /\ rows = {} /\ apiKeys = 0 /\ passwords = 0 /\ cached = FALSE
  /\ phase = [p \in Processes |-> "starting"]
  /\ hook = [p \in Processes |-> First]
  /\ crashes = 0 /\ fell = FALSE

-------------------------------------------------------------------------------
(* The hooks of a process *)

\* The calls to the other hooks return, and the default tenant is looked up;
\* without it the hook throws.
Await(p, h) ==
  /\ At(p, h, "await")
  /\ \A a \in Awaits(h) : hook[p][a] = "done"
  /\ IF "tenant" \in rows \/ h = "settings" THEN Goto(p, h, "find") ELSE Exit(p)
  /\ UNCHANGED <<multiTenant, tables, crashes>>

Find(p, h) ==
  /\ At(p, h, "find") /\ h # "settings"
  /\ Goto(p, h, IF Exists(h) THEN "done" ELSE "insert")
  /\ UNCHANGED <<multiTenant, tables, crashes>>

\* Mutant: an upsert, which a second process passes as well.
InsertUpsert(p, h) ==
  /\ At(p, h, "insert") /\ h \in Rows
  /\ rows' = rows \union {h}
  /\ Goto(p, h, IF h = "admin" THEN "hash" ELSE "done")
  /\ UNCHANGED <<multiTenant, apiKeys, passwords, cached, crashes>>

Insert(p, h) ==
  /\ At(p, h, "insert") /\ h \in Rows
  /\ IF h \in rows
       THEN Exit(p) /\ UNCHANGED rows
       ELSE /\ rows' = rows \union {h}
            /\ Goto(p, h, IF h = "admin" THEN "hash" ELSE "done")
  /\ UNCHANGED <<multiTenant, apiKeys, passwords, cached, crashes>>

\* Nothing is unique in api_key but the random key itself.
InsertApiKey(p) ==
  /\ At(p, "apiKey", "insert")
  /\ apiKeys' = apiKeys + 1
  /\ Goto(p, "apiKey", "done")
  /\ UNCHANGED <<multiTenant, rows, passwords, cached, crashes>>

\* HashService.hash reads the cost of a hash from the settings of Authora; what
\* is not in Redis is read from the table, which fills the keys, and it is an
\* error if no configuration is active.  Rows and keys stay, so the three
\* statements are one step.
Hash(p) ==
  /\ At(p, "admin", "hash")
  /\ IF cached \/ "authora" \in rows
       THEN cached' = TRUE /\ Goto(p, "admin", "insertPassword")
       ELSE Exit(p) /\ UNCHANGED cached
  /\ UNCHANGED <<multiTenant, rows, apiKeys, passwords, crashes>>

InsertPassword(p) ==
  /\ At(p, "admin", "insertPassword")
  /\ passwords' = passwords + 1
  /\ Goto(p, "admin", "done")
  /\ UNCHANGED <<multiTenant, rows, apiKeys, cached, crashes>>

\* refreshAuthoraCache: without an active configuration it only warns.
Fill(p) ==
  /\ At(p, "settings", "find")
  /\ cached' = (cached \/ "authora" \in rows)
  /\ Goto(p, "settings", "done")
  /\ UNCHANGED <<multiTenant, rows, apiKeys, passwords, crashes>>

Listen(p) ==
  /\ \A h \in Hooks : At(p, h, "done")
  /\ phase' = [phase EXCEPT ![p] = "listening"]
  /\ UNCHANGED <<multiTenant, tables, hook, crashes, fell>>

-------------------------------------------------------------------------------
(* The environment *)

Crash(p) ==
  /\ phase[p] # "down"
  /\ crashes < MaxCrashes
  /\ crashes' = crashes + 1
  /\ Exit(p)
  /\ UNCHANGED <<multiTenant, tables>>

Restart(p) ==
  /\ phase[p] = "down"
  /\ phase' = [phase EXCEPT ![p] = "starting"]
  /\ UNCHANGED <<multiTenant, tables, hook, crashes, fell>>

\* One statement of a process that is starting.
Step(p) ==
  \/ \E h \in Hooks : Await(p, h) \/ Find(p, h) \/ Insert(p, h)
  \/ InsertApiKey(p) \/ Hash(p) \/ InsertPassword(p) \/ Fill(p) \/ Listen(p)

Next == \E p \in Processes : Step(p) \/ Crash(p) \/ Restart(p)

\* The event loop serves what has come back from the database, and someone
\* starts a process that has ended.
Fairness == \A p \in Processes : WF_vars(Step(p)) /\ WF_vars(Restart(p))

Spec == Init /\ [][Next]_vars /\ Fairness

-------------------------------------------------------------------------------
(* Properties *)

(* A process that listens has everything it serves from: Authora's
   configuration and its settings in Redis, and, unless tenants are made by
   others, the default rows and at least one key.  Processes that start
   together may each insert a key, and no more, whatever crashes and starts
   again.                                                                    *)
ListeningMeansSeeded ==
  \A p \in Processes : phase[p] = "listening" =>
    /\ cached /\ "authora" \in rows
    /\ multiTenant \/ (Rows \subseteq rows /\ apiKeys \in 1..Cardinality(Processes))

(* The administrator gets one password, by the process that inserted the
   administrator and no other, so the one that is printed works.  A process
   that ends between the two statements leaves an administrator without one
   for good, since the next start finds the administrator and returns; a
   conflict of another hook of the process is enough.                        *)
AdminHasOnePassword ==
  LET onTheWay == {p \in Processes : At(p, "admin", "hash") \/ At(p, "admin", "insertPassword")}
  IN  /\ passwords + Cardinality(onTheWay) <= 1
      /\ "admin" \in rows /\ ~fell => passwords + Cardinality(onTheWay) = 1

(* Processes that meet on a unique constraint, or crash, listen in the end.  *)
AllListen == <>[](\A p \in Processes : phase[p] = "listening")
===============================================================================
