----------------------------- MODULE StartUpProofs -----------------------------
(***************************************************************************)
(* Proofs, for any number of processes and crashes, that StartUp is well   *)
(* typed, that the administrator gets one password, and that a process     *)
(* that listens has everything it serves from.                             *)
(*                                                                         *)
(* AdminHasOnePassword needs that nobody is on the way to a password of an *)
(* administrator who is not there (NoAdminNoPassword).  The number of keys *)
(* is bounded by those that are on their way: a process goes to its insert *)
(* only while there is no key (KeysCounted).  What a hook that is done has *)
(* left behind is HooksLeave.                                              *)
(***************************************************************************)
EXTENDS StartUp, FiniteSetTheorems, TLAPS

OnTheWay == {p \in Processes : At(p, "admin", "hash") \/ At(p, "admin", "insertPassword")}
KeyInserters == {p \in Processes : At(p, "apiKey", "insert")}

NoAdminNoPassword == "admin" \notin rows => passwords = 0 /\ OnTheWay = {}
KeysCounted == apiKeys + Cardinality(KeyInserters) <= Cardinality(Processes)

HooksLeave ==
  \A p \in Processes :
    /\ hook[p]["authora"] = "done" => "authora" \in rows
    /\ hook[p]["settings"] \in {"await", "find", "done"}
    /\ hook[p]["settings"] = "find" => "authora" \in rows
    /\ hook[p]["settings"] = "done" => cached
    /\ multiTenant \/ \A h \in Rows : hook[p][h] \in {"done", "hash", "insertPassword"} => h \in rows
    /\ multiTenant \/ (hook[p]["apiKey"] = "done" => apiKeys > 0)
    /\ phase[p] = "listening" => \A h \in Hooks : hook[p][h] = "done"
    /\ phase[p] = "down" => /\ hook[p]["admin"] \notin {"hash", "insertPassword"}
                            /\ hook[p]["apiKey"] # "insert"

IInv == TypeOK /\ NoAdminNoPassword /\ AdminHasOnePassword /\ KeysCounted /\ HooksLeave

-------------------------------------------------------------------------------
(* Parts of a finite set are finite and no larger.                           *)
LEMMA PartCounted ==
  ASSUME NEW S \in SUBSET Processes, NEW T \in SUBSET S
  PROVE  /\ IsFiniteSet(S) /\ Cardinality(S) \in Nat
         /\ Cardinality(T) \in Nat /\ Cardinality(T) <= Cardinality(S)
BY ProcessesAssumption, FS_Subset, FS_CardinalityType

LEMMA OneLess ==
  ASSUME NEW S \in SUBSET Processes, NEW p \in S, NEW T \in SUBSET (S \ {p})
  PROVE  Cardinality(T) \in Nat /\ Cardinality(S) \in Nat /\ Cardinality(T) + 1 <= Cardinality(S)
<1>1. IsFiniteSet(S) /\ Cardinality(S) \in Nat
  BY PartCounted
<1>2. Cardinality(S \ {p}) = Cardinality(S) - 1
  BY <1>1, FS_RemoveElement
<1>3. Cardinality(T) \in Nat /\ Cardinality(T) <= Cardinality(S \ {p})
  BY PartCounted
<1> QED BY <1>1, <1>2, <1>3

(* A hook moves, or its process ends: nothing else of the processes changes.  *)
Moves(p, h, step) == hook' = [hook EXCEPT ![p][h] = step] /\ phase' = phase /\ fell' = fell

LEMMA FirstTyped ==
  /\ First \in [Hooks -> Steps]
  /\ First["settings"] = "await" /\ First["authora"] = "find"
  /\ First["admin"] \in {"await", "done"} /\ First["apiKey"] \in {"await", "done"}
  /\ multiTenant \/ \A h \in Hooks : First[h] \in {"await", "find"}
<1> DEFINE first(h) == CASE multiTenant /\ h \notin {"authora", "settings"} -> "done"
                         [] h \in {"tenant", "authora"} -> "find"
                         [] OTHER -> "await"
<1>1. \A h \in Hooks : First[h] = first(h)
  BY DEF First
<1>2. \A h \in Hooks : first(h) \in {"done", "find", "await"}
  OBVIOUS
<1>3. First = [h \in Hooks |-> first(h)]
  BY DEF First
<1> HIDE DEF first
<1>4. First \in [Hooks -> Steps]
  BY <1>2, <1>3 DEF Steps
<1>5. /\ first("settings") = "await" /\ first("authora") = "find"
      /\ first("admin") \in {"await", "done"} /\ first("apiKey") \in {"await", "done"}
      /\ ~multiTenant => \A h \in Hooks : first(h) \in {"await", "find"}
  BY DEF first, Hooks
<1> QED BY <1>1, <1>4, <1>5 DEF Hooks

LEMMA TypesOfMove ==
  ASSUME TypeOK, NEW p \in Processes, NEW h \in Hooks, NEW step \in Steps, Goto(p, h, step)
  PROVE  /\ phase' \in [Processes -> Phases] /\ fell' \in BOOLEAN
         /\ hook' \in [Processes -> [Hooks -> Steps]]
         /\ Moves(p, h, step)
         /\ hook'[p][h] = step
         /\ \A q \in Processes, g \in Hooks : <<q, g>> # <<p, h>> => hook'[q][g] = hook[q][g]
BY DEF TypeOK, Goto, Moves

LEMMA TypesOfExit ==
  ASSUME TypeOK, NEW p \in Processes, Exit(p)
  PROVE  /\ phase' \in [Processes -> Phases] /\ fell' = TRUE
         /\ hook' \in [Processes -> [Hooks -> Steps]]
         /\ phase'[p] = "down" /\ hook'[p] = First
         /\ \A q \in Processes \ {p} : phase'[q] = phase[q] /\ hook'[q] = hook[q]
BY FirstTyped DEF TypeOK, Exit, Phases

(* What a move or an exit does to the two sets that are counted.             *)
LEMMA MoveParts ==
  ASSUME TypeOK, NEW p \in Processes, NEW h \in Hooks, NEW step \in Steps, Goto(p, h, step)
  PROVE  /\ h # "admin" => OnTheWay' = OnTheWay
         /\ h # "apiKey" => KeyInserters' = KeyInserters
         /\ OnTheWay' \subseteq OnTheWay \union {p}
         /\ OnTheWay \ {p} \subseteq OnTheWay'
         /\ KeyInserters' \subseteq KeyInserters \union {p}
<1>1. /\ phase' = phase
      /\ \A q \in Processes, g \in Hooks : <<q, g>> # <<p, h>> => hook'[q][g] = hook[q][g]
  BY TypesOfMove DEF Moves
<1>2. "admin" \in Hooks /\ "apiKey" \in Hooks
  BY DEF Hooks
<1> QED BY <1>1, <1>2 DEF OnTheWay, KeyInserters, At

LEMMA ExitParts ==
  ASSUME TypeOK, NEW p \in Processes, Exit(p)
  PROVE  OnTheWay' \subseteq OnTheWay /\ KeyInserters' \subseteq KeyInserters
BY TypesOfExit DEF OnTheWay, KeyInserters, At

(* The administrator's invariant, when no password and no administrator is added. *)
AdminInv == NoAdminNoPassword /\ AdminHasOnePassword

LEMMA AdminUnfolded ==
  AdminInv <=> /\ "admin" \notin rows => passwords = 0 /\ OnTheWay = {}
               /\ passwords + Cardinality(OnTheWay) <= 1
               /\ "admin" \in rows /\ ~fell => passwords + Cardinality(OnTheWay) = 1
BY DEF AdminInv, NoAdminNoPassword, AdminHasOnePassword, OnTheWay

LEMMA AdminKept ==
  ASSUME TypeOK, AdminInv, passwords' = passwords, "admin" \in rows' <=> "admin" \in rows,
         \/ OnTheWay' = OnTheWay /\ fell' = fell
         \/ OnTheWay' \subseteq OnTheWay /\ fell' = TRUE
  PROVE  AdminInv'
<1>1. passwords \in Nat /\ OnTheWay \in SUBSET Processes
  BY DEF TypeOK, OnTheWay
<1>2. CASE OnTheWay' = OnTheWay /\ fell' = fell
  BY <1>2 DEF AdminInv, NoAdminNoPassword, AdminHasOnePassword, OnTheWay
<1>3. CASE OnTheWay' \subseteq OnTheWay /\ fell' = TRUE
  <2>1. /\ Cardinality(OnTheWay) \in Nat /\ Cardinality(OnTheWay') \in Nat
        /\ Cardinality(OnTheWay') <= Cardinality(OnTheWay)
    BY <1>1, <1>3, PartCounted
  <2>2. passwords + Cardinality(OnTheWay') <= 1
    BY <1>1, <2>1, AdminUnfolded
  <2>3. "admin" \notin rows' => passwords' = 0 /\ OnTheWay' = {}
    BY <1>3, AdminUnfolded
  <2> QED BY <1>3, <2>2, <2>3 DEF AdminInv, NoAdminNoPassword, AdminHasOnePassword, OnTheWay
<1> QED BY <1>2, <1>3

LEMMA KeysKept ==
  ASSUME TypeOK, KeysCounted, apiKeys' = apiKeys, KeyInserters' \subseteq KeyInserters
  PROVE  KeysCounted'
<1>1. apiKeys \in Nat /\ KeyInserters \in SUBSET Processes
  BY DEF TypeOK, KeyInserters
<1>2. /\ Cardinality(KeyInserters) \in Nat /\ Cardinality(KeyInserters') \in Nat
      /\ Cardinality(KeyInserters') <= Cardinality(KeyInserters)
      /\ Cardinality(Processes) \in Nat
  BY <1>1, PartCounted, ProcessesAssumption, FS_CardinalityType
<1> QED BY <1>1, <1>2 DEF KeysCounted

(* What the hooks have left stays; one that moves on has to have left its own. *)
LEMMA HooksLeaveMove ==
  ASSUME TypeOK, HooksLeave, NEW p \in Processes, NEW h \in Hooks, NEW step \in Steps,
         Goto(p, h, step), phase[p] = "starting", multiTenant' = multiTenant,
         rows \subseteq rows', apiKeys > 0 => apiKeys' > 0, cached => cached',
         h = "authora" /\ step = "done" => "authora" \in rows',
         h = "settings" => \/ step = "find" /\ "authora" \in rows'
                           \/ step = "done" /\ cached',
         multiTenant \/ (h \in Rows /\ step \in {"done", "hash", "insertPassword"} => h \in rows'),
         multiTenant \/ (h = "apiKey" /\ step = "done" => apiKeys' > 0)
  PROVE  HooksLeave'
<1>1. /\ phase' = phase /\ hook'[p][h] = step
      /\ \A q \in Processes, g \in Hooks : <<q, g>> # <<p, h>> => hook'[q][g] = hook[q][g]
  BY TypesOfMove DEF Moves
<1>2. /\ "authora" \in Hooks /\ "settings" \in Hooks /\ "apiKey" \in Hooks /\ "admin" \in Hooks
      /\ Rows \subseteq Hooks
  BY DEF Hooks, Rows
<1> SUFFICES ASSUME NEW q \in Processes
             PROVE  /\ hook'[q]["authora"] = "done" => "authora" \in rows'
                    /\ hook'[q]["settings"] \in {"await", "find", "done"}
                    /\ hook'[q]["settings"] = "find" => "authora" \in rows'
                    /\ hook'[q]["settings"] = "done" => cached'
                    /\ \/ multiTenant
                       \/ \A g \in Rows : hook'[q][g] \in {"done", "hash", "insertPassword"}
                                             => g \in rows'
                    /\ multiTenant \/ (hook'[q]["apiKey"] = "done" => apiKeys' > 0)
                    /\ phase[q] = "listening" => \A g \in Hooks : hook'[q][g] = "done"
                    /\ phase[q] = "down" => /\ hook'[q]["admin"] \notin {"hash", "insertPassword"}
                                            /\ hook'[q]["apiKey"] # "insert"
  BY <1>1 DEF HooksLeave
<1>3. hook'[q]["authora"] = "done" => "authora" \in rows'
  BY <1>1, <1>2 DEF HooksLeave
<1>4. /\ hook'[q]["settings"] \in {"await", "find", "done"}
      /\ hook'[q]["settings"] = "find" => "authora" \in rows'
      /\ hook'[q]["settings"] = "done" => cached'
  BY <1>1, <1>2 DEF HooksLeave
<1>5. multiTenant \/ \A g \in Rows : hook'[q][g] \in {"done", "hash", "insertPassword"} => g \in rows'
  BY <1>1, <1>2 DEF HooksLeave
<1>6. multiTenant \/ (hook'[q]["apiKey"] = "done" => apiKeys' > 0)
  BY <1>1, <1>2 DEF HooksLeave
<1>7. phase[q] # "starting" => \A g \in Hooks : hook'[q][g] = hook[q][g]
  BY <1>1
<1> QED BY <1>2, <1>3, <1>4, <1>5, <1>6, <1>7 DEF HooksLeave

LEMMA HooksLeaveExit ==
  ASSUME TypeOK, HooksLeave, NEW p \in Processes, Exit(p), UNCHANGED <<multiTenant, tables>>
  PROVE  HooksLeave'
<1>1. /\ phase'[p] = "down" /\ hook'[p] = First
      /\ \A q \in Processes \ {p} : phase'[q] = phase[q] /\ hook'[q] = hook[q]
      /\ multiTenant' = multiTenant /\ rows' = rows /\ apiKeys' = apiKeys /\ cached' = cached
  BY TypesOfExit DEF tables
<1>2. /\ First["settings"] = "await" /\ First["authora"] = "find"
      /\ First["admin"] \in {"await", "done"} /\ First["apiKey"] \in {"await", "done"}
      /\ multiTenant \/ \A h \in Hooks : First[h] \in {"await", "find"}
  BY FirstTyped
<1>3. Rows \subseteq Hooks /\ "apiKey" \in Hooks
  BY DEF Hooks, Rows
<1> QED BY <1>1, <1>2, <1>3 DEF HooksLeave

-------------------------------------------------------------------------------
LEMMA TypesKept ==
  ASSUME TypeOK, NEW p \in Processes, Step(p) \/ Crash(p) \/ Restart(p)
  PROVE  TypeOK'
<1>0. /\ "admin" \in Hooks /\ "apiKey" \in Hooks /\ "settings" \in Hooks
      /\ Rows \subseteq Hooks
      /\ {"find", "done", "insert", "hash", "insertPassword"} \subseteq Steps
      /\ rows \in SUBSET Rows /\ apiKeys \in Nat /\ passwords \in Nat /\ cached \in BOOLEAN
      /\ multiTenant \in BOOLEAN /\ crashes \in 0..MaxCrashes /\ fell \in BOOLEAN
      /\ phase \in [Processes -> Phases] /\ hook \in [Processes -> [Hooks -> Steps]]
      /\ MaxCrashes \in Nat
  BY BoundAssumption DEF Hooks, Rows, Steps, TypeOK
<1>1. ASSUME NEW h \in Hooks, Await(p, h) PROVE TypeOK'
  <2>1. /\ multiTenant' \in BOOLEAN /\ rows' \in SUBSET Rows /\ apiKeys' \in Nat
        /\ passwords' \in Nat /\ cached' \in BOOLEAN /\ crashes' \in 0..MaxCrashes
    BY <1>0, <1>1 DEF Await, tables
  <2>2. /\ phase' \in [Processes -> Phases] /\ fell' \in BOOLEAN
        /\ hook' \in [Processes -> [Hooks -> Steps]]
    <3>1. Goto(p, h, "find") \/ Exit(p)
      BY <1>1 DEF Await
    <3> QED BY <1>0, <3>1, TypesOfMove, TypesOfExit
  <2> QED BY <2>1, <2>2 DEF TypeOK
<1>2. ASSUME NEW h \in Hooks, Find(p, h) PROVE TypeOK'
  <2>1. /\ multiTenant' \in BOOLEAN /\ rows' \in SUBSET Rows /\ apiKeys' \in Nat
        /\ passwords' \in Nat /\ cached' \in BOOLEAN /\ crashes' \in 0..MaxCrashes
    BY <1>0, <1>2 DEF Find, tables
  <2>2. /\ phase' \in [Processes -> Phases] /\ fell' \in BOOLEAN
        /\ hook' \in [Processes -> [Hooks -> Steps]]
    <3>1. PICK step \in {"done", "insert"} : Goto(p, h, step)
      BY <1>2 DEF Find
    <3> QED BY <1>0, <3>1, TypesOfMove
  <2> QED BY <2>1, <2>2 DEF TypeOK
<1>3. ASSUME NEW h \in Hooks, Insert(p, h) PROVE TypeOK'
  <2>1. /\ multiTenant' \in BOOLEAN /\ rows' \in SUBSET Rows /\ apiKeys' \in Nat
        /\ passwords' \in Nat /\ cached' \in BOOLEAN /\ crashes' \in 0..MaxCrashes
    BY <1>0, <1>3 DEF Insert, tables
  <2>2. /\ phase' \in [Processes -> Phases] /\ fell' \in BOOLEAN
        /\ hook' \in [Processes -> [Hooks -> Steps]]
    <3>1. Goto(p, h, "hash") \/ Goto(p, h, "done") \/ Exit(p)
      BY <1>3 DEF Insert
    <3> QED BY <1>0, <3>1, TypesOfMove, TypesOfExit
  <2> QED BY <2>1, <2>2 DEF TypeOK
<1>4. CASE InsertApiKey(p)
  <2>1. /\ multiTenant' \in BOOLEAN /\ rows' \in SUBSET Rows /\ apiKeys' \in Nat
        /\ passwords' \in Nat /\ cached' \in BOOLEAN /\ crashes' \in 0..MaxCrashes
    BY <1>0, <1>4 DEF InsertApiKey, tables
  <2>2. /\ phase' \in [Processes -> Phases] /\ fell' \in BOOLEAN
        /\ hook' \in [Processes -> [Hooks -> Steps]]
    <3>1. Goto(p, "apiKey", "done")
      BY <1>4 DEF InsertApiKey
    <3> QED BY <1>0, <3>1, TypesOfMove
  <2> QED BY <2>1, <2>2 DEF TypeOK
<1>5. CASE Hash(p)
  <2>1. /\ multiTenant' \in BOOLEAN /\ rows' \in SUBSET Rows /\ apiKeys' \in Nat
        /\ passwords' \in Nat /\ cached' \in BOOLEAN /\ crashes' \in 0..MaxCrashes
    BY <1>0, <1>5 DEF Hash, tables
  <2>2. /\ phase' \in [Processes -> Phases] /\ fell' \in BOOLEAN
        /\ hook' \in [Processes -> [Hooks -> Steps]]
    <3>1. Goto(p, "admin", "insertPassword") \/ Exit(p)
      BY <1>5 DEF Hash
    <3> QED BY <1>0, <3>1, TypesOfMove, TypesOfExit
  <2> QED BY <2>1, <2>2 DEF TypeOK
<1>6. CASE InsertPassword(p)
  <2>1. /\ multiTenant' \in BOOLEAN /\ rows' \in SUBSET Rows /\ apiKeys' \in Nat
        /\ passwords' \in Nat /\ cached' \in BOOLEAN /\ crashes' \in 0..MaxCrashes
    BY <1>0, <1>6 DEF InsertPassword, tables
  <2>2. /\ phase' \in [Processes -> Phases] /\ fell' \in BOOLEAN
        /\ hook' \in [Processes -> [Hooks -> Steps]]
    <3>1. Goto(p, "admin", "done")
      BY <1>6 DEF InsertPassword
    <3> QED BY <1>0, <3>1, TypesOfMove
  <2> QED BY <2>1, <2>2 DEF TypeOK
<1>7. CASE Fill(p)
  <2>1. /\ multiTenant' \in BOOLEAN /\ rows' \in SUBSET Rows /\ apiKeys' \in Nat
        /\ passwords' \in Nat /\ cached' \in BOOLEAN /\ crashes' \in 0..MaxCrashes
    BY <1>0, <1>7 DEF Fill, tables
  <2>2. /\ phase' \in [Processes -> Phases] /\ fell' \in BOOLEAN
        /\ hook' \in [Processes -> [Hooks -> Steps]]
    <3>1. Goto(p, "settings", "done")
      BY <1>7 DEF Fill
    <3> QED BY <1>0, <3>1, TypesOfMove
  <2> QED BY <2>1, <2>2 DEF TypeOK
<1>8. CASE Listen(p)
  <2>1. /\ multiTenant' \in BOOLEAN /\ rows' \in SUBSET Rows /\ apiKeys' \in Nat
        /\ passwords' \in Nat /\ cached' \in BOOLEAN /\ crashes' \in 0..MaxCrashes
    BY <1>0, <1>8 DEF Listen, tables
  <2>2. /\ phase' \in [Processes -> Phases] /\ fell' \in BOOLEAN
        /\ hook' \in [Processes -> [Hooks -> Steps]]
    BY <1>0, <1>8 DEF Listen, Phases
  <2> QED BY <2>1, <2>2 DEF TypeOK
<1>9. CASE Crash(p)
  <2>1. /\ multiTenant' \in BOOLEAN /\ rows' \in SUBSET Rows /\ apiKeys' \in Nat
        /\ passwords' \in Nat /\ cached' \in BOOLEAN /\ crashes' \in 0..MaxCrashes
    BY <1>0, <1>9 DEF Crash, tables
  <2>2. /\ phase' \in [Processes -> Phases] /\ fell' \in BOOLEAN
        /\ hook' \in [Processes -> [Hooks -> Steps]]
    <3>1. Exit(p)
      BY <1>9 DEF Crash
    <3> QED BY <3>1, TypesOfExit
  <2> QED BY <2>1, <2>2 DEF TypeOK
<1>10. CASE Restart(p)
  <2>1. /\ multiTenant' \in BOOLEAN /\ rows' \in SUBSET Rows /\ apiKeys' \in Nat
        /\ passwords' \in Nat /\ cached' \in BOOLEAN /\ crashes' \in 0..MaxCrashes
    BY <1>0, <1>10 DEF Restart, tables
  <2>2. /\ phase' \in [Processes -> Phases] /\ fell' \in BOOLEAN
        /\ hook' \in [Processes -> [Hooks -> Steps]]
    BY <1>0, <1>10 DEF Restart, Phases
  <2> QED BY <2>1, <2>2 DEF TypeOK
<1> QED BY <1>1, <1>2, <1>3, <1>4, <1>5, <1>6, <1>7, <1>8, <1>9, <1>10 DEF Step

Passing == {"hash", "insertPassword"}

LEMMA OnTheWayStays ==
  ASSUME TypeOK, NEW p \in Processes, NEW h \in Hooks, NEW step \in Steps, Goto(p, h, step),
         phase[p] = "starting", h = "admin" => (hook[p][h] \in Passing <=> step \in Passing)
  PROVE  OnTheWay' = OnTheWay
<1>1. /\ phase' = phase /\ hook'[p][h] = step
      /\ \A q \in Processes, g \in Hooks : <<q, g>> # <<p, h>> => hook'[q][g] = hook[q][g]
  BY TypesOfMove DEF Moves
<1>2. "admin" \in Hooks
  BY DEF Hooks
<1>3. OnTheWay = {q \in Processes : phase[q] = "starting" /\ hook[q]["admin"] \in Passing}
  BY DEF OnTheWay, At, Passing
<1>4. OnTheWay' = {q \in Processes : phase'[q] = "starting" /\ hook'[q]["admin"] \in Passing}
  BY DEF OnTheWay, At, Passing
<1>5. \A q \in Processes : hook'[q]["admin"] \in Passing <=> hook[q]["admin"] \in Passing
  BY <1>1, <1>2
<1> HIDE DEF Passing
<1> QED BY <1>1, <1>3, <1>4, <1>5

(* Where a password is inserted.                                             *)
LEMMA AdminInsertsPassword ==
  ASSUME TypeOK, AdminInv, NEW p \in Processes, InsertPassword(p)
  PROVE  AdminInv'
<1>1. /\ Goto(p, "admin", "done") /\ At(p, "admin", "insertPassword")
      /\ passwords' = passwords + 1 /\ rows' = rows
      /\ "admin" \in Hooks /\ "done" \in Steps
  BY DEF InsertPassword, Hooks, Steps
<1>2. /\ phase' = phase /\ fell' = fell /\ hook'[p]["admin"] = "done"
      /\ \A q \in Processes, g \in Hooks : <<q, g>> # <<p, "admin">> => hook'[q][g] = hook[q][g]
  BY <1>1, TypesOfMove DEF Moves
<1>3. p \in OnTheWay /\ OnTheWay' = OnTheWay \ {p}
  BY <1>1, <1>2 DEF OnTheWay, At
<1>4. /\ Cardinality(OnTheWay) \in Nat /\ IsFiniteSet(OnTheWay)
      /\ Cardinality(OnTheWay') = Cardinality(OnTheWay) - 1
  BY <1>3, PartCounted, FS_RemoveElement DEF OnTheWay
<1>5. passwords \in Nat /\ "admin" \in rows
  BY <1>3, AdminUnfolded DEF TypeOK
<1>6. passwords' + Cardinality(OnTheWay') = passwords + Cardinality(OnTheWay)
  BY <1>1, <1>4, <1>5
<1> QED BY <1>1, <1>2, <1>5, <1>6, AdminUnfolded
        DEF AdminInv, NoAdminNoPassword, AdminHasOnePassword, OnTheWay

(* Where the administrator is inserted.                                      *)
LEMMA AdminInserted ==
  ASSUME TypeOK, AdminInv, NEW p \in Processes, Goto(p, "admin", "hash"), phase[p] = "starting",
         "admin" \notin rows, rows' = rows \union {"admin"}, passwords' = passwords
  PROVE  AdminInv'
<1>1. "admin" \in Hooks /\ "hash" \in Steps
  BY DEF Hooks, Steps
<1>2. /\ phase' = phase /\ fell' = fell /\ hook'[p]["admin"] = "hash"
      /\ \A q \in Processes, g \in Hooks : <<q, g>> # <<p, "admin">> => hook'[q][g] = hook[q][g]
  BY <1>1, TypesOfMove DEF Moves
<1>3. OnTheWay = {} /\ passwords = 0
  BY AdminUnfolded
<1>4. OnTheWay' = {p}
  BY <1>1, <1>2, <1>3 DEF OnTheWay, At
<1>5. passwords' + Cardinality(OnTheWay') = 1
  BY <1>3, <1>4, FS_Singleton
<1> QED BY <1>5 DEF AdminInv, NoAdminNoPassword, AdminHasOnePassword, OnTheWay

LEMMA AdminStep ==
  ASSUME TypeOK, HooksLeave, AdminInv, NEW p \in Processes, Step(p) \/ Crash(p) \/ Restart(p)
  PROVE  AdminInv'
<1>0. /\ "admin" \in Hooks /\ "apiKey" \in Hooks /\ "settings" \in Hooks
      /\ {"find", "done", "insert", "hash", "insertPassword"} \subseteq Steps
      /\ phase \in [Processes -> Phases] /\ hook \in [Processes -> [Hooks -> Steps]]
  BY DEF Hooks, Steps, TypeOK
<1>1. ASSUME NEW h \in Hooks, Await(p, h) PROVE AdminInv'
  <2>1. passwords' = passwords /\ rows' = rows /\ (Goto(p, h, "find") \/ Exit(p)) /\ At(p, h, "await")
    BY <1>1 DEF Await, tables
  <2>2. CASE Goto(p, h, "find")
    BY <1>0, <2>1, <2>2, OnTheWayStays, AdminKept DEF At, Passing, Goto
  <2>3. CASE Exit(p)
    BY <2>1, <2>3, ExitParts, AdminKept DEF Exit
  <2> QED BY <2>1, <2>2, <2>3
<1>2. ASSUME NEW h \in Hooks, Find(p, h) PROVE AdminInv'
  <2>1. /\ passwords' = passwords /\ rows' = rows /\ At(p, h, "find")
        /\ \E step \in {"done", "insert"} : Goto(p, h, step)
    BY <1>2 DEF Find, tables
  <2>2. PICK step \in {"done", "insert"} : Goto(p, h, step)
    BY <2>1
  <2>3. OnTheWay' = OnTheWay /\ fell' = fell
    BY <1>0, <2>1, <2>2, OnTheWayStays DEF At, Passing, Goto
  <2> QED BY <2>1, <2>3, AdminKept
<1>3. ASSUME NEW h \in Hooks, Insert(p, h) PROVE AdminInv'
  <2>1. /\ At(p, h, "insert") /\ passwords' = passwords
        /\ \/ Exit(p) /\ rows' = rows
           \/ /\ h \notin rows /\ rows' = rows \union {h}
              /\ Goto(p, h, IF h = "admin" THEN "hash" ELSE "done")
    BY <1>3 DEF Insert
  <2>2. CASE Exit(p) /\ rows' = rows
    BY <2>1, <2>2, ExitParts, AdminKept DEF Exit
  <2>3. CASE /\ h \notin rows /\ rows' = rows \union {h}
             /\ Goto(p, h, IF h = "admin" THEN "hash" ELSE "done")
    <3>1. CASE h = "admin"
      BY <2>1, <2>3, <3>1, AdminInserted DEF At
    <3>2. CASE h # "admin"
      <4>1. OnTheWay' = OnTheWay /\ fell' = fell
        BY <1>0, <2>1, <2>3, <3>2, OnTheWayStays DEF At, Goto
      <4> QED BY <2>1, <2>3, <3>2, <4>1, AdminKept
    <3> QED BY <3>1, <3>2
  <2> QED BY <2>1, <2>2, <2>3
<1>4. CASE InsertApiKey(p)
  <2>1. OnTheWay' = OnTheWay /\ fell' = fell
    BY <1>0, <1>4, OnTheWayStays DEF InsertApiKey, At, Goto
  <2> QED BY <1>4, <2>1, AdminKept DEF InsertApiKey
<1>5. CASE Hash(p)
  <2>1. /\ passwords' = passwords /\ rows' = rows /\ At(p, "admin", "hash")
        /\ Goto(p, "admin", "insertPassword") \/ Exit(p)
    BY <1>5 DEF Hash
  <2>2. CASE Goto(p, "admin", "insertPassword")
    BY <1>0, <2>1, <2>2, OnTheWayStays, AdminKept DEF At, Passing, Goto
  <2>3. CASE Exit(p)
    BY <2>1, <2>3, ExitParts, AdminKept DEF Exit
  <2> QED BY <2>1, <2>2, <2>3
<1>6. CASE InsertPassword(p)
  BY <1>6, AdminInsertsPassword
<1>7. CASE Fill(p)
  <2>1. OnTheWay' = OnTheWay /\ fell' = fell
    BY <1>0, <1>7, OnTheWayStays DEF Fill, At, Goto
  <2> QED BY <1>7, <2>1, AdminKept DEF Fill
<1>8. CASE Listen(p)
  <2>1. OnTheWay' = OnTheWay
    BY <1>0, <1>8 DEF Listen, OnTheWay, At
  <2> QED BY <1>8, <2>1, AdminKept DEF Listen, tables
<1>9. CASE Crash(p)
  BY <1>9, ExitParts, AdminKept DEF Crash, Exit, tables
<1>10. CASE Restart(p)
  <2>1. OnTheWay' = OnTheWay
    BY <1>0, <1>10 DEF Restart, HooksLeave, OnTheWay, At
  <2> QED BY <1>10, <2>1, AdminKept DEF Restart, tables
<1> QED BY <1>1, <1>2, <1>3, <1>4, <1>5, <1>6, <1>7, <1>8, <1>9, <1>10 DEF Step

LEMMA KeysStep ==
  ASSUME TypeOK, HooksLeave, KeysCounted, NEW p \in Processes, Step(p) \/ Crash(p) \/ Restart(p)
  PROVE  KeysCounted'
<1>0. /\ "admin" \in Hooks /\ "apiKey" \in Hooks /\ "settings" \in Hooks
      /\ {"find", "done", "insert", "hash", "insertPassword"} \subseteq Steps
      /\ phase \in [Processes -> Phases] /\ hook \in [Processes -> [Hooks -> Steps]]
  BY DEF Hooks, Steps, TypeOK
<1>1. ASSUME NEW h \in Hooks, Await(p, h) PROVE KeysCounted'
  <2>1. apiKeys' = apiKeys /\ (Goto(p, h, "find") \/ Exit(p)) /\ At(p, h, "await")
    BY <1>1 DEF Await, tables
  <2>2. CASE Goto(p, h, "find")
    <3>1. /\ phase' = phase /\ hook'[p][h] = "find"
          /\ \A q \in Processes, g \in Hooks : <<q, g>> # <<p, h>> => hook'[q][g] = hook[q][g]
      BY <1>0, <2>2, TypesOfMove DEF Moves
    <3>2. KeyInserters' \subseteq KeyInserters
      BY <1>0, <3>1 DEF KeyInserters, At
    <3> QED BY <2>1, <3>2, KeysKept
  <2>3. CASE Exit(p)
    BY <2>1, <2>3, ExitParts, KeysKept
  <2> QED BY <2>1, <2>2, <2>3
<1>2. ASSUME NEW h \in Hooks, Find(p, h) PROVE KeysCounted'
  <2>1. /\ apiKeys' = apiKeys
        /\ Goto(p, h, IF Exists(h) THEN "done" ELSE "insert")
    BY <1>2 DEF Find, tables
  <2>2. PICK step \in {"done", "insert"} : Goto(p, h, step) /\ (Exists(h) => step = "done")
    BY <2>1
  <2>3. /\ phase' = phase /\ hook'[p][h] = step
        /\ \A q \in Processes, g \in Hooks : <<q, g>> # <<p, h>> => hook'[q][g] = hook[q][g]
    BY <1>0, <2>2, TypesOfMove DEF Moves
  <2>4. CASE h # "apiKey" \/ step = "done"
    <3>1. KeyInserters' \subseteq KeyInserters
      BY <1>0, <2>3, <2>4 DEF KeyInserters, At
    <3> QED BY <2>1, <3>1, KeysKept
  <2>5. CASE h = "apiKey" /\ step = "insert"
    <3>1. apiKeys' = 0
      BY <2>1, <2>2, <2>5 DEF Exists, TypeOK
    <3>2. KeyInserters' \in SUBSET Processes
      BY DEF KeyInserters
    <3>3. /\ Cardinality(KeyInserters') \in Nat
          /\ Cardinality(KeyInserters') <= Cardinality(Processes)
      BY <3>2, PartCounted
    <3> QED BY <3>1, <3>3 DEF KeysCounted
  <2> QED BY <2>4, <2>5
<1>3. ASSUME NEW h \in Hooks, Insert(p, h) PROVE KeysCounted'
  <2>1. /\ apiKeys' = apiKeys /\ h # "apiKey"
        /\ Goto(p, h, "hash") \/ Goto(p, h, "done") \/ Exit(p)
    BY <1>3 DEF Insert, Rows
  <2> QED BY <1>0, <2>1, MoveParts, ExitParts, KeysKept
<1>4. CASE InsertApiKey(p)
  <2>1. /\ Goto(p, "apiKey", "done") /\ At(p, "apiKey", "insert") /\ apiKeys' = apiKeys + 1
    BY <1>4 DEF InsertApiKey
  <2>2. /\ phase' = phase /\ hook'[p]["apiKey"] = "done"
        /\ \A q \in Processes, g \in Hooks : <<q, g>> # <<p, "apiKey">> => hook'[q][g] = hook[q][g]
    BY <1>0, <2>1, TypesOfMove DEF Moves
  <2>3. /\ KeyInserters \in SUBSET Processes /\ p \in KeyInserters
        /\ KeyInserters' \in SUBSET (KeyInserters \ {p})
    BY <1>0, <2>1, <2>2 DEF KeyInserters, At
  <2>4. /\ Cardinality(KeyInserters) \in Nat /\ Cardinality(KeyInserters') \in Nat
        /\ Cardinality(KeyInserters') + 1 <= Cardinality(KeyInserters)
    BY <2>3, OneLess
  <2>5. Cardinality(Processes) \in Nat /\ apiKeys \in Nat
    BY ProcessesAssumption, FS_CardinalityType DEF TypeOK
  <2> QED BY <2>1, <2>4, <2>5 DEF KeysCounted
<1>5. CASE Hash(p)
  <2>1. apiKeys' = apiKeys /\ (Goto(p, "admin", "insertPassword") \/ Exit(p))
    BY <1>5 DEF Hash
  <2> QED BY <1>0, <2>1, MoveParts, ExitParts, KeysKept
<1>6. CASE InsertPassword(p)
  BY <1>0, <1>6, MoveParts, KeysKept DEF InsertPassword
<1>7. CASE Fill(p)
  BY <1>0, <1>7, MoveParts, KeysKept DEF Fill
<1>8. CASE Listen(p)
  <2>1. KeyInserters' \subseteq KeyInserters
    BY <1>0, <1>8 DEF Listen, KeyInserters, At
  <2> QED BY <1>8, <2>1, KeysKept DEF Listen, tables
<1>9. CASE Crash(p)
  BY <1>9, ExitParts, KeysKept DEF Crash, tables
<1>10. CASE Restart(p)
  <2>1. apiKeys' = apiKeys /\ hook' = hook /\ phase' = [phase EXCEPT ![p] = "starting"]
    BY <1>10 DEF Restart, tables
  <2>2. KeyInserters' \subseteq KeyInserters
    BY <1>0, <1>10, <2>1 DEF Restart, HooksLeave, KeyInserters, At
  <2> QED BY <2>1, <2>2, KeysKept
<1> QED BY <1>1, <1>2, <1>3, <1>4, <1>5, <1>6, <1>7, <1>8, <1>9, <1>10 DEF Step

LEMMA HooksLeaveStep ==
  ASSUME TypeOK, HooksLeave, AdminInv, NEW p \in Processes, Step(p) \/ Crash(p) \/ Restart(p)
  PROVE  HooksLeave'
<1>0. /\ "admin" \in Hooks /\ "apiKey" \in Hooks /\ "settings" \in Hooks /\ "authora" \in Hooks
      /\ {"find", "done", "insert", "hash", "insertPassword"} \subseteq Steps
      /\ apiKeys \in Nat /\ cached \in BOOLEAN
  BY DEF Hooks, Steps, TypeOK
<1>1. ASSUME NEW h \in Hooks, Await(p, h) PROVE HooksLeave'
  <2>1. /\ At(p, h, "await") /\ UNCHANGED <<multiTenant, tables>>
        /\ \A a \in Awaits(h) : hook[p][a] = "done"
        /\ Goto(p, h, "find") \/ Exit(p)
    BY <1>1 DEF Await
  <2>2. h = "settings" => "authora" \in rows
    BY <2>1 DEF Awaits, HooksLeave
  <2>3. CASE Goto(p, h, "find")
    BY <1>0, <2>1, <2>2, <2>3, HooksLeaveMove DEF At, tables
  <2>4. CASE Exit(p)
    BY <2>1, <2>4, HooksLeaveExit
  <2> QED BY <2>1, <2>3, <2>4
<1>2. ASSUME NEW h \in Hooks, Find(p, h) PROVE HooksLeave'
  <2>1. /\ At(p, h, "find") /\ h # "settings" /\ UNCHANGED <<multiTenant, tables>>
        /\ Goto(p, h, IF Exists(h) THEN "done" ELSE "insert")
    BY <1>2 DEF Find
  <2>2. PICK step \in {"done", "insert"} :
          Goto(p, h, step) /\ (step = "done" => Exists(h))
    BY <2>1
  <2>3. h = "apiKey" /\ step = "done" => apiKeys > 0
    BY <2>2 DEF Exists
  <2>4. h \in Rows /\ step = "done" => h \in rows
    BY <2>2 DEF Exists, Rows
  <2>5. "authora" \in Rows
    BY DEF Rows, Hooks
  <2> QED BY <1>0, <2>1, <2>2, <2>3, <2>4, <2>5, HooksLeaveMove DEF At, tables
<1>3. ASSUME NEW h \in Hooks, Insert(p, h) PROVE HooksLeave'
  <2>1. /\ At(p, h, "insert") /\ h \in Rows /\ UNCHANGED <<multiTenant, apiKeys, cached>>
        /\ \/ Exit(p) /\ UNCHANGED <<multiTenant, tables>>
           \/ /\ rows' = rows \union {h}
              /\ Goto(p, h, IF h = "admin" THEN "hash" ELSE "done")
    BY <1>3 DEF Insert, tables
  <2>2. CASE Exit(p) /\ UNCHANGED <<multiTenant, tables>>
    BY <2>2, HooksLeaveExit
  <2>3. CASE rows' = rows \union {h} /\ Goto(p, h, IF h = "admin" THEN "hash" ELSE "done")
    <3>1. PICK step \in {"hash", "done"} : Goto(p, h, step)
      BY <2>3
    <3>2. h # "settings" /\ h # "apiKey"
      BY <2>1 DEF Rows
    <3> QED BY <1>0, <2>1, <2>3, <3>1, <3>2, HooksLeaveMove DEF At
  <2> QED BY <2>1, <2>2, <2>3
<1>4. CASE InsertApiKey(p)
  <2>1. /\ At(p, "apiKey", "insert") /\ Goto(p, "apiKey", "done") /\ apiKeys' > 0
        /\ UNCHANGED <<multiTenant, rows, cached>>
    BY <1>0, <1>4 DEF InsertApiKey
  <2>2. "apiKey" \notin Rows
    BY DEF Rows
  <2> QED BY <1>0, <2>1, <2>2, HooksLeaveMove DEF At
<1>5. CASE Hash(p)
  <2>1. /\ At(p, "admin", "hash") /\ UNCHANGED <<multiTenant, rows, apiKeys>>
        /\ \/ Goto(p, "admin", "insertPassword") /\ cached'
           \/ Exit(p) /\ UNCHANGED <<multiTenant, tables>>
    BY <1>5 DEF Hash, tables
  <2>2. "admin" \in rows
    BY <2>1, AdminUnfolded DEF OnTheWay
  <2>3. CASE Goto(p, "admin", "insertPassword") /\ cached'
    BY <1>0, <2>1, <2>2, <2>3, HooksLeaveMove DEF At
  <2>4. CASE Exit(p) /\ UNCHANGED <<multiTenant, tables>>
    BY <2>4, HooksLeaveExit
  <2> QED BY <2>1, <2>3, <2>4
<1>6. CASE InsertPassword(p)
  <2>1. /\ At(p, "admin", "insertPassword") /\ Goto(p, "admin", "done")
        /\ UNCHANGED <<multiTenant, rows, apiKeys, cached>>
    BY <1>6 DEF InsertPassword
  <2>2. "admin" \in rows
    BY <2>1, AdminUnfolded DEF OnTheWay
  <2> QED BY <1>0, <2>1, <2>2, HooksLeaveMove DEF At
<1>7. CASE Fill(p)
  <2>1. /\ At(p, "settings", "find") /\ Goto(p, "settings", "done")
        /\ cached' = (cached \/ "authora" \in rows)
        /\ UNCHANGED <<multiTenant, rows, apiKeys>>
    BY <1>7 DEF Fill
  <2>2. "authora" \in rows /\ "settings" \notin Rows
    BY <2>1 DEF HooksLeave, At, Rows
  <2> QED BY <1>0, <2>1, <2>2, HooksLeaveMove DEF At
<1>8. CASE Listen(p)
  <2>1. /\ phase' = [phase EXCEPT ![p] = "listening"] /\ UNCHANGED <<multiTenant, tables, hook>>
        /\ \A h \in Hooks : hook[p][h] = "done"
    BY <1>8 DEF Listen, At
  <2>2. phase'[p] = "listening" /\ \A q \in Processes \ {p} : phase'[q] = phase[q]
    BY <2>1 DEF TypeOK
  <2>3. UNCHANGED <<multiTenant, rows, apiKeys, cached, hook>>
    BY <2>1 DEF tables
  <2> QED BY <2>1, <2>2, <2>3 DEF HooksLeave
<1>9. CASE Crash(p)
  BY <1>9, HooksLeaveExit DEF Crash
<1>10. CASE Restart(p)
  <2>1. /\ phase' = [phase EXCEPT ![p] = "starting"]
        /\ UNCHANGED <<multiTenant, rows, apiKeys, cached, hook>>
    BY <1>10 DEF Restart, tables
  <2>2. phase'[p] = "starting" /\ \A q \in Processes \ {p} : phase'[q] = phase[q]
    BY <2>1 DEF TypeOK
  <2> QED BY <2>1, <2>2 DEF HooksLeave
<1> QED BY <1>1, <1>2, <1>3, <1>4, <1>5, <1>6, <1>7, <1>8, <1>9, <1>10 DEF Step

-------------------------------------------------------------------------------
LEMMA InitHolds == Init => IInv
<1> SUFFICES ASSUME Init PROVE IInv
  OBVIOUS
<1>1. TypeOK
  <2>1. /\ phase \in [Processes -> Phases] /\ hook \in [Processes -> [Hooks -> Steps]]
        /\ multiTenant \in BOOLEAN /\ rows = {} /\ apiKeys = 0 /\ passwords = 0
        /\ cached = FALSE /\ crashes = 0 /\ fell = FALSE
    BY FirstTyped DEF Init, Phases
  <2>2. 0 \in 0..MaxCrashes /\ {} \in SUBSET Rows
    BY BoundAssumption
  <2> QED BY <2>1, <2>2 DEF TypeOK
<1>2. \A q \in Processes : phase[q] = "starting" /\ hook[q] = First
  BY DEF Init
<1>3. /\ First["settings"] = "await" /\ First["authora"] = "find"
      /\ First["admin"] \in {"await", "done"} /\ First["apiKey"] \in {"await", "done"}
      /\ multiTenant \/ \A h \in Hooks : First[h] \in {"await", "find"}
      /\ Rows \subseteq Hooks /\ "apiKey" \in Hooks
  BY FirstTyped DEF Rows, Hooks
<1>4. OnTheWay = {} /\ KeyInserters = {}
  BY <1>2, <1>3 DEF OnTheWay, KeyInserters, At
<1>5. AdminInv
  BY <1>4, FS_EmptySet, AdminUnfolded DEF Init
<1>6. KeysCounted
  BY <1>4, FS_EmptySet, ProcessesAssumption, FS_CardinalityType DEF Init, KeysCounted
<1>7. HooksLeave
  BY <1>2, <1>3 DEF HooksLeave
<1> QED BY <1>1, <1>5, <1>6, <1>7 DEF IInv, AdminInv

LEMMA NextKeeps == IInv /\ [Next]_vars => IInv'
<1> SUFFICES ASSUME IInv, [Next]_vars PROVE IInv'
  OBVIOUS
<1>1. TypeOK /\ AdminInv /\ KeysCounted /\ HooksLeave
  BY DEF IInv, AdminInv
<1>2. ASSUME NEW p \in Processes, Step(p) \/ Crash(p) \/ Restart(p) PROVE IInv'
  <2>1. TypeOK' /\ AdminInv' /\ KeysCounted' /\ HooksLeave'
    BY <1>1, <1>2, TypesKept, AdminStep, KeysStep, HooksLeaveStep
  <2> QED BY <2>1 DEF IInv, AdminInv
<1>3. CASE UNCHANGED vars
  BY <1>3 DEF IInv, TypeOK, NoAdminNoPassword, AdminHasOnePassword, KeysCounted, HooksLeave,
              OnTheWay, KeyInserters, At, vars, tables
<1> QED BY <1>2, <1>3 DEF Next

LEMMA Invariant == Spec => []IInv
BY InitHolds, NextKeeps, PTL DEF Spec

(* The state stays well typed.                                               *)
THEOREM TypeCorrect == Spec => []TypeOK
<1>1. IInv => TypeOK
  BY DEF IInv
<1> QED BY <1>1, Invariant, PTL

(* One password for the administrator, and none only after a process has ended. *)
THEOREM OnePassword == Spec => []AdminHasOnePassword
<1>1. IInv => AdminHasOnePassword
  BY DEF IInv
<1> QED BY <1>1, Invariant, PTL

(* A process listens only when everything it serves from is there, with at
   most one key for each process.                                            *)
THEOREM Seeded == Spec => []ListeningMeansSeeded
<1>1. IInv => ListeningMeansSeeded
  <2> SUFFICES ASSUME IInv, NEW p \in Processes, phase[p] = "listening"
               PROVE  /\ cached /\ "authora" \in rows
                      /\ \/ multiTenant
                         \/ Rows \subseteq rows /\ apiKeys \in 1..Cardinality(Processes)
    BY DEF ListeningMeansSeeded
  <2>1. \A h \in Hooks : hook[p][h] = "done"
    BY DEF IInv, HooksLeave
  <2>2. {"settings", "authora", "apiKey"} \subseteq Hooks /\ Rows \subseteq Hooks
    BY DEF Hooks, Rows
  <2>3. cached /\ "authora" \in rows
    BY <2>1, <2>2 DEF IInv, HooksLeave
  <2>4. multiTenant \/ (Rows \subseteq rows /\ apiKeys > 0)
    BY <2>1, <2>2 DEF IInv, HooksLeave
  <2>5. /\ apiKeys \in Nat /\ Cardinality(KeyInserters) \in Nat /\ Cardinality(Processes) \in Nat
        /\ apiKeys + Cardinality(KeyInserters) <= Cardinality(Processes)
    BY ProcessesAssumption, FS_CardinalityType, PartCounted
       DEF IInv, TypeOK, KeysCounted, KeyInserters
  <2>6. apiKeys > 0 => apiKeys \in 1..Cardinality(Processes)
    BY <2>5
  <2> QED BY <2>3, <2>4, <2>6
<1> QED BY <1>1, Invariant, PTL
===============================================================================
