------------------------- MODULE MultiFactorAuthProofs -------------------------
(***************************************************************************)
(* Proofs, for any number of requests and rows, that MultiFactorAuth is    *)
(* well typed, that MFA is enabled only with a secret that was proved and  *)
(* that a disabled row comes back only by a verification under way just    *)
(* then; and, where requests have not overlapped, that the codes a user    *)
(* was told are the codes that are stored.                                 *)
(*                                                                         *)
(* Types need a count: every setup on its way to its insert has a row left *)
(* (Room). EnabledMeansProved needs what the requests hold: between its    *)
(* read and its save a verification carries a row that was proved, so that *)
(* neither the update nor the insertion of its copy can enable another.    *)
(*                                                                         *)
(* Without overlap the row a request has read is still the row of the      *)
(* table (Alone, StillSo), so a save updates it and what it is told is it. *)
(*                                                                         *)
(* A disabled row is out of the table and in nobody's hands (Off): a new   *)
(* verification finds only rows that are there, a new row has a new id.    *)
(***************************************************************************)
EXTENDS MultiFactorAuth, FiniteSetTheorems, TLAPS

Room == made + Cardinality(Inserting) <= MaxRows

HoldsProved ==
  \A r \in Requests :
    req[r].step \in {"hash", "select", "update", "reinsert"} => req[r].row \in proved

(* In these steps a request holds the id of a row. *)
HoldsRow ==
  \A r \in Requests :
    req[r].step \in {"remove", "show", "hash", "select", "update", "reinsert", "disable"}
      => req[r].row \in Rows

Typed == TypeOK /\ Room /\ HoldsRow
IInv == Typed /\ EnabledMeansProved /\ HoldsProved

-------------------------------------------------------------------------------
LEMMA InsertingFinite == IsFiniteSet(Inserting) /\ Cardinality(Inserting) \in Nat
<1>1. Inserting \subseteq Requests
  BY DEF Inserting
<1> QED BY <1>1, RequestsAssumption, FS_Subset, FS_CardinalityType

(* Requests that leave the setup, or were not in it, leave room.             *)
LEMMA RoomKept ==
  ASSUME TypeOK, Room, made' = made, Inserting' \subseteq Inserting
  PROVE  Room'
<1>1. IsFiniteSet(Inserting) /\ Cardinality(Inserting) \in Nat
  BY InsertingFinite
<1>2. Cardinality(Inserting') \in Nat /\ Cardinality(Inserting') <= Cardinality(Inserting)
  BY <1>1, FS_Subset, FS_CardinalityType
<1> QED BY <1>1, <1>2, BoundAssumption DEF Room, TypeOK

LEMMA RoomOnBegin ==
  ASSUME TypeOK, Room, NEW r \in Requests, BeginSetup(r)
  PROVE  Room'
<1>1. IsFiniteSet(Inserting) /\ Cardinality(Inserting) \in Nat
  BY InsertingFinite
<1>2. Inserting' \subseteq Inserting \union {r}
  <2>1. \A s \in Requests \ {r} : req'[s] = req[s]
    BY DEF BeginSetup, TypeOK
  <2> QED BY <2>1 DEF Inserting
<1>3. /\ IsFiniteSet(Inserting \union {r})
      /\ Cardinality(Inserting \union {r}) <= Cardinality(Inserting) + 1
      /\ Cardinality(Inserting \union {r}) \in Nat
  <2>1. /\ IsFiniteSet(Inserting \union {r})
        /\ \/ Cardinality(Inserting \union {r}) = Cardinality(Inserting)
           \/ Cardinality(Inserting \union {r}) = Cardinality(Inserting) + 1
    BY <1>1, FS_AddElement
  <2> QED BY <1>1, <2>1
<1>4. Cardinality(Inserting') \in Nat /\ Cardinality(Inserting') <= Cardinality(Inserting) + 1
  BY <1>1, <1>2, <1>3, FS_Subset, FS_CardinalityType
<1>5. made' = made /\ MaxRows - made > Cardinality(Inserting)
  BY DEF BeginSetup, HasRoom
<1> QED BY <1>1, <1>4, <1>5, BoundAssumption DEF Room, TypeOK

LEMMA RoomOnInsert ==
  ASSUME TypeOK, Room, NEW r \in Requests, SetupInsert(r)
  PROVE  Room' /\ made + 1 <= MaxRows
<1>1. IsFiniteSet(Inserting) /\ Cardinality(Inserting) \in Nat
  BY InsertingFinite
<1>2. r \in Inserting
  BY DEF SetupInsert, At, Inserting
<1>3. Inserting' \subseteq Inserting \ {r}
  <2>1. \A s \in Requests \ {r} : req'[s] = req[s]
    BY DEF SetupInsert, Done, TypeOK
  <2>2. req'[r].step \in {"show", "idle"}
    BY DEF SetupInsert, Done, Idle, TypeOK, Request
  <2> QED BY <2>1, <2>2 DEF Inserting
<1>4. /\ IsFiniteSet(Inserting \ {r})
      /\ Cardinality(Inserting \ {r}) = Cardinality(Inserting) - 1
      /\ Cardinality(Inserting \ {r}) \in Nat
  BY <1>1, <1>2, FS_RemoveElement, FS_CardinalityType
<1>5. Cardinality(Inserting') \in Nat /\ Cardinality(Inserting') <= Cardinality(Inserting) - 1
  BY <1>1, <1>3, <1>4, FS_Subset, FS_CardinalityType
<1>6. made' \in {made, made + 1}
  BY DEF SetupInsert
<1> QED BY <1>1, <1>4, <1>5, <1>6, BoundAssumption DEF Room, TypeOK

LEMMA RowTyped ==
  ASSUME row \in [Rows -> Row], NEW i, NEW x \in Row
  PROVE  [row EXCEPT ![i] = x] \in [Rows -> Row]
OBVIOUS

LEMMA ReqTyped ==
  ASSUME req \in [Requests -> Request], NEW r \in Requests, NEW x \in Request
  PROVE  [req EXCEPT ![r] = x] \in [Requests -> Request]
OBVIOUS

(* Every action of a request keeps the types.                                *)
LEMMA TypesKept ==
  ASSUME Typed, NEW r \in Requests,
         BeginSetup(r) \/ BeginVerify(r) \/ BeginDisable(r) \/ Step(r) \/ Abort(r)
  PROVE  TypeOK'
<1>0. /\ row \in [Rows -> Row] /\ req \in [Requests -> Request] /\ req[r] \in Request
      /\ made \in 0..MaxRows /\ codes \in 0..MaxCodes /\ told \in 0..MaxCodes
      /\ shown \in SUBSET Rows /\ proved \in SUBSET Rows /\ removed \in SUBSET Rows
      /\ contested \in SUBSET Rows
      /\ signedIn \in BOOLEAN /\ overlapped \in BOOLEAN /\ failed \in BOOLEAN
      /\ TypeOK /\ Room
  BY DEF Typed, TypeOK
<1>a. /\ NoRow \in Row
      /\ Idle \in Request
      /\ \A x \in 0..MaxCodes : [present |-> TRUE, verified |-> TRUE, codes |-> x] \in Row
      /\ \A i \in Rows : i \in 0..MaxRows
  BY BoundAssumption DEF NoRow, Row, Idle, Request, Steps, Rows
<1>b. /\ NewRow \in Row
      /\ req[r].row \in 0..MaxRows /\ req[r].codes \in 0..MaxCodes
  <2>2. 0 \in 0..MaxCodes
    BY BoundAssumption
  <2>3. NewRow \in Row
    BY <2>2 DEF Row, NewRow
  <2> QED BY <1>0, <2>3 DEF Request, NewRow
<1>1. CASE BeginSetup(r)
  <2>1. row' \in [Rows -> Row]
    BY <1>0, <1>1 DEF BeginSetup, history
  <2>2. req' \in [Requests -> Request]
    <3>1. \/ req' = [req EXCEPT ![r].step = "insert"]
          \/ \E i \in Rows : req' = [req EXCEPT ![r].step = "remove", ![r].row = i]
      BY <1>1 DEF BeginSetup, Present, Enabled
    <3> QED BY <1>0, <1>a, <3>1 DEF Request, Steps
  <2>3. made' \in 0..MaxRows /\ codes' \in 0..MaxCodes /\ told' \in 0..MaxCodes
    BY <1>0, <1>1 DEF BeginSetup, history
  <2>4. shown' \in SUBSET Rows /\ proved' \in SUBSET Rows /\ removed' \in SUBSET Rows
      /\ contested' \in SUBSET Rows
    BY <1>0, <1>1 DEF BeginSetup, history, Starts
  <2>5. signedIn' \in BOOLEAN /\ overlapped' \in BOOLEAN /\ failed' \in BOOLEAN
    BY <1>0, <1>1 DEF BeginSetup, history, Starts
  <2> QED BY <2>1, <2>2, <2>3, <2>4, <2>5 DEF TypeOK
<1>2. CASE SetupRemove(r)
  <2>1. row' \in [Rows -> Row]
    BY <1>0, <1>a, <1>2, RowTyped DEF SetupRemove
  <2>2. req' \in [Requests -> Request]
    <3>1. req' = [req EXCEPT ![r].step = "insert", ![r].row = 0]
      BY <1>2 DEF SetupRemove
    <3>2. 0 \in 0..MaxRows
      BY BoundAssumption
    <3> QED BY <1>0, <3>1, <3>2 DEF Request, Steps
  <2>3. made' \in 0..MaxRows /\ codes' \in 0..MaxCodes /\ told' \in 0..MaxCodes
    BY <1>0, <1>2 DEF SetupRemove, history
  <2>4. shown' \in SUBSET Rows /\ proved' \in SUBSET Rows /\ removed' \in SUBSET Rows
      /\ contested' \in SUBSET Rows
    BY <1>0, <1>2 DEF SetupRemove, history, Starts
  <2>5. signedIn' \in BOOLEAN /\ overlapped' \in BOOLEAN /\ failed' \in BOOLEAN
    BY <1>0, <1>2 DEF SetupRemove, history, Starts
  <2> QED BY <2>1, <2>2, <2>3, <2>4, <2>5 DEF TypeOK
<1>3. CASE SetupInsert(r)
  <2>1. row' \in [Rows -> Row]
    <3>1. row' = row \/ row' = [row EXCEPT ![made + 1] = NewRow]
      BY <1>3 DEF SetupInsert
    <3> QED BY <1>0, <1>b, <3>1, RowTyped
  <2>2. req' \in [Requests -> Request]
    <3>1. \/ req' = [req EXCEPT ![r].step = "show", ![r].row = made + 1]
          \/ req' = [req EXCEPT ![r] = Idle]
      BY <1>3 DEF SetupInsert, Done
    <3>2. made + 1 \in 0..MaxRows
      BY <1>0, <1>3, RoomOnInsert
    <3>3. [req EXCEPT ![r].step = "show", ![r].row = made + 1] \in [Requests -> Request]
      BY <1>0, <3>2 DEF Request, Steps
    <3> QED BY <1>0, <1>a, <3>1, <3>3, ReqTyped
  <2>3. made' \in 0..MaxRows /\ codes' \in 0..MaxCodes /\ told' \in 0..MaxCodes
    BY <1>0, <1>3, RoomOnInsert DEF SetupInsert, history
  <2>4. shown' \in SUBSET Rows /\ proved' \in SUBSET Rows /\ removed' \in SUBSET Rows
      /\ contested' \in SUBSET Rows
    BY <1>0, <1>3 DEF SetupInsert, history, Starts
  <2>5. signedIn' \in BOOLEAN /\ overlapped' \in BOOLEAN /\ failed' \in BOOLEAN
    BY <1>0, <1>3 DEF SetupInsert, history, Starts
  <2> QED BY <2>1, <2>2, <2>3, <2>4, <2>5 DEF TypeOK
<1>4. CASE SetupShow(r)
  <2>1. row' \in [Rows -> Row]
    BY <1>0, <1>4 DEF SetupShow, history
  <2>2. req' \in [Requests -> Request]
    BY <1>0, <1>a, <1>4, ReqTyped DEF SetupShow, Done
  <2>3. made' \in 0..MaxRows /\ codes' \in 0..MaxCodes /\ told' \in 0..MaxCodes
    BY <1>0, <1>4 DEF SetupShow, history
  <2>4. shown' \in SUBSET Rows /\ proved' \in SUBSET Rows /\ removed' \in SUBSET Rows
      /\ contested' \in SUBSET Rows
    BY <1>0, <1>4 DEF SetupShow, Typed, HoldsRow, At, history
  <2>5. signedIn' \in BOOLEAN /\ overlapped' \in BOOLEAN /\ failed' \in BOOLEAN
    BY <1>0, <1>4 DEF SetupShow, history, Starts
  <2> QED BY <2>1, <2>2, <2>3, <2>4, <2>5 DEF TypeOK
<1>5. CASE BeginVerify(r)
  <2>0. /\ codes < MaxCodes /\ codes' = codes + 1 /\ made' = made /\ told' = told
        /\ \E i \in Rows : /\ proved' = proved \union {i}
                          /\ req' = [req EXCEPT ![r].step = "hash", ![r].row = i,
                                                ![r].codes = codes + 1]
    BY <1>5 DEF BeginVerify, Present
  <2>1. row' \in [Rows -> Row]
    BY <1>0, <1>5 DEF BeginVerify
  <2>2. codes + 1 \in 0..MaxCodes
    BY <1>0, <2>0, BoundAssumption
  <2>3. req' \in [Requests -> Request]
    <3>1. PICK i \in Rows : req' = [req EXCEPT ![r].step = "hash", ![r].row = i,
                                               ![r].codes = codes + 1]
      BY <2>0
    <3>2. i \in 0..MaxRows
      BY <1>a
    <3> QED BY <1>0, <2>2, <3>1, <3>2 DEF Request, Steps
  <2>4. made' \in 0..MaxRows /\ codes' \in 0..MaxCodes /\ told' \in 0..MaxCodes
    BY <1>0, <2>0, <2>2
  <2>5. shown' \in SUBSET Rows /\ proved' \in SUBSET Rows /\ removed' \in SUBSET Rows
      /\ contested' \in SUBSET Rows
    BY <1>0, <1>5, <2>0 DEF BeginVerify
  <2>6. signedIn' \in BOOLEAN /\ overlapped' \in BOOLEAN /\ failed' \in BOOLEAN
    BY <1>0, <1>5 DEF BeginVerify
  <2> QED BY <2>1, <2>3, <2>4, <2>5, <2>6 DEF TypeOK
<1>6. CASE HashCodes(r)
  <2>1. row' \in [Rows -> Row]
    BY <1>0, <1>6 DEF HashCodes, history
  <2>2. req' \in [Requests -> Request]
    BY <1>0, <1>6 DEF HashCodes, Goto, Request, Steps
  <2>3. made' \in 0..MaxRows /\ codes' \in 0..MaxCodes /\ told' \in 0..MaxCodes
    BY <1>0, <1>6 DEF HashCodes, history
  <2>4. shown' \in SUBSET Rows /\ proved' \in SUBSET Rows /\ removed' \in SUBSET Rows
      /\ contested' \in SUBSET Rows
    BY <1>0, <1>6 DEF HashCodes, history, Starts
  <2>5. signedIn' \in BOOLEAN /\ overlapped' \in BOOLEAN /\ failed' \in BOOLEAN
    BY <1>0, <1>6 DEF HashCodes, history, Starts
  <2> QED BY <2>1, <2>2, <2>3, <2>4, <2>5 DEF TypeOK
<1>7. CASE SaveSelect(r)
  <2>1. row' \in [Rows -> Row]
    BY <1>0, <1>7 DEF SaveSelect, history
  <2>2. req' \in [Requests -> Request]
    BY <1>0, <1>7 DEF SaveSelect, Goto, Request, Steps
  <2>3. made' \in 0..MaxRows /\ codes' \in 0..MaxCodes /\ told' \in 0..MaxCodes
    BY <1>0, <1>7 DEF SaveSelect, history
  <2>4. shown' \in SUBSET Rows /\ proved' \in SUBSET Rows /\ removed' \in SUBSET Rows
      /\ contested' \in SUBSET Rows
    BY <1>0, <1>7 DEF SaveSelect, history, Starts
  <2>5. signedIn' \in BOOLEAN /\ overlapped' \in BOOLEAN /\ failed' \in BOOLEAN
    BY <1>0, <1>7 DEF SaveSelect, history, Starts
  <2> QED BY <2>1, <2>2, <2>3, <2>4, <2>5 DEF TypeOK
<1>8. CASE SaveUpdate(r)
  <2>1. row' \in [Rows -> Row]
    <3>1. \/ row' = row
          \/ row' = [row EXCEPT ![req[r].row].verified = TRUE, ![req[r].row].codes = req[r].codes]
      BY <1>8 DEF SaveUpdate
    <3>2. [row EXCEPT ![req[r].row].verified = TRUE, ![req[r].row].codes = req[r].codes]
            \in [Rows -> Row]
      BY <1>0, <1>b DEF Row
    <3> QED BY <1>0, <3>1, <3>2
  <2>2. req' \in [Requests -> Request]
    BY <1>0, <1>8 DEF SaveUpdate, Goto, Request, Steps
  <2>3. made' \in 0..MaxRows /\ codes' \in 0..MaxCodes /\ told' \in 0..MaxCodes
    BY <1>0, <1>8 DEF SaveUpdate, history
  <2>4. shown' \in SUBSET Rows /\ proved' \in SUBSET Rows /\ removed' \in SUBSET Rows
      /\ contested' \in SUBSET Rows
    BY <1>0, <1>8 DEF SaveUpdate, history, Starts
  <2>5. signedIn' \in BOOLEAN /\ overlapped' \in BOOLEAN /\ failed' \in BOOLEAN
    BY <1>0, <1>8 DEF SaveUpdate, history, Starts
  <2> QED BY <2>1, <2>2, <2>3, <2>4, <2>5 DEF TypeOK
<1>9. CASE SaveReinsert(r)
  <2>1. row' \in [Rows -> Row]
    <3>1. \/ row' = row
          \/ row' = [row EXCEPT ![req[r].row] =
                       [present |-> TRUE, verified |-> TRUE, codes |-> req[r].codes]]
      BY <1>9 DEF SaveReinsert
    <3> QED BY <1>0, <1>a, <1>b, <3>1, RowTyped
  <2>2. req' \in [Requests -> Request]
    <3>1. req' = [req EXCEPT ![r].step = "tell"] \/ req' = [req EXCEPT ![r] = Idle]
      BY <1>9 DEF SaveReinsert, Goto, Done
    <3>2. [req EXCEPT ![r].step = "tell"] \in [Requests -> Request]
      BY <1>0 DEF Request, Steps
    <3> QED BY <1>0, <1>a, <3>1, <3>2, ReqTyped
  <2>3. made' \in 0..MaxRows /\ codes' \in 0..MaxCodes /\ told' \in 0..MaxCodes
    BY <1>0, <1>9 DEF SaveReinsert, history
  <2>4. shown' \in SUBSET Rows /\ proved' \in SUBSET Rows /\ removed' \in SUBSET Rows
      /\ contested' \in SUBSET Rows
    BY <1>0, <1>9 DEF SaveReinsert, history, Starts
  <2>5. signedIn' \in BOOLEAN /\ overlapped' \in BOOLEAN /\ failed' \in BOOLEAN
    BY <1>0, <1>9 DEF SaveReinsert, history, Starts
  <2> QED BY <2>1, <2>2, <2>3, <2>4, <2>5 DEF TypeOK
<1>10. CASE Tell(r)
  <2>1. row' \in [Rows -> Row]
    BY <1>0, <1>10 DEF Tell, history
  <2>2. req' \in [Requests -> Request]
    BY <1>0, <1>a, <1>10, ReqTyped DEF Tell, Done
  <2>3. made' \in 0..MaxRows /\ codes' \in 0..MaxCodes /\ told' \in 0..MaxCodes
    BY <1>0, <1>b, <1>10 DEF Tell, history
  <2>4. shown' \in SUBSET Rows /\ proved' \in SUBSET Rows /\ removed' \in SUBSET Rows
      /\ contested' \in SUBSET Rows
    BY <1>0, <1>10 DEF Tell, history, Starts
  <2>5. signedIn' \in BOOLEAN /\ overlapped' \in BOOLEAN /\ failed' \in BOOLEAN
    BY <1>0, <1>10 DEF Tell, history, Starts
  <2> QED BY <2>1, <2>2, <2>3, <2>4, <2>5 DEF TypeOK
<1>11. CASE BeginDisable(r)
  <2>1. row' \in [Rows -> Row]
    BY <1>0, <1>11 DEF BeginDisable, history
  <2>2. req' \in [Requests -> Request]
    <3>1. PICK i \in Rows : req' = [req EXCEPT ![r].step = "disable", ![r].row = i]
      BY <1>11 DEF BeginDisable, Enabled, Present
    <3>2. i \in 0..MaxRows
      BY <1>a
    <3> QED BY <1>0, <3>1, <3>2 DEF Request, Steps
  <2>3. made' \in 0..MaxRows /\ codes' \in 0..MaxCodes /\ told' \in 0..MaxCodes
    BY <1>0, <1>11 DEF BeginDisable, history
  <2>4. shown' \in SUBSET Rows /\ proved' \in SUBSET Rows /\ removed' \in SUBSET Rows
      /\ contested' \in SUBSET Rows
    BY <1>0, <1>11 DEF BeginDisable, history, Starts
  <2>5. signedIn' \in BOOLEAN /\ overlapped' \in BOOLEAN /\ failed' \in BOOLEAN
    BY <1>0, <1>11 DEF BeginDisable, history, Starts
  <2> QED BY <2>1, <2>2, <2>3, <2>4, <2>5 DEF TypeOK
<1>12. CASE Disable(r)
  <2>1. row' \in [Rows -> Row]
    BY <1>0, <1>a, <1>12, RowTyped DEF Disable
  <2>2. req' \in [Requests -> Request]
    BY <1>0, <1>12 DEF Disable, Goto, Request, Steps
  <2>3. made' \in 0..MaxRows /\ codes' \in 0..MaxCodes /\ told' \in 0..MaxCodes
    BY <1>0, <1>12 DEF Disable, history
  <2>4. shown' \in SUBSET Rows /\ proved' \in SUBSET Rows /\ removed' \in SUBSET Rows
      /\ contested' \in SUBSET Rows
    BY <1>0, <1>12 DEF Disable, Count, Typed, HoldsRow, At, history
  <2>5. signedIn' \in BOOLEAN /\ overlapped' \in BOOLEAN /\ failed' \in BOOLEAN
    BY <1>0, <1>12 DEF Disable, history, Starts
  <2> QED BY <2>1, <2>2, <2>3, <2>4, <2>5 DEF TypeOK
<1>13. CASE DisableSignOut(r)
  <2>1. row' \in [Rows -> Row]
    BY <1>0, <1>13 DEF DisableSignOut, history
  <2>2. req' \in [Requests -> Request]
    BY <1>0, <1>13 DEF DisableSignOut, Goto, Request, Steps
  <2>3. made' \in 0..MaxRows /\ codes' \in 0..MaxCodes /\ told' \in 0..MaxCodes
    BY <1>0, <1>13 DEF DisableSignOut, history
  <2>4. shown' \in SUBSET Rows /\ proved' \in SUBSET Rows /\ removed' \in SUBSET Rows
      /\ contested' \in SUBSET Rows
    BY <1>0, <1>13 DEF DisableSignOut, history, Starts
  <2>5. signedIn' \in BOOLEAN /\ overlapped' \in BOOLEAN /\ failed' \in BOOLEAN
    BY <1>0, <1>13 DEF DisableSignOut, history, Starts
  <2> QED BY <2>1, <2>2, <2>3, <2>4, <2>5 DEF TypeOK
<1>14. CASE DisableTokens(r)
  <2>1. row' \in [Rows -> Row]
    BY <1>0, <1>14 DEF DisableTokens, history
  <2>2. req' \in [Requests -> Request]
    BY <1>0, <1>a, <1>14, ReqTyped DEF DisableTokens, Done
  <2>3. made' \in 0..MaxRows /\ codes' \in 0..MaxCodes /\ told' \in 0..MaxCodes
    BY <1>0, <1>14 DEF DisableTokens, history
  <2>4. shown' \in SUBSET Rows /\ proved' \in SUBSET Rows /\ removed' \in SUBSET Rows
      /\ contested' \in SUBSET Rows
    BY <1>0, <1>14 DEF DisableTokens, history, Starts
  <2>5. signedIn' \in BOOLEAN /\ overlapped' \in BOOLEAN /\ failed' \in BOOLEAN
    BY <1>0, <1>14 DEF DisableTokens, history, Starts
  <2> QED BY <2>1, <2>2, <2>3, <2>4, <2>5 DEF TypeOK
<1>15. CASE Abort(r)
  <2>1. row' \in [Rows -> Row]
    BY <1>0, <1>15 DEF Abort, history
  <2>2. req' \in [Requests -> Request]
    BY <1>0, <1>a, <1>15, ReqTyped DEF Abort, Done
  <2>3. made' \in 0..MaxRows /\ codes' \in 0..MaxCodes /\ told' \in 0..MaxCodes
    BY <1>0, <1>15 DEF Abort, history
  <2>4. shown' \in SUBSET Rows /\ proved' \in SUBSET Rows /\ removed' \in SUBSET Rows
      /\ contested' \in SUBSET Rows
    BY <1>0, <1>15 DEF Abort, history, Starts
  <2>5. signedIn' \in BOOLEAN /\ overlapped' \in BOOLEAN /\ failed' \in BOOLEAN
    BY <1>0, <1>15 DEF Abort, history, Starts
  <2> QED BY <2>1, <2>2, <2>3, <2>4, <2>5 DEF TypeOK
<1> QED
  BY <1>1, <1>2, <1>3, <1>4, <1>5, <1>6, <1>7, <1>8, <1>9, <1>10, <1>11, <1>12, <1>13, <1>14, <1>15 DEF Step

(* ... and what it leaves in a request: only r changes.                      *)
LEMMA OthersUnchanged ==
  ASSUME TypeOK, NEW r \in Requests,
         BeginSetup(r) \/ BeginVerify(r) \/ BeginDisable(r) \/ Step(r) \/ Abort(r)
  PROVE  \A s \in Requests \ {r} : req'[s] = req[s]
<1>1. CASE BeginSetup(r)
  BY <1>1 DEF BeginSetup, Goto, Done, TypeOK
<1>2. CASE SetupRemove(r)
  BY <1>2 DEF SetupRemove, Goto, Done, TypeOK
<1>3. CASE SetupInsert(r)
  BY <1>3 DEF SetupInsert, Goto, Done, TypeOK
<1>4. CASE SetupShow(r)
  BY <1>4 DEF SetupShow, Goto, Done, TypeOK
<1>5. CASE BeginVerify(r)
  BY <1>5 DEF BeginVerify, Goto, Done, TypeOK
<1>6. CASE HashCodes(r)
  BY <1>6 DEF HashCodes, Goto, Done, TypeOK
<1>7. CASE SaveSelect(r)
  BY <1>7 DEF SaveSelect, Goto, Done, TypeOK
<1>8. CASE SaveUpdate(r)
  BY <1>8 DEF SaveUpdate, Goto, Done, TypeOK
<1>9. CASE SaveReinsert(r)
  BY <1>9 DEF SaveReinsert, Goto, Done, TypeOK
<1>10. CASE Tell(r)
  BY <1>10 DEF Tell, Goto, Done, TypeOK
<1>11. CASE BeginDisable(r)
  BY <1>11 DEF BeginDisable, Goto, Done, TypeOK
<1>12. CASE Disable(r)
  BY <1>12 DEF Disable, Goto, Done, TypeOK
<1>13. CASE DisableSignOut(r)
  BY <1>13 DEF DisableSignOut, Goto, Done, TypeOK
<1>14. CASE DisableTokens(r)
  BY <1>14 DEF DisableTokens, Goto, Done, TypeOK
<1>15. CASE Abort(r)
  BY <1>15 DEF Abort, Goto, Done, TypeOK
<1> QED
  BY <1>1, <1>2, <1>3, <1>4, <1>5, <1>6, <1>7, <1>8, <1>9, <1>10, <1>11, <1>12, <1>13, <1>14, <1>15 DEF Step

LEMMA InvariantKept ==
  ASSUME IInv, NEW r \in Requests,
         BeginSetup(r) \/ BeginVerify(r) \/ BeginDisable(r) \/ Step(r) \/ Abort(r)
  PROVE  IInv'
<1>0. /\ TypeOK /\ Room /\ HoldsRow /\ EnabledMeansProved /\ HoldsProved /\ TypeOK'
      /\ \A s \in Requests \ {r} : req'[s] = req[s]
      /\ req \in [Requests -> Request] /\ row \in [Rows -> Row] /\ req[r] \in Request
  BY TypesKept, OthersUnchanged DEF IInv, Typed, TypeOK
<1>1. CASE BeginSetup(r)
  <2>0. req'[r].step \in {"insert", "remove"} /\ proved' = proved
    BY <1>0, <1>1 DEF BeginSetup, Starts, Request
  <2>1. Room'
    BY <1>0, <1>1, RoomOnBegin
  <2>2. HoldsRow'
    BY <1>0, <1>1 DEF BeginSetup, Starts, At, Present, Enabled, HoldsRow, Request
  <2>3. EnabledMeansProved'
    BY <1>0, <1>1 DEF BeginSetup, Starts, At, Present, Enabled, EnabledMeansProved, Enabled, Present, history
  <2>4. HoldsProved'
    BY <1>0, <2>0 DEF HoldsProved
  <2> QED BY <1>0, <2>1, <2>2, <2>3, <2>4 DEF IInv, Typed
<1>2. CASE SetupRemove(r)
  <2>0. /\ \A i \in Rows : row'[i] = row[i] \/ ~row'[i].present
        /\ proved' = proved
    BY <1>0, <1>2 DEF SetupRemove, NoRow, history
  <2>1. Room'
    BY <1>0, <1>2, RoomKept DEF SetupRemove, At, Inserting
  <2>2. HoldsRow'
    BY <1>0, <1>2 DEF SetupRemove, At, HoldsRow, Request
  <2>3. EnabledMeansProved'
    BY <1>0, <2>0 DEF EnabledMeansProved, Enabled, Present
  <2>4. HoldsProved'
    BY <1>0, <1>2 DEF SetupRemove, At, HoldsProved, history
  <2> QED BY <1>0, <2>1, <2>2, <2>3, <2>4 DEF IInv, Typed
<1>3. CASE SetupInsert(r)
  <2>0. /\ \/ req'[r].step = "show" /\ req'[r].row = made + 1
           \/ req'[r].step = "idle"
        /\ made + 1 \in Rows
        /\ \A i \in Rows : row'[i] = row[i] \/ ~row'[i].verified
        /\ proved' = proved
    <3>1. made + 1 \in Rows
      BY <1>0, <1>3, RoomOnInsert DEF Rows, TypeOK
    <3>2. \/ req' = [req EXCEPT ![r].step = "show", ![r].row = made + 1]
          \/ req' = [req EXCEPT ![r] = Idle]
      BY <1>3 DEF SetupInsert, Done
    <3>3. \/ req'[r].step = "show" /\ req'[r].row = made + 1
          \/ req'[r].step = "idle"
      BY <1>0, <3>2 DEF Request, Idle
    <3>4. row' = row \/ row' = [row EXCEPT ![made + 1] = NewRow]
      BY <1>3 DEF SetupInsert
    <3>5. \A i \in Rows : row'[i] = row[i] \/ ~row'[i].verified
      BY <1>0, <3>1, <3>4 DEF NewRow
    <3> QED BY <1>3, <3>1, <3>3, <3>5 DEF SetupInsert, history
  <2>1. Room'
    BY <1>0, <1>3, RoomOnInsert
  <2>2. HoldsRow'
    BY <1>0, <2>0 DEF HoldsRow
  <2>3. EnabledMeansProved'
    BY <1>0, <2>0 DEF EnabledMeansProved, Enabled, Present
  <2>4. HoldsProved'
    BY <1>0, <2>0 DEF HoldsProved
  <2> QED BY <1>0, <2>1, <2>2, <2>3, <2>4 DEF IInv, Typed
<1>4. CASE SetupShow(r)
  <2>1. Room'
    BY <1>0, <1>4, RoomKept DEF SetupShow, At, Done, Idle, Inserting
  <2>2. HoldsRow'
    BY <1>0, <1>4 DEF SetupShow, At, Done, Idle, HoldsRow, Request
  <2>3. EnabledMeansProved'
    BY <1>0, <1>4 DEF SetupShow, At, Done, Idle, EnabledMeansProved, Enabled, Present, history
  <2>4. HoldsProved'
    BY <1>0, <1>4 DEF SetupShow, At, Done, Idle, HoldsProved, history
  <2> QED BY <1>0, <2>1, <2>2, <2>3, <2>4 DEF IInv, Typed
<1>5. CASE BeginVerify(r)
  <2>0. /\ req'[r].step = "hash" /\ req'[r].row \in Rows /\ req'[r].row \in proved'
        /\ proved \subseteq proved'
        /\ made' = made /\ row' = row
    <3>1. PICK i \in Present \intersect shown :
            /\ proved' = proved \union {i}
            /\ req' = [req EXCEPT ![r].step = "hash", ![r].row = i, ![r].codes = codes + 1]
      BY <1>5 DEF BeginVerify
    <3>2. req'[r].step = "hash" /\ req'[r].row = i
      BY <1>0, <3>1 DEF Request
    <3> QED BY <1>5, <3>1, <3>2 DEF BeginVerify, Present
  <2>a. Inserting' \subseteq Inserting
    BY <1>0, <2>0 DEF Inserting
  <2>1. Room'
    BY <1>0, <2>0, <2>a, RoomKept
  <2>2. HoldsRow'
    BY <1>0, <2>0 DEF HoldsRow
  <2>3. EnabledMeansProved'
    BY <1>0, <1>5 DEF BeginVerify, At, Present, EnabledMeansProved, Enabled, Present, history
  <2>4. HoldsProved'
    BY <1>0, <2>0 DEF HoldsProved
  <2> QED BY <1>0, <2>1, <2>2, <2>3, <2>4 DEF IInv, Typed
<1>6. CASE HashCodes(r)
  <2>1. Room'
    BY <1>0, <1>6, RoomKept DEF HashCodes, At, Goto, Inserting
  <2>2. HoldsRow'
    BY <1>0, <1>6 DEF HashCodes, At, Goto, HoldsRow, Request
  <2>3. EnabledMeansProved'
    BY <1>0, <1>6 DEF HashCodes, At, Goto, EnabledMeansProved, Enabled, Present, history
  <2>4. HoldsProved'
    BY <1>0, <1>6 DEF HashCodes, At, Goto, HoldsProved, history
  <2> QED BY <1>0, <2>1, <2>2, <2>3, <2>4 DEF IInv, Typed
<1>7. CASE SaveSelect(r)
  <2>1. Room'
    BY <1>0, <1>7, RoomKept DEF SaveSelect, At, Goto, Inserting
  <2>2. HoldsRow'
    BY <1>0, <1>7 DEF SaveSelect, At, Goto, HoldsRow, Request
  <2>3. EnabledMeansProved'
    BY <1>0, <1>7 DEF SaveSelect, At, Goto, EnabledMeansProved, Enabled, Present, history
  <2>4. HoldsProved'
    BY <1>0, <1>7 DEF SaveSelect, At, Goto, HoldsProved, history
  <2> QED BY <1>0, <2>1, <2>2, <2>3, <2>4 DEF IInv, Typed
<1>8. CASE SaveUpdate(r)
  <2>0. /\ req[r].row \in proved /\ proved' = proved
        /\ \A i \in Rows \ {req[r].row} : row'[i] = row[i]
    <3>1. req[r].row \in proved /\ proved' = proved
      BY <1>0, <1>8 DEF SaveUpdate, At, HoldsProved, history
    <3>2. \/ row' = row
          \/ row' = [row EXCEPT ![req[r].row].verified = TRUE, ![req[r].row].codes = req[r].codes]
      BY <1>8 DEF SaveUpdate
    <3> QED BY <1>0, <3>1, <3>2
  <2>1. Room'
    BY <1>0, <1>8, RoomKept DEF SaveUpdate, At, Goto, Inserting
  <2>2. HoldsRow'
    BY <1>0, <1>8 DEF SaveUpdate, At, Goto, HoldsRow, Request
  <2>3. EnabledMeansProved'
    BY <1>0, <2>0 DEF EnabledMeansProved, Enabled, Present
  <2>4. HoldsProved'
    BY <1>0, <1>8 DEF SaveUpdate, At, Goto, HoldsProved, history
  <2> QED BY <1>0, <2>1, <2>2, <2>3, <2>4 DEF IInv, Typed
<1>9. CASE SaveReinsert(r)
  <2>0. /\ req[r].row \in proved /\ proved' = proved
        /\ \A i \in Rows \ {req[r].row} : row'[i] = row[i]
        /\ req'[r].step \in {"tell", "idle"} /\ made' = made
    <3>1. /\ req[r].row \in proved /\ proved' = proved /\ made' = made
          /\ \A i \in Rows \ {req[r].row} : row'[i] = row[i]
      BY <1>0, <1>9 DEF SaveReinsert, At, HoldsProved, history
    <3>2. req' = [req EXCEPT ![r].step = "tell"] \/ req' = [req EXCEPT ![r] = Idle]
      BY <1>9 DEF SaveReinsert, Goto, Done
    <3> QED BY <1>0, <3>1, <3>2 DEF Request, Idle
  <2>a. Inserting' \subseteq Inserting
    BY <1>0, <2>0 DEF Inserting
  <2>1. Room'
    BY <1>0, <2>0, <2>a, RoomKept
  <2>2. HoldsRow'
    BY <1>0, <1>9 DEF SaveReinsert, At, Goto, Done, Idle, HoldsRow, Request
  <2>3. EnabledMeansProved'
    BY <1>0, <2>0 DEF EnabledMeansProved, Enabled, Present
  <2>4. HoldsProved'
    BY <1>0, <2>0 DEF HoldsProved
  <2> QED BY <1>0, <2>1, <2>2, <2>3, <2>4 DEF IInv, Typed
<1>10. CASE Tell(r)
  <2>1. Room'
    BY <1>0, <1>10, RoomKept DEF Tell, At, Done, Idle, Inserting
  <2>2. HoldsRow'
    BY <1>0, <1>10 DEF Tell, At, Done, Idle, HoldsRow, Request
  <2>3. EnabledMeansProved'
    BY <1>0, <1>10 DEF Tell, At, Done, Idle, EnabledMeansProved, Enabled, Present, history
  <2>4. HoldsProved'
    BY <1>0, <1>10 DEF Tell, At, Done, Idle, HoldsProved, history
  <2> QED BY <1>0, <2>1, <2>2, <2>3, <2>4 DEF IInv, Typed
<1>11. CASE BeginDisable(r)
  <2>0. req'[r].step = "disable" /\ proved' = proved /\ made' = made
    BY <1>0, <1>11 DEF BeginDisable, Starts, Request
  <2>a. Inserting' \subseteq Inserting
    BY <1>0, <2>0 DEF Inserting
  <2>1. Room'
    BY <1>0, <2>0, <2>a, RoomKept
  <2>2. HoldsRow'
    BY <1>0, <1>11 DEF BeginDisable, Starts, At, Enabled, Present, HoldsRow, Request
  <2>3. EnabledMeansProved'
    BY <1>0, <1>11 DEF BeginDisable, Starts, At, Enabled, Present, EnabledMeansProved, Enabled, Present, history
  <2>4. HoldsProved'
    BY <1>0, <2>0 DEF HoldsProved
  <2> QED BY <1>0, <2>1, <2>2, <2>3, <2>4 DEF IInv, Typed
<1>12. CASE Disable(r)
  <2>0. /\ \A i \in Rows : row'[i] = row[i] \/ ~row'[i].present
        /\ proved' = proved
    BY <1>0, <1>12 DEF Disable, NoRow
  <2>1. Room'
    BY <1>0, <1>12, RoomKept DEF Disable, At, Goto, Inserting
  <2>2. HoldsRow'
    BY <1>0, <1>12 DEF Disable, At, Goto, HoldsRow, Request
  <2>3. EnabledMeansProved'
    BY <1>0, <2>0 DEF EnabledMeansProved, Enabled, Present
  <2>4. HoldsProved'
    BY <1>0, <1>12 DEF Disable, At, Goto, HoldsProved, history
  <2> QED BY <1>0, <2>1, <2>2, <2>3, <2>4 DEF IInv, Typed
<1>13. CASE DisableSignOut(r)
  <2>1. Room'
    BY <1>0, <1>13, RoomKept DEF DisableSignOut, At, Goto, Inserting
  <2>2. HoldsRow'
    BY <1>0, <1>13 DEF DisableSignOut, At, Goto, HoldsRow, Request
  <2>3. EnabledMeansProved'
    BY <1>0, <1>13 DEF DisableSignOut, At, Goto, EnabledMeansProved, Enabled, Present, history
  <2>4. HoldsProved'
    BY <1>0, <1>13 DEF DisableSignOut, At, Goto, HoldsProved, history
  <2> QED BY <1>0, <2>1, <2>2, <2>3, <2>4 DEF IInv, Typed
<1>14. CASE DisableTokens(r)
  <2>1. Room'
    BY <1>0, <1>14, RoomKept DEF DisableTokens, At, Done, Idle, Inserting
  <2>2. HoldsRow'
    BY <1>0, <1>14 DEF DisableTokens, At, Done, Idle, HoldsRow, Request
  <2>3. EnabledMeansProved'
    BY <1>0, <1>14 DEF DisableTokens, At, Done, Idle, EnabledMeansProved, Enabled, Present, history
  <2>4. HoldsProved'
    BY <1>0, <1>14 DEF DisableTokens, At, Done, Idle, HoldsProved, history
  <2> QED BY <1>0, <2>1, <2>2, <2>3, <2>4 DEF IInv, Typed
<1>15. CASE Abort(r)
  <2>1. Room'
    BY <1>0, <1>15, RoomKept DEF Abort, At, Done, Idle, Inserting
  <2>2. HoldsRow'
    BY <1>0, <1>15 DEF Abort, At, Done, Idle, HoldsRow, Request
  <2>3. EnabledMeansProved'
    BY <1>0, <1>15 DEF Abort, At, Done, Idle, EnabledMeansProved, Enabled, Present, history
  <2>4. HoldsProved'
    BY <1>0, <1>15 DEF Abort, At, Done, Idle, HoldsProved, history
  <2> QED BY <1>0, <2>1, <2>2, <2>3, <2>4 DEF IInv, Typed
<1> QED
  BY <1>1, <1>2, <1>3, <1>4, <1>5, <1>6, <1>7, <1>8, <1>9, <1>10, <1>11, <1>12, <1>13, <1>14, <1>15 DEF Step

LEMMA StepKept == IInv /\ [Next]_vars => IInv'
<1> SUFFICES ASSUME IInv, [Next]_vars PROVE IInv'
  OBVIOUS
<1>1. CASE SignIn
  BY <1>1 DEF SignIn, history, IInv, Typed, TypeOK, Room, Inserting, HoldsRow,
              EnabledMeansProved, Enabled, Present, HoldsProved
<1>2. CASE UNCHANGED vars
  BY <1>2 DEF vars, history, IInv, Typed, TypeOK, Room, Inserting, HoldsRow,
              EnabledMeansProved, Enabled, Present, HoldsProved
<1> QED BY <1>1, <1>2, InvariantKept DEF Next

LEMMA InitHolds == Init => IInv
<1> SUFFICES ASSUME Init PROVE IInv
  OBVIOUS
<1>1. TypeOK
  <2>1. NoRow \in Row /\ Idle \in Request
    BY BoundAssumption DEF Row, NoRow, Request, Steps, Idle
  <2>2. 0 \in 0..MaxRows /\ 0 \in 0..MaxCodes
    BY BoundAssumption
  <2>3. row \in [Rows -> Row]
    BY <2>1 DEF Init
  <2>4. req \in [Requests -> Request]
    BY <2>1 DEF Init
  <2> QED BY <2>2, <2>3, <2>4 DEF Init, TypeOK
<1>2. Inserting = {} /\ HoldsRow /\ HoldsProved
  BY DEF Init, Idle, Inserting, HoldsRow, HoldsProved
<1>3. Room
  BY <1>2, FS_EmptySet, BoundAssumption DEF Init, Room
<1>4. EnabledMeansProved
  BY DEF Init, NoRow, EnabledMeansProved, Enabled, Present
<1> QED BY <1>1, <1>2, <1>3, <1>4 DEF IInv, Typed

LEMMA Invariant == Spec => []IInv
BY InitHolds, StepKept, PTL DEF Spec

(* The row of the user, the numbers drawn and every request stay in their types. *)
THEOREM TypeCorrect == Spec => []TypeOK
<1>1. IInv => TypeOK
  BY DEF IInv, Typed
<1> QED BY <1>1, Invariant, PTL

(* MFA is on only with a secret that a code was shown for, for any number of
   setups, verifications and disablings in flight, whatever fails.           *)
THEOREM OnlyProvedSecrets == Spec => []EnabledMeansProved
<1>1. IInv => EnabledMeansProved
  BY DEF IInv
<1> QED BY <1>1, Invariant, PTL

-------------------------------------------------------------------------------
(* Requests that do not overlap.  The unique user_id keeps one row at most, and
   ids are never used again.  While no two requests have been in flight
   together, the row that a verification works on is in the table until its
   save, and its save is the last before the user is told.                   *)
OneRow == \A i, j \in Present : i = j

Carries == {"show", "hash", "select", "update", "reinsert", "disable"}

Numbered ==
  /\ \A i \in Present \union removed : i <= made
  /\ \A r \in Requests : req[r].step \in Carries => req[r].row <= made

Alone == \A r, s \in Requests : req[r].step # "idle" /\ req[s].step # "idle" => r = s

StillSo(r) ==
  /\ req[r].step # "reinsert"
  /\ req[r].step \in {"hash", "select", "update"} => row[req[r].row].present

Told(c) == \A i \in Enabled : row[i].codes = c

CodesTold ==
  /\ \A r \in Requests : req[r].step = "tell" => Told(req[r].codes)
  /\ (\A r \in Requests : req[r].step # "tell") => Told(told)

SerialPart == Alone /\ (\A r \in Requests : StillSo(r)) /\ (~failed => CodesTold)

SerialInv == OneRow /\ Numbered /\ (~overlapped => SerialPart)

(* r is the one request in flight, and none has overlapped. *)
Only(r) == ~overlapped /\ \A s \in Requests \ {r} : req[s].step = "idle"

OthersAsBefore(r) == \A s \in Requests \ {r} : req'[s] = req[s]

(* What the user has to have been told when r has made its step. *)
ToldAfter(r) ==
  /\ req'[r].step = "tell" => \A i \in Enabled' : row'[i].codes = req'[r].codes
  /\ req'[r].step # "tell" => \A i \in Enabled' : row'[i].codes = told'

LEMMA Serially ==
  ASSUME SerialInv, NEW r \in Requests, ~overlapped, req[r].step # "idle"
  PROVE  /\ Only(r) /\ StillSo(r)
         /\ ~failed => (req[r].step = "tell" => Told(req[r].codes))
                       /\ (req[r].step # "tell" => Told(told))
<1>1. Alone /\ (\A s \in Requests : StillSo(s)) /\ (~failed => CodesTold)
  BY DEF SerialInv, SerialPart
<1>2. \A s \in Requests \ {r} : req[s].step = "idle"
  BY <1>1 DEF Alone
<1>3. ASSUME ~failed, req[r].step # "tell" PROVE Told(told)
  BY <1>1, <1>2, <1>3 DEF CodesTold
<1>4. ASSUME ~failed, req[r].step = "tell" PROVE Told(req[r].codes)
  BY <1>1, <1>4 DEF CodesTold
<1> QED BY <1>1, <1>2, <1>3, <1>4 DEF Only

LEMMA OneStep ==
  ASSUME NEW r \in Requests, OthersAsBefore(r), OneRow', Numbered',
         ~overlapped' => Only(r) /\ StillSo(r)' /\ (~failed' => ToldAfter(r))
  PROVE  SerialInv'
<1> SUFFICES ASSUME ~overlapped' PROVE SerialPart'
  BY DEF SerialInv
<1>0. Only(r) /\ StillSo(r)' /\ (~failed' => ToldAfter(r))
  OBVIOUS
<1>1. \A s \in Requests \ {r} : req'[s].step = "idle"
  BY <1>0 DEF Only, OthersAsBefore
<1>2. Alone'
  BY <1>1 DEF Alone
<1>3. \A s \in Requests : StillSo(s)'
  BY <1>0, <1>1 DEF StillSo
<1>4. ASSUME ~failed' PROVE CodesTold'
  <2>1. ToldAfter(r)
    BY <1>0, <1>4
  <2>2. \A s \in Requests : req'[s].step = "tell" => s = r
    BY <1>1
  <2> QED BY <2>1, <2>2 DEF CodesTold, ToldAfter, Told
<1> QED BY <1>0, <1>2, <1>3, <1>4 DEF SerialPart

LEMMA NumberedKept ==
  ASSUME Numbered, NEW r \in Requests, OthersAsBefore(r), made \in Nat, made' \in {made, made + 1},
         (Present \union removed)' \subseteq Rows,
         \A i \in (Present \union removed)' : i <= made' \/ i \in Present \union removed,
         req'[r].step \in Carries => req'[r].row <= made', TypeOK
  PROVE  Numbered'
<1>1. \A n \in Int : n <= made => n <= made'
  OBVIOUS
<1>2. \A s \in Requests \ {r} : req'[s].step \in Carries => req'[s].row <= made
  BY DEF OthersAsBefore, Numbered
<1>3. \A s \in Requests \ {r} : req'[s].row \in Int
  BY BoundAssumption DEF OthersAsBefore, TypeOK, Request
<1>4. \A i \in (Present \union removed)' : i \in Int
  BY BoundAssumption DEF Rows
<1>5. \A i \in (Present \union removed)' : i <= made'
  BY <1>1, <1>4 DEF Numbered
<1>6. \A s \in Requests : req'[s].step \in Carries => req'[s].row <= made'
  BY <1>1, <1>2, <1>3
<1> QED BY <1>5, <1>6 DEF Numbered

(* A step that leaves the table and what the user knows.                     *)
LEMMA Waiting ==
  ASSUME IInv, SerialInv, NEW r \in Requests, OthersAsBefore(r),
         UNCHANGED <<row, made, removed, told>>,
         req'[r].step \in Carries => req'[r].row <= made,
         ~failed' => ~failed /\ req[r].step # "tell" /\ req'[r].step # "tell",
         ~overlapped' => Only(r) /\ StillSo(r)'
  PROVE  SerialInv'
<1>1. OneRow' /\ Enabled' = Enabled
  BY DEF SerialInv, OneRow, Present, Enabled
<1>2. Numbered'
  <2>1. \A i \in (Present \union removed)' : i <= made
    BY DEF SerialInv, Numbered, Present
  <2> QED BY <2>1 DEF SerialInv, Numbered, OthersAsBefore
<1>3. ASSUME ~overlapped' PROVE Only(r) /\ StillSo(r)' /\ (~failed' => ToldAfter(r))
  <2>1. Only(r) /\ SerialPart
    BY <1>3 DEF Only, SerialInv
  <2>3. ASSUME ~failed' PROVE ToldAfter(r)
    <3>1. \A s \in Requests : req[s].step # "tell"
      BY <2>1, <2>3 DEF Only
    <3>2. Told(told)
      BY <2>1, <2>3, <3>1 DEF SerialPart, CodesTold
    <3> QED BY <1>1, <2>3, <3>2 DEF ToldAfter, Told
  <2> QED BY <1>3, <2>1, <2>3
<1> QED BY <1>1, <1>2, <1>3, OneStep

LEMMA DoneEffect ==
  ASSUME IInv, NEW r \in Requests, Done(r)
  PROVE  OthersAsBefore(r) /\ req'[r].step = "idle"
BY DEF IInv, Typed, TypeOK, Done, Idle, OthersAsBefore

LEMMA GotoEffect ==
  ASSUME IInv, NEW r \in Requests, NEW step, Goto(r, step)
  PROVE  /\ OthersAsBefore(r) /\ req'[r].step = step
         /\ req'[r].row = req[r].row /\ req'[r].codes = req[r].codes
BY DEF IInv, Typed, TypeOK, Goto, OthersAsBefore, Request

(* A request that ends without having told anything.                         *)
LEMMA Ending ==
  ASSUME IInv, SerialInv, NEW r \in Requests, Done(r), req[r].step # "idle",
         UNCHANGED <<row, made, removed, told, overlapped>>,
         ~failed' => ~failed /\ req[r].step # "tell"
  PROVE  SerialInv'
<1>1. OthersAsBefore(r) /\ req'[r].step = "idle"
  BY DoneEffect
<1>2. StillSo(r)' /\ "idle" \notin Carries
  BY <1>1 DEF StillSo, Carries
<1>3. ~overlapped' => Only(r)
  BY Serially
<1> QED BY <1>1, <1>2, <1>3, Waiting

LEMMA BeginSerial ==
  ASSUME IInv, SerialInv, NEW r \in Requests,
         BeginSetup(r) \/ BeginVerify(r) \/ BeginDisable(r)
  PROVE  SerialInv'
<1>0. /\ req[r].step = "idle" /\ UNCHANGED <<row, made, removed, told, failed>>
      /\ OthersAsBefore(r)
      /\ ~overlapped' => Only(r)
  <2>1. OthersAsBefore(r)
    BY OthersUnchanged DEF OthersAsBefore, IInv, Typed
  <2> QED BY <2>1 DEF BeginSetup, BeginVerify, BeginDisable, Starts, At, Only
<1>1. req[r] \in Request /\ req \in [Requests -> Request] /\ \A i \in Present : i <= made
  BY DEF IInv, Typed, TypeOK, SerialInv, Numbered
<1>2. CASE BeginSetup(r)
  <2>1. req'[r].step \in {"insert", "remove"}
    BY <1>1, <1>2 DEF BeginSetup, Request
  <2>2. StillSo(r)' /\ req'[r].step \notin Carries
    BY <2>1 DEF StillSo, Carries
  <2> QED BY <1>0, <2>1, <2>2, Waiting
<1>3. CASE BeginVerify(r)
  <2>1. PICK i \in Present :
          req' = [req EXCEPT ![r].step = "hash", ![r].row = i, ![r].codes = codes + 1]
    BY <1>3 DEF BeginVerify
  <2>2. req'[r].step = "hash" /\ req'[r].row = i
    BY <1>1, <2>1 DEF Request
  <2>3. StillSo(r)'
    BY <1>0, <2>2 DEF StillSo, Present
  <2> QED BY <1>0, <1>1, <2>2, <2>3, Waiting
<1>4. CASE BeginDisable(r)
  <2>1. PICK i \in Present : req' = [req EXCEPT ![r].step = "disable", ![r].row = i]
    BY <1>4 DEF BeginDisable, Enabled
  <2>2. req'[r].step = "disable" /\ req'[r].row = i
    BY <1>1, <2>1 DEF Request
  <2>3. StillSo(r)'
    BY <2>2 DEF StillSo
  <2> QED BY <1>0, <1>1, <2>2, <2>3, Waiting
<1> QED BY <1>2, <1>3, <1>4

(* Steps on the way, which read or answer.                                   *)
LEMMA GoingSerial ==
  ASSUME IInv, SerialInv, NEW r \in Requests,
         \/ SetupShow(r) \/ HashCodes(r) \/ SaveSelect(r)
         \/ DisableSignOut(r) \/ DisableTokens(r)
  PROVE  SerialInv'
<1>0. UNCHANGED <<row, made, removed, told, overlapped, failed>>
  BY DEF SetupShow, HashCodes, SaveSelect, DisableSignOut, DisableTokens, history
<1>1. CASE SetupShow(r) \/ DisableTokens(r)
  BY <1>0, <1>1, Ending DEF SetupShow, DisableTokens, At
<1>2. CASE HashCodes(r)
  <2>1. OthersAsBefore(r) /\ req[r].step = "hash" /\ req'[r].step = "select"
        /\ req'[r].row = req[r].row
    BY <1>2, GotoEffect DEF HashCodes, At
  <2>2. ~overlapped' => Only(r) /\ StillSo(r)'
    BY <1>0, <2>1, Serially DEF StillSo
  <2>3. req'[r].row <= made
    BY <2>1 DEF SerialInv, Numbered, Carries
  <2> QED BY <1>0, <2>1, <2>2, <2>3, Waiting
<1>3. CASE SaveSelect(r)
  <2>0. PICK step \in {"update", "reinsert"} :
          Goto(r, step) /\ (step = "update" <=> row[req[r].row].present)
    BY <1>3 DEF SaveSelect
  <2>1. OthersAsBefore(r) /\ req[r].step = "select" /\ req'[r].step = step
        /\ req'[r].row = req[r].row
    BY <1>3, <2>0, GotoEffect DEF SaveSelect, At
  <2>2. ~overlapped' => Only(r) /\ StillSo(r)'
    BY <1>0, <2>0, <2>1, Serially DEF StillSo
  <2>3. req'[r].row <= made
    BY <2>1 DEF SerialInv, Numbered, Carries
  <2> QED BY <1>0, <2>0, <2>1, <2>2, <2>3, Waiting
<1>4. CASE DisableSignOut(r)
  <2>1. OthersAsBefore(r) /\ req[r].step = "refreshTokens" /\ req'[r].step = "tokens"
    BY <1>4, GotoEffect DEF DisableSignOut, At
  <2>2. ~overlapped' => Only(r) /\ StillSo(r)'
    BY <1>0, <2>1, Serially DEF StillSo
  <2>3. "tokens" \notin Carries
    BY DEF Carries
  <2> QED BY <1>0, <2>1, <2>2, <2>3, Waiting
<1> QED BY <1>1, <1>2, <1>3, <1>4

(* A row that leaves the table: by a setup, or for good by disable.          *)
LEMMA DropSerial ==
  ASSUME IInv, SerialInv, NEW r \in Requests, SetupRemove(r) \/ Disable(r)
  PROVE  SerialInv'
<1>0. /\ req[r].step \in {"remove", "disable"} /\ UNCHANGED <<made, told, overlapped, failed>>
      /\ row' = [row EXCEPT ![req[r].row] = NoRow]
  BY DEF SetupRemove, Disable, At, history
<1>1. PICK i \in Rows : i = req[r].row
  BY <1>0 DEF IInv, Typed, HoldsRow
<1>2. /\ row \in [Rows -> Row] /\ made \in Nat /\ removed \subseteq Rows /\ TypeOK
      /\ req[r] \in Request /\ req \in [Requests -> Request]
  BY BoundAssumption DEF IInv, Typed, TypeOK
<1>3. /\ ~row'[i].present /\ \A j \in Rows \ {i} : row'[j] = row[j]
  BY <1>0, <1>1, <1>2 DEF NoRow
<1>4. Present' = Present \ {i}
  BY <1>3 DEF Present
<1>5. removed' = removed \/ (removed' = removed \union {i} /\ req[r].step = "disable")
  BY <1>1 DEF SetupRemove, Disable, Count, history, At
<1>6. /\ OthersAsBefore(r) /\ req'[r].step \in {"insert", "refreshTokens"}
  <2>1. CASE SetupRemove(r)
    BY <1>2, <2>1 DEF SetupRemove, OthersAsBefore, Request
  <2>2. CASE Disable(r)
    BY <2>2, GotoEffect DEF Disable
  <2> QED BY <2>1, <2>2
<1>7. OneRow'
  BY <1>4 DEF SerialInv, OneRow
<1>8. Numbered'
  <2>1. req[r].step = "disable" => i <= made
    BY <1>1 DEF SerialInv, Numbered, Carries
  <2>2. \A j \in (Present \union removed)' : j <= made
    BY <1>4, <1>5, <2>1 DEF SerialInv, Numbered
  <2>3. req'[r].step \notin Carries
    BY <1>6 DEF Carries
  <2>4. \A s \in Requests \ {r} : req'[s].step \in Carries => req'[s].row <= made
    BY <1>6 DEF SerialInv, Numbered, OthersAsBefore
  <2> QED BY <1>0, <2>2, <2>3, <2>4 DEF Numbered
<1>9. ASSUME ~overlapped' PROVE Only(r) /\ StillSo(r)' /\ (~failed' => ToldAfter(r))
  <2>1. /\ Only(r) /\ (~failed => Told(told))
    BY <1>0, <1>9, Serially
  <2>2. StillSo(r)'
    BY <1>6 DEF StillSo
  <2>4. \A j \in Enabled' : j \in Enabled /\ row'[j] = row[j]
    BY <1>3, <1>4 DEF Enabled, Present
  <2>5. ~failed' => ToldAfter(r)
    BY <1>0, <1>6, <2>1, <2>4 DEF ToldAfter, Told
  <2> QED BY <2>1, <2>2, <2>5
<1> QED BY <1>6, <1>7, <1>8, <1>9, OneStep

(* A new row has an id that no removed row had.                              *)
LEMMA SetupInsertSerial ==
  ASSUME IInv, SerialInv, NEW r \in Requests, SetupInsert(r)
  PROVE  SerialInv'
<1>0. /\ req[r].step = "insert" /\ UNCHANGED <<removed, told, overlapped, failed>>
  BY DEF SetupInsert, At, history
<1>1. CASE Present # {}
  BY <1>0, <1>1, Ending DEF SetupInsert
<1>2. CASE Present = {}
  <2> DEFINE n == made + 1
  <2>1. /\ row \in [Rows -> Row] /\ made \in Nat /\ removed \subseteq Rows /\ n \in Rows
        /\ req[r] \in Request /\ req \in [Requests -> Request] /\ TypeOK /\ Room
    <3>1. TypeOK /\ Room
      BY DEF IInv, Typed
    <3>2. made + 1 <= MaxRows
      BY <3>1, RoomOnInsert
    <3> QED BY <3>1, <3>2, BoundAssumption DEF TypeOK, Rows
  <2>2. /\ made' = n /\ row' = [row EXCEPT ![n] = NewRow]
        /\ req' = [req EXCEPT ![r].step = "show", ![r].row = n]
    BY <1>2 DEF SetupInsert
  <2>3. /\ OthersAsBefore(r) /\ req'[r].step = "show" /\ req'[r].row = n
    BY <2>1, <2>2 DEF OthersAsBefore, Request
  <2>4. /\ row'[n] = NewRow /\ \A i \in Rows \ {n} : row'[i] = row[i]
    BY <2>1, <2>2
  <2>5. Present' = {n} /\ Enabled' = {}
    <3>1. \A i \in Rows \ {n} : ~row'[i].present
      BY <1>2, <2>4 DEF Present
    <3>2. row'[n].present /\ ~row'[n].verified
      BY <2>4 DEF NewRow
    <3> QED BY <2>1, <3>1, <3>2 DEF Present, Enabled
  <2>7. OneRow'
    BY <2>5 DEF OneRow
  <2>8. Numbered'
    <3>1. \A i \in Int : i <= made => i <= made'
      BY <2>1, <2>2
    <3>2. \A i \in (Present \union removed)' : i <= made'
      <4>1. \A i \in removed : i \in Int /\ i <= made
        BY <2>1, BoundAssumption DEF SerialInv, Numbered, Rows
      <4>2. n <= made'
        BY <2>1, <2>2
      <4> QED BY <1>0, <2>5, <3>1, <4>1, <4>2
    <3>3. \A s \in Requests \ {r} :
             req'[s].step \in Carries => req'[s].row \in Int /\ req'[s].row <= made
      BY <2>1, <2>3, BoundAssumption DEF SerialInv, Numbered, OthersAsBefore, Request
    <3>4. req'[r].row <= made'
      BY <2>1, <2>2, <2>3
    <3> QED BY <3>1, <3>2, <3>3, <3>4 DEF Numbered
  <2>9. ASSUME ~overlapped' PROVE Only(r) /\ StillSo(r)' /\ (~failed' => ToldAfter(r))
    <3>1. Only(r)
      BY <1>0, <2>9, Serially
    <3>2. StillSo(r)'
      BY <2>3 DEF StillSo
    <3>4. ToldAfter(r)
      BY <2>5 DEF ToldAfter
    <3> QED BY <3>1, <3>2, <3>4
  <2> QED BY <2>3, <2>7, <2>8, <2>9, OneStep
<1> QED BY <1>1, <1>2

LEMMA UpdateSerial ==
  ASSUME IInv, SerialInv, NEW r \in Requests, SaveUpdate(r)
  PROVE  SerialInv'
<1>0. /\ req[r].step = "update" /\ UNCHANGED <<made, removed, told, overlapped, failed>>
      /\ Goto(r, "tell")
  BY DEF SaveUpdate, At, history
<1>1. /\ OthersAsBefore(r) /\ req'[r].step = "tell" /\ req'[r].codes = req[r].codes
      /\ req'[r].row = req[r].row
  BY <1>0, GotoEffect
<1>2. PICK i \in Rows : i = req[r].row
  BY <1>0 DEF IInv, Typed, HoldsRow
<1>3. PICK c \in 0..MaxCodes : c = req[r].codes
  BY DEF IInv, Typed, TypeOK, Request
<1>4. row \in [Rows -> Row]
  BY DEF IInv, Typed, TypeOK
<1> DEFINE x == [row[i] EXCEPT !.verified = TRUE, !.codes = c]
<1>5. x.present = row[i].present /\ x.codes = c
  BY <1>4 DEF Row
<1>6. IF row[i].present THEN row' = [row EXCEPT ![i] = x] ELSE row' = row
  BY <1>2, <1>3 DEF SaveUpdate
<1> HIDE DEF x
<1>7. \A j \in Rows : row'[j].present = row[j].present /\ (j # i => row'[j] = row[j])
  BY <1>4, <1>5, <1>6
<1>8. Present' = Present
  BY <1>7 DEF Present
<1>9. OneRow'
  BY <1>8 DEF SerialInv, OneRow
<1>10. Numbered'
  <2>1. req'[r].step \notin Carries
    BY <1>1 DEF Carries
  <2> QED BY <1>0, <1>1, <1>8, <2>1 DEF SerialInv, Numbered, OthersAsBefore
<1>11. ASSUME ~overlapped' PROVE Only(r) /\ StillSo(r)' /\ (~failed' => ToldAfter(r))
  <2>1. Only(r) /\ row[i].present
    BY <1>0, <1>2, <1>11, Serially DEF StillSo
  <2>2. StillSo(r)'
    BY <1>1 DEF StillSo
  <2>4. \A j \in Enabled' : j = i
    BY <1>2, <1>8, <2>1 DEF SerialInv, OneRow, Enabled, Present
  <2>5. row'[i].codes = c
    BY <1>4, <1>5, <1>6, <2>1
  <2>6. ToldAfter(r)
    BY <1>1, <1>3, <2>4, <2>5 DEF ToldAfter
  <2> QED BY <2>1, <2>2, <2>6
<1> QED BY <1>1, <1>9, <1>10, <1>11, OneStep

(* The copy is inserted again only where another request has removed its row. *)
LEMMA ReinsertSerial ==
  ASSUME IInv, SerialInv, NEW r \in Requests, SaveReinsert(r)
  PROVE  SerialInv'
<1>0. /\ req[r].step = "reinsert" /\ UNCHANGED <<made, removed, told, overlapped, failed>>
  BY DEF SaveReinsert, At, history
<1>1. CASE Present # {}
  BY <1>0, <1>1, Ending DEF SaveReinsert
<1>2. CASE Present = {}
  <2>1. PICK i \in Rows : i = req[r].row
    BY <1>0 DEF IInv, Typed, HoldsRow
  <2>2. row \in [Rows -> Row] /\ i <= made
    BY <1>0, <2>1 DEF IInv, Typed, TypeOK, SerialInv, Numbered, Carries
  <2>3. Goto(r, "tell") /\ \A j \in Rows \ {i} : row'[j] = row[j]
    BY <1>2, <2>1, <2>2 DEF SaveReinsert
  <2>4. OthersAsBefore(r) /\ req'[r].step = "tell" /\ "tell" \notin Carries
    BY <2>3, GotoEffect DEF Carries
  <2>5. Present' \subseteq {i}
    BY <1>2, <2>3 DEF Present
  <2>6. OneRow' /\ Numbered'
    BY <1>0, <2>2, <2>4, <2>5 DEF OneRow, Numbered, SerialInv, OthersAsBefore
  <2>7. overlapped'
    BY <1>0, Serially DEF StillSo
  <2> QED BY <2>4, <2>6, <2>7, OneStep
<1> QED BY <1>1, <1>2

LEMMA TellSerial ==
  ASSUME IInv, SerialInv, NEW r \in Requests, Tell(r)
  PROVE  SerialInv'
<1>0. /\ req[r].step = "tell" /\ UNCHANGED <<row, made, removed, overlapped, failed>>
      /\ told' = req[r].codes /\ OthersAsBefore(r) /\ req'[r].step = "idle"
  BY DoneEffect DEF Tell, At, history
<1>1. OneRow' /\ Numbered' /\ Enabled' = Enabled
  BY <1>0 DEF SerialInv, OneRow, Numbered, Present, Enabled, OthersAsBefore, Carries
<1>2. ASSUME ~overlapped' PROVE Only(r) /\ StillSo(r)' /\ (~failed' => ToldAfter(r))
  <2>1. Only(r) /\ (~failed => Told(req[r].codes))
    BY <1>0, <1>2, Serially
  <2>2. StillSo(r)'
    BY <1>0 DEF StillSo
  <2> QED BY <1>0, <1>1, <2>1, <2>2 DEF ToldAfter, Told
<1> QED BY <1>0, <1>1, <1>2, OneStep

LEMMA SerialKept == IInv /\ SerialInv /\ [Next]_vars => SerialInv'
<1> SUFFICES ASSUME IInv, SerialInv, [Next]_vars PROVE SerialInv'
  OBVIOUS
<1>1. ASSUME NEW r \in Requests, Step(r) PROVE SerialInv'
  BY <1>1, GoingSerial, DropSerial, SetupInsertSerial, UpdateSerial, ReinsertSerial, TellSerial
     DEF Step
<1>2. ASSUME NEW r \in Requests, Abort(r) PROVE SerialInv'
  BY <1>2, Ending DEF Abort, At
<1>3. CASE SignIn \/ UNCHANGED vars
  <2>1. UNCHANGED <<row, made, removed, told, overlapped, failed, req>>
    BY <1>3 DEF SignIn, vars, history
  <2>2. OneRow' /\ Numbered'
    BY <2>1 DEF SerialInv, OneRow, Numbered, Present
  <2>3. SerialPart => SerialPart'
    BY <2>1 DEF SerialPart, Alone, StillSo, CodesTold, Told, Enabled, Present
  <2> QED BY <2>1, <2>2, <2>3 DEF SerialInv
<1> QED BY <1>1, <1>2, <1>3, BeginSerial DEF Next

LEMMA SerialInit == Init => SerialInv
<1> SUFFICES ASSUME Init PROVE SerialInv
  OBVIOUS
<1>1. /\ Present = {} /\ removed = {} /\ \A r \in Requests : req[r].step = "idle"
  BY DEF Init, Present, NoRow, Idle
<1> QED BY <1>1 DEF SerialInv, OneRow, Numbered, Carries, SerialPart, Alone, StillSo,
                   CodesTold, Told, Enabled

LEMMA SerialInvariant == Spec => []SerialInv
BY Invariant, SerialInit, SerialKept, PTL DEF Spec

(* Where requests came one at a time and ran to their ends, the recovery codes
   of the enabled row are those the user was told last, for any number of
   setups and verifications, a verification of an enabled row included.      *)
THEOREM CodesAsTold == Spec => []ToldCodesStored
<1>1. SerialInv => ToldCodesStored
  <2> SUFFICES ASSUME SerialInv, ~overlapped, ~failed, Quiet
               PROVE  \A i \in Enabled : row[i].codes = told
    BY DEF ToldCodesStored
  <2> QED BY DEF SerialInv, SerialPart, CodesTold, Told, Quiet, At
<1> QED BY <1>1, SerialInvariant, PTL

-------------------------------------------------------------------------------
(* Disabled rows, however requests overlap *)

Saving == {"hash", "select", "reinsert"}

(* A row that disable has removed, nobody verifying it then, is in the table no
   more, and nobody carries it to a save.                                    *)
Off(i) ==
  /\ ~row[i].present
  /\ \A s \in Requests : req[s].step \in Saving => req[s].row # i

OffInv == \A i \in removed \ contested : Off(i)

(* A step that brings no such row back and takes none to a save.             *)
LEMMA OffStep ==
  ASSUME OffInv, NEW r \in Requests, OthersAsBefore(r), UNCHANGED <<removed, contested>>,
         \A i \in removed \ contested : ~row'[i].present,
         req'[r].step \in Saving => req'[r].row \notin removed \ contested
  PROVE  OffInv'
<1> SUFFICES ASSUME NEW i \in removed \ contested,
                    NEW s \in Requests, req'[s].step \in Saving
             PROVE  req'[s].row # i
  BY DEF OffInv, Off
<1>1. CASE s = r
  BY <1>1
<1>2. CASE s # r
  BY <1>2 DEF OffInv, Off, OthersAsBefore
<1> QED BY <1>1, <1>2

LEMMA BeginOff ==
  ASSUME IInv, OffInv, NEW r \in Requests, BeginSetup(r) \/ BeginVerify(r) \/ BeginDisable(r)
  PROVE  OffInv'
<1>0. /\ row' = row /\ UNCHANGED <<removed, contested>> /\ OthersAsBefore(r)
      /\ req[r] \in Request /\ req \in [Requests -> Request]
  <2>1. OthersAsBefore(r)
    BY OthersUnchanged DEF OthersAsBefore, IInv, Typed
  <2> QED BY <2>1 DEF BeginSetup, BeginVerify, BeginDisable, Starts, IInv, Typed, TypeOK
<1>1. \A i \in removed \ contested : ~row'[i].present
  BY <1>0 DEF OffInv, Off
<1>2. CASE BeginVerify(r)
  <2>1. PICK i \in Present :
          req' = [req EXCEPT ![r].step = "hash", ![r].row = i, ![r].codes = codes + 1]
    BY <1>2 DEF BeginVerify
  <2>2. req'[r].row = i
    BY <1>0, <2>1 DEF Request
  <2>3. i \notin removed \ contested
    BY DEF Present, OffInv, Off
  <2> QED BY <1>0, <1>1, <2>2, <2>3, OffStep
<1>3. CASE BeginSetup(r) \/ BeginDisable(r)
  <2>1. req'[r].step \in {"insert", "remove", "disable"}
    BY <1>0, <1>3 DEF BeginSetup, BeginDisable, Request
  <2> QED BY <1>0, <1>1, <2>1, OffStep DEF Saving
<1> QED BY <1>2, <1>3

(* The number of a new row is that of no row before.                         *)
LEMMA SetupInsertOff ==
  ASSUME IInv, SerialInv, OffInv, NEW r \in Requests, SetupInsert(r)
  PROVE  OffInv'
<1>0. UNCHANGED <<removed, contested>> /\ TypeOK /\ Room
  BY DEF SetupInsert, history, IInv, Typed
<1>1. CASE Present # {}
  <2>1. OthersAsBefore(r) /\ req'[r].step = "idle" /\ row' = row
    BY <1>1, DoneEffect DEF SetupInsert
  <2> QED BY <1>0, <2>1, OffStep DEF OffInv, Off, Saving
<1>2. CASE Present = {}
  <2> DEFINE n == made + 1
  <2>1. /\ row' = [row EXCEPT ![n] = NewRow]
        /\ req' = [req EXCEPT ![r].step = "show", ![r].row = n]
    BY <1>2 DEF SetupInsert
  <2>2. OthersAsBefore(r) /\ req'[r].step = "show"
    BY <1>0, <2>1 DEF OthersAsBefore, TypeOK, Request
  <2>3. n \notin removed
    <3>1. \A i \in removed : i \in Int /\ i <= made
      BY <1>0, BoundAssumption DEF SerialInv, Numbered, TypeOK, Rows
    <3>2. made \in Nat
      BY <1>0, BoundAssumption DEF TypeOK
    <3> QED BY <3>1, <3>2
  <2>4. \A i \in removed \ contested : row'[i] = row[i]
    BY <1>0, <2>1, <2>3 DEF TypeOK
  <2> QED BY <1>0, <2>2, <2>4, OffStep DEF OffInv, Off, Saving
<1> QED BY <1>1, <1>2

(* A removal that finds no verification of its row under way is for good.    *)
LEMMA DisableOff ==
  ASSUME IInv, OffInv, NEW r \in Requests, Disable(r)
  PROVE  OffInv'
<1>1. PICK n \in Rows : n = req[r].row
  BY DEF Disable, At, IInv, Typed, HoldsRow
<1>2. /\ OthersAsBefore(r) /\ req'[r].step = "refreshTokens"
      /\ row' = [row EXCEPT ![n] = NoRow] /\ removed' = removed \union {n}
      /\ contested' = IF Verifying(n) THEN contested \union {n} ELSE contested \ {n}
  BY <1>1, GotoEffect DEF Disable, Count
<1>3. /\ row \in [Rows -> Row] /\ removed \subseteq Rows
      /\ ~row'[n].present /\ \A i \in Rows \ {n} : row'[i] = row[i]
  BY <1>2 DEF IInv, Typed, TypeOK, NoRow
<1> SUFFICES ASSUME NEW i \in removed' \ contested'
             PROVE  ~row'[i].present /\ \A s \in Requests : req'[s].step \in Saving => req'[s].row # i
  BY DEF OffInv, Off
<1>4. \A s \in Requests : req'[s].step \in Saving => req[s].step \in Saving /\ req'[s].row = req[s].row
  BY <1>2 DEF OthersAsBefore, Saving
<1>5. CASE i = n
  <2>1. ~Verifying(n)
    BY <1>2, <1>5
  <2> QED BY <1>3, <1>4, <1>5, <2>1 DEF Verifying, Saving
<1>6. CASE i # n
  <2>1. i \in removed \ contested
    BY <1>2, <1>6
  <2> QED BY <1>3, <1>4, <1>6, <2>1 DEF OffInv, Off
<1> QED BY <1>5, <1>6

LEMMA StepOff ==
  ASSUME IInv, SerialInv, OffInv, NEW r \in Requests, Step(r)
  PROVE  OffInv'
<1>0. row \in [Rows -> Row] /\ removed \subseteq Rows /\ req[r] \in Request
      /\ req \in [Requests -> Request]
  BY DEF IInv, Typed, TypeOK
<1>1. CASE SetupRemove(r)
  <2>1. /\ OthersAsBefore(r) /\ req'[r].step = "insert" /\ UNCHANGED <<removed, contested>>
        /\ row' = [row EXCEPT ![req[r].row] = NoRow]
    BY <1>0, <1>1 DEF SetupRemove, OthersAsBefore, Request, history
  <2>2. \A i \in removed \ contested : ~row'[i].present
    BY <1>0, <2>1 DEF NoRow, OffInv, Off
  <2> QED BY <2>1, <2>2, OffStep DEF Saving
<1>2. CASE HashCodes(r) \/ SaveSelect(r)
  <2>1. req[r].step \in Saving /\ row' = row /\ UNCHANGED <<removed, contested>>
    BY <1>2 DEF HashCodes, SaveSelect, At, Saving, history
  <2>2. OthersAsBefore(r) /\ req'[r].row = req[r].row
    BY <1>2, GotoEffect DEF HashCodes, SaveSelect
  <2> QED BY <2>1, <2>2, OffStep DEF OffInv, Off
<1>3. CASE SetupShow(r) \/ Tell(r) \/ DisableTokens(r)
  <2>1. /\ OthersAsBefore(r) /\ req'[r].step = "idle" /\ row' = row
        /\ UNCHANGED <<removed, contested>>
    BY <1>3, DoneEffect DEF SetupShow, Tell, DisableTokens, history
  <2> QED BY <2>1, OffStep DEF OffInv, Off, Saving
<1>4. CASE DisableSignOut(r)
  <2>1. /\ OthersAsBefore(r) /\ req'[r].step = "tokens" /\ row' = row
        /\ UNCHANGED <<removed, contested>>
    BY <1>4, GotoEffect DEF DisableSignOut, history
  <2> QED BY <2>1, OffStep DEF OffInv, Off, Saving
<1>5. CASE SaveUpdate(r)
  <2>1. OthersAsBefore(r) /\ req'[r].step = "tell" /\ UNCHANGED <<removed, contested>>
    BY <1>5, GotoEffect DEF SaveUpdate, history
  <2>2. \A i \in removed \ contested : ~row[i].present => row'[i] = row[i]
    <3>1. CASE row[req[r].row].present
      <4> DEFINE x == [row[req[r].row] EXCEPT !.verified = TRUE, !.codes = req[r].codes]
      <4>1. row' = [row EXCEPT ![req[r].row] = x]
        BY <1>5, <3>1 DEF SaveUpdate
      <4> HIDE DEF x
      <4> QED BY <1>0, <3>1, <4>1
    <3>2. CASE ~row[req[r].row].present
      BY <1>5, <3>2 DEF SaveUpdate
    <3> QED BY <3>1, <3>2
  <2> QED BY <2>1, <2>2, OffStep DEF OffInv, Off, Saving
<1>6. CASE SaveReinsert(r)
  <2>1. req[r].step = "reinsert" /\ UNCHANGED <<removed, contested>>
    BY <1>6 DEF SaveReinsert, At, history
  <2>2. OthersAsBefore(r) /\ req'[r].step \in {"tell", "idle"}
    BY <1>6, GotoEffect, DoneEffect DEF SaveReinsert
  <2>3. req[r].row \notin removed \ contested
    BY <2>1 DEF OffInv, Off, Saving
  <2>4. \A i \in removed \ contested : row'[i] = row[i]
    BY <1>0, <1>6, <2>3 DEF SaveReinsert
  <2> QED BY <2>1, <2>2, <2>4, OffStep DEF OffInv, Off, Saving
<1> QED BY <1>1, <1>2, <1>3, <1>4, <1>5, <1>6, SetupInsertOff, DisableOff DEF Step

LEMMA OffKept == IInv /\ SerialInv /\ OffInv /\ [Next]_vars => OffInv'
<1> SUFFICES ASSUME IInv, SerialInv, OffInv, [Next]_vars PROVE OffInv'
  OBVIOUS
<1>1. ASSUME NEW r \in Requests, Abort(r) PROVE OffInv'
  <2>1. /\ OthersAsBefore(r) /\ req'[r].step = "idle" /\ row' = row
        /\ UNCHANGED <<removed, contested>>
    BY <1>1, DoneEffect DEF Abort
  <2> QED BY <2>1, OffStep DEF OffInv, Off, Saving
<1>2. CASE SignIn \/ UNCHANGED vars
  BY <1>2 DEF SignIn, vars, history, OffInv, Off
<1> QED BY <1>1, <1>2, BeginOff, StepOff DEF Next

(* However requests overlap and wherever each of them stops, a row that disable
   has removed is in the table again only by the save of a verification that
   was under way at that moment.                                             *)
THEOREM DisabledForGood == Spec => []DisabledStaysOff
<1>1. Init => OffInv
  BY DEF Init, OffInv
<1>2. OffInv => DisabledStaysOff
  BY DEF OffInv, Off, DisabledStaysOff
<1> QED BY <1>1, <1>2, OffKept, Invariant, SerialInvariant, PTL DEF Spec

===============================================================================
