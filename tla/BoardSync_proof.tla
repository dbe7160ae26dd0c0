-------------------------- MODULE BoardSync_proof --------------------------
(***************************************************************************)
(* Proofs about BoardSync: type correctness and the two invariants on the  *)
(* local table, for every value of the bounds.                             *)
(*                                                                         *)
(* A pending row is created on the server or updated there according to    *)
(* its server_version, and the answer is filed under the local id the push *)
(* was sent for.  So the argument needs one fact on the pushes in flight:  *)
(* an update is only ever sent for a row that has its server id.           *)
(***************************************************************************)
EXTENDS BoardSync, TLAPS

UpdatesAreNamed == \A p \in InFlight : p.op = "update" => p.id > 0

\* What the invariants say of the local table, of any table t.
RowOK(i, row) ==
    /\ i < 0 => row.sync_status = "pending" /\ row.server_version = 0
    /\ i > 0 /\ row.sync_status = "pending" => ~row.updated_at.iso

TableOK(t) ==
    /\ t \in [Id -> LocalRow \cup {None}]
    /\ \A i \in Id : t[i] # None => RowOK(i, t[i])

FlightOK == InFlight \subseteq Push /\ UpdatesAreNamed

RestOK ==
    /\ server \in [ServerId -> ServerRow \cup {None}]
    /\ serial \in 0 .. MaxServer
    /\ load \in {"idle", "sent", "answered"}
    /\ snapshot \in [ServerId -> ServerRow \cup {None}]
    /\ today \in 0 .. MaxDay
    /\ typed \in 0 .. MaxText
    /\ healthy \in BOOLEAN
    /\ crashed \in BOOLEAN
    /\ restarts \in 0 .. MaxRestarts
    /\ owed \subseteq Text

IInv == TableOK(local) /\ FlightOK /\ RestOK

-----------------------------------------------------------------------------
(* Ids, bags and the operators on the local table                          *)

LEMMA Zeros ==
    /\ 0 \in 0 .. MaxServer /\ 0 \in 0 .. MaxDay
    /\ 0 \in 0 .. MaxText /\ 0 \in 0 .. MaxRestarts
BY BoundAssumption

LEMMA Signs ==
    /\ \A i \in ServerId : i \in Int /\ i > 0 /\ ~(i < 0) /\ i \in Id
    /\ \A i \in LocalId : i \in Int /\ i < 0 /\ ~(i > 0) /\ i \in Id
    /\ \A i \in Id : i > 0 => i \in ServerId
    /\ \A i \in Id : i < 0 => i \in LocalId
BY BoundAssumption DEF ServerId, LocalId, Id

LEMMA SentAreInFlight ==
    ASSUME NEW B, NEW S
    PROVE  BagToSet(B (+) SetToBag(S)) = BagToSet(B) \cup S
BY DEF BagToSet, SetToBag, (+)

LEMMA RestAreInFlight ==
    ASSUME NEW B, NEW S
    PROVE  BagToSet(B (-) S) \subseteq BagToSet(B)
BY DEF BagToSet, (-)

LEMMA InvariantsOfTable ==
    TableOK(local) <=> /\ local \in [Id -> LocalRow \cup {None}]
                       /\ UnsentIsPending
                       /\ PendingStampsAreSql
BY DEF TableOK, RowOK, UnsentIsPending, PendingStampsAreSql, Rows, Pending

\* saveFromServer never leaves the row pending.
LEMMA SavedRow ==
    ASSUME NEW old \in LocalRow \cup {None}, NEW row \in ServerRow,
           NEW same \in BOOLEAN, today \in 0 .. MaxDay
    PROVE  /\ SavedFromServer(old, row, same) \in LocalRow
           /\ SavedFromServer(old, row, same).sync_status # "pending"
BY DEF SavedFromServer, Conflicting, Overwritten, LocalRow, ServerRow, Stamp, SqlNow

LEMMA StoringKeeps ==
    ASSUME NEW t, TableOK(t), NEW i \in ServerId, NEW row \in ServerRow,
           NEW same \in BOOLEAN, today \in 0 .. MaxDay
    PROVE  TableOK([t EXCEPT ![i] = SavedFromServer(@, row, same)])
<1>1. t[i] \in LocalRow \cup {None} /\ i \in Id
  BY Signs DEF TableOK
<1> DEFINE new == SavedFromServer(t[i], row, same)
<1>2. new \in LocalRow /\ new.sync_status # "pending"
  BY <1>1, SavedRow
<1>3. RowOK(i, new)
  BY <1>2, Signs DEF RowOK
<1> HIDE DEF new
<1>4. TableOK([t EXCEPT ![i] = new])
  BY <1>1, <1>2, <1>3 DEF TableOK
<1>5. QED
  BY <1>4 DEF new

LEMMA MarkingKeeps ==
    ASSUME NEW t, TableOK(t), NEW i \in ServerId, today \in 0 .. MaxDay
    PROVE  TableOK(MarkSynced(t, i))
<1>1. t \in [Id -> LocalRow \cup {None}] /\ i \in Id
  BY Signs DEF TableOK
<1>2. CASE t[i] = None
  BY <1>2 DEF MarkSynced
<1>3. CASE t[i] # None
  <2> DEFINE new == [t[i] EXCEPT !.sync_status = "synced", !.updated_at = SqlNow]
  <2>1. new \in LocalRow /\ new.sync_status # "pending"
    BY <1>1, <1>3 DEF LocalRow, Stamp, SqlNow
  <2>2. RowOK(i, new)
    BY <2>1, Signs DEF RowOK
  <2>3. MarkSynced(t, i) = [t EXCEPT ![i] = new]
    BY <1>1, <1>3 DEF MarkSynced
  <2> HIDE DEF new
  <2>4. QED
    BY <1>1, <2>1, <2>2, <2>3 DEF TableOK
<1>4. QED
  BY <1>2, <1>3

LEMMA ReplacingKeeps ==
    ASSUME NEW t, TableOK(t), NEW old \in LocalId, NEW new \in ServerId,
           today \in 0 .. MaxDay
    PROVE  TableOK(ReplaceId(t, old, new))
<1>1. t \in [Id -> LocalRow \cup {None}] /\ old \in Id /\ new \in Id
  BY Signs DEF TableOK
<1>2. CASE t[old] = None
  BY <1>2 DEF ReplaceId
<1>3. CASE t[old] # None
  <2> DEFINE row == [t[old] EXCEPT !.updated_at = SqlNow]
  <2>1. row \in LocalRow /\ ~row.updated_at.iso
    BY <1>1, <1>3 DEF LocalRow, Stamp, SqlNow
  <2>2. RowOK(new, row)
    BY <2>1, Signs DEF RowOK
  <2>3. ReplaceId(t, old, new) = [t EXCEPT ![old] = None, ![new] = row]
    BY <1>3 DEF ReplaceId
  <2> HIDE DEF row
  <2>4. QED
    BY <1>1, <2>1, <2>2, <2>3 DEF TableOK
<1>4. QED
  BY <1>2, <1>3

-----------------------------------------------------------------------------
(* The pushes                                                              *)

\* sync sends a create for a row the server has not named, so every update
\* has its server id.
LEMMA SyncKeeps ==
    ASSUME FlightOK, TableOK(local'), Sync
    PROVE  FlightOK'
<1> DEFINE sent == {PushOf(i) : i \in Pending'}
<1>1. pushes' = pushes (+) SetToBag(sent)
  BY DEF Sync
<1>2. InFlight' = InFlight \cup sent
  BY <1>1, SentAreInFlight DEF InFlight
<1>3. ASSUME NEW i \in Pending'
      PROVE  PushOf(i) \in Push /\ (PushOf(i).op = "update" => PushOf(i).id > 0)
  <2>1. i \in Id /\ local'[i] \in LocalRow /\ RowOK(i, local'[i])
    BY <1>3 DEF Pending, Rows, TableOK
  <2>2. PushOf(i) \in Push
    BY <2>1, BoundAssumption DEF PushOf, Push, LocalRow
  <2>3. local'[i].server_version # 0 => i > 0
    BY <2>1, Signs DEF RowOK, Id
  <2>4. QED
    BY <2>2, <2>3 DEF PushOf
<1>4. QED
  BY <1>2, <1>3 DEF FlightOK, UpdatesAreNamed

LEMMA DroppingKeeps ==
    ASSUME FlightOK, NEW p, pushes' = Without(p)
    PROVE  FlightOK'
<1>1. InFlight' \subseteq InFlight
  BY RestAreInFlight DEF InFlight, Without
<1>2. QED
  BY <1>1 DEF FlightOK, UpdatesAreNamed

LEMMA ReplacingPushKeeps ==
    ASSUME FlightOK, NEW p, NEW q \in Push, q.op = "update" => q.id > 0,
           pushes' = Replacing(p, q)
    PROVE  FlightOK'
<1>1. InFlight' \subseteq InFlight \cup {q}
  BY RestAreInFlight, SentAreInFlight DEF InFlight, Without, Replacing
<1>2. QED
  BY <1>1 DEF FlightOK, UpdatesAreNamed

-----------------------------------------------------------------------------
(* One lemma per group of actions                                          *)

LEMMA InitIInv == Init => IInv
<1> SUFFICES ASSUME Init PROVE IInv
  OBVIOUS
<1>1. TableOK(local)
  BY DEF Init, TableOK
<1>2. InFlight = {}
  BY DEF Init, InFlight, EmptyBag, BagToSet, SetToBag
<1>3. FlightOK
  BY <1>2 DEF FlightOK, UpdatesAreNamed
<1>4. RestOK
  BY Zeros DEF Init, RestOK
<1>5. QED
  BY <1>1, <1>3, <1>4 DEF IInv

LEMMA NextText ==
    ASSUME typed \in 0 .. MaxText, typed < MaxText, typed' = typed + 1
    PROVE  typed' \in 0 .. MaxText /\ typed' \in Text
BY BoundAssumption DEF Text

LEMMA CreateKeeps ==
    ASSUME IInv, CreateBoard
    PROVE  IInv'
<1> USE DEF IInv
<1>1. typed' \in 0 .. MaxText /\ typed' \in Text
  BY NextText DEF RestOK, CreateBoard
<1> DEFINE i == CreateLocalId
           row == [text |-> typed', sync_status |-> "pending",
                   server_version |-> 0, updated_at |-> IsoNow]
<1>2. i \in LocalId /\ local' = [local EXCEPT ![i] = row]
  BY DEF CreateBoard
<1>3. row \in LocalRow
  BY <1>1 DEF LocalRow, Stamp, IsoNow, RestOK
<1> HIDE DEF i
<1>4. RowOK(i, row)
  BY <1>2, Signs DEF RowOK
<1>5. row.sync_status = "pending" /\ i \in Id
  BY <1>2, Signs
<1> HIDE DEF row
<1>6. TableOK(local')
  BY <1>2, <1>3, <1>4, <1>5 DEF TableOK
<1>7. FlightOK'
  BY <1>6, SyncKeeps DEF CreateBoard
<1>8. RestOK'
  BY <1>1 DEF RestOK, CreateBoard
<1>9. QED
  BY <1>6, <1>7, <1>8

LEMMA EditKeeps ==
    ASSUME IInv, NEW i \in ServerId, EditBoard(i)
    PROVE  IInv'
<1> USE DEF IInv
<1>1. typed' \in 0 .. MaxText /\ typed' \in Text
  BY NextText DEF RestOK, EditBoard
<1> DEFINE row == [local[i] EXCEPT !.text = typed', !.sync_status = "pending",
                                   !.updated_at = SqlNow]
<1>2. i \in Id /\ local[i] \in LocalRow
  BY Signs DEF EditBoard, TableOK
<1>3. local' = [local EXCEPT ![i] = row]
  BY <1>2 DEF EditBoard, TableOK
<1>4. row \in LocalRow /\ ~row.updated_at.iso
  BY <1>1, <1>2 DEF LocalRow, Stamp, SqlNow, RestOK
<1> HIDE DEF row
<1>5. RowOK(i, row)
  BY <1>4, Signs DEF RowOK
<1>6. TableOK(local')
  BY <1>2, <1>3, <1>4, <1>5 DEF TableOK
<1>7. FlightOK'
  BY <1>6, SyncKeeps DEF EditBoard
<1>8. RestOK'
  BY <1>1 DEF RestOK, EditBoard
<1>9. QED
  BY <1>6, <1>7, <1>8

LEMMA DeliverPushKeeps ==
    ASSUME IInv, NEW p \in InFlight, DeliverPush(p)
    PROVE  IInv'
<1> USE DEF IInv
<1>1. p \in Push /\ (p.op = "update" => p.id > 0)
  BY DEF FlightOK, UpdatesAreNamed
<1> DEFINE sid == p.answer.id
<1>2. p.id \in Id /\ sid \in ServerId /\ p.answer.row \in ServerRow
  BY <1>1 DEF DeliverPush, Push
<1>3. today \in 0 .. MaxDay
  BY DEF RestOK
<1>4. TableOK(local') /\ crashed' \in BOOLEAN
  <2>1. CASE p.op = "create" /\ CreateAnswered(p)
    <3> DEFINE moved == IF p.id < 0 THEN ReplaceId(local, p.id, sid) ELSE local
               id == IF p.id < 0 THEN sid ELSE p.id
    <3>1. TableOK(moved)
      BY <1>2, <1>3, ReplacingKeeps, Signs
    <3>2. id \in ServerId
      BY <1>2, Signs DEF Id
    <3>3. CASE crashed' = TRUE /\ UNCHANGED local
      BY <3>3
    <3>4. ASSUME NEW same \in BOOLEAN, UNCHANGED crashed,
                 local' = MarkSynced([moved EXCEPT ![sid] =
                              SavedFromServer(@, p.answer.row, same)], id)
          PROVE  TableOK(local') /\ crashed' \in BOOLEAN
      <4> HIDE DEF moved, id, sid
      <4>1. TableOK([moved EXCEPT ![sid] = SavedFromServer(@, p.answer.row, same)])
        BY <1>2, <1>3, <3>1, StoringKeeps
      <4>2. TableOK(local')
        BY <1>3, <3>2, <3>4, <4>1, MarkingKeeps
      <4>3. QED
        BY <3>4, <4>2 DEF RestOK
    <3>5. QED
      BY <2>1, <3>3, <3>4 DEF CreateAnswered
  <2>2. CASE p.op = "update" /\ UpdateAnswered(p)
    <3>1. p.id \in ServerId
      BY <1>1, <1>2, <2>2, Signs
    <3>2. PICK same \in BOOLEAN :
            local' = MarkSynced([local EXCEPT ![sid] =
                         SavedFromServer(@, p.answer.row, same)], p.id)
      BY <2>2 DEF UpdateAnswered
    <3> HIDE DEF sid
    <3>3. TableOK([local EXCEPT ![sid] = SavedFromServer(@, p.answer.row, same)])
      BY <1>2, <1>3, StoringKeeps
    <3>4. TableOK(local')
      BY <1>3, <3>1, <3>2, <3>3, MarkingKeeps
    <3>5. QED
      BY <2>2, <3>4 DEF UpdateAnswered, RestOK
  <2>3. QED
    BY <2>1, <2>2 DEF DeliverPush
<1>5. FlightOK'
  BY DroppingKeeps DEF DeliverPush
<1>6. RestOK'
  BY <1>4 DEF RestOK, DeliverPush
<1>7. QED
  BY <1>4, <1>5, <1>6

LEMMA DeliverLoadKeeps ==
    ASSUME IInv, DeliverLoad
    PROVE  IInv'
<1> USE DEF IInv
<1> DEFINE sent == {i \in ServerId : snapshot[i] # None}
<1>1. PICK same \in SUBSET sent :
        local' = [i \in Id |-> IF i \in sent
                               THEN SavedFromServer(local[i], snapshot[i], i \in same)
                               ELSE local[i]]
  BY DEF DeliverLoad
<1>2. ASSUME NEW i \in Id
      PROVE  local'[i] \in LocalRow \cup {None} /\ (local'[i] # None => RowOK(i, local'[i]))
  <2>1. CASE i \in sent
    <3> DEFINE now == i \in same
    <3>1. local'[i] = SavedFromServer(local[i], snapshot[i], now)
      BY <1>1, <2>1
    <3>2. now \in BOOLEAN
      OBVIOUS
    <3> HIDE DEF now
    <3>3. local[i] \in LocalRow \cup {None} /\ snapshot[i] \in ServerRow
      BY <2>1 DEF TableOK, RestOK
    <3>4. local'[i] \in LocalRow /\ local'[i].sync_status # "pending"
      BY <3>1, <3>2, <3>3, SavedRow DEF RestOK
    <3>5. QED
      BY <2>1, <3>4, Signs DEF RowOK
  <2>2. CASE i \notin sent
    BY <1>1, <2>2 DEF TableOK
  <2>3. QED
    BY <2>1, <2>2
<1>3. TableOK(local')
  BY <1>1, <1>2 DEF TableOK
<1>4. FlightOK'
  BY DEF DeliverLoad, FlightOK, InFlight, UpdatesAreNamed
<1>5. RestOK'
  BY NoneAssumption DEF DeliverLoad, RestOK
<1>6. QED
  BY <1>3, <1>4, <1>5

LEMMA InsertKeeps ==
    ASSUME RestOK, NEW text \in Text, Insert(text)
    PROVE  /\ server' \in [ServerId -> ServerRow \cup {None}]
           /\ serial' \in ServerId
           /\ server'[serial'] \in ServerRow
<1>1. serial' \in ServerId
  BY BoundAssumption DEF Insert, RestOK, ServerId
<1>2. [text |-> text, updated_at |-> IsoNow] \in ServerRow
  BY DEF RestOK, ServerRow, Stamp, IsoNow
<1>3. QED
  BY <1>1, <1>2 DEF Insert, RestOK

LEMMA UpdateKeeps ==
    ASSUME RestOK, NEW i \in ServerId, NEW text \in Text, Update(i, text)
    PROVE  /\ server' \in [ServerId -> ServerRow \cup {None}]
           /\ server'[i] \in ServerRow
           /\ serial' = serial
<1>1. [text |-> text, updated_at |-> IsoNow] \in ServerRow
  BY DEF RestOK, ServerRow, Stamp, IsoNow
<1>2. QED
  BY <1>1 DEF Update, RestOK

LEMMA ServerIdIsSerial == \A i \in ServerId : i \in 0 .. MaxServer
BY BoundAssumption DEF ServerId

LEMMA ServePushKeeps ==
    ASSUME IInv, NEW p \in InFlight, ServePush(p)
    PROVE  IInv'
<1> USE DEF IInv
<1>1. p \in Push /\ (p.op = "update" => p.id > 0)
  BY DEF FlightOK, UpdatesAreNamed
<1>2. p.text \in Text /\ p.id \in Id
  BY <1>1 DEF Push
<1>3. /\ server' \in [ServerId -> ServerRow \cup {None}]
      /\ serial' \in 0 .. MaxServer
      /\ \E a \in [id : ServerId, row : ServerRow] :
           pushes' = Replacing(p, [p EXCEPT !.answer = a])
  <2>1. CASE ServeCreate(p)
    <3>1. /\ server' \in [ServerId -> ServerRow \cup {None}]
          /\ serial' \in ServerId /\ server'[serial'] \in ServerRow
      BY <1>2, <2>1, InsertKeeps DEF ServeCreate
    <3>2. serial' \in 0 .. MaxServer
      BY <3>1, ServerIdIsSerial
    <3>3. QED
      BY <2>1, <3>1, <3>2 DEF ServeCreate, Answered
  <2>2. CASE ServeEdit(p)
    <3>1. p.id \in ServerId
      BY <1>1, <1>2, <2>2, Signs DEF ServeEdit
    <3>2. /\ server' \in [ServerId -> ServerRow \cup {None}]
          /\ server'[p.id] \in ServerRow /\ serial' = serial
      BY <1>2, <2>2, <3>1, UpdateKeeps DEF ServeEdit
    <3>3. QED
      BY <2>2, <3>1, <3>2 DEF ServeEdit, Answered, RestOK
  <2>3. QED
    BY <2>1, <2>2 DEF ServePush
<1>4. PICK a \in [id : ServerId, row : ServerRow] :
        pushes' = Replacing(p, [p EXCEPT !.answer = a])
  BY <1>3
<1> DEFINE q == [p EXCEPT !.answer = a]
<1>5. q \in Push /\ (q.op = "update" => q.id > 0)
  BY <1>1 DEF Push
<1> HIDE DEF q
<1>6. FlightOK'
  BY <1>4, <1>5, ReplacingPushKeeps DEF q
<1>7. TableOK(local')
  BY DEF ServePush
<1>8. RestOK'
  BY <1>3 DEF RestOK, ServePush
<1>9. QED
  BY <1>6, <1>7, <1>8

LEMMA RetryKeeps ==
    ASSUME IInv, NEW p \in InFlight, RetryPush(p)
    PROVE  IInv'
<1> USE DEF IInv
<1>1. p \in Push /\ (p.op = "update" => p.id > 0)
  BY DEF FlightOK, UpdatesAreNamed
<1> DEFINE q == [p EXCEPT !.retries = @ + 1]
<1>2. p.retries + 1 \in 0 .. MaxRetries
  BY <1>1, BoundAssumption DEF Push, RetryPush
<1>3. q \in Push /\ (q.op = "update" => q.id > 0)
  BY <1>1, <1>2 DEF Push
<1>4. pushes' = Replacing(p, q)
  BY DEF RetryPush
<1> HIDE DEF q
<1>5. FlightOK'
  BY <1>3, <1>4, ReplacingPushKeeps
<1>6. QED
  BY <1>5 DEF RetryPush, RestOK

LEMMA OtherDeviceKeeps ==
    ASSUME IInv, OtherDevice
    PROVE  IInv'
<1> USE DEF IInv
<1>1. typed' \in 0 .. MaxText /\ typed' \in Text
  BY NextText DEF RestOK, OtherDevice
<1>2. server' \in [ServerId -> ServerRow \cup {None}] /\ serial' \in 0 .. MaxServer
  <2>1. CASE Insert(typed')
    BY <1>1, <2>1, InsertKeeps, ServerIdIsSerial
  <2>2. CASE \E i \in ServerId : Update(i, typed')
    BY <1>1, <2>2, UpdateKeeps DEF RestOK
  <2>3. QED
    BY <2>1, <2>2 DEF OtherDevice
<1>3. FlightOK'
  BY DEF OtherDevice, FlightOK, InFlight, UpdatesAreNamed
<1>4. QED
  BY <1>1, <1>2, <1>3 DEF OtherDevice, RestOK

LEMMA StepIInv == IInv /\ [Next]_vars => IInv'
<1> SUFFICES ASSUME IInv, [Next]_vars PROVE IInv'
  OBVIOUS
<1> USE DEF IInv
<1>1. ASSUME UNCHANGED <<local, pushes>>, RestOK' PROVE IInv'
  BY <1>1 DEF FlightOK, InFlight, UpdatesAreNamed
<1>2. CASE CreateBoard
  BY <1>2, CreateKeeps
<1>3. CASE \E i \in ServerId : EditBoard(i)
  BY <1>3, EditKeeps
<1>4. CASE PeriodicSync
  <2>1. FlightOK'
    BY <1>4, SyncKeeps DEF PeriodicSync
  <2>2. QED
    BY <1>4, <2>1 DEF PeriodicSync, RestOK
<1>5. CASE Restart
  <2>1. TableOK(local')
    BY <1>5 DEF Restart, TableOK
  <2>2. InFlight' = {}
    BY <1>5 DEF Restart, InFlight, EmptyBag, BagToSet, SetToBag
  <2>3. FlightOK'
    BY <2>2 DEF FlightOK, UpdatesAreNamed
  <2>4. restarts' \in 0 .. MaxRestarts
    BY <1>5, BoundAssumption DEF Restart, RestOK
  <2>5. snapshot' \in [ServerId -> ServerRow \cup {None}]
    BY <1>5 DEF Restart
  <2>6. RestOK'
    BY <1>5, <2>4, <2>5 DEF Restart, RestOK
  <2>7. QED
    BY <2>1, <2>3, <2>6
<1>6. CASE \E p \in InFlight : DeliverPush(p) \/ LosePush(p) \/ RetryPush(p) \/ ServePush(p)
  <2>1. PICK p \in InFlight : DeliverPush(p) \/ LosePush(p) \/ RetryPush(p) \/ ServePush(p)
    BY <1>6
  <2>2. CASE LosePush(p)
    <3>1. FlightOK'
      BY <2>2, DroppingKeeps DEF LosePush
    <3>2. QED
      BY <2>2, <3>1 DEF LosePush, RestOK
  <2>3. QED
    BY <2>1, <2>2, DeliverPushKeeps, RetryKeeps, ServePushKeeps
<1>7. CASE DeliverLoad
  BY <1>7, DeliverLoadKeeps
<1>8. CASE LoadFails
  BY <1>1, <1>8 DEF LoadFails, RestOK
<1>9. CASE ServeLoad
  BY <1>1, <1>9 DEF ServeLoad, RestOK
<1>10. CASE OtherDevice
  BY <1>10, OtherDeviceKeeps
<1>11. CASE MidnightPasses
  BY <1>1, <1>11, BoundAssumption DEF MidnightPasses, RestOK, net
<1>12. CASE HealthChanges
  BY <1>1, <1>12 DEF HealthChanges, RestOK, net
<1>13. CASE UNCHANGED vars
  BY <1>1, <1>13 DEF vars, RestOK, net
<1>14. QED
  BY <1>2, <1>3, <1>4, <1>5, <1>6, <1>7, <1>8, <1>9, <1>10, <1>11, <1>12, <1>13 DEF Next

LEMMA Invariance == SafetySpec => []IInv
BY InitIInv, StepIInv, PTL DEF SafetySpec

-----------------------------------------------------------------------------
(* The results                                                             *)

\* Type correctness, the ids' and the retries' bounds included.
THEOREM TypeCorrect == SafetySpec => []TypeOK
<1>1. IInv => TypeOK
  BY DEF IInv, TypeOK, TableOK, FlightOK, RestOK
<1>2. QED
  BY <1>1, Invariance, PTL

\* A board without its server id is always still to be sent: the answers to
\* creates and updates, in whatever order they come, mark as synced only rows
\* the server has named (handlePushResponse, replaceId, markSynced).
THEOREM UnsentStaysPending == SafetySpec => []UnsentIsPending
<1>1. IInv => UnsentIsPending
  BY InvariantsOfTable DEF IInv
<1>2. QED
  BY <1>1, Invariance, PTL

\* Whenever saveFromServer compares two times, the local one was written by
\* SQLite and the other one in ISO format.
THEOREM StampsDiffer == SafetySpec => []PendingStampsAreSql
<1>1. IInv => PendingStampsAreSql
  BY InvariantsOfTable DEF IInv
<1>2. QED
  BY <1>1, Invariance, PTL

-----------------------------------------------------------------------------
(* What the client knows, the server has                                   *)

KnownPush(p) ==
    /\ p.op = "update" => server[p.id] # None
    /\ p.answer # None => server[p.answer.id] # None

KnownRows(t) == \A i \in ServerId : t[i] # None => server[i] # None

Known ==
    /\ KnownRows(local)
    /\ KnownRows(snapshot)
    /\ \A p \in InFlight : KnownPush(p)

\* No board is deleted on the server.
Remains == \A i \in ServerId : server[i] # None => server'[i] # None

LEMMA InitKnown == Init => Known
<1> SUFFICES ASSUME Init PROVE Known
  OBVIOUS
<1>1. InFlight = {}
  BY DEF Init, InFlight, EmptyBag, BagToSet, SetToBag
<1>2. \A i \in ServerId : local[i] = None /\ snapshot[i] = None
  BY Signs DEF Init
<1>3. QED
  BY <1>1, <1>2 DEF Known, KnownRows

LEMMA RowsRemain ==
    ASSUME Remains, NEW t, KnownRows(t)
    PROVE  \A i \in ServerId : t[i] # None => server'[i] # None
  BY DEF Remains, KnownRows

LEMMA PushRemains ==
    ASSUME IInv, Remains, NEW p \in InFlight, KnownPush(p)
    PROVE  KnownPush(p)'
<1>1. p \in Push /\ (p.op = "update" => p.id \in ServerId)
  BY Signs DEF IInv, FlightOK, UpdatesAreNamed, Push
<1>2. p.answer # None => p.answer.id \in ServerId
  BY <1>1 DEF Push
<1>3. QED
  BY <1>1, <1>2 DEF KnownPush, Remains

\* A step that sends nothing and stores nothing here.
LEMMA KnownRemains ==
    ASSUME IInv, Known, Remains, UNCHANGED local,
           snapshot' = snapshot \/ KnownRows(snapshot)',
           \A p \in InFlight' : p \in InFlight \/ KnownPush(p)'
    PROVE  Known'
<1>1. KnownRows(local)' /\ KnownRows(snapshot)'
  BY RowsRemain DEF Known, KnownRows
<1>2. \A p \in InFlight' : KnownPush(p)'
  BY PushRemains DEF Known
<1>3. QED
  BY <1>1, <1>2 DEF Known

\* What sync sends is known, if the rows are.
LEMMA SyncKnown ==
    ASSUME IInv, IInv', Known, UNCHANGED <<server, snapshot>>, Sync,
           \A i \in ServerId : local'[i] # None => server[i] # None
    PROVE  Known'
<1>1. InFlight' = InFlight \cup {PushOf(i) : i \in Pending'}
  BY SentAreInFlight DEF Sync, InFlight
<1>2. ASSUME NEW i \in Pending' PROVE KnownPush(PushOf(i))
  <2>1. i \in Id /\ local'[i] # None
    BY DEF Pending, Rows
  <2>2. i < 0 => local'[i].server_version = 0
    BY <2>1 DEF IInv, TableOK, RowOK
  <2>3. i \in ServerId \/ local'[i].server_version = 0
    BY <2>1, <2>2, Signs DEF Id
  <2>4. PushOf(i).op = "update" => server[PushOf(i).id] # None
    BY <2>1, <2>3 DEF PushOf
  <2>5. QED
    BY <2>4 DEF KnownPush, PushOf
<1>3. \A p \in InFlight' : KnownPush(p)
  BY <1>1, <1>2 DEF Known
<1>4. QED
  BY <1>3 DEF Known, KnownRows, KnownPush

LEMMA InsertRemains ==
    ASSUME RestOK, NEW text \in Text, Insert(text)
    PROVE  Remains /\ serial' \in ServerId /\ server'[serial'] # None
<1>1. serial' \in ServerId /\ server'[serial'] \in ServerRow
  BY InsertKeeps
<1>2. server'[serial'] # None
  BY <1>1, NoneAssumption
<1>3. \A i \in ServerId : i # serial' => server'[i] = server[i]
  BY <1>1 DEF Insert, RestOK
<1>4. QED
  BY <1>1, <1>2, <1>3 DEF Remains

LEMMA UpdateRemains ==
    ASSUME RestOK, NEW i \in ServerId, NEW text \in Text, Update(i, text)
    PROVE  Remains /\ server'[i] # None
<1>1. server'[i] # None
  BY UpdateKeeps, NoneAssumption
<1>2. \A j \in ServerId : j # i => server'[j] = server[j]
  BY DEF Update, RestOK
<1>3. QED
  BY <1>1, <1>2 DEF Remains

LEMMA ServePushKnown ==
    ASSUME IInv, Known, NEW p \in InFlight, ServePush(p)
    PROVE  Known'
<1>1. p \in Push /\ (p.op = "update" => p.id \in ServerId) /\ p.text \in Text
  BY Signs DEF IInv, FlightOK, UpdatesAreNamed, Push
<1>2. RestOK /\ KnownPush(p)
  BY DEF IInv, Known
<1>3. Remains /\ \E sid \in ServerId : Answered(p, sid) = pushes' /\ server'[sid] # None
  <2>1. CASE ServeCreate(p)
    BY <1>1, <1>2, <2>1, InsertRemains DEF ServeCreate
  <2>2. CASE ServeEdit(p)
    BY <1>1, <1>2, <2>2, UpdateRemains DEF ServeEdit
  <2>3. QED
    BY <2>1, <2>2 DEF ServePush
<1>4. PICK sid \in ServerId : Answered(p, sid) = pushes' /\ server'[sid] # None
  BY <1>3
<1> DEFINE q == [p EXCEPT !.answer = [id |-> sid, row |-> server'[sid]]]
<1>5. q.op = p.op /\ q.id = p.id /\ q.answer.id = sid
  BY <1>1 DEF Push
<1>6. (q.op = "update" => server'[q.id] # None) /\ server'[q.answer.id] # None
  BY <1>1, <1>2, <1>3, <1>4, <1>5 DEF KnownPush, Remains
<1>7. InFlight' \subseteq InFlight \cup {q}
  BY <1>4, SentAreInFlight, RestAreInFlight DEF Answered, Replacing, Without, InFlight
<1> HIDE DEF q
<1>8. \A r \in InFlight' : r \in InFlight \/ KnownPush(r)'
  BY <1>6, <1>7 DEF KnownPush
<1>9. QED
  BY <1>3, <1>8, KnownRemains DEF ServePush

\* Marking a row stores none, and moving one stores it under the new id.
LEMMA MarkedRows ==
    ASSUME NEW t \in [Id -> LocalRow \cup {None}], NEW i \in ServerId, KnownRows(t)
    PROVE  KnownRows(MarkSynced(t, i))
<1>1. i \in Id
  BY Signs
<1>2. \A j \in ServerId : MarkSynced(t, i)[j] # None => t[j] # None
  BY <1>1, Signs DEF MarkSynced
<1>3. QED
  BY <1>2 DEF KnownRows

LEMMA MovedRows ==
    ASSUME NEW t \in [Id -> LocalRow \cup {None}], KnownRows(t),
           NEW old \in LocalId, NEW new \in ServerId, server[new] # None
    PROVE  KnownRows(ReplaceId(t, old, new))
<1>1. old \in Id /\ new \in Id /\ \A j \in ServerId : j \in Id /\ j # old
  BY Signs
<1>2. \A j \in ServerId : j # new => ReplaceId(t, old, new)[j] = t[j]
  BY <1>1 DEF ReplaceId
<1>3. QED
  BY <1>2 DEF KnownRows

LEMMA StoredRows ==
    ASSUME NEW t \in [Id -> LocalRow \cup {None}], KnownRows(t),
           NEW i \in ServerId, server[i] # None, NEW row
    PROVE  KnownRows([t EXCEPT ![i] = row])
<1>1. \A j \in ServerId : j # i => [t EXCEPT ![i] = row][j] = t[j]
  BY Signs
<1>2. QED
  BY <1>1 DEF KnownRows

LEMMA DeliverPushKnown ==
    ASSUME IInv, Known, NEW p \in InFlight, DeliverPush(p)
    PROVE  Known'
<1> DEFINE sid == p.answer.id
<1>1. p \in Push /\ (p.op = "update" => p.id \in ServerId)
  BY Signs DEF IInv, FlightOK, UpdatesAreNamed, Push
<1>2. p.id \in Id /\ sid \in ServerId /\ p.answer.row \in ServerRow /\ server[sid] # None
  BY <1>1 DEF DeliverPush, Push, Known, KnownPush
<1>3. TableOK(local) /\ today \in 0 .. MaxDay /\ KnownRows(local)
  BY DEF IInv, RestOK, Known
<1>4. ASSUME NEW t, TableOK(t), KnownRows(t), NEW same \in BOOLEAN, NEW i \in ServerId
      PROVE  KnownRows(MarkSynced([t EXCEPT ![sid] = SavedFromServer(@, p.answer.row, same)], i))
  <2> DEFINE stored == [t EXCEPT ![sid] = SavedFromServer(@, p.answer.row, same)]
  <2> HIDE DEF sid
  <2>1. TableOK(stored)
    BY <1>2, <1>3, <1>4, StoringKeeps
  <2>2. KnownRows(stored)
    BY <1>2, <1>4, StoredRows DEF TableOK
  <2> HIDE DEF stored
  <2>3. KnownRows(MarkSynced(stored, i))
    BY <2>1, <2>2, MarkedRows DEF TableOK
  <2>4. QED
    BY <2>3 DEF stored
<1>5. KnownRows(local')
  <2>1. CASE p.op = "create" /\ CreateAnswered(p)
    <3> DEFINE moved == IF p.id < 0 THEN ReplaceId(local, p.id, sid) ELSE local
               id == IF p.id < 0 THEN sid ELSE p.id
    <3>1. TableOK(moved) /\ KnownRows(moved)
      BY <1>2, <1>3, ReplacingKeeps, MovedRows, Signs DEF TableOK
    <3>2. id \in ServerId
      BY <1>2, Signs DEF Id
    <3>3. \/ UNCHANGED local
          \/ \E same \in BOOLEAN :
                local' = MarkSynced([moved EXCEPT ![sid] =
                             SavedFromServer(@, p.answer.row, same)], id)
      BY <2>1 DEF CreateAnswered
    <3> HIDE DEF moved, id
    <3>4. QED
      BY <1>3, <1>4, <3>1, <3>2, <3>3
  <2>2. CASE p.op = "update" /\ UpdateAnswered(p)
    BY <1>1, <1>3, <1>4, <2>2 DEF UpdateAnswered
  <2>3. QED
    BY <2>1, <2>2 DEF DeliverPush
<1>6. InFlight' \subseteq InFlight
  BY RestAreInFlight DEF DeliverPush, Without, InFlight
<1>7. server' = server /\ snapshot' = snapshot
  BY DEF DeliverPush
<1>8. QED
  BY <1>5, <1>6, <1>7 DEF Known, KnownRows, KnownPush

LEMMA StepKnown == IInv /\ IInv' /\ Known /\ [Next]_vars => Known'
<1> SUFFICES ASSUME IInv, IInv', Known, [Next]_vars PROVE Known'
  OBVIOUS
<1>1. ASSUME UNCHANGED <<local, pushes, server>>, snapshot' = snapshot \/ KnownRows(snapshot)'
      PROVE  Known'
  BY <1>1, KnownRemains DEF Remains, InFlight
<1>2. CASE CreateBoard
  <2>1. local' = [local EXCEPT ![CreateLocalId] =
                    [text |-> typed', sync_status |-> "pending",
                     server_version |-> 0, updated_at |-> IsoNow]]
    BY <1>2 DEF CreateBoard
  <2>2. \A i \in ServerId : local'[i] = local[i]
    BY <1>2, <2>1, Signs DEF CreateBoard, IInv, TableOK
  <2>3. QED
    BY <1>2, <2>2, SyncKnown DEF CreateBoard, Known, KnownRows
<1>3. ASSUME NEW i \in ServerId, EditBoard(i) PROVE Known'
  <2>1. local[i] # None /\ \A j \in ServerId : j # i => local'[j] = local[j]
    BY <1>3, Signs DEF EditBoard, IInv, TableOK
  <2>2. \A j \in ServerId : local'[j] # None => server[j] # None
    BY <2>1 DEF Known, KnownRows
  <2>3. QED
    BY <1>3, <2>2, SyncKnown DEF EditBoard
<1>4. CASE PeriodicSync
  BY <1>4, SyncKnown DEF PeriodicSync, Known, KnownRows
<1>5. CASE Restart
  <2>1. InFlight' = {}
    BY <1>5 DEF Restart, InFlight, EmptyBag, BagToSet, SetToBag
  <2>2. \A i \in ServerId : local'[i] = None /\ snapshot'[i] = None
    BY <1>5, Signs DEF Restart
  <2>3. QED
    BY <2>1, <2>2 DEF Known, KnownRows
<1>6. ASSUME NEW p \in InFlight, LosePush(p) PROVE Known'
  <2>1. InFlight' \subseteq InFlight
    BY <1>6, RestAreInFlight DEF LosePush, Without, InFlight
  <2>2. QED
    BY <1>6, <2>1, KnownRemains DEF LosePush, Remains
<1>7. ASSUME NEW p \in InFlight, RetryPush(p) PROVE Known'
  <2> DEFINE q == [p EXCEPT !.retries = @ + 1]
  <2>1. q.op = p.op /\ q.id = p.id /\ q.answer = p.answer
    BY DEF IInv, FlightOK, Push
  <2>2. KnownPush(q)'
    BY <1>7, <2>1 DEF Known, KnownPush, RetryPush
  <2>3. InFlight' \subseteq InFlight \cup {q}
    BY <1>7, SentAreInFlight, RestAreInFlight DEF RetryPush, Replacing, Without, InFlight
  <2> HIDE DEF q
  <2>4. QED
    BY <1>7, <2>2, <2>3, KnownRemains DEF RetryPush, Remains
<1>8. CASE DeliverLoad
  <2> DEFINE sent == {i \in ServerId : snapshot[i] # None}
  <2>1. \A i \in ServerId : i \notin sent => local'[i] = local[i]
    BY <1>8, Signs DEF DeliverLoad
  <2>2. \A i \in ServerId : local'[i] # None => server[i] # None
    BY <2>1 DEF Known, KnownRows
  <2>3. \A i \in ServerId : snapshot'[i] = None
    BY <1>8 DEF DeliverLoad
  <2>4. server' = server /\ pushes' = pushes
    BY <1>8 DEF DeliverLoad
  <2>5. QED
    BY <2>2, <2>3, <2>4 DEF Known, KnownRows, KnownPush, InFlight
<1>9. CASE LoadFails
  BY <1>1, <1>9 DEF LoadFails, KnownRows
<1>10. CASE ServeLoad
  BY <1>1, <1>10 DEF ServeLoad, KnownRows
<1>11. CASE OtherDevice
  <2>1. typed' \in Text /\ RestOK
    BY <1>11, NextText DEF RestOK, IInv, OtherDevice
  <2>2. Remains
    BY <1>11, <2>1, InsertRemains, UpdateRemains DEF OtherDevice
  <2>3. QED
    BY <1>11, <2>2, KnownRemains DEF OtherDevice, InFlight
<1>12. CASE MidnightPasses \/ HealthChanges \/ UNCHANGED vars
  BY <1>1, <1>12 DEF MidnightPasses, HealthChanges, vars, net
<1>13. QED
  BY <1>2, <1>3, <1>4, <1>5, <1>6, <1>7, <1>8, <1>9, <1>10, <1>11, <1>12,
     DeliverPushKnown, ServePushKnown DEF Next

\* The client never edits a board the server does not have: local ids that are
\* used again and answers that come late or twice lead to no id but the
\* server's own (createLocalId, replaceId, handlePushResponse).
THEOREM EditsAreOfNamedBoards == SafetySpec => []NamedBoardsExist
<1>1. IInv /\ Known => NamedBoardsExist
  <2> SUFFICES ASSUME IInv, Known PROVE NamedBoardsExist
    OBVIOUS
  <2>1. \A i \in Rows : i > 0 => server[i] # None
    BY Signs DEF Rows, Known, KnownRows
  <2>2. \A p \in InFlight : p.op = "update" => p.id > 0 /\ server[p.id] # None
    BY DEF IInv, FlightOK, UpdatesAreNamed, Known, KnownPush
  <2>3. QED
    BY <2>1, <2>2 DEF NamedBoardsExist
<1>2. QED
  BY <1>1, InitKnown, StepKnown, Invariance, PTL DEF SafetySpec

\* The step that makes the two sides equal: whatever came before, a list that is
\* still true when it is parsed, with nothing pending, repairs the whole table.
THEOREM QuietLoadsMirror == SafetySpec => LoadMirrors
<1>1. ASSUME IInv, Known, [Next]_vars, healthy, load = "answered", load' = "idle",
             snapshot = server, Pending = {}
      PROVE  Mirrored'
  <2>1. DeliverLoad
    BY <1>1 DEF Next, vars, net, CreateBoard, EditBoard, PeriodicSync, Restart, DeliverPush,
       LosePush, RetryPush, ServePush, LoadFails, ServeLoad, OtherDevice, MidnightPasses,
       HealthChanges
  <2>2. server' = server
    BY <2>1 DEF DeliverLoad
  <2> DEFINE sent == {i \in ServerId : server[i] # None}
  <2>3. PICK same \in SUBSET sent :
          local' = [i \in Id |-> IF i \in sent
                                 THEN SavedFromServer(local[i], server[i], i \in same)
                                 ELSE local[i]]
    BY <1>1, <2>1 DEF DeliverLoad
  <2>4. ASSUME NEW i \in ServerId, server[i] # None
        PROVE  /\ local'[i] # None
               /\ local'[i].text = server[i].text
               /\ local'[i].sync_status = "synced"
    <3> DEFINE now == i \in same
    <3>1. local'[i] = SavedFromServer(local[i], server[i], now) /\ now \in BOOLEAN
      BY <2>3, <2>4, Signs
    <3> HIDE DEF now
    <3>2. local[i] \in LocalRow \cup {None} /\ server[i] \in ServerRow /\ i \in Id
      BY <2>4, Signs, <1>1 DEF IInv, TableOK, RestOK
    <3>3. ~Conflicting(local[i], server[i])
      BY <1>1, <3>2 DEF Conflicting, Pending, Rows
    <3>4. local'[i] = Overwritten(local[i], server[i], now)
      BY <3>1, <3>3 DEF SavedFromServer
    <3>5. local'[i].text = server[i].text /\ local'[i].sync_status = "synced"
      BY <3>4 DEF Overwritten
    <3>6. local'[i] \in LocalRow
      BY <3>1, <3>2, SavedRow, <1>1 DEF IInv, RestOK
    <3>7. QED
      BY <3>5, <3>6, NoneAssumption
  <2>5. ASSUME NEW i \in Id, i \notin sent
        PROVE  local'[i] = None
    <3>1. local'[i] = local[i]
      BY <2>3, <2>5
    <3>2. CASE i \in ServerId
      BY <1>1, <2>5, <3>1, <3>2 DEF Known, KnownRows
    <3>3. CASE i \in LocalId
      BY <1>1, <3>1, <3>3, Signs DEF IInv, TableOK, RowOK, Pending, Rows
    <3>4. QED
      BY <3>2, <3>3 DEF Id
  <2>6. Pending' = {}
    BY <2>4, <2>5 DEF Pending, Rows
  <2>7. QED
    BY <2>2, <2>4, <2>5, <2>6, Signs DEF Mirrored
<1>2. IInv /\ Known /\ [Next]_vars =>
        [/\ healthy /\ load = "answered" /\ load' = "idle"
         /\ snapshot = server /\ Pending = {}
         => Mirrored']_vars
  BY <1>1
<1>3. QED
  BY <1>2, InitKnown, StepKnown, Invariance, PTL DEF SafetySpec, LoadMirrors

=============================================================================
