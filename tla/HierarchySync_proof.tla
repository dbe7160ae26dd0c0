-------------------------- MODULE HierarchySync_proof --------------------------
(***************************************************************************)
(* Proofs about HierarchySync.  The two local tables are inductive with    *)
(* what the requests in flight are about (PushOK): a row the server has    *)
(* not named is marked synced by no answer, because an answer marks the id *)
(* that the server gave, and an update is sent for such an id only.        *)
(***************************************************************************)
EXTENDS HierarchySync, TLAPS, WellFoundedInduction

\* What UnsentIsPending says of a row with a local id.
Unsent(row) == row.sync_status = "pending" /\ row.server_version = 0

\* The tables that a local repository may hold.
Table(Id, Row) ==
    {t \in [Id -> Row \cup {None}] : \A i \in Id : i < 0 /\ t[i] # None => Unsent(t[i])}

StatusTable == Table(StatusId, StatusRow)
TaskTable == Table(TaskId, TaskRow)

\* A request is about a row of its table, carries what the handler needs, and is
\* answered with an id of the server.
PushOK(p) ==
    /\ p \in Push
    /\ p.entity = "status" =>
         /\ p.id \in StatusId
         /\ p.op # "delete" => p.value \in Name
         /\ p.code = "ok" => p.sid \in ServerStatus
    /\ p.entity = "task" =>
         /\ p.id \in TaskId
         /\ p.op # "delete" => p.value \in StatusId
         /\ p.code = "ok" => p.sid \in ServerTask
    /\ p.op = "update" => p.id > 0
    /\ p.code = "duplicate" => p.entity = "status" /\ p.op = "create"

Client ==
    /\ {fk, board, crashed} \subseteq BOOLEAN
    /\ statuses \in StatusTable
    /\ tasks \in TaskTable
    /\ draft \in StatusId \cup {None}

Server ==
    /\ names \in [ServerStatus -> Name \cup {None}]
    /\ placed \in [ServerTask -> ServedTask \cup {None}]
    /\ last \in [status : 1 .. MaxStatus, task : 1 .. MaxTask]

Load ==
    \/ load \in {"idle", "statuses", "tasks"} /\ listed = None
    \/ load = "statuses" /\ listed \in [ServerStatus -> Name \cup {None}]
    \/ load = "tasks" /\ listed \in [ServerTask -> ServedTask \cup {None}]

Counters == steps \in 0 .. MaxSteps /\ failures \in 0 .. MaxFailures

\* The inductive invariant.
IInv ==
    /\ Client
    /\ Server
    /\ \A p \in pushes : PushOK(p)
    /\ Load
    /\ Counters

-----------------------------------------------------------------------------
(* Bounds                                                                  *)

LEMMA Ids ==
    /\ LocalId \subseteq Int /\ ServerStatus \subseteq Int /\ ServerTask \subseteq Int
    /\ \A i \in LocalId : i < 0
    /\ \A i \in ServerStatus \cup ServerTask : i > 0 /\ ~(i < 0)
    /\ LocalId \subseteq StatusId /\ ServerStatus \subseteq StatusId
    /\ LocalId \subseteq TaskId /\ ServerTask \subseteq TaskId
    /\ \A i \in StatusId : i \in Int /\ (i > 0 => i \in ServerStatus)
    /\ \A t \in TaskId : t \in Int /\ (t > 0 => t \in ServerTask)
    /\ MaxLocal \in Nat /\ MaxSteps \in Nat /\ MaxFailures \in Nat
    /\ 1 \in ServerStatus /\ 1 \in ServerTask
  BY BoundAssumption DEF LocalId, ServerStatus, ServerTask, StatusId, TaskId

LEMMA Nones ==
    /\ None \notin StatusRow /\ None \notin TaskRow /\ None \notin ServedTask
    /\ None \notin Name /\ None \notin StatusId /\ None \notin TaskId
  BY NoneAssumption

-----------------------------------------------------------------------------
(* Operators of the local repositories                                     *)

LEMMA TableSaved ==
    ASSUME NEW Id, NEW Row, NEW table \in Table(Id, Row), NEW i \in Id,
           NEW row \in Row, i < 0 => Unsent(row)
    PROVE  Saved(table, i, row) \in Table(Id, Row)
  BY DEF Table, Saved

LEMMA TableRemoved ==
    ASSUME NEW Id, NEW Row, NEW table \in Table(Id, Row), NEW i \in Id
    PROVE  [table EXCEPT ![i] = None] \in Table(Id, Row)
  BY DEF Table

LEMMA TableRow ==
    ASSUME NEW Id, NEW Row, NEW table \in Table(Id, Row), NEW i \in Id, table[i] # None
    PROVE  table[i] \in Row /\ (i < 0 => Unsent(table[i]))
  BY DEF Table

LEMMA TableRows ==
    ASSUME NEW Id, NEW Row, NEW table \in Table(Id, Row)
    PROVE  Rows(table) \subseteq Id /\ \A i \in Rows(table) : table[i] # None
  BY DEF Table, Rows

\* A change of one field of a row, as long as what is unsent stays so.
LEMMA TableUpdated ==
    ASSUME NEW Id, NEW Row, NEW table \in Table(Id, Row), NEW i \in Id,
           NEW changed, changed = [table EXCEPT ![i] = changed[i]],
           changed[i] \in Row, i < 0 => Unsent(changed[i])
    PROVE  changed \in Table(Id, Row)
  BY TableSaved DEF Saved

\* No answer marks a row that has no server id.
LEMMA MarkSyncedKeeps ==
    ASSUME NEW i, ~(i < 0)
    PROVE  /\ \A table \in StatusTable : i \in StatusId => MarkSynced(table, i) \in StatusTable
           /\ \A table \in TaskTable : i \in TaskId => MarkSynced(table, i) \in TaskTable
<1>1. ASSUME NEW table \in StatusTable, i \in StatusId
      PROVE  MarkSynced(table, i) \in StatusTable
  <2>1. CASE table[i] = None
    BY <2>1 DEF MarkSynced
  <2>2. CASE table[i] # None
    <3> DEFINE row == [table[i] EXCEPT !.sync_status = "synced"]
    <3>1. table[i] \in StatusRow
      BY <1>1, <2>2, TableRow DEF StatusTable
    <3>2. row \in StatusRow
      BY <3>1 DEF StatusRow
    <3>3. MarkSynced(table, i) = Saved(table, i, row)
      BY <2>2 DEF MarkSynced, Saved
    <3> HIDE DEF row
    <3>4. QED
      BY <1>1, <3>2, <3>3, TableSaved DEF StatusTable
  <2>3. QED
    BY <2>1, <2>2
<1>2. ASSUME NEW table \in TaskTable, i \in TaskId
      PROVE  MarkSynced(table, i) \in TaskTable
  <2>1. CASE table[i] = None
    BY <2>1 DEF MarkSynced
  <2>2. CASE table[i] # None
    <3> DEFINE row == [table[i] EXCEPT !.sync_status = "synced"]
    <3>1. table[i] \in TaskRow
      BY <1>2, <2>2, TableRow DEF TaskTable
    <3>2. row \in TaskRow
      BY <3>1 DEF TaskRow
    <3>3. MarkSynced(table, i) = Saved(table, i, row)
      BY <2>2 DEF MarkSynced, Saved
    <3> HIDE DEF row
    <3>4. QED
      BY <1>2, <3>2, <3>3, TableSaved DEF TaskTable
  <2>3. QED
    BY <2>1, <2>2
<1>3. QED
  BY <1>1, <1>2

LEMMA RenumberedKeeps ==
    ASSUME NEW Id, NEW Row, None \notin Row, Id \subseteq Int, NEW table \in Table(Id, Row),
           NEW old \in Id, NEW new \in Id, new > 0
    PROVE  Renumbered(table, old, new) \in Table(Id, Row)
<1>1. CASE old > 0 \/ table[old] = None
  BY <1>1 DEF Renumbered
<1>2. CASE ~(old > 0 \/ table[old] = None)
  <2> DEFINE without == [table EXCEPT ![old] = None]
             row == table[old]
  <2>1. Renumbered(table, old, new) = Saved(without, new, row)
    BY <1>2 DEF Renumbered, Saved
  <2>2. without \in Table(Id, Row)
    BY TableRemoved
  <2>3. row \in Row /\ ~(new < 0)
    BY <1>2, TableRow
  <2> HIDE DEF without, row
  <2>4. QED
    BY <2>1, <2>2, <2>3, TableSaved
<1>3. QED
  BY <1>1, <1>2

LEMMA SavedStatusKeeps ==
    ASSUME NEW table \in StatusTable, NEW i \in StatusId, NEW row \in StatusRow,
           i < 0 => Unsent(row)
    PROVE  SavedStatus(table, i, row) \in StatusTable
  BY TableSaved DEF SavedStatus, StatusTable

LEMMA SaveStatusKeeps ==
    ASSUME NEW table \in StatusTable, NEW i \in ServerStatus, NEW n \in Name
    PROVE  SaveStatus(table, i, n) \in StatusTable
<1>1. StatusFromJson(n) \in StatusRow
  BY DEF StatusFromJson, StatusRow
<1>2. i \in StatusId /\ ~(i < 0)
  BY Ids
<1>3. QED
  BY <1>1, <1>2, SavedStatusKeeps DEF SaveStatus

LEMMA SaveTaskKeeps ==
    ASSUME NEW table \in TaskTable, NEW columns \in SUBSET StatusId, NEW t \in ServerTask,
           NEW row
    PROVE  SaveTask(table, columns, t, row) \in TaskTable
<1>1. t \in TaskId /\ ~(t < 0)
  BY Ids
<1>2. CASE row.status \notin columns
  BY <1>2 DEF SaveTask
<1>3. CASE /\ row.status \in columns
           /\ table[t] # None /\ table[t].sync_status = "pending" /\ row.old
  <2> DEFINE r == [table[t] EXCEPT !.sync_status = "conflict"]
  <2>1. table[t] \in TaskRow
    BY <1>1, <1>3, TableRow DEF TaskTable
  <2>2. r \in TaskRow
    BY <2>1 DEF TaskRow
  <2>3. SaveTask(table, columns, t, row) = Saved(table, t, r)
    BY <1>3 DEF SaveTask, Saved
  <2> HIDE DEF r
  <2>4. QED
    BY <1>1, <2>2, <2>3, TableSaved DEF TaskTable
<1>4. CASE /\ row.status \in columns
           /\ ~(table[t] # None /\ table[t].sync_status = "pending" /\ row.old)
  <2>1. TaskFromJson(row) \in TaskRow
    BY <1>4 DEF TaskFromJson, TaskRow
  <2>2. SaveTask(table, columns, t, row) = Saved(table, t, TaskFromJson(row))
    BY <1>4 DEF SaveTask
  <2>3. QED
    BY <1>1, <2>1, <2>2, TableSaved DEF TaskTable
<1>5. QED
  BY <1>2, <1>3, <1>4

\* A task of a column that is renumbered is no more sent than before.
LEMMA TasksMovedKeeps ==
    ASSUME tasks \in TaskTable, NEW old, NEW new \in StatusId
    PROVE  TasksMoved(old, new) \in TaskTable
<1> DEFINE table == TasksMoved(old, new)
<1>1. ASSUME NEW t \in TaskId
      PROVE  /\ table[t] \in TaskRow \cup {None}
             /\ t < 0 /\ table[t] # None => Unsent(table[t])
  <2>1. CASE old < 0 /\ t \in In(tasks, old)
    <3>1. tasks[t] # None /\ table[t] = [tasks[t] EXCEPT !.status = new]
      BY <2>1 DEF In, Rows, TasksMoved
    <3>2. tasks[t] \in TaskRow /\ (t < 0 => Unsent(tasks[t]))
      BY <3>1, TableRow DEF TaskTable
    <3>3. QED
      BY <3>1, <3>2 DEF TaskRow, Unsent
  <2>2. CASE ~(old < 0 /\ t \in In(tasks, old))
    BY <2>2 DEF TasksMoved, TaskTable, Table
  <2>3. QED
    BY <2>1, <2>2
<1>2. table \in [TaskId -> TaskRow \cup {None}]
  BY <1>1 DEF TasksMoved
<1> HIDE DEF table
<1>3. table \in TaskTable
  BY <1>1, <1>2 DEF TaskTable, Table
<1>4. QED
  BY <1>3 DEF table

\* Tasks that go with their column leave the others as they are.
LEMMA TasksGoneKeeps ==
    ASSUME tasks \in TaskTable, NEW gone
    PROVE  [t \in TaskId |-> IF t \in gone THEN None ELSE tasks[t]] \in TaskTable
  BY DEF TaskTable, Table

-----------------------------------------------------------------------------
(* The list of statuses, parsed one after the other                        *)

\* Induction over an interval, stated with a set.
LEMMA IntervalInduction ==
    ASSUME NEW n \in Nat, NEW S, 0 \in S, \A i \in 1 .. n : i - 1 \in S => i \in S
    PROVE  \A i \in 0 .. n : i \in S
<1> DEFINE T == (0 .. n) \ S
<1>1. SUFFICES ASSUME T # {} PROVE FALSE
  OBVIOUS
<1>2. T \subseteq Nat
  OBVIOUS
<1>3. \E x \in T : \A y \in T : ~ (<<y, x>> \in OpToRel(<, Nat))
  BY <1>1, <1>2, NatLessThanWellFounded, WFMin
<1>4. PICK x \in T : \A y \in T : ~ (<<y, x>> \in OpToRel(<, Nat))
  BY <1>3
<1>5. \A y \in T : ~ (y < x)
  BY <1>2, <1>4 DEF OpToRel
<1>6. x \in 1 .. n
  OBVIOUS
<1>7. x - 1 \in 0 .. n /\ x - 1 < x
  BY <1>6
<1>8. x - 1 \in S
  BY <1>5, <1>7
<1>9. QED
  BY <1>6, <1>8

\* Over an interval, a function that gets each value from the one before.
Solvable(n, X, first, step) ==
    \E f \in [0 .. n -> X] :
        /\ f[0] = first
        /\ \A i \in 1 .. n : f[i] = step[<<f[i - 1], i>>]

LEMMA IntervalRecursion ==
    ASSUME NEW n \in Nat, NEW X, NEW first \in X, NEW step \in [X \X (1 .. n) -> X]
    PROVE  Solvable(n, X, first, step)
<1> DEFINE Solves(f, m) == /\ f[0] = first
                           /\ \A i \in 1 .. m : f[i] = step[<<f[i - 1], i>>]
           S == {m \in 0 .. n : \E f \in [0 .. m -> X] : Solves(f, m)}
<1>1. 0 \in S
  <2> DEFINE f == [i \in 0 .. 0 |-> first]
  <2>1. f \in [0 .. 0 -> X] /\ f[0] = first
    OBVIOUS
  <2>2. 1 .. 0 = {}
    OBVIOUS
  <2> HIDE DEF f
  <2>3. Solves(f, 0)
    BY <2>1, <2>2
  <2>4. QED
    BY <2>1, <2>3
<1>2. ASSUME NEW m \in 1 .. n, m - 1 \in S PROVE m \in S
  <2>1. PICK f \in [0 .. m - 1 -> X] : Solves(f, m - 1)
    BY <1>2
  <2> DEFINE g == [i \in 0 .. m |-> IF i = m THEN step[<<f[m - 1], m>>] ELSE f[i]]
  <2>2. f[m - 1] \in X /\ step[<<f[m - 1], m>>] \in X
    BY <2>1
  <2>3. g \in [0 .. m -> X]
    BY <2>1, <2>2
  <2>4. g[0] = first
    BY <2>1
  <2>5. ASSUME NEW i \in 1 .. m PROVE g[i] = step[<<g[i - 1], i>>]
    <3>1. i - 1 \in 0 .. m /\ i - 1 # m /\ g[i - 1] = f[i - 1]
      OBVIOUS
    <3>2. CASE i = m
      BY <3>1, <3>2
    <3>3. CASE i # m
      <4>1. i \in 1 .. m - 1 /\ g[i] = f[i]
        BY <3>3
      <4>2. f[i] = step[<<f[i - 1], i>>]
        BY <2>1, <4>1
      <4>3. QED
        BY <3>1, <4>1, <4>2
    <3>4. QED
      BY <3>2, <3>3
  <2> HIDE DEF g
  <2>6. Solves(g, m)
    BY <2>4, <2>5
  <2>7. QED
    BY <2>3, <2>6
<1>3. n \in S
  <2> HIDE DEF S
  <2>1. QED
    BY <1>1, <1>2, IntervalInduction
<1>4. QED
  BY <1>3 DEF Solvable

\* parse keeps the table of statuses, whatever names it takes or frees.
LEMMA ParsedKeeps ==
    ASSUME statuses \in StatusTable, listed \in [ServerStatus -> Name \cup {None}]
    PROVE  Parsed[MaxStatus] \in StatusTable
<1> DEFINE X == StatusTable
           Next1(table, i) == IF listed[i] = None THEN table
                              ELSE SaveStatus(table, i, listed[i])
           step == [a \in X \X (1 .. MaxStatus) |-> Next1(a[1], a[2])]
           Body(f) == [i \in 0 .. MaxStatus |->
                          IF i = 0 THEN statuses ELSE Next1(f[i - 1], i)]
<1>1. MaxStatus \in Nat /\ ServerStatus = 1 .. MaxStatus
  BY BoundAssumption DEF ServerStatus
<1>2. ASSUME NEW table \in X, NEW i \in 1 .. MaxStatus PROVE Next1(table, i) \in X
  BY <1>1, SaveStatusKeeps
<1>3. step \in [X \X (1 .. MaxStatus) -> X]
  BY <1>2
<1>4. \A table \in X, i \in 1 .. MaxStatus : step[<<table, i>>] = Next1(table, i)
  OBVIOUS
<1>5. statuses \in X /\ Parsed = CHOOSE f : f = Body(f)
  BY DEF Parsed
<1> HIDE DEF Next1, step, X
<1>6. \E f : f = Body(f)
  <2>1. Solvable(MaxStatus, X, statuses, step)
    BY <1>1, <1>3, <1>5, IntervalRecursion
  <2>2. PICK f \in [0 .. MaxStatus -> X] :
            /\ f[0] = statuses
            /\ \A i \in 1 .. MaxStatus : f[i] = step[<<f[i - 1], i>>]
    BY <2>1 DEF Solvable
  <2>3. ASSUME NEW i \in 0 .. MaxStatus PROVE f[i] = Body(f)[i]
    <3>1. CASE i = 0
      BY <2>2, <3>1
    <3>2. CASE i # 0
      <4>1. i \in 1 .. MaxStatus /\ i - 1 \in 0 .. MaxStatus
        BY <1>1, <3>2
      <4>2. f[i - 1] \in X
        BY <4>1
      <4>3. f[i] = Next1(f[i - 1], i)
        BY <1>4, <2>2, <4>1, <4>2
      <4>4. QED
        BY <3>2, <4>3
    <3>3. QED
      BY <3>1, <3>2
  <2>4. f = Body(f)
    BY <2>3
  <2>5. QED
    BY <2>4
<1>7. Parsed = Body(Parsed)
  BY <1>5, <1>6
<1>8. Parsed[0] = statuses
  BY <1>1, <1>7
<1>9. ASSUME NEW i \in 1 .. MaxStatus PROVE Parsed[i] = Next1(Parsed[i - 1], i)
  BY <1>1, <1>7
<1> DEFINE S == {i \in 0 .. MaxStatus : Parsed[i] \in X}
<1>10. 0 \in S
  BY <1>1, <1>5, <1>8
<1>11. ASSUME NEW i \in 1 .. MaxStatus, i - 1 \in S PROVE i \in S
  BY <1>1, <1>2, <1>9, <1>11
<1> HIDE DEF S
<1>12. MaxStatus \in S
  BY <1>1, <1>10, <1>11, IntervalInduction
<1>13. QED
  BY <1>12 DEF S, X

-----------------------------------------------------------------------------
(* Requests                                                                *)

LEMMA StatusPushOK ==
    ASSUME NEW i \in StatusId, NEW row \in StatusRow, i < 0 => Unsent(row)
    PROVE  PushOK(PushOf("status", i, row, row.name))
<1>1. row.name \in Name /\ row.server_version \in {0, 1} /\ row.deleted \in BOOLEAN
  BY DEF StatusRow
<1>2. ASSUME row.server_version # 0 PROVE i > 0
  BY <1>2, Ids DEF Unsent, StatusId, LocalId, ServerStatus
<1> HIDE DEF StatusId
<1>3. QED
  BY <1>1, <1>2 DEF PushOK, PushOf, Requested, Push

LEMMA TaskPushOK ==
    ASSUME NEW t \in TaskId, NEW row \in TaskRow, t < 0 => Unsent(row)
    PROVE  PushOK(PushOf("task", t, row, row.status))
<1>1. row.status \in StatusId /\ row.server_version \in {0, 1} /\ row.deleted \in BOOLEAN
  BY DEF TaskRow
<1>2. ASSUME row.server_version # 0 PROVE t > 0
  BY <1>2, Ids DEF Unsent, TaskId, LocalId, ServerTask
<1>3. QED
  BY <1>1, <1>2 DEF PushOK, PushOf, Requested, Push

\* sync sends for a row only what the table says of it.
LEMMA SyncPushesOK ==
    /\ statuses' \in StatusTable => \A p \in StatusPushes : PushOK(p)
    /\ tasks' \in TaskTable => \A p \in TaskPushes : PushOK(p)
<1>1. ASSUME statuses' \in StatusTable, NEW i \in Pending(statuses')
      PROVE  PushOK(PushOf("status", i, statuses'[i], statuses'[i].name))
  <2>1. i \in Rows(statuses')
    BY DEF Pending
  <2>2. i \in StatusId /\ statuses'[i] # None
    BY <1>1, <2>1, TableRows DEF StatusTable
  <2>3. statuses'[i] \in StatusRow /\ (i < 0 => Unsent(statuses'[i]))
    BY <1>1, <2>2, TableRow DEF StatusTable
  <2>4. QED
    BY <2>2, <2>3, StatusPushOK
<1>2. ASSUME tasks' \in TaskTable, NEW t \in Pending(tasks')
      PROVE  PushOK(PushOf("task", t, tasks'[t], tasks'[t].status))
  <2>1. t \in Rows(tasks')
    BY DEF Pending
  <2>2. t \in TaskId /\ tasks'[t] # None
    BY <1>2, <2>1, TableRows DEF TaskTable
  <2>3. tasks'[t] \in TaskRow /\ (t < 0 => Unsent(tasks'[t]))
    BY <1>2, <2>2, TableRow DEF TaskTable
  <2>4. QED
    BY <2>2, <2>3, TaskPushOK
<1>3. QED
  BY <1>1, <1>2 DEF StatusPushes, TaskPushes

LEMMA SendKeeps ==
    ASSUME \A p \in pushes : PushOK(p), NEW sent, \A p \in sent : PushOK(p), Send(sent)
    PROVE  \A p \in pushes' : PushOK(p)
  BY DEF Send

\* A step that the server takes no part in.
LEMMA ClientStep ==
    ASSUME IInv, UNCHANGED <<server, load, listed>>, Client', Counters',
           \A p \in pushes' : PushOK(p)
    PROVE  IInv'
  BY DEF IInv, server, Server, Load

LEMMA TypesKeeps ==
    ASSUME IInv, Types
    PROVE  /\ UNCHANGED <<fk, server, load, listed, crashed, failures>>
           /\ Counters'
  BY Ids DEF IInv, Types, Counters

\* What the user does to one table, and the requests sync makes of it.
LEMMA UserStep ==
    ASSUME IInv, Types, board' \in BOOLEAN, draft' \in StatusId \cup {None},
           statuses' \in StatusTable, tasks' \in TaskTable,
           \/ Send(StatusPushes) \/ Send(TaskPushes) \/ UNCHANGED pushes
    PROVE  IInv'
<1>1. UNCHANGED <<fk, server, load, listed, crashed, failures>> /\ Counters'
  BY TypesKeeps
<1>2. Client'
  BY <1>1 DEF IInv, Client
<1>3. \A p \in pushes : PushOK(p)
  BY DEF IInv
<1>4. \A p \in pushes' : PushOK(p)
  BY <1>3, SyncPushesOK, SendKeeps
<1>5. QED
  BY <1>1, <1>2, <1>4, ClientStep

-----------------------------------------------------------------------------
(* The screens                                                             *)

\* The parts of the state that the steps below leave alone or put in place.
LEMMA Tables ==
    ASSUME IInv
    PROVE  /\ statuses \in StatusTable /\ tasks \in TaskTable
           /\ draft \in StatusId \cup {None} /\ board \in BOOLEAN
           /\ Live(statuses) \subseteq Rows(statuses) /\ Live(tasks) \subseteq Rows(tasks)
           /\ Rows(statuses) \subseteq StatusId /\ Rows(tasks) \subseteq TaskId
           /\ \A i \in Rows(statuses) :
                 statuses[i] \in StatusRow /\ (i < 0 => Unsent(statuses[i]))
           /\ \A t \in Rows(tasks) : tasks[t] \in TaskRow /\ (t < 0 => Unsent(tasks[t]))
<1>1. statuses \in StatusTable /\ tasks \in TaskTable
      /\ draft \in StatusId \cup {None} /\ board \in BOOLEAN
  BY DEF IInv, Client
<1>2. Live(statuses) \subseteq Rows(statuses) /\ Live(tasks) \subseteq Rows(tasks)
  BY DEF Live
<1>3. /\ Rows(statuses) \subseteq StatusId
      /\ \A i \in Rows(statuses) : statuses[i] \in StatusRow /\ (i < 0 => Unsent(statuses[i]))
  BY <1>1, TableRow, TableRows DEF StatusTable
<1>4. /\ Rows(tasks) \subseteq TaskId
      /\ \A t \in Rows(tasks) : tasks[t] \in TaskRow /\ (t < 0 => Unsent(tasks[t]))
  BY <1>1, TableRow, TableRows DEF TaskTable
<1>5. QED
  BY <1>1, <1>2, <1>3, <1>4

LEMMA CreateStatusKeeps ==
    ASSUME IInv, NEW n \in Name, CreateStatus(n)
    PROVE  IInv'
<1> DEFINE i == CreateLocalId(statuses)
           row == [name |-> n, sync_status |-> "pending", server_version |-> 0,
                   deleted |-> FALSE]
<1>1. /\ Types /\ i \in LocalId /\ statuses' = SavedStatus(statuses, i, row)
      /\ UNCHANGED <<board, tasks, draft>> /\ Send(StatusPushes)
  BY DEF CreateStatus
<1>2. row \in StatusRow /\ Unsent(row)
  BY DEF StatusRow, Unsent
<1> HIDE DEF i, row
<1>3. statuses' \in StatusTable
  BY <1>1, <1>2, Ids, Tables, SavedStatusKeeps
<1>4. QED
  BY <1>1, <1>3, Tables, UserStep

LEMMA RenameStatusKeeps ==
    ASSUME IInv, NEW i \in StatusId, NEW n \in Name, RenameStatus(i, n)
    PROVE  IInv'
<1> DEFINE row == [statuses[i] EXCEPT !.name = n, !.sync_status = "pending"]
<1>1. /\ Types /\ i \in Live(statuses) /\ statuses' = SavedStatus(statuses, i, row)
      /\ UNCHANGED <<board, tasks, draft>> /\ Send(StatusPushes)
  BY DEF RenameStatus
<1>2. statuses[i] \in StatusRow /\ (i < 0 => Unsent(statuses[i]))
  BY <1>1, Tables
<1>3. row \in StatusRow /\ (i < 0 => Unsent(row))
  BY <1>2 DEF StatusRow, Unsent
<1> HIDE DEF row
<1>4. statuses' \in StatusTable
  BY <1>1, <1>3, Tables, SavedStatusKeeps
<1>5. QED
  BY <1>1, <1>4, Tables, UserStep

LEMMA DeleteStatusKeeps ==
    ASSUME IInv, NEW i \in StatusId, DeleteStatus(i)
    PROVE  IInv'
<1> DEFINE row == [statuses[i] EXCEPT !.deleted = TRUE, !.sync_status = "pending"]
<1>1. /\ Types /\ i \in Live(statuses) /\ StatusMarkedDeleted(i)
      /\ UNCHANGED <<board, draft>> /\ Send(StatusPushes)
  BY DEF DeleteStatus
<1>2. statuses[i] \in StatusRow /\ (i < 0 => Unsent(statuses[i]))
  BY <1>1, Tables
<1>3. row \in StatusRow /\ (i < 0 => Unsent(row))
  BY <1>2 DEF StatusRow, Unsent
<1>4. statuses' = Saved(statuses, i, row)
  BY <1>1 DEF StatusMarkedDeleted, Saved
<1> HIDE DEF row
<1>5. statuses' \in StatusTable
  BY <1>3, <1>4, Tables, TableSaved DEF StatusTable
<1>6. tasks' \in TaskTable
  BY <1>1, Tables, TasksGoneKeeps DEF StatusMarkedDeleted
<1>7. QED
  BY <1>1, <1>5, <1>6, Tables, UserStep

LEMMA OpenTaskCreateKeeps ==
    ASSUME IInv, NEW i \in StatusId, OpenTaskCreate(i)
    PROVE  IInv'
<1>1. draft' = i /\ UNCHANGED <<fk, board, statuses, tasks, crashed, server, net, steps, failures>>
  BY DEF OpenTaskCreate
<1>2. Client' /\ Counters'
  BY <1>1 DEF IInv, Client, Counters
<1>3. QED
  BY <1>1, <1>2, ClientStep DEF net, IInv

LEMMA CreateTaskKeeps ==
    ASSUME IInv, CreateTask
    PROVE  IInv'
<1> DEFINE t == CreateLocalId(tasks)
           row == [status |-> draft, sync_status |-> "pending", server_version |-> 0,
                   deleted |-> FALSE]
<1>1. /\ Types /\ draft # None /\ t \in LocalId /\ tasks' = Saved(tasks, t, row)
      /\ draft' = None /\ UNCHANGED <<board, statuses>> /\ Send(TaskPushes)
  BY DEF CreateTask
<1>2. row \in TaskRow /\ Unsent(row)
  BY <1>1, Tables DEF TaskRow, Unsent
<1> HIDE DEF t, row
<1>3. tasks' \in TaskTable
  BY <1>1, <1>2, Ids, Tables, TableSaved DEF TaskTable
<1>4. QED
  BY <1>1, <1>3, Tables, UserStep

\* A task that has a server id is changed and made pending.
LEMMA TaskTouchedKeeps ==
    ASSUME IInv, NEW t \in Rows(tasks), NEW row \in TaskRow,
           t < 0 => Unsent(row), tasks' = [tasks EXCEPT ![t] = row],
           Types, UNCHANGED <<board, statuses, draft>>, Send(TaskPushes)
    PROVE  IInv'
<1>1. tasks' \in TaskTable
  BY Tables, TableSaved DEF TaskTable, Saved
<1>2. QED
  BY <1>1, Tables, UserStep

LEMMA MoveTaskKeeps ==
    ASSUME IInv, NEW t \in TaskId, NEW i \in StatusId, MoveTask(t, i)
    PROVE  IInv'
<1> DEFINE row == [tasks[t] EXCEPT !.status = i, !.sync_status = "pending"]
<1>1. /\ Types /\ t \in Shown /\ UpdateTaskStatus(t, i)
      /\ UNCHANGED <<board, statuses, draft>> /\ Send(TaskPushes)
  BY DEF MoveTask
<1>2. t \in Rows(tasks) /\ tasks[t] \in TaskRow /\ (t < 0 => Unsent(tasks[t]))
  BY <1>1, Tables DEF Shown
<1>3. row \in TaskRow /\ (t < 0 => Unsent(row))
  BY <1>2 DEF TaskRow, Unsent
<1>4. tasks' = [tasks EXCEPT ![t] = row]
  BY <1>1 DEF UpdateTaskStatus
<1> HIDE DEF row
<1>5. QED
  BY <1>1, <1>2, <1>3, <1>4, TaskTouchedKeeps

LEMMA EditTaskKeeps ==
    ASSUME IInv, NEW t \in TaskId, EditTask(t) \/ EditTaskOnScreen(t)
    PROVE  IInv'
<1> DEFINE row == [tasks[t] EXCEPT !.sync_status = "pending"]
<1>1. /\ Types /\ t \in Rows(tasks) /\ tasks' = [tasks EXCEPT ![t] = row]
      /\ UNCHANGED <<board, statuses, draft>> /\ Send(TaskPushes)
  BY Tables DEF EditTask, EditTaskOnScreen, Shown
<1>2. tasks[t] \in TaskRow /\ (t < 0 => Unsent(tasks[t]))
  BY <1>1, Tables
<1>3. row \in TaskRow /\ (t < 0 => Unsent(row))
  BY <1>2 DEF TaskRow, Unsent
<1> HIDE DEF row
<1>4. QED
  BY <1>1, <1>3, TaskTouchedKeeps

LEMMA DeleteTaskKeeps ==
    ASSUME IInv, NEW t \in TaskId, DeleteTask(t)
    PROVE  IInv'
<1>1. Types /\ t \in Shown /\ UNCHANGED <<board, statuses, draft>>
  BY DEF DeleteTask
<1>2. CASE t < 0 /\ tasks' = [tasks EXCEPT ![t] = None] /\ UNCHANGED pushes
  <2>1. tasks' \in TaskTable
    BY <1>2, Tables, TableRemoved DEF TaskTable
  <2>2. QED
    BY <1>1, <1>2, <2>1, Tables, UserStep
<1>3. CASE t > 0 /\ TaskMarkedDeleted(t) /\ Send(TaskPushes)
  <2> DEFINE row == [tasks[t] EXCEPT !.deleted = TRUE, !.sync_status = "pending"]
  <2>1. t \in Rows(tasks) /\ tasks[t] \in TaskRow /\ (t < 0 => Unsent(tasks[t]))
    BY <1>1, Tables DEF Shown
  <2>2. row \in TaskRow /\ (t < 0 => Unsent(row))
    BY <2>1 DEF TaskRow, Unsent
  <2>3. tasks' = [tasks EXCEPT ![t] = row]
    BY <1>3 DEF TaskMarkedDeleted
  <2> HIDE DEF row
  <2>4. QED
    BY <1>1, <1>3, <2>1, <2>2, <2>3, TaskTouchedKeeps
<1>4. QED
  BY <1>2, <1>3 DEF DeleteTask

LEMMA EditBoardKeeps ==
    ASSUME IInv, EditBoard
    PROVE  IInv'
  BY Tables, UserStep DEF EditBoard

LEMMA SyncKeeps ==
    ASSUME IInv, BoardSynced \/ PeriodicSync
    PROVE  IInv'
<1>1. /\ board' \in BOOLEAN /\ Send(StatusPushes \cup TaskPushes)
      /\ UNCHANGED <<fk, statuses, tasks, draft, server, listed, crashed, steps, failures>>
  BY Tables DEF BoardSynced, PeriodicSync
<1>2. \A p \in StatusPushes \cup TaskPushes : PushOK(p)
  BY <1>1, SyncPushesOK, Tables
<1>3. \A p \in pushes' : PushOK(p)
  BY <1>1, <1>2, SendKeeps DEF IInv
<1>4. Client' /\ Counters' /\ Server'
  BY <1>1 DEF IInv, Client, Counters, Server, server
<1>5. Load'
  BY <1>1 DEF BoardSynced, PeriodicSync, IInv, Load
<1>6. QED
  BY <1>3, <1>4, <1>5 DEF IInv

-----------------------------------------------------------------------------
(* Answers                                                                 *)

LEMMA PushFields ==
    ASSUME IInv, NEW p \in pushes
    PROVE  /\ PushOK(p)
           /\ p.entity \in {"status", "task"}
           /\ p.op \in {"create", "update", "delete"}
           /\ p.code \in {"sent", "ok", "duplicate", "refused"}
  BY DEF IInv, PushOK, Push

LEMMA PurgeKeeps ==
    ASSUME IInv, NEW i \in StatusId, PurgeStatus(i)
    PROVE  statuses' \in StatusTable /\ tasks' \in TaskTable
<1>1. statuses' \in StatusTable
  BY Tables, TableRemoved DEF PurgeStatus, StatusTable
<1>2. tasks' \in TaskTable
  BY Tables, TasksGoneKeeps DEF PurgeStatus
<1>3. QED
  BY <1>1, <1>2

LEMMA StatusCreatedKeeps ==
    ASSUME IInv, NEW p \in pushes, p.entity = "status", p.op = "create", p.code = "ok",
           StatusCreated(p)
    PROVE  statuses' \in StatusTable /\ tasks' \in TaskTable /\ crashed' \in BOOLEAN
<1>1. p.id \in StatusId /\ p.value \in Name /\ p.sid \in ServerStatus
  BY PushFields DEF PushOK
<1>2. CASE ReplaceStatusThrows(p.id, p.sid)
  BY <1>2, Tables DEF StatusCreated
<1>3. CASE ~ReplaceStatusThrows(p.id, p.sid)
  <2> DEFINE renumbered == Renumbered(statuses, p.id, p.sid)
             saved == SaveStatus(renumbered, p.sid, p.value)
  <2>1. p.sid \in StatusId /\ p.sid > 0 /\ ~(Kept(p) < 0) /\ Kept(p) \in StatusId
    BY <1>1, Ids DEF Kept
  <2>2. renumbered \in StatusTable
    <3>1. None \notin StatusRow /\ StatusId \subseteq Int
      BY Nones, Ids
    <3>2. QED
      BY <1>1, <2>1, <3>1, Tables, RenumberedKeeps DEF StatusTable
  <2> HIDE DEF renumbered
  <2>3. saved \in StatusTable
    BY <1>1, <2>2, SaveStatusKeeps
  <2> HIDE DEF saved
  <2>4. statuses' = MarkSynced(saved, Kept(p))
    BY <1>3 DEF StatusCreated, saved, renumbered
  <2>5. statuses' \in StatusTable
    BY <2>1, <2>3, <2>4, MarkSyncedKeeps
  <2>6. tasks' \in TaskTable
    BY <1>3, <2>1, Tables, TasksMovedKeeps DEF StatusCreated
  <2>7. QED
    BY <1>3, <2>5, <2>6 DEF StatusCreated, IInv, Client
<1>4. QED
  BY <1>2, <1>3

LEMMA StatusUpdatedKeeps ==
    ASSUME IInv, NEW p \in pushes, p.entity = "status", p.op = "update", p.code = "ok",
           StatusUpdated(p)
    PROVE  statuses' \in StatusTable /\ tasks' \in TaskTable /\ crashed' \in BOOLEAN
<1>1. p.id \in StatusId /\ p.id > 0 /\ p.value \in Name /\ p.sid \in ServerStatus
  BY PushFields DEF PushOK
<1>2. SaveStatus(statuses, p.sid, p.value) \in StatusTable
  BY <1>1, Tables, SaveStatusKeeps
<1>3. ~(p.id < 0)
  BY <1>1, Ids
<1>4. statuses' \in StatusTable
  BY <1>1, <1>2, <1>3, MarkSyncedKeeps DEF StatusUpdated
<1>5. QED
  BY <1>4, Tables DEF StatusUpdated, IInv, Client

LEMMA TaskCreatedKeeps ==
    ASSUME IInv, NEW p \in pushes, p.entity = "task", p.op = "create", p.code = "ok",
           TaskCreated(p)
    PROVE  statuses' \in StatusTable /\ tasks' \in TaskTable /\ crashed' \in BOOLEAN
<1>1. p.id \in TaskId /\ p.sid \in ServerTask
  BY PushFields DEF PushOK
<1>2. CASE ReplaceTaskThrows(p.id, p.sid)
  BY <1>2, Tables DEF TaskCreated
<1>3. CASE ~ReplaceTaskThrows(p.id, p.sid)
  <2> DEFINE renumbered == Renumbered(tasks, p.id, p.sid)
             saved == SaveTask(renumbered, Rows(statuses), p.sid, AnsweredTask(p))
  <2>1. p.sid \in TaskId /\ p.sid > 0 /\ ~(Kept(p) < 0) /\ Kept(p) \in TaskId
    BY <1>1, Ids DEF Kept
  <2>2. renumbered \in TaskTable
    <3>1. None \notin TaskRow /\ TaskId \subseteq Int
      BY Nones, Ids
    <3>2. QED
      BY <1>1, <2>1, <3>1, Tables, RenumberedKeeps DEF TaskTable
  <2> HIDE DEF renumbered
  <2>3. saved \in TaskTable
    BY <1>1, <2>2, Tables, SaveTaskKeeps
  <2> HIDE DEF saved
  <2>4. tasks' = MarkSynced(saved, Kept(p))
    BY <1>3 DEF TaskCreated, saved, renumbered
  <2>5. tasks' \in TaskTable
    BY <2>1, <2>3, <2>4, MarkSyncedKeeps
  <2>6. QED
    BY <1>3, <2>5, Tables DEF TaskCreated, IInv, Client
<1>4. QED
  BY <1>2, <1>3

LEMMA TaskUpdatedKeeps ==
    ASSUME IInv, NEW p \in pushes, p.entity = "task", p.op = "update", p.code = "ok",
           TaskUpdated(p)
    PROVE  statuses' \in StatusTable /\ tasks' \in TaskTable /\ crashed' \in BOOLEAN
<1>1. p.id \in TaskId /\ p.id > 0 /\ p.sid \in ServerTask
  BY PushFields DEF PushOK
<1>2. SaveTask(tasks, Rows(statuses), p.sid, AnsweredTask(p)) \in TaskTable
  BY <1>1, Tables, SaveTaskKeeps
<1>3. ~(p.id < 0)
  BY <1>1, Ids
<1>4. tasks' \in TaskTable
  BY <1>1, <1>2, <1>3, MarkSyncedKeeps DEF TaskUpdated
<1>5. QED
  BY <1>4, Tables DEF TaskUpdated, IInv, Client

LEMMA RowDeletedKeeps ==
    ASSUME IInv, NEW p \in pushes, RowDeleted(p)
    PROVE  statuses' \in StatusTable /\ tasks' \in TaskTable /\ crashed' \in BOOLEAN
<1>1. CASE p.entity = "status" /\ PurgeStatus(p.id)
  BY <1>1, PurgeKeeps, PushFields DEF PushOK, RowDeleted, IInv, Client
<1>2. CASE /\ p.entity = "task"
           /\ tasks' = [tasks EXCEPT ![p.id] = None]
           /\ UNCHANGED statuses
  <2>1. p.id \in TaskId
    BY <1>2, PushFields DEF PushOK
  <2>2. tasks' \in TaskTable
    BY <1>2, <2>1, Tables, TableRemoved DEF TaskTable
  <2>3. QED
    BY <1>2, <2>2, Tables DEF RowDeleted, IInv, Client
<1>3. QED
  BY <1>1, <1>2 DEF RowDeleted

LEMMA StatusRefusedKeeps ==
    ASSUME IInv, NEW p \in pushes, p.code = "duplicate", StatusRefused(p)
    PROVE  statuses' \in StatusTable /\ tasks' \in TaskTable /\ crashed' \in BOOLEAN
  BY PurgeKeeps, PushFields, Tables DEF PushOK, StatusRefused, IInv, Client

LEMMA DeliverPushKeeps ==
    ASSUME IInv, NEW p \in pushes, DeliverPush(p)
    PROVE  IInv'
<1>1. statuses' \in StatusTable /\ tasks' \in TaskTable /\ crashed' \in BOOLEAN
  <2>1. CASE p.code = "ok" /\ p.op = "create" /\ p.entity = "status" /\ StatusCreated(p)
    BY <2>1, StatusCreatedKeeps
  <2>2. CASE p.code = "ok" /\ p.op = "update" /\ p.entity = "status" /\ StatusUpdated(p)
    BY <2>2, StatusUpdatedKeeps
  <2>3. CASE p.code = "ok" /\ p.op = "create" /\ p.entity = "task" /\ TaskCreated(p)
    BY <2>3, TaskCreatedKeeps
  <2>4. CASE p.code = "ok" /\ p.op = "update" /\ p.entity = "task" /\ TaskUpdated(p)
    BY <2>4, TaskUpdatedKeeps
  <2>5. CASE p.code = "ok" /\ p.op = "delete" /\ RowDeleted(p)
    BY <2>5, RowDeletedKeeps
  <2>6. CASE p.code = "duplicate" /\ StatusRefused(p)
    BY <2>6, StatusRefusedKeeps
  <2>7. CASE p.code = "refused" /\ UNCHANGED <<statuses, tasks, crashed>>
    BY <2>7, Tables DEF IInv, Client
  <2>8. QED
    BY <2>1, <2>2, <2>3, <2>4, <2>5, <2>6, <2>7 DEF DeliverPush
<1>2. /\ pushes' = pushes \ {p}
      /\ UNCHANGED <<fk, board, draft, server, load, listed, steps, failures>>
  BY DEF DeliverPush
<1>3. Client' /\ Counters' /\ \A q \in pushes' : PushOK(q)
  BY <1>1, <1>2 DEF IInv, Client, Counters
<1>4. QED
  BY <1>2, <1>3, ClientStep

LEMMA DeliverStatusesKeeps ==
    ASSUME IInv, DeliverStatuses
    PROVE  IInv'
<1>1. listed \in [ServerStatus -> Name \cup {None}]
  BY DEF IInv, Load, DeliverStatuses
<1>2. statuses' \in StatusTable
  BY <1>1, Tables, ParsedKeeps DEF DeliverStatuses
<1>3. /\ load' = "tasks" /\ listed' = None
      /\ UNCHANGED <<fk, board, tasks, draft, crashed, server, pushes, steps, failures>>
  BY DEF DeliverStatuses
<1>4. Client' /\ Load' /\ Server' /\ Counters'
  BY <1>2, <1>3 DEF IInv, Client, Load, Server, server, Counters
<1>5. QED
  BY <1>3, <1>4 DEF IInv

\* parse of the tasks: each row is what SaveTask makes of it.
LEMMA DeliverTasksKeeps ==
    ASSUME IInv, DeliverTasks
    PROVE  IInv'
<1> DEFINE Table1(t) == SaveTask(tasks, Rows(statuses), t, listed[t])
           table == [t \in TaskId |-> IF t \in ServerTask /\ listed[t] # None
                                      THEN Table1(t)[t] ELSE tasks[t]]
<1>1. ASSUME NEW t \in ServerTask
      PROVE  Table1(t) \in TaskTable
  BY Tables, SaveTaskKeeps
<1> HIDE DEF Table1
<1>2. ASSUME NEW t \in TaskId
      PROVE  /\ table[t] \in TaskRow \cup {None}
             /\ t < 0 /\ table[t] # None => Unsent(table[t])
  <2>1. CASE t \in ServerTask /\ listed[t] # None
    BY <1>1, <2>1, Ids DEF TaskTable, Table
  <2>2. CASE ~(t \in ServerTask /\ listed[t] # None)
    BY <2>2, Tables DEF TaskTable, Table
  <2>3. QED
    BY <2>1, <2>2
<1>3. table \in [TaskId -> TaskRow \cup {None}]
  BY <1>2
<1>4. tasks' = table
  BY DEF DeliverTasks, Table1
<1> HIDE DEF table
<1>5. tasks' \in TaskTable
  BY <1>2, <1>3, <1>4 DEF TaskTable, Table
<1>6. /\ load' = "idle" /\ listed' = None
      /\ UNCHANGED <<fk, board, statuses, draft, crashed, server, pushes, steps, failures>>
  BY DEF DeliverTasks
<1>7. Client' /\ Load' /\ Server' /\ Counters'
  BY <1>5, <1>6 DEF IInv, Client, Load, Server, server, Counters
<1>8. QED
  BY <1>6, <1>7 DEF IInv

\* A push given up, sent again, or a load that fails.
LEMMA FailureKeeps ==
    ASSUME IInv, LoadFails \/ \E p \in pushes : LosePush(p) \/ ResendPush(p)
    PROVE  IInv'
<1>1. Fails
  BY DEF LoadFails, LosePush, ResendPush
<1>2. UNCHANGED <<fk, local, server, steps>> /\ Counters'
  BY <1>1, Ids DEF Fails, IInv, Counters
<1>3. Client' /\ Server'
  BY <1>2 DEF IInv, Client, local, Server, server
<1>4. \A q \in pushes' : PushOK(q)
  <2>1. CASE LoadFails
    BY <2>1 DEF LoadFails, IInv
  <2>2. ASSUME NEW p \in pushes, LosePush(p) PROVE \A q \in pushes' : PushOK(q)
    BY <2>2 DEF LosePush, IInv
  <2>3. ASSUME NEW p \in pushes, ResendPush(p) PROVE \A q \in pushes' : PushOK(q)
    <3> DEFINE r == [p EXCEPT !.code = "sent", !.sid = None]
    <3>1. PushOK(r)
      BY PushFields DEF PushOK, Push
    <3>2. pushes' = (pushes \ {p}) \cup {r}
      BY <2>3 DEF ResendPush
    <3> HIDE DEF r
    <3>3. QED
      BY <3>1, <3>2 DEF IInv
  <2>4. QED
    BY <2>1, <2>2, <2>3
<1>5. Load'
  BY DEF LoadFails, LosePush, ResendPush, IInv, Load
<1>6. QED
  BY <1>2, <1>3, <1>4, <1>5 DEF IInv

-----------------------------------------------------------------------------
(* The backend and the other device                                        *)

LEMMA InsertStatusKeeps ==
    ASSUME Server, NEW n \in Name, InsertStatus(n)
    PROVE  Server' /\ last'.status \in ServerStatus
<1>1. last'.status = last.status + 1 /\ last'.task = last.task
      /\ last' = [last EXCEPT !.status = last.status + 1] /\ last.status < MaxStatus
  BY DEF InsertStatus, Server
<1>2. MaxStatus \in Nat /\ last.status \in 1 .. MaxStatus
  BY BoundAssumption DEF Server
<1>3. last' \in [status : 1 .. MaxStatus, task : 1 .. MaxTask]
  BY <1>1, <1>2 DEF Server
<1>4. last'.status \in ServerStatus
  BY <1>3 DEF ServerStatus
<1>5. QED
  BY <1>3, <1>4 DEF InsertStatus, Server

LEMMA UpdateStatusKeeps ==
    ASSUME Server, NEW i \in ServerStatus, NEW n \in Name, UpdateStatus(i, n)
    PROVE  Server'
  BY DEF UpdateStatus, Server

LEMMA DeleteStatusRowKeeps ==
    ASSUME Server, NEW i \in ServerStatus, DeleteStatusRow(i)
    PROVE  Server'
  BY DEF DeleteStatusRow, Server

LEMMA InsertTaskKeeps ==
    ASSUME Server, NEW i \in ServerStatus, InsertTask(i)
    PROVE  Server' /\ last'.task \in ServerTask
<1>1. last'.task = last.task + 1 /\ last'.status = last.status
      /\ last' = [last EXCEPT !.task = last.task + 1] /\ last.task < MaxTask
  BY DEF InsertTask, Server
<1>2. MaxTask \in Nat /\ last.task \in 1 .. MaxTask
  BY BoundAssumption DEF Server
<1>3. last' \in [status : 1 .. MaxStatus, task : 1 .. MaxTask]
  BY <1>1, <1>2 DEF Server
<1>4. last'.task \in ServerTask
  BY <1>3 DEF ServerTask
<1>5. [status |-> i, old |-> FALSE] \in ServedTask
  BY DEF ServedTask
<1>6. QED
  BY <1>3, <1>4, <1>5 DEF InsertTask, Server

LEMMA UpdateTaskKeeps ==
    ASSUME Server, NEW t \in ServerTask, NEW i \in ServerStatus, UpdateTask(t, i)
    PROVE  Server'
  BY DEF UpdateTask, Server, ServedTask

LEMMA DeleteTaskRowKeeps ==
    ASSUME Server, NEW t \in ServerTask, DeleteTaskRow(t)
    PROVE  Server'
  BY DEF DeleteTaskRow, Server

\* An answer leaves a request what PushOK says of it.
LEMMA AnswersKeep ==
    ASSUME IInv, NEW p \in pushes, NEW code \in {"ok", "duplicate", "refused"}, NEW sid,
           sid \in ServerStatus \cup ServerTask \cup {None},
           code = "ok" /\ p.entity = "status" => sid \in ServerStatus,
           code = "ok" /\ p.entity = "task" => sid \in ServerTask,
           code = "duplicate" => p.entity = "status" /\ p.op = "create",
           Answers(p, code, sid)
    PROVE  \A q \in pushes' : PushOK(q)
<1> DEFINE r == [p EXCEPT !.code = code, !.sid = sid]
<1>1. PushOK(r)
  BY PushFields DEF PushOK, Push
<1>2. pushes' = (pushes \ {p}) \cup {r}
  BY DEF Answers
<1> HIDE DEF r
<1>3. QED
  BY <1>1, <1>2 DEF IInv

LEMMA RefusesKeeps ==
    ASSUME IInv, NEW p \in pushes, NEW code \in {"duplicate", "refused"},
           code = "duplicate" => p.entity = "status" /\ p.op = "create",
           Refuses(p, code)
    PROVE  Server' /\ \A q \in pushes' : PushOK(q)
<1>1. Server'
  BY DEF Refuses, IInv, Server, server
<1>2. \A q \in pushes' : PushOK(q)
  BY AnswersKeep DEF Refuses
<1>3. QED
  BY <1>1, <1>2

LEMMA ServeStatusKeeps ==
    ASSUME IInv, NEW p \in pushes, p.entity = "status", ServeStatus(p)
    PROVE  Server' /\ \A q \in pushes' : PushOK(q)
<1>1. /\ p.id \in StatusId /\ (p.op # "delete" => p.value \in Name) /\ Server
      /\ (HasStatus(p.id) => p.id \in ServerStatus)
  BY PushFields, Ids DEF PushOK, IInv, HasStatus
<1>2. CASE \/ p.op = "create" /\ Refuses(p, "duplicate")
           \/ Refuses(p, "refused")
  BY <1>2, RefusesKeeps
<1>3. CASE p.op = "create" /\ InsertStatus(p.value) /\ Answers(p, "ok", last'.status)
  BY <1>1, <1>3, InsertStatusKeeps, AnswersKeep
<1>4. CASE /\ p.op = "update" /\ HasStatus(p.id)
           /\ UpdateStatus(p.id, p.value) /\ Answers(p, "ok", p.id)
  BY <1>1, <1>4, UpdateStatusKeeps, AnswersKeep
<1>5. CASE /\ p.op = "delete" /\ HasStatus(p.id)
           /\ DeleteStatusRow(p.id) /\ Answers(p, "ok", p.id)
  BY <1>1, <1>5, DeleteStatusRowKeeps, AnswersKeep
<1>6. QED
  BY <1>2, <1>3, <1>4, <1>5 DEF ServeStatus

LEMMA ServeTaskKeeps ==
    ASSUME IInv, NEW p \in pushes, p.entity = "task", ServeTask(p)
    PROVE  Server' /\ \A q \in pushes' : PushOK(q)
<1>1. /\ p.id \in TaskId /\ (p.op # "delete" => p.value \in StatusId) /\ Server
      /\ (HasTask(p.id) => p.id \in ServerTask)
      /\ (p.op # "delete" /\ HasStatus(p.value) => p.value \in ServerStatus)
  BY PushFields, Ids DEF PushOK, IInv, HasTask, HasStatus
<1>2. CASE Refuses(p, "refused")
  BY <1>2, RefusesKeeps
<1>3. CASE /\ p.op = "create" /\ HasStatus(p.value)
           /\ InsertTask(p.value) /\ Answers(p, "ok", last'.task)
  BY <1>1, <1>3, InsertTaskKeeps, AnswersKeep
<1>4. CASE /\ p.op = "update" /\ HasTask(p.id) /\ HasStatus(p.value)
           /\ UpdateTask(p.id, p.value) /\ Answers(p, "ok", p.id)
  BY <1>1, <1>4, UpdateTaskKeeps, AnswersKeep
<1>5. CASE /\ p.op = "delete" /\ HasTask(p.id)
           /\ DeleteTaskRow(p.id) /\ Answers(p, "ok", p.id)
  BY <1>1, <1>5, DeleteTaskRowKeeps, AnswersKeep
<1>6. QED
  BY <1>2, <1>3, <1>4, <1>5 DEF ServeTask

LEMMA ServePushKeeps ==
    ASSUME IInv, NEW p \in pushes, ServePush(p)
    PROVE  IInv'
<1>1. Server' /\ \A q \in pushes' : PushOK(q)
  BY ServeStatusKeeps, ServeTaskKeeps DEF ServePush
<1>2. UNCHANGED <<fk, local, load, listed, steps, failures>>
  BY DEF ServePush
<1>3. Client' /\ Load' /\ Counters'
  BY <1>2 DEF IInv, Client, local, Load, Counters
<1>4. QED
  BY <1>1, <1>3 DEF IInv

LEMMA ServeListKeeps ==
    ASSUME IInv, ServeStatuses \/ ServeTasks
    PROVE  IInv'
<1>1. UNCHANGED <<fk, local, server, pushes, load, steps, failures>>
  BY DEF ServeStatuses, ServeTasks
<1>2. Client' /\ Server' /\ Counters'
  BY <1>1 DEF IInv, Client, local, Server, server, Counters
<1>3. Load'
  BY <1>1 DEF IInv, Server, Load, ServeStatuses, ServeTasks
<1>4. QED
  BY <1>1, <1>2, <1>3 DEF IInv

LEMMA OtherDeviceKeeps ==
    ASSUME IInv, OtherDevice
    PROVE  IInv'
<1>1. UNCHANGED <<fk, local, net, failures>> /\ steps' \in 0 .. MaxSteps
  BY Ids DEF OtherDevice, IInv, Counters
<1>2. Client' /\ Load' /\ Counters' /\ UNCHANGED pushes
  BY <1>1 DEF IInv, Client, local, net, Load, Counters
<1>3. Server'
  BY InsertStatusKeeps, UpdateStatusKeeps, DeleteStatusRowKeeps, InsertTaskKeeps,
     UpdateTaskKeeps, DeleteTaskRowKeeps DEF OtherDevice, IInv
<1>4. QED
  BY <1>2, <1>3 DEF IInv

-----------------------------------------------------------------------------
(* The theorems                                                            *)

LEMMA InitIInv == Init => IInv
<1> SUFFICES ASSUME Init PROVE IInv
  OBVIOUS
<1> DEFINE n == CHOOSE n \in Name : TRUE
<1>1. n \in Name
  BY NameAssumption
<1> HIDE DEF n
<1>2. StatusFromJson(n) \in StatusRow
  BY <1>1 DEF StatusFromJson, StatusRow
<1>3. statuses = [i \in StatusId |-> IF i = 1 THEN StatusFromJson(n) ELSE None]
  BY DEF Init, n
<1>4. statuses \in StatusTable
  BY <1>2, <1>3 DEF StatusTable, Table
<1>5. TaskFromJson([status |-> 1, old |-> FALSE]) \in TaskRow
  BY Ids DEF TaskFromJson, TaskRow
<1>6. tasks \in TaskTable
  BY <1>5 DEF Init, TaskTable, Table
<1>7. names \in [ServerStatus -> Name \cup {None}]
  BY <1>1 DEF Init, n
<1>8. placed \in [ServerTask -> ServedTask \cup {None}]
  BY Ids DEF Init, ServedTask
<1>9. last \in [status : 1 .. MaxStatus, task : 1 .. MaxTask]
  BY BoundAssumption DEF Init
<1>10. Load /\ Counters /\ \A p \in pushes : PushOK(p)
  BY Ids DEF Init, Load, Counters
<1>11. QED
  BY <1>4, <1>6, <1>7, <1>8, <1>9, <1>10 DEF Init, IInv, Client, Server

LEMMA StepIInv == IInv /\ [Next]_vars => IInv'
<1> SUFFICES ASSUME IInv, [Next]_vars PROVE IInv'
  OBVIOUS
<1>1. ASSUME NEW n \in Name, CreateStatus(n) PROVE IInv'
  BY <1>1, CreateStatusKeeps
<1>2. ASSUME NEW n \in Name, NEW i \in StatusId, RenameStatus(i, n) PROVE IInv'
  BY <1>2, RenameStatusKeeps
<1>3. ASSUME NEW i \in StatusId, DeleteStatus(i) PROVE IInv'
  BY <1>3, DeleteStatusKeeps
<1>4. ASSUME NEW i \in StatusId, OpenTaskCreate(i) PROVE IInv'
  BY <1>4, OpenTaskCreateKeeps
<1>5. CASE CreateTask
  BY <1>5, CreateTaskKeeps
<1>6. ASSUME NEW t \in TaskId, DeleteTask(t) PROVE IInv'
  BY <1>6, DeleteTaskKeeps
<1>7. ASSUME NEW t \in TaskId, EditTask(t) \/ EditTaskOnScreen(t) PROVE IInv'
  BY <1>7, EditTaskKeeps
<1>8. ASSUME NEW t \in TaskId, NEW i \in StatusId, MoveTask(t, i) PROVE IInv'
  BY <1>8, MoveTaskKeeps
<1>9. CASE EditBoard
  BY <1>9, EditBoardKeeps
<1>10. CASE BoardSynced \/ PeriodicSync
  BY <1>10, SyncKeeps
<1>11. ASSUME NEW p \in pushes, DeliverPush(p) PROVE IInv'
  BY <1>11, DeliverPushKeeps
<1>12. ASSUME NEW p \in pushes, ServePush(p) PROVE IInv'
  BY <1>12, ServePushKeeps
<1>13. CASE LoadFails \/ \E p \in pushes : LosePush(p) \/ ResendPush(p)
  BY <1>13, FailureKeeps
<1>14. CASE DeliverStatuses
  BY <1>14, DeliverStatusesKeeps
<1>15. CASE DeliverTasks
  BY <1>15, DeliverTasksKeeps
<1>16. CASE ServeStatuses \/ ServeTasks
  BY <1>16, ServeListKeeps
<1>17. CASE OtherDevice
  BY <1>17, OtherDeviceKeeps
<1>18. CASE UNCHANGED vars
  BY <1>18 DEF vars, local, server, net, IInv, Client, Server, Load, Counters
<1>19. QED
  BY <1>1, <1>2, <1>3, <1>4, <1>5, <1>6, <1>7, <1>8, <1>9, <1>10, <1>11, <1>12, <1>13,
     <1>14, <1>15, <1>16, <1>17, <1>18 DEF Next

LEMMA Invariant == Spec => []IInv
  BY InitIInv, StepIInv, PTL DEF Spec

\* Every variable keeps to the values the code can give it, whatever the server
\* answers and however many requests for a row are in flight.
THEOREM TypeCorrect == Spec => []TypeOK
<1>1. IInv => TypeOK
  <2> SUFFICES ASSUME IInv PROVE TypeOK
    OBVIOUS
  <2>1. statuses \in [StatusId -> StatusRow \cup {None}]
        /\ tasks \in [TaskId -> TaskRow \cup {None}]
    BY Tables DEF StatusTable, TaskTable, Table
  <2>2. pushes \subseteq Push
    BY DEF IInv, PushOK
  <2>3. <<load, listed>> \in
           {"idle", "statuses", "tasks"} \X {None}
             \cup {"statuses"} \X [ServerStatus -> Name \cup {None}]
             \cup {"tasks"} \X [ServerTask -> ServedTask \cup {None}]
    BY DEF IInv, Load
  <2>4. QED
    BY <2>1, <2>2, <2>3 DEF IInv, Client, Server, Counters, TypeOK
<1>2. QED
  BY <1>1, Invariant, PTL

\* A row the server has not named stays pending with version 0, so that every sync
\* sends it as a create: no answer, late, repeated or out of order, marks it synced
\* before replaceId has given it the server's id.
THEOREM UnsentStaysPending == Spec => []UnsentIsPending
<1>1. IInv => UnsentIsPending
  BY Tables DEF Unsent, UnsentIsPending
<1>2. QED
  BY <1>1, Invariant, PTL

=============================================================================
