----------------------------- MODULE HierarchySync -----------------------------
(***************************************************************************)
(* The columns (statuses) and tasks of one board on the client and on the  *)
(* server: StatusSyncManager and TaskSyncManager (frontend/sync) over      *)
(* LocalStatusRepository, LocalTaskRepository and the SQLite schema,       *)
(* driven by BoardScreen, StatusWindow, TaskCard and the two task screens, *)
(* by the periodic sync and by the list of statuses and then of tasks that *)
(* a load asks for, against the backend's handlers, which another device   *)
(* of the same user calls too.                                             *)
(*                                                                         *)
(* The board has its server id, the only kind switchToBoard opens.  Of a   *)
(* status only its name is kept and of a task only its column: title,      *)
(* deadline, priority and the rest travel with it the same way.            *)
(*                                                                         *)
(* A behaviour lies within one day.  The JSON of a status has no time, so  *)
(* saveFromServer takes the moment of arrival, and a pending row is never  *)
(* later.  A task's time is compared by its date (SQLite's ' ' sorts       *)
(* before ISO's 'T'), so a pending task is later than a row that the       *)
(* server has stored on an earlier day, and than no other.                 *)
(***************************************************************************)
EXTENDS Integers, FiniteSets

CONSTANTS
    Name,       \* names of columns
    None,       \* no row, no window, no value
    MaxLocal,   \* bound: how far down local ids go
    MaxStatus, MaxTask,  \* bounds: ids the server gives out
    MaxSteps,   \* bound: what the user does in a behaviour, on either device
    MaxFailures \* bound: answers lost, and errors of the backend

LocalId == -MaxLocal .. -1
ServerStatus == 1 .. MaxStatus
ServerTask == 1 .. MaxTask
StatusId == LocalId \cup ServerStatus
TaskId == LocalId \cup ServerTask

\* sync_status is CONFLICT for tasks only.
StatusRow == [name : Name, sync_status : {"pending", "synced"},
              server_version : {0, 1}, deleted : BOOLEAN]
TaskRow == [status : StatusId, sync_status : {"pending", "synced", "conflict"},
            server_version : {0, 1}, deleted : BOOLEAN]

\* old: the server has stored the row on an earlier day.
ServedTask == [status : ServerStatus, old : BOOLEAN]

\* A push in flight, until its code is set not yet served; sid is the row the
\* answer is about.
Push == [entity : {"status", "task"}, op : {"create", "update", "delete"},
         id : StatusId \cup TaskId, value : Name \cup StatusId \cup {None},
         code : {"sent", "ok", "duplicate", "refused"},
         sid : ServerStatus \cup ServerTask \cup {None}]

ASSUME NameAssumption == Name # {}
ASSUME BoundAssumption ==
    /\ {MaxLocal, MaxSteps, MaxFailures} \subseteq Nat
    /\ {MaxStatus, MaxTask} \subseteq Nat \ {0}  \* Init has one of each
ASSUME NoneAssumption ==
    None \notin StatusRow \cup TaskRow \cup ServedTask \cup Name \cup StatusId \cup TaskId

VARIABLES
    fk,        \* PRAGMA foreign_keys is on: local_init.sql has it, and only the
               \* connection that creates the schema runs that
    board,     \* isParentBoardSynced: the local board is synced
    statuses,  \* the local statuses table
    tasks,     \* the local tasks table
    names,     \* the server's statuses: their names
    placed,    \* the server's tasks
    last,      \* the last ids PostgreSQL's SERIALs gave out
    pushes,    \* the sync requests in flight
    load,      \* the list loadAll waits for
    listed,    \* that list once the server has read it
    draft,     \* the column TaskCreateScreen is open for
    crashed,   \* an exception has left a slot: the client is gone
    steps,     \* what the user has done so far
    failures   \* and what has failed

local == <<board, statuses, tasks, draft, crashed>>
server == <<names, placed, last>>
net == <<pushes, load, listed>>
vars == <<fk, local, server, net, steps, failures>>

-----------------------------------------------------------------------------
(* The local repositories                                                  *)

\* findById, findByBoardId and findUnsynced.
Rows(table) == {i \in DOMAIN table : table[i] # None}
Live(table) == {i \in Rows(table) : ~table[i].deleted}
Pending(table) == {i \in Rows(table) : table[i].sync_status = "pending"}

\* createLocalId: one below the least negative id in use.
CreateLocalId(table) ==
    IF \E i \in Rows(table) : i < 0
    THEN (CHOOSE i \in Rows(table) : \A j \in Rows(table) : i <= j) - 1
    ELSE -1

\* UNIQUE (board_id, name), deleted rows included: i may take the name.
NameFree(table, i, n) == \A j \in Rows(table) \ {i} : table[j].name # n

\* The loop over findByBoardId in the two screens, which leaves deleted rows out.
NameSeen(i, n) == \E j \in Live(statuses) \ {i} : statuses[j].name = n

In(table, i) == {t \in Rows(table) : table[t].status = i}

\* save of either repository: insert or update.
Saved(table, i, row) == [table EXCEPT ![i] = row]

\* That of LocalStatusRepository: a name in use makes either throw.
SavedStatus(table, i, row) ==
    IF NameFree(table, i, row.name) THEN Saved(table, i, row) ELSE table

MarkSynced(table, i) ==
    IF table[i] = None THEN table ELSE [table EXCEPT ![i].sync_status = "synced"]

\* The three below are replaceId, which handlePushResponse calls when the row has
\* a local id: UPDATE ... SET id = new WHERE id = old, where new is free.
Renumbered(table, old, new) ==
    IF old > 0 \/ table[old] = None THEN table
    ELSE [table EXCEPT ![old] = None, ![new] = table[old]]

TasksMoved(old, new) ==
    [t \in TaskId |-> IF old < 0 /\ t \in In(tasks, old) THEN [tasks[t] EXCEPT !.status = new]
                      ELSE tasks[t]]

\* LocalStatusRepository::replaceId, tasks first: with foreign keys their new
\* status must be there, and then the primary key is not free.
ReplaceStatusThrows(old, new) ==
    /\ old < 0
    /\ \/ statuses[old] # None /\ statuses[new] # None
       \/ fk /\ In(tasks, old) # {} /\ statuses[new] = None

ReplaceTaskThrows(old, new) == old < 0 /\ tasks[old] # None /\ tasks[new] # None

\* LocalStatusRepository::deleteById, with ON DELETE CASCADE if it is enforced.
PurgeStatus(i) ==
    /\ statuses' = [statuses EXCEPT ![i] = None]
    /\ tasks' = IF fk THEN [t \in TaskId |-> IF t \in In(tasks, i) THEN None ELSE tasks[t]]
                ELSE tasks

StatusMarkedDeleted(i) ==
    /\ statuses' = [statuses EXCEPT ![i].deleted = TRUE, ![i].sync_status = "pending"]
    /\ tasks' = [t \in TaskId |-> IF t \in In(tasks, i) THEN None ELSE tasks[t]]

TaskMarkedDeleted(t) ==
    tasks' = [tasks EXCEPT ![t].deleted = TRUE, ![t].sync_status = "pending"]

\* statusFromJson and taskFromJson, as far as the rows are modelled.
StatusFromJson(n) ==
    [name |-> n, sync_status |-> "synced", server_version |-> 1, deleted |-> FALSE]
TaskFromJson(row) ==
    [status |-> row.status, sync_status |-> "synced", server_version |-> 1,
     deleted |-> FALSE]

\* StatusSyncManager::saveFromServer: what save throws is caught.
SaveStatus(table, i, n) == SavedStatus(table, i, StatusFromJson(n))

\* Mutant of SaveTask: a row in conflict stays so.
SaveTaskConflicting(table, columns, t, row) ==
    IF row.status \notin columns THEN table
    ELSE IF table[t] # None /\ table[t].sync_status # "synced" /\ row.old
    THEN [table EXCEPT ![t].sync_status = "conflict"]
    ELSE Saved(table, t, TaskFromJson(row))

\* TaskSyncManager::saveFromServer, columns being the statuses stored here.
SaveTask(table, columns, t, row) ==
    IF row.status \notin columns THEN table
    ELSE IF table[t] # None /\ table[t].sync_status = "pending" /\ row.old
    THEN [table EXCEPT ![t].sync_status = "conflict"]
    ELSE Saved(table, t, TaskFromJson(row))

-----------------------------------------------------------------------------
(* Pushing                                                                 *)

Requested(entity, op, i, value) ==
    [entity |-> entity, op |-> op, id |-> i, value |-> value, code |-> "sent", sid |-> None]

\* What sync makes of a pending row: deletion first, then by server_version.
PushOf(entity, i, row, value) ==
    IF row.deleted THEN Requested(entity, "delete", i, None)
    ELSE Requested(entity, IF row.server_version = 0 THEN "create" ELSE "update", i, value)

StatusPushes ==
    {PushOf("status", i, statuses'[i], statuses'[i].name) : i \in Pending(statuses')}
TaskPushes ==
    {PushOf("task", t, tasks'[t], tasks'[t].status) : t \in Pending(tasks')}

\* sync: one request for each pending row of a synced board, whether or not
\* one is in flight for it already.  Bound: of equal requests, neither served
\* yet, only one is kept.
Send(sent) == pushes' = IF board' THEN pushes \cup sent ELSE pushes

\* One column with one task in it, synced, at any time after a login.
Init ==
    /\ fk \in BOOLEAN
    /\ board = TRUE
    /\ \E old \in BOOLEAN : LET n == CHOOSE n \in Name : TRUE IN
         /\ names = [i \in ServerStatus |-> IF i = 1 THEN n ELSE None]
         /\ placed = [t \in ServerTask |->
                         IF t = 1 THEN [status |-> 1, old |-> old] ELSE None]
         /\ statuses = [i \in StatusId |-> IF i = 1 THEN StatusFromJson(n) ELSE None]
    /\ tasks = [t \in TaskId |->
                   IF t = 1 THEN TaskFromJson([status |-> 1, old |-> FALSE]) ELSE None]
    /\ last = [status |-> 1, task |-> 1]
    /\ pushes = {}
    /\ load = "idle"
    /\ listed = None
    /\ draft = None
    /\ crashed = FALSE
    /\ steps = 0
    /\ failures = 0

-----------------------------------------------------------------------------
(* The screens                                                             *)

Types ==
    /\ ~crashed
    /\ steps < MaxSteps
    /\ steps' = steps + 1
    /\ UNCHANGED <<fk, server, load, listed, crashed, failures>>

\* BoardScreen::onStatusCreateRequest.  (A name a deleted row has makes save
\* throw: nothing happens.)
CreateStatus(n) ==
    LET i == CreateLocalId(statuses)
    IN  /\ Types
        /\ i \in LocalId
        /\ ~NameSeen(i, n) /\ NameFree(statuses, i, n)
        /\ statuses' = SavedStatus(statuses, i, [name |-> n, sync_status |-> "pending",
                                                 server_version |-> 0, deleted |-> FALSE])
        /\ UNCHANGED <<board, tasks, draft>>
        /\ Send(StatusPushes)

\* StatusWindow::onStatusNameSaved.
RenameStatus(i, n) ==
    /\ Types
    /\ i \in Live(statuses)
    /\ statuses[i].name # n
    /\ ~NameSeen(i, n) /\ NameFree(statuses, i, n)
    /\ statuses' = SavedStatus(statuses, i,
                               [statuses[i] EXCEPT !.name = n, !.sync_status = "pending"])
    /\ UNCHANGED <<board, tasks, draft>>
    /\ Send(StatusPushes)

\* StatusWindow::onStatusDeleteRequest: its tasks go at once, the row when the
\* server has answered.
DeleteStatus(i) ==
    /\ Types
    /\ i \in Live(statuses)
    /\ StatusMarkedDeleted(i)
    /\ UNCHANGED <<board, draft>>
    /\ Send(StatusPushes)

\* MainWindow::switchToTaskCreate: the window keeps the column's id.
OpenTaskCreate(i) ==
    /\ ~crashed
    /\ steps < MaxSteps
    /\ draft = None
    /\ i \in Live(statuses)
    /\ draft' = i
    /\ UNCHANGED <<fk, board, statuses, tasks, crashed, server, net, steps, failures>>

\* TaskCreateScreen::onCreateTaskRequest.  With foreign keys a column that is
\* gone makes save throw: the window stays and says so.
CreateTask ==
    LET t == CreateLocalId(tasks)
    IN  /\ Types
        /\ draft # None
        /\ t \in LocalId
        /\ ~(fk /\ statuses[draft] = None)
        /\ tasks' = Saved(tasks, t, [status |-> draft, sync_status |-> "pending",
                                     server_version |-> 0, deleted |-> FALSE])
        /\ draft' = None
        /\ UNCHANGED <<board, statuses>>
        /\ Send(TaskPushes)

\* loadFromLocalDatabase: a task is shown when its column is.
Shown == {t \in Live(tasks) : tasks[t].status \in Live(statuses)}

\* TaskCard::updateTaskStatus: a card without a server id is moved on the screen
\* only.
UpdateTaskStatus(t, i) ==
    /\ t > 0
    /\ tasks' = [tasks EXCEPT ![t].status = i, ![t].sync_status = "pending"]

\* StatusWindow::dropEvent.
MoveTask(t, i) ==
    /\ Types
    /\ t \in Shown
    /\ i \in Live(statuses) \ {tasks[t].status}
    /\ UpdateTaskStatus(t, i)
    /\ UNCHANGED <<board, statuses, draft>>
    /\ Send(TaskPushes)

\* TaskCard::onTitleEditRequest and onMarkDoneRequest.
EditTask(t) ==
    /\ Types
    /\ t \in Shown /\ t > 0
    /\ tasks' = [tasks EXCEPT ![t].sync_status = "pending"]
    /\ UNCHANGED <<board, statuses, draft>>
    /\ Send(TaskPushes)

\* TaskEditScreen::onUpdateTaskRequest, whose window may have been open for long:
\* the task may be deleted by now.
EditTaskOnScreen(t) ==
    /\ Types
    /\ t \in Rows(tasks) /\ t > 0
    /\ tasks' = [tasks EXCEPT ![t].sync_status = "pending"]
    /\ UNCHANGED <<board, statuses, draft>>
    /\ Send(TaskPushes)

\* TaskCard::onDeleteTaskRequest: a local task just goes.
DeleteTask(t) ==
    /\ Types
    /\ t \in Shown
    /\ UNCHANGED <<board, statuses, draft>>
    /\ \/ t < 0 /\ tasks' = [tasks EXCEPT ![t] = None] /\ UNCHANGED pushes
       \/ t > 0 /\ TaskMarkedDeleted(t) /\ Send(TaskPushes)

\* BoardEditScreen: until its PATCH is answered the board is pending.
EditBoard ==
    /\ Types
    /\ board
    /\ board' = FALSE
    /\ UNCHANGED <<statuses, tasks, draft, pushes>>

\* handleSyncResponse for the board: its children are sent.
BoardSynced ==
    /\ ~crashed
    /\ ~board
    /\ board' = TRUE
    /\ UNCHANGED <<statuses, tasks, draft>>
    /\ Send(StatusPushes \cup TaskPushes)
    /\ UNCHANGED <<fk, server, load, listed, crashed, steps, failures>>

\* Mutant of PeriodicSync: only loadAll.
PeriodicLoad ==
    /\ ~crashed
    /\ load = "idle"
    /\ load' = "statuses"
    /\ UNCHANGED <<fk, local, server, pushes, listed, steps, failures>>

\* onPeriodicSync: syncAll, then loadAll.
PeriodicSync ==
    /\ ~crashed
    /\ load = "idle"
    /\ load' = "statuses"
    /\ UNCHANGED <<board, statuses, tasks, draft>>
    /\ Send(StatusPushes \cup TaskPushes)
    /\ UNCHANGED <<fk, server, listed, crashed, steps, failures>>

-----------------------------------------------------------------------------
(* Answers                                                                 *)

\* The local_id that is marked synced.
Kept(p) == IF p.id < 0 THEN p.sid ELSE p.id

\* StatusSyncManager::handlePushResponse on a 200 for a create.
StatusCreated(p) ==
    IF ReplaceStatusThrows(p.id, p.sid)
    THEN crashed' = TRUE /\ UNCHANGED <<statuses, tasks>>
    ELSE /\ statuses' = MarkSynced(SaveStatus(Renumbered(statuses, p.id, p.sid),
                                              p.sid, p.value), Kept(p))
         /\ tasks' = TasksMoved(p.id, p.sid)
         /\ UNCHANGED crashed

\* The same on a 200 for an update.
StatusUpdated(p) ==
    /\ statuses' = MarkSynced(SaveStatus(statuses, p.sid, p.value), p.id)
    /\ UNCHANGED <<tasks, crashed>>

\* BoardScreen::onSyncResponse on a 400 or 409 for a create: the row goes, if
\* this board is on the screen.
StatusRefused(p) ==
    /\ \/ PurgeStatus(p.id)
       \/ UNCHANGED <<statuses, tasks>>
    /\ UNCHANGED crashed

AnsweredTask(p) == [status |-> p.value, old |-> FALSE]

\* Mutant of TaskCreated: the id is replaced after the answer was stored.
TaskCreatedLate(p) ==
    /\ tasks' = MarkSynced(SaveTask(tasks, Rows(statuses), p.sid, AnsweredTask(p)), p.id)
    /\ UNCHANGED <<statuses, crashed>>

\* TaskSyncManager::handlePushResponse on a 200 for a create.
TaskCreated(p) ==
    IF ReplaceTaskThrows(p.id, p.sid)
    THEN crashed' = TRUE /\ UNCHANGED <<statuses, tasks>>
    ELSE /\ tasks' = MarkSynced(SaveTask(Renumbered(tasks, p.id, p.sid), Rows(statuses),
                                         p.sid, AnsweredTask(p)), Kept(p))
         /\ UNCHANGED <<statuses, crashed>>

TaskUpdated(p) ==
    /\ tasks' = MarkSynced(SaveTask(tasks, Rows(statuses), p.sid, AnsweredTask(p)), p.id)
    /\ UNCHANGED <<statuses, crashed>>

\* On a 204 for a delete: deleteById.
RowDeleted(p) ==
    /\ \/ p.entity = "status" /\ PurgeStatus(p.id)
       \/ /\ p.entity = "task"
          /\ tasks' = [tasks EXCEPT ![p.id] = None]
          /\ UNCHANGED statuses
    /\ UNCHANGED crashed

\* onResult of a push: any other code changes nothing.
DeliverPush(p) ==
    /\ ~crashed
    /\ p.code # "sent"
    /\ \/ p.code = "ok" /\ p.op = "create" /\ p.entity = "status" /\ StatusCreated(p)
       \/ p.code = "ok" /\ p.op = "update" /\ p.entity = "status" /\ StatusUpdated(p)
       \/ p.code = "ok" /\ p.op = "create" /\ p.entity = "task" /\ TaskCreated(p)
       \/ p.code = "ok" /\ p.op = "update" /\ p.entity = "task" /\ TaskUpdated(p)
       \/ p.code = "ok" /\ p.op = "delete" /\ RowDeleted(p)
       \/ p.code = "duplicate" /\ StatusRefused(p)
       \/ p.code = "refused" /\ UNCHANGED <<statuses, tasks, crashed>>
    /\ pushes' = pushes \ {p}
    /\ UNCHANGED <<fk, board, draft, server, load, listed, steps, failures>>

\* parse of the list of statuses, one after the other: the table after the first
\* i, each of which may take or free a name for the next.
Parsed[i \in 0 .. MaxStatus] ==
    IF i = 0 THEN statuses
    ELSE IF listed[i] = None THEN Parsed[i - 1]
    ELSE SaveStatus(Parsed[i - 1], i, listed[i])

\* The list of statuses; then the tasks' GET.
DeliverStatuses ==
    /\ ~crashed
    /\ load = "statuses" /\ listed # None
    /\ statuses' = Parsed[MaxStatus]
    /\ load' = "tasks"
    /\ listed' = None
    /\ UNCHANGED <<fk, board, tasks, draft, crashed, server, pushes, steps, failures>>

\* parse of the list of tasks, whose rows do not touch each other, ends the load.
DeliverTasks ==
    /\ ~crashed
    /\ load = "tasks" /\ listed # None
    /\ tasks' = [t \in TaskId |->
           IF t \in ServerTask /\ listed[t] # None
           THEN SaveTask(tasks, Rows(statuses), t, listed[t])[t] ELSE tasks[t]]
    /\ load' = "idle"
    /\ listed' = None
    /\ UNCHANGED <<fk, board, statuses, draft, crashed, server, pushes, steps, failures>>

Fails ==
    /\ failures < MaxFailures
    /\ failures' = failures + 1
    /\ UNCHANGED <<fk, local, server, steps>>

\* A push that is given up: never served, or its answer lost.
LosePush(p) ==
    /\ Fails
    /\ pushes' = pushes \ {p}
    /\ UNCHANGED <<load, listed>>

\* An answer that comes too late or is a 500: the same request again.
ResendPush(p) ==
    /\ Fails
    /\ p.code # "sent"
    /\ pushes' = (pushes \ {p}) \cup {[p EXCEPT !.code = "sent", !.sid = None]}
    /\ UNCHANGED <<load, listed>>

\* Mutant of LoadFails: the list that has failed is still handled.
LoadFailsHandled ==
    /\ Fails
    /\ load # "idle"
    /\ load' = "idle"
    /\ UNCHANGED <<listed, pushes>>

\* finishInitialLoadCycle after an error.
LoadFails ==
    /\ Fails
    /\ load # "idle"
    /\ load' = "idle"
    /\ listed' = None
    /\ UNCHANGED pushes

-----------------------------------------------------------------------------
(* The backend and the other device                                        *)

Taken(i, n) == \E j \in ServerStatus \ {i} : names[j] = n

InsertStatus(n) ==
    /\ last.status < MaxStatus
    /\ last' = [last EXCEPT !.status = @ + 1]
    /\ names' = [names EXCEPT ![last'.status] = n]
    /\ UNCHANGED placed

UpdateStatus(i, n) ==
    /\ names' = [names EXCEPT ![i] = n]
    /\ UNCHANGED <<placed, last>>

DeleteStatusRow(i) ==
    /\ names' = [names EXCEPT ![i] = None]
    /\ placed' = [t \in ServerTask |->
                     IF placed[t] # None /\ placed[t].status = i THEN None ELSE placed[t]]
    /\ UNCHANGED last

InsertTask(i) ==
    /\ last.task < MaxTask
    /\ last' = [last EXCEPT !.task = @ + 1]
    /\ placed' = [placed EXCEPT ![last'.task] = [status |-> i, old |-> FALSE]]
    /\ UNCHANGED names

UpdateTask(t, i) ==
    /\ placed' = [placed EXCEPT ![t] = [status |-> i, old |-> FALSE]]
    /\ UNCHANGED <<names, last>>

DeleteTaskRow(t) ==
    /\ placed' = [placed EXCEPT ![t] = None]
    /\ UNCHANGED <<names, last>>

HasStatus(i) == i > 0 /\ names[i] # None
HasTask(t) == t > 0 /\ placed[t] # None

Answers(p, code, sid) ==
    pushes' = (pushes \ {p}) \cup {[p EXCEPT !.code = code, !.sid = sid]}

Refuses(p, code) == Answers(p, code, None) /\ UNCHANGED server

\* status/v1: handleCreate, handleEdit, handleDelete.
ServeStatus(p) ==
    \/ /\ p.op = "create"
       /\ \/ Taken(0, p.value) /\ Refuses(p, "duplicate")
          \/ ~Taken(0, p.value) /\ InsertStatus(p.value) /\ Answers(p, "ok", last'.status)
    \/ /\ p.op = "update"
       /\ LET allowed == HasStatus(p.id) /\ ~Taken(p.id, p.value)
          IN  \/ ~allowed /\ Refuses(p, "refused")
              \/ allowed /\ UpdateStatus(p.id, p.value) /\ Answers(p, "ok", p.id)
    \/ /\ p.op = "delete"
       /\ \/ ~HasStatus(p.id) /\ Refuses(p, "refused")
          \/ HasStatus(p.id) /\ DeleteStatusRow(p.id) /\ Answers(p, "ok", p.id)

\* task/v1: handleCreate, handleEdit, handleDelete.
ServeTask(p) ==
    \/ /\ p.op = "create"
       /\ \/ ~HasStatus(p.value) /\ Refuses(p, "refused")
          \/ HasStatus(p.value) /\ InsertTask(p.value) /\ Answers(p, "ok", last'.task)
    \/ /\ p.op = "update"
       /\ LET allowed == HasTask(p.id) /\ HasStatus(p.value)
          IN  \/ ~allowed /\ Refuses(p, "refused")
              \/ allowed /\ UpdateTask(p.id, p.value) /\ Answers(p, "ok", p.id)
    \/ /\ p.op = "delete"
       /\ \/ ~HasTask(p.id) /\ Refuses(p, "refused")
          \/ HasTask(p.id) /\ DeleteTaskRow(p.id) /\ Answers(p, "ok", p.id)

ServePush(p) ==
    /\ p.code = "sent"
    /\ \/ p.entity = "status" /\ ServeStatus(p)
       \/ p.entity = "task" /\ ServeTask(p)
    /\ UNCHANGED <<fk, local, load, listed, steps, failures>>

\* status/v1 and task/v1 handleGetAll: one SELECT each.
ServeStatuses ==
    /\ load = "statuses"
    /\ listed = None
    /\ listed' = names
    /\ UNCHANGED <<fk, local, server, pushes, load, steps, failures>>

ServeTasks ==
    /\ load = "tasks"
    /\ listed = None
    /\ listed' = placed
    /\ UNCHANGED <<fk, local, server, pushes, load, steps, failures>>

\* The user does one thing on another device.
OtherDevice ==
    /\ steps < MaxSteps
    /\ steps' = steps + 1
    /\ \/ \E n \in Name : ~Taken(0, n) /\ InsertStatus(n)
       \/ \E i \in ServerStatus, n \in Name :
            HasStatus(i) /\ ~Taken(i, n) /\ UpdateStatus(i, n)
       \/ \E i \in ServerStatus : HasStatus(i) /\ (DeleteStatusRow(i) \/ InsertTask(i))
       \/ \E t \in ServerTask, i \in ServerStatus :
            HasTask(t) /\ HasStatus(i) /\ UpdateTask(t, i)
       \/ \E t \in ServerTask : HasTask(t) /\ DeleteTaskRow(t)
    /\ UNCHANGED <<fk, local, net, failures>>

Next ==
    \/ \E n \in Name : CreateStatus(n) \/ \E i \in StatusId : RenameStatus(i, n)
    \/ \E i \in StatusId : DeleteStatus(i) \/ OpenTaskCreate(i)
    \/ CreateTask
    \/ \E t \in TaskId : \/ DeleteTask(t) \/ EditTask(t) \/ EditTaskOnScreen(t)
                        \/ \E i \in StatusId : MoveTask(t, i)
    \/ EditBoard
    \/ BoardSynced
    \/ PeriodicSync
    \/ \E p \in pushes : DeliverPush(p) \/ LosePush(p) \/ ResendPush(p) \/ ServePush(p)
    \/ DeliverStatuses
    \/ DeliverTasks
    \/ LoadFails
    \/ ServeStatuses
    \/ ServeTasks
    \/ OtherDevice

\* The requests in flight for one row.
For(entity, i) == {p \in pushes : p.entity = entity /\ p.id = i}

\* The event loop and the timer go on, and a backend that is up answers every
\* row's requests.
Fairness ==
    /\ WF_vars(PeriodicSync)
    /\ WF_vars(BoardSynced)
    /\ WF_vars(ServeStatuses)
    /\ WF_vars(ServeTasks)
    /\ WF_vars(DeliverStatuses)
    /\ WF_vars(DeliverTasks)
    /\ \A i \in StatusId : WF_vars(\E p \in For("status", i) : ServePush(p))
    /\ \A i \in StatusId : WF_vars(\E p \in For("status", i) : DeliverPush(p))
    /\ \A t \in TaskId : WF_vars(\E p \in For("task", t) : ServePush(p))
    /\ \A t \in TaskId : WF_vars(\E p \in For("task", t) : DeliverPush(p))

Spec == Init /\ [][Next]_vars /\ Fairness

-----------------------------------------------------------------------------
(* Properties                                                              *)

\* Every variable keeps to the values the code can give it.
TypeOK ==
    /\ {fk, board, crashed} \subseteq BOOLEAN
    /\ statuses \in [StatusId -> StatusRow \cup {None}]
    /\ tasks \in [TaskId -> TaskRow \cup {None}]
    /\ names \in [ServerStatus -> Name \cup {None}]
    /\ placed \in [ServerTask -> ServedTask \cup {None}]
    /\ last \in [status : 1 .. MaxStatus, task : 1 .. MaxTask]
    /\ pushes \subseteq Push
    /\ <<load, listed>> \in
           {"idle", "statuses", "tasks"} \X {None}
             \cup {"statuses"} \X [ServerStatus -> Name \cup {None}]
             \cup {"tasks"} \X [ServerTask -> ServedTask \cup {None}]
    /\ draft \in StatusId \cup {None}
    /\ steps \in 0 .. MaxSteps
    /\ failures \in 0 .. MaxFailures

\* A row the server has not named is pending with version 0.
UnsentIsPending ==
    /\ \A i \in Rows(statuses) : i < 0 =>
           statuses[i].sync_status = "pending" /\ statuses[i].server_version = 0
    /\ \A t \in Rows(tasks) : t < 0 =>
           tasks[t].sync_status = "pending" /\ tasks[t].server_version = 0

\* The client goes on, no exception having left a slot, and no create in flight
\* waits for an id that the bounds withhold.
GoesOn ==
    /\ ~crashed
    /\ \A p \in pushes : p.code = "sent" /\ p.op = "create" =>
           IF p.entity = "task" THEN last.task < MaxTask ELSE last.status < MaxStatus

\* What the user wrote on the board does not stay pending for ever, except for
\* a status whose name the server has or which the server has dropped, for a
\* task that, or whose column, the server does not have, and for a deletion of
\* what the server does not have: sync sends every pending row with every
\* periodic sync, until handlePushResponse marks it synced or purges it.
EditsSettle ==
    <>[](GoesOn =>
            /\ \A i \in Pending(statuses) :
                 \/ ~statuses[i].deleted /\ Taken(i, statuses[i].name)
                 \/ (i > 0 \/ statuses[i].deleted) /\ ~HasStatus(i)
            /\ \A t \in Pending(tasks) :
                 \/ ~tasks[t].deleted /\ ~HasStatus(tasks[t].status)
                 \/ (t > 0 \/ tasks[t].deleted) /\ ~HasTask(t))

\* What the local tables call synced is, in the end, what the server has, unless
\* the server has dropped it or UNIQUE keeps its name out; and every row of the
\* server arrives, unless its name is in use here or its column did not arrive.
SyncedMeansEqual ==
    <>[](GoesOn =>
            /\ \A i \in ServerStatus : HasStatus(i) /\ NameFree(statuses, i, names[i]) =>
                 \/ i \in Pending(statuses)
                 \/ i \in Rows(statuses) /\ statuses[i].name = names[i]
            /\ \A t \in ServerTask : HasTask(t) /\ placed[t].status \in Rows(statuses) =>
                 \/ t \in Pending(tasks)
                 \/ t \in Rows(tasks) /\ tasks[t].status = placed[t].status)

=============================================================================
