------------------------------- MODULE Handlers -------------------------------
(***************************************************************************)
(* The backend's handlers of boards, statuses and tasks                    *)
(* (backend/src/server/{board,status,task}/v1) over their repositories     *)
(* (backend/repositories) and the PostgreSQL schema                        *)
(* (backend/migrations/init.sql), run by several threads at once.          *)
(*                                                                         *)
(* A repository call is one transaction, so one atomic action; a handler   *)
(* makes several of them and keeps what it read in between.  It holds no   *)
(* connection from one call to the next.  Of the rows only the keys are    *)
(* kept: who owns a board, which board and name a status has, which board  *)
(* and status a task has.  Fields that only hold text are left out, and    *)
(* with them the checks of their length; so are the handlers that only     *)
(* read.                                                                   *)
(***************************************************************************)
EXTENDS Naturals, FiniteSets

CONSTANTS
    Worker,     \* the threads that run io_context::run
    User,       \* whom with_auth lets in
    Name,       \* names of statuses
    Defaults,   \* the names a new board's statuses get
    None,       \* no row, no request, a field that a request does not have
    MaxBoard, MaxStatus, MaxTask  \* bounds: ids the SERIAL columns give out

BoardId == 1 .. MaxBoard
StatusId == 1 .. MaxStatus
TaskId == 1 .. MaxTask

StatusRow == [board : BoardId, name : Name]
TaskRow == [board : BoardId, status : StatusId]

ASSUME BoundAssumption == MaxBoard \in Nat /\ MaxStatus \in Nat /\ MaxTask \in Nat
ASSUME DefaultsAssumption == Defaults \subseteq Name /\ IsFiniteSet(Defaults)

\* A request that has passed with_auth and the checks of its JSON.
Op == {"create_board", "edit_board", "delete_board",
       "create_status", "edit_status", "delete_status",
       "create_task", "edit_task", "delete_task"}

Id == BoardId \cup StatusId \cup TaskId

\* id: the row a request is about, its board when it creates a status or a task.
Request == [op : Op, user : User, id : Id \cup {None},
            status : StatusId \cup {None}, name : Name \cup {None}]

ASSUME NoneAssumption ==
    None \notin User \cup Name \cup Id \cup StatusRow \cup TaskRow \cup Request

\* The requests each route takes.
Requests ==
    [op : {"create_board"}, user : User, id : {None}, status : {None}, name : {None}]
    \cup [op : {"edit_board", "delete_board"}, user : User, id : BoardId,
          status : {None}, name : {None}]
    \cup [op : {"create_status"}, user : User, id : BoardId, status : {None}, name : Name]
    \cup [op : {"edit_status"}, user : User, id : StatusId, status : {None}, name : Name]
    \cup [op : {"delete_status"}, user : User, id : StatusId, status : {None}, name : {None}]
    \cup [op : {"create_task"}, user : User, id : BoardId, status : StatusId, name : {None}]
    \cup [op : {"edit_task"}, user : User, id : TaskId, status : StatusId, name : {None}]
    \cup [op : {"delete_task"}, user : User, id : TaskId, status : {None}, name : {None}]

VARIABLES
    boards,    \* the owner of each board
    statuses,  \* the statuses table
    tasks,     \* the tasks table
    last,      \* the last id each SERIAL column gave out
    request,   \* what each thread is working on
    at,        \* the repository call it makes next, or its last answer
    seen       \* the status or task it has read

tables == <<boards, statuses, tasks, last>>
vars == <<tables, request, at, seen>>

Step == {"target", "board", "status", "name", "write"}
Answer == {"idle", "ok", "refused", "failed"}

Init ==
    /\ boards = [b \in BoardId |-> None]
    /\ statuses = [s \in StatusId |-> None]
    /\ tasks = [t \in TaskId |-> None]
    /\ last = [boards |-> 0, statuses |-> 0, tasks |-> 0]
    /\ request = [w \in Worker |-> None]
    /\ at = [w \in Worker |-> "idle"]
    /\ seen = [w \in Worker |-> None]

-----------------------------------------------------------------------------
(* Reading                                                                 *)

FirstStep(op) ==
    CASE op = "create_board" -> "write"
      [] op \in {"edit_board", "delete_board", "create_status", "create_task"} -> "board"
      [] OTHER -> "target"

\* Mutant of Receive: the parser asks for no id, and the field keeps its 0.
ReceiveWithoutId(w, r) ==
    /\ request[w] = None
    /\ request' = [request EXCEPT ![w] = [r EXCEPT !.id = 0]]
    /\ at' = [at EXCEPT ![w] = FirstStep(r.op)]
    /\ UNCHANGED <<tables, seen>>

\* handleRequest hands a request to its handler.
Receive(w, r) ==
    /\ request[w] = None
    /\ request' = [request EXCEPT ![w] = r]
    /\ at' = [at EXCEPT ![w] = FirstStep(r.op)]
    /\ UNCHANGED <<tables, seen>>

\* The handler returns: 200 or 204, a 4xx, or a 500.
Answers(w, a) ==
    /\ request' = [request EXCEPT ![w] = None]
    /\ at' = [at EXCEPT ![w] = a]
    /\ seen' = [seen EXCEPT ![w] = None]

Refuses(w) == Answers(w, "refused") /\ UNCHANGED tables

Goes(w, step) ==
    /\ at' = [at EXCEPT ![w] = step]
    /\ UNCHANGED <<tables, request, seen>>

\* find_by_id of the status or the task a request is about, or 404.
FindTarget(w, table) ==
    LET row == table[request[w].id]
    IN  /\ at[w] = "target"
        /\ \/ row = None /\ Refuses(w)
           \/ /\ row # None
              /\ seen' = [seen EXCEPT ![w] = row]
              /\ at' = [at EXCEPT ![w] = "board"]
              /\ UNCHANGED <<tables, request>>

\* Mutant of FindBoard: the owner is not compared.
FindBoardUnowned(w, b, step) ==
    /\ at[w] = "board"
    /\ \/ boards[b] = None /\ Refuses(w)
       \/ boards[b] # None /\ Goes(w, step)

\* find_by_id of a board: 404 without it, 403 when it is another user's.
FindBoard(w, b, step) ==
    /\ at[w] = "board"
    /\ \/ boards[b] # request[w].user /\ Refuses(w)
       \/ boards[b] = request[w].user /\ Goes(w, step)

\* Mutant of FindStatus: any status will do.
FindStatusAnywhere(w, b) ==
    LET row == statuses[request[w].status]
    IN  /\ at[w] = "status"
        /\ \/ row = None /\ Refuses(w)
           \/ row # None /\ Goes(w, "write")

\* find_by_id of the status a task is to get: 404 without it, 400 when it is
\* not of the task's board.
FindStatus(w, b) ==
    LET row == statuses[request[w].status]
        suits == row # None /\ row.board = b
    IN  /\ at[w] = "status"
        /\ \/ ~suits /\ Refuses(w)
           \/ suits /\ Goes(w, "write")

Named(b, n) == {s \in StatusId : statuses[s] # None /\ statuses[s].board = b
                                                   /\ statuses[s].name = n}

\* find_by_board_and_name: a conflict when another status has the name.
FindName(w, b, self) ==
    /\ at[w] = "name"
    /\ \/ Named(b, request[w].name) \ self # {} /\ Refuses(w)
       \/ Named(b, request[w].name) \ self = {} /\ Goes(w, "write")

-----------------------------------------------------------------------------
(* Writing                                                                 *)

\* The transaction is committed, and the handler told so, unless the
\* connection breaks before the answer to COMMIT.
Commits(w) == \E a \in {"ok", "failed"} : Answers(w, a)

\* PostgreSQL refuses the statement, or the handler finds that it changed
\* nothing: save() throws.
Throws(w) == Answers(w, "failed") /\ UNCHANGED tables

\* BoardRepository::insert: the board and its first statuses.
InsertBoard(w) ==
    LET b == last.boards + 1
        ids == last.statuses + 1 .. last.statuses + Cardinality(Defaults)
    IN  /\ at[w] = "write"
        /\ b \in BoardId /\ ids \subseteq StatusId
        /\ boards' = [boards EXCEPT ![b] = request[w].user]
        /\ \E name \in [ids -> Defaults] :
             /\ \A n \in Defaults : \E s \in ids : name[s] = n
             /\ \A s, z \in ids : name[s] = name[z] => s = z
             /\ statuses' = [s \in StatusId |-> IF s \in ids
                                                THEN [board |-> b, name |-> name[s]]
                                                ELSE statuses[s]]
        /\ last' = [last EXCEPT !.boards = b, !.statuses = @ + Cardinality(Defaults)]
        /\ UNCHANGED tasks
        /\ Commits(w)

\* BoardRepository::update writes the owner it read along with the text.
UpdateBoard(w, b) ==
    /\ at[w] = "write"
    /\ \/ boards[b] = None /\ Throws(w)
       \/ /\ boards[b] # None
          /\ boards' = [boards EXCEPT ![b] = request[w].user]
          /\ UNCHANGED <<statuses, tasks, last>>
          /\ Commits(w)

\* BoardRepository::delete_by_id, with the schema's ON DELETE CASCADE.
DeleteBoardRow(w, b) ==
    /\ at[w] = "write"
    /\ \/ boards[b] = None /\ Refuses(w)
       \/ /\ boards[b] # None
          /\ boards' = [boards EXCEPT ![b] = None]
          /\ statuses' = [s \in StatusId |->
                 IF statuses[s] # None /\ statuses[s].board = b THEN None ELSE statuses[s]]
          /\ tasks' = [t \in TaskId |->
                 IF tasks[t] # None /\ (\/ tasks[t].board = b
                                        \/ statuses[tasks[t].status].board = b)
                 THEN None ELSE tasks[t]]
          /\ UNCHANGED last
          /\ Commits(w)

\* StatusRepository::insert, under the foreign key and the unique constraint.
\* (A refused INSERT takes an id too; the gap is left out.)
InsertStatus(w, b, n) ==
    LET s == last.statuses + 1
        allowed == boards[b] # None /\ Named(b, n) = {}
    IN  /\ at[w] = "write"
        /\ s \in StatusId
        /\ \/ ~allowed /\ Throws(w)
           \/ /\ allowed
              /\ statuses' = [statuses EXCEPT ![s] = [board |-> b, name |-> n]]
              /\ last' = [last EXCEPT !.statuses = s]
              /\ UNCHANGED <<boards, tasks>>
              /\ Commits(w)

\* Mutant of UpdateStatus: the table has no UNIQUE (board_id, name).
UpdateStatusUnchecked(w, s, n) ==
    LET row == statuses[s]
    IN  /\ at[w] = "write"
        /\ \/ row = None /\ Throws(w)
           \/ /\ row # None
              /\ statuses' = [statuses EXCEPT ![s] = [row EXCEPT !.name = n]]
              /\ UNCHANGED <<boards, tasks, last>>
              /\ Commits(w)

\* StatusRepository::update: the name, under the unique constraint.
UpdateStatus(w, s, n) ==
    LET row == statuses[s]
        allowed == row # None /\ Named(row.board, n) \subseteq {s}
    IN  /\ at[w] = "write"
        /\ \/ ~allowed /\ Throws(w)
           \/ /\ allowed
              /\ statuses' = [statuses EXCEPT ![s] = [row EXCEPT !.name = n]]
              /\ UNCHANGED <<boards, tasks, last>>
              /\ Commits(w)

\* Mutant of DeleteStatusRow: the handler does not ask whether a row went.
DeleteStatusAnyway(w, s) ==
    /\ at[w] = "write"
    /\ statuses' = [statuses EXCEPT ![s] = None]
    /\ tasks' = [t \in TaskId |-> IF tasks[t] # None /\ tasks[t].status = s
                                  THEN None ELSE tasks[t]]
    /\ UNCHANGED <<boards, last>>
    /\ Commits(w)

\* StatusRepository::delete_by_id, with its tasks; 404 when it was gone.
DeleteStatusRow(w, s) ==
    /\ at[w] = "write"
    /\ \/ statuses[s] = None /\ Refuses(w)
       \/ /\ statuses[s] # None
          /\ statuses' = [statuses EXCEPT ![s] = None]
          /\ tasks' = [t \in TaskId |-> IF tasks[t] # None /\ tasks[t].status = s
                                        THEN None ELSE tasks[t]]
          /\ UNCHANGED <<boards, last>>
          /\ Commits(w)

\* TaskRepository::insert, under both foreign keys.
InsertTask(w, b, s) ==
    LET t == last.tasks + 1
        allowed == boards[b] # None /\ statuses[s] # None
    IN  /\ at[w] = "write"
        /\ t \in TaskId
        /\ \/ ~allowed /\ Throws(w)
           \/ /\ allowed
              /\ tasks' = [tasks EXCEPT ![t] = [board |-> b, status |-> s]]
              /\ last' = [last EXCEPT !.tasks = t]
              /\ UNCHANGED <<boards, statuses>>
              /\ Commits(w)

\* Mutant of UpdateTask: INSERT ... ON CONFLICT DO UPDATE.
UpsertTask(w, t, s) ==
    /\ at[w] = "write"
    /\ \/ statuses[s] = None /\ Throws(w)
       \/ /\ statuses[s] # None
          /\ tasks' = [tasks EXCEPT ![t] = [board |-> seen[w].board, status |-> s]]
          /\ UNCHANGED <<boards, statuses, last>>
          /\ Commits(w)

\* TaskRepository::update does not ask whether the row was still there.
UpdateTask(w, t, s) ==
    /\ at[w] = "write"
    /\ \/ tasks[t] = None /\ UNCHANGED tables /\ Commits(w)
       \/ tasks[t] # None /\ statuses[s] = None /\ Throws(w)
       \/ /\ tasks[t] # None /\ statuses[s] # None
          /\ tasks' = [tasks EXCEPT ![t] = [board |-> seen[w].board, status |-> s]]
          /\ UNCHANGED <<boards, statuses, last>>
          /\ Commits(w)

\* TaskRepository::delete_by_id; 404 when it was gone.
DeleteTaskRow(w, t) ==
    /\ at[w] = "write"
    /\ \/ tasks[t] = None /\ Refuses(w)
       \/ /\ tasks[t] # None
          /\ tasks' = [tasks EXCEPT ![t] = None]
          /\ UNCHANGED <<boards, statuses, last>>
          /\ Commits(w)

-----------------------------------------------------------------------------
(* The handlers                                                            *)

Handling(w, op) == request[w] # None /\ request[w].op = op

CreateBoard(w) == Handling(w, "create_board") /\ InsertBoard(w)

EditBoard(w) ==
    /\ Handling(w, "edit_board")
    /\ \/ FindBoard(w, request[w].id, "write")
       \/ UpdateBoard(w, request[w].id)

DeleteBoard(w) ==
    /\ Handling(w, "delete_board")
    /\ \/ FindBoard(w, request[w].id, "write")
       \/ DeleteBoardRow(w, request[w].id)

CreateStatus(w) ==
    /\ Handling(w, "create_status")
    /\ \/ FindBoard(w, request[w].id, "name")
       \/ FindName(w, request[w].id, {})
       \/ InsertStatus(w, request[w].id, request[w].name)

EditStatus(w) ==
    /\ Handling(w, "edit_status")
    /\ \/ FindTarget(w, statuses)
       \/ FindBoard(w, seen[w].board, "name")
       \/ FindName(w, seen[w].board, {request[w].id})
       \/ UpdateStatus(w, request[w].id, request[w].name)

DeleteStatus(w) ==
    /\ Handling(w, "delete_status")
    /\ \/ FindTarget(w, statuses)
       \/ FindBoard(w, seen[w].board, "write")
       \/ DeleteStatusRow(w, request[w].id)

CreateTask(w) ==
    /\ Handling(w, "create_task")
    /\ \/ FindBoard(w, request[w].id, "status")
       \/ FindStatus(w, request[w].id)
       \/ InsertTask(w, request[w].id, request[w].status)

EditTask(w) ==
    /\ Handling(w, "edit_task")
    /\ \/ FindTarget(w, tasks)
       \/ FindBoard(w, seen[w].board, "status")
       \/ FindStatus(w, seen[w].board)
       \/ UpdateTask(w, request[w].id, request[w].status)

DeleteTask(w) ==
    /\ Handling(w, "delete_task")
    /\ \/ FindTarget(w, tasks)
       \/ FindBoard(w, seen[w].board, "write")
       \/ DeleteTaskRow(w, request[w].id)

\* A connection cannot be had or breaks: the handler's catch clause answers 500.
DatabaseFails(w) == request[w] # None /\ Throws(w)

Handle(w) ==
    \/ CreateBoard(w) \/ EditBoard(w) \/ DeleteBoard(w)
    \/ CreateStatus(w) \/ EditStatus(w) \/ DeleteStatus(w)
    \/ CreateTask(w) \/ EditTask(w) \/ DeleteTask(w)
    \/ DatabaseFails(w)

Next == \E w \in Worker : (\E r \in Requests : Receive(w, r)) \/ Handle(w)

Spec == Init /\ [][Next]_vars

-----------------------------------------------------------------------------
(* Properties                                                              *)

\* Every variable keeps to its values: the rows to the columns of init.sql, a
\* thread to the calls its handler makes.
TypeOK ==
    /\ boards \in [BoardId -> User \cup {None}]
    /\ statuses \in [StatusId -> StatusRow \cup {None}]
    /\ tasks \in [TaskId -> TaskRow \cup {None}]
    /\ last \in [boards : 0 .. MaxBoard, statuses : 0 .. MaxStatus, tasks : 0 .. MaxTask]
    /\ request \in [Worker -> Requests \cup {None}]
    /\ at \in [Worker -> Step \cup Answer]
    /\ seen \in [Worker -> StatusRow \cup TaskRow \cup {None}]

\* A task is always in a status of its own board, and both exist.  No foreign
\* key says the first: only the handlers' checks do, each in a transaction
\* before the one that writes (task/v1/create.cpp, edit.cpp), while boards and
\* statuses are deleted in between.
TasksOnTheirBoards ==
    \A t \in TaskId : tasks[t] # None =>
        /\ boards[tasks[t].board] # None
        /\ statuses[tasks[t].status] # None
        /\ statuses[tasks[t].status].board = tasks[t].board

\* No board has two statuses of one name, and no status is left without its
\* board, although two handlers may look a name up, both find it free and
\* both go on to write it (status/v1/create.cpp, edit.cpp).
NamesUnique ==
    \A s \in StatusId : statuses[s] # None =>
        /\ boards[statuses[s].board] # None
        /\ Named(statuses[s].board, statuses[s].name) = {s}

\* All that belongs to a board.
Tree(b) ==
    [owner |-> boards[b],
     statuses |-> {s \in StatusId : statuses[s] # None /\ statuses[s].board = b},
     names |-> {n \in Name : Named(b, n) # {}},
     tasks |-> {<<t, tasks[t].status>> : t \in
                  {u \in TaskId : tasks[u] # None /\ tasks[u].board = b}}]

\* A request never changes anything of a board that is not its user's at that
\* very moment, although the owner was looked up transactions earlier (the
\* RESOURCE_NOT_OWNED checks of every handler).
OwnersOnly ==
    [][\A w \in Worker, b \in BoardId :
          request[w] # None /\ at'[w] # at[w] /\ Tree(b)' # Tree(b) =>
              request[w].user = IF boards[b] = None THEN boards'[b] ELSE boards[b]]_vars

Answered(w, op) == Handling(w, op) /\ request'[w] = None /\ at'[w] = "ok"

\* Of several requests to delete one row exactly one is answered 204, and a
\* status is only reported as edited when it exists under its new name
\* (delete_by_id's RETURNING, StatusRepository::update's r.empty()).
SuccessIsReal ==
    [][\A w \in Worker :
          LET id == request[w].id
          IN  /\ Answered(w, "delete_board") => boards[id] # None /\ boards'[id] = None
              /\ Answered(w, "delete_status") => statuses[id] # None /\ statuses'[id] = None
              /\ Answered(w, "delete_task") => tasks[id] # None /\ tasks'[id] = None
              /\ Answered(w, "edit_board") => boards'[id] # None
              /\ Answered(w, "edit_status") =>
                     statuses'[id] # None /\ statuses'[id].name = request[w].name]_vars

\* A task is there when its PATCH is answered with 200, unless the status it
\* was put into is gone as well.  Where no task is deleted by itself, either
\* the PATCH comes before the delete of the old status and saves the task, or
\* after it and is answered 404 (TASK_NOT_FOUND in docs/API.md).
MovedTaskExists ==
    [][\A w \in Worker : Answered(w, "edit_task") =>
          tasks'[request[w].id] # None \/ statuses[request[w].status] = None]_vars

\* The tree the tables hold, what callers know, and the ids given out so far.
Column == [t \in TaskId |-> IF tasks[t] = None THEN None ELSE tasks[t].status]
Given == [boards |-> 1 .. last.boards, statuses |-> 1 .. last.statuses,
          tasks |-> 1 .. last.tasks]
LastAnswer == [w \in Worker |-> IF at[w] \in Answer THEN at[w] ELSE "busy"]

\* The handlers keep BoardStore's promise: however their transactions interleave,
\* every request has its effect at one moment, and has the right to it then.
Store == INSTANCE BoardStore WITH
    Caller <- Worker, column <- Column, given <- Given, answer <- LastAnswer
ImplementsStore == Store!Spec

=============================================================================
