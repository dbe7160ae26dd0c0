---------------------------- MODULE Handlers_proof ----------------------------
(***************************************************************************)
(* Proofs about Handlers.  What a handler read in one transaction may be   *)
(* gone when it writes in another, but what of it the checks rely on never *)
(* changes while the row exists: a board keeps its owner, a status and a   *)
(* task keep their board, and an id that is gone is not given out again.   *)
(* JobOK says so of every thread, Grows of every step.                     *)
(***************************************************************************)
EXTENDS Handlers, TLAPS, FiniteSetTheorems

OnBoard == {"edit_board", "delete_board", "create_status", "create_task"}
OnStatus == {"edit_status", "delete_status"}
OnTask == {"edit_task", "delete_task"}
SetsStatus == {"create_task", "edit_task"}

\* The board whose owner the handler of w asks for.
BoardOf(w) == IF request[w].op \in OnBoard THEN request[w].id ELSE seen[w].board

\* Ids that have not been given out are not in use.
Fresh ==
    /\ \A b \in BoardId : b > last.boards => boards[b] = None
    /\ \A s \in StatusId : s > last.statuses => statuses[s] = None
    /\ \A t \in TaskId : t > last.tasks => tasks[t] = None

\* What w has read of its status or task still holds if the row exists.
TargetOK(w) ==
    /\ request[w].op \in OnStatus =>
         /\ seen[w] \in StatusRow
         /\ request[w].id <= last.statuses
         /\ seen[w].board <= last.boards
         /\ statuses[request[w].id] # None =>
              statuses[request[w].id].board = seen[w].board
    /\ request[w].op \in OnTask =>
         /\ seen[w] \in TaskRow
         /\ request[w].id <= last.tasks
         /\ seen[w].board <= last.boards
         /\ tasks[request[w].id] # None => tasks[request[w].id].board = seen[w].board

OwnerOK(w) ==
    /\ BoardOf(w) \in BoardId
    /\ BoardOf(w) <= last.boards
    /\ boards[BoardOf(w)] \in {None, request[w].user}

StatusOK(w) ==
    /\ request[w].status <= last.statuses
    /\ statuses[request[w].status] # None =>
         statuses[request[w].status].board = BoardOf(w)

JobOK(w) ==
    request[w] # None =>
        /\ at[w] # "target" => TargetOK(w)
        /\ at[w] \in {"name", "status", "write"} /\ request[w].op # "create_board" => OwnerOK(w)
        /\ at[w] = "write" /\ request[w].op \in SetsStatus => StatusOK(w)

TablesTyped ==
    /\ boards \in [BoardId -> User \cup {None}]
    /\ statuses \in [StatusId -> StatusRow \cup {None}]
    /\ tasks \in [TaskId -> TaskRow \cup {None}]
    /\ last \in [boards : 0 .. MaxBoard, statuses : 0 .. MaxStatus, tasks : 0 .. MaxTask]

JobsTyped ==
    /\ request \in [Worker -> Requests \cup {None}]
    /\ at \in [Worker -> Step \cup Answer]
    /\ seen \in [Worker -> StatusRow \cup TaskRow \cup {None}]

TablesOK == TablesTyped /\ Fresh /\ TasksOnTheirBoards /\ NamesUnique

IInv == TablesOK /\ JobsTyped /\ \A w \in Worker : JobOK(w)

\* What no step does to a row whose id has been given out.
Grows ==
    /\ last.boards <= last'.boards
    /\ last.statuses <= last'.statuses
    /\ last.tasks <= last'.tasks
    /\ \A b \in BoardId : b <= last.boards => boards'[b] \in {None, boards[b]}
    /\ \A s \in StatusId : s <= last.statuses /\ statuses'[s] # None =>
          statuses[s] # None /\ statuses'[s].board = statuses[s].board
    /\ \A t \in TaskId : t <= last.tasks /\ tasks'[t] # None =>
          tasks[t] # None /\ tasks'[t].board = tasks[t].board

Returns(w) == \E a \in Answer : Answers(w, a)

-----------------------------------------------------------------------------

LEMMA RequestFields ==
    ASSUME NEW r \in Requests
    PROVE  /\ r \in Request /\ r # None
           /\ r.user \in User
           /\ r.op \in OnBoard => r.id \in BoardId
           /\ r.op \in OnStatus => r.id \in StatusId
           /\ r.op \in OnTask => r.id \in TaskId
           /\ r.op \in SetsStatus => r.status \in StatusId
           /\ r.op \in {"create_status", "edit_status"} => r.name \in Name
<1>1. r \in Request
  BY DEF Requests, Request, Op, Id
<1>2. r # None
  BY <1>1, NoneAssumption
<1>3. QED
  BY <1>1, <1>2 DEF Requests, Request, OnBoard, OnStatus, OnTask, SetsStatus

\* No row of a table is None.
LEMMA RowsAreNotNone ==
    /\ \A u \in User : u # None
    /\ \A row \in StatusRow : row # None
    /\ \A row \in TaskRow : row # None
  BY NoneAssumption

LEMMA TypeSplit == TypeOK <=> TablesTyped /\ JobsTyped
  BY DEF TypeOK, TablesTyped, JobsTyped

LEMMA InitIInv == Init => IInv
<1> SUFFICES ASSUME Init PROVE IInv
  OBVIOUS
<1>1. TablesTyped
  BY BoundAssumption DEF Init, TablesTyped
<1>2. Fresh /\ TasksOnTheirBoards /\ NamesUnique
  BY DEF Init, Fresh, TasksOnTheirBoards, NamesUnique
<1>3. JobsTyped
  BY DEF Init, JobsTyped, Answer
<1>4. \A w \in Worker : JobOK(w)
  BY DEF Init, JobOK
<1>5. QED
  BY <1>1, <1>2, <1>3, <1>4 DEF IInv, TablesOK

\* A thread that does not move keeps its invariant whatever the others write.
LEMMA JobKept ==
    ASSUME IInv, NEW w \in Worker, Grows, TablesTyped',
           request'[w] = request[w], at'[w] = at[w], seen'[w] = seen[w]
    PROVE  JobOK(w)'
<1> SUFFICES ASSUME request[w] # None PROVE JobOK(w)'
  BY DEF JobOK
<1>1. request[w] \in Requests
  BY DEF IInv, JobsTyped
<1>2. JobOK(w)
  BY DEF IInv
<1>3. /\ last.boards \in Nat /\ last'.boards \in Nat /\ last.boards <= last'.boards
      /\ last.statuses \in Nat /\ last'.statuses \in Nat /\ last.statuses <= last'.statuses
      /\ last.tasks \in Nat /\ last'.tasks \in Nat /\ last.tasks <= last'.tasks
  BY BoundAssumption DEF IInv, TablesOK, TablesTyped, Grows
<1>4. BoardOf(w)' = BoardOf(w)
  BY DEF BoardOf
<1>5. ASSUME TargetOK(w) PROVE TargetOK(w)'
  <2>1. CASE request[w].op \in OnStatus
    <3>1. /\ request[w].id \in StatusId /\ request[w].id \in Nat
          /\ seen[w].board \in BoardId /\ seen[w].board \in Nat
      BY <1>1, <1>5, <2>1, RequestFields, BoundAssumption
         DEF TargetOK, StatusRow, StatusId, BoardId
    <3>2. request[w].op \notin OnTask
      BY <2>1 DEF OnStatus, OnTask
    <3>3. QED
      BY <1>3, <1>5, <2>1, <3>1, <3>2 DEF TargetOK, Grows
  <2>2. CASE request[w].op \in OnTask
    <3>1. /\ request[w].id \in TaskId /\ request[w].id \in Nat
          /\ seen[w].board \in BoardId /\ seen[w].board \in Nat
      BY <1>1, <1>5, <2>2, RequestFields, BoundAssumption
         DEF TargetOK, TaskRow, TaskId, BoardId
    <3>2. request[w].op \notin OnStatus
      BY <2>2 DEF OnStatus, OnTask
    <3>3. QED
      BY <1>3, <1>5, <2>2, <3>1, <3>2 DEF TargetOK, Grows
  <2>3. QED
    BY <2>1, <2>2 DEF TargetOK
<1>6. ASSUME OwnerOK(w) PROVE OwnerOK(w)'
  <2>1. BoardOf(w) \in Nat
    BY <1>6, BoundAssumption DEF OwnerOK, BoardId
  <2>2. QED
    BY <1>3, <1>4, <1>6, <2>1 DEF OwnerOK, Grows
<1>7. ASSUME StatusOK(w), request[w].op \in SetsStatus PROVE StatusOK(w)'
  <2>1. request[w].status \in StatusId /\ request[w].status \in Nat
    BY <1>1, <1>7, RequestFields, BoundAssumption DEF StatusId
  <2>2. QED
    BY <1>3, <1>4, <1>7, <2>1 DEF StatusOK, Grows
<1>8. QED
  BY <1>2, <1>5, <1>6, <1>7 DEF JobOK

\* A handler that returns leaves its thread free and the others alone.
LEMMA ReturningKeeps ==
    ASSUME IInv, NEW w \in Worker, Returns(w), Grows, TablesOK'
    PROVE  IInv'
<1>1. JobsTyped'
  BY DEF IInv, JobsTyped, Returns, Answers
<1>2. ASSUME NEW v \in Worker, v # w PROVE JobOK(v)'
  <2>1. request'[v] = request[v] /\ at'[v] = at[v] /\ seen'[v] = seen[v]
    BY <1>2 DEF Returns, Answers, IInv, JobsTyped
  <2>2. QED
    BY <2>1, JobKept DEF TablesOK
<1>3. request'[w] = None
  BY DEF Returns, Answers, IInv, JobsTyped
<1>4. JobOK(w)'
  BY <1>3 DEF JobOK
<1>5. QED
  BY <1>1, <1>2, <1>4 DEF IInv

LEMMA NothingGrows ==
    ASSUME IInv, UNCHANGED tables
    PROVE  Grows /\ TablesOK'
<1>1. TablesOK'
  BY DEF IInv, TablesOK, TablesTyped, Fresh, TasksOnTheirBoards, NamesUnique, Named, tables
<1>2. /\ last.boards \in Nat /\ last.statuses \in Nat /\ last.tasks \in Nat
  BY BoundAssumption DEF IInv, TablesOK, TablesTyped
<1>3. Grows
  BY <1>2 DEF Grows, tables
<1>4. QED
  BY <1>1, <1>3

\* A thread that goes on to its next call with its invariant.
LEMMA MovingKeeps ==
    ASSUME IInv, NEW w \in Worker, UNCHANGED tables, JobsTyped', JobOK(w)',
           \A v \in Worker \ {w} :
               request'[v] = request[v] /\ at'[v] = at[v] /\ seen'[v] = seen[v]
    PROVE  IInv'
<1>1. Grows /\ TablesOK'
  BY NothingGrows
<1>2. \A v \in Worker \ {w} : JobOK(v)'
  BY <1>1, JobKept DEF TablesOK
<1>3. QED
  BY <1>1, <1>2 DEF IInv

LEMMA RefusingKeeps ==
    ASSUME IInv, NEW w \in Worker, Refuses(w) \/ Throws(w)
    PROVE  IInv'
<1>1. Returns(w) /\ UNCHANGED tables
  BY DEF Refuses, Throws, Returns, Answer
<1>2. QED
  BY <1>1, NothingGrows, ReturningKeeps

-----------------------------------------------------------------------------
(* Reading                                                                 *)

\* Facts about the thread that is on its way.
LEMMA Busy ==
    ASSUME IInv, NEW w \in Worker, request[w] # None
    PROVE  /\ request[w] \in Requests /\ request[w] \in Request
           /\ request[w].user \in User
           /\ request[w].op \in OnBoard => request[w].id \in BoardId
           /\ request[w].op \in OnStatus => request[w].id \in StatusId
           /\ request[w].op \in OnTask => request[w].id \in TaskId
           /\ request[w].op \in SetsStatus => request[w].status \in StatusId
           /\ request[w].op \in {"create_status", "edit_status"} => request[w].name \in Name
           /\ JobOK(w)
<1>1. request[w] \in Requests /\ JobOK(w)
  BY DEF IInv, JobsTyped
<1>2. QED
  BY <1>1, RequestFields

LEMMA ReceiveKeeps ==
    ASSUME IInv, NEW w \in Worker, NEW r \in Requests, Receive(w, r)
    PROVE  IInv'
<1>1. UNCHANGED tables
  BY DEF Receive
<1>2. FirstStep(r.op) \in {"write", "board", "target"}
  BY RequestFields DEF FirstStep, Request, Op
<1>3. /\ FirstStep(r.op) = "write" => r.op = "create_board"
      /\ FirstStep(r.op) = "board" => r.op \in OnBoard
  BY RequestFields DEF FirstStep, Request, Op, OnBoard
<1>4. JobsTyped'
  BY <1>2 DEF Receive, IInv, JobsTyped, Step
<1>5. request'[w] = r /\ at'[w] = FirstStep(r.op)
  BY DEF Receive, IInv, JobsTyped
<1>6. JobOK(w)'
  BY <1>2, <1>3, <1>5 DEF JobOK, TargetOK, OnStatus, OnTask, OnBoard, SetsStatus
<1>7. \A v \in Worker \ {w} :
         request'[v] = request[v] /\ at'[v] = at[v] /\ seen'[v] = seen[v]
  BY DEF Receive, IInv, JobsTyped
<1>8. QED
  BY <1>1, <1>4, <1>6, <1>7, MovingKeeps

LEMMA FindStatusTargetKeeps ==
    ASSUME IInv, NEW w \in Worker, request[w] # None, request[w].op \in OnStatus,
           FindTarget(w, statuses)
    PROVE  IInv'
<1> DEFINE row == statuses[request[w].id]
<1>1. CASE row = None
  BY <1>1, RefusingKeeps DEF FindTarget
<1>2. CASE row # None
  <2>1. /\ seen' = [seen EXCEPT ![w] = row] /\ at' = [at EXCEPT ![w] = "board"]
        /\ UNCHANGED <<tables, request>>
    BY <1>2 DEF FindTarget, Refuses
  <2>2. request[w].id \in StatusId
    BY Busy
  <2>3. row \in StatusRow
    BY <1>2, <2>2 DEF IInv, TablesOK, TablesTyped
  <2>4. JobsTyped'
    BY <2>1, <2>3 DEF IInv, JobsTyped, Step
  <2>5. \A v \in Worker \ {w} :
           request'[v] = request[v] /\ at'[v] = at[v] /\ seen'[v] = seen[v]
    BY <2>1 DEF IInv, JobsTyped
  <2>6. request[w].id <= last.statuses
    BY <1>2, <2>2, BoundAssumption DEF IInv, TablesOK, TablesTyped, Fresh, StatusId
  <2>7. row.board \in BoardId /\ boards[row.board] # None
    BY <1>2, <2>2, <2>3 DEF IInv, TablesOK, NamesUnique, StatusRow
  <2>8. row.board <= last.boards
    BY <2>7, BoundAssumption DEF IInv, TablesOK, TablesTyped, Fresh, BoardId
  <2>9. seen'[w] = row /\ at'[w] = "board"
    BY <2>1 DEF IInv, JobsTyped
  <2>10. TargetOK(w)'
    BY <2>1, <2>3, <2>6, <2>8, <2>9 DEF TargetOK, OnStatus, OnTask, tables
  <2>11. JobOK(w)'
    BY <2>9, <2>10 DEF JobOK
  <2>12. QED
    BY <2>1, <2>4, <2>5, <2>11, MovingKeeps
<1>3. QED
  BY <1>1, <1>2

LEMMA FindTaskTargetKeeps ==
    ASSUME IInv, NEW w \in Worker, request[w] # None, request[w].op \in OnTask,
           FindTarget(w, tasks)
    PROVE  IInv'
<1> DEFINE row == tasks[request[w].id]
<1>1. CASE row = None
  BY <1>1, RefusingKeeps DEF FindTarget
<1>2. CASE row # None
  <2>1. /\ seen' = [seen EXCEPT ![w] = row] /\ at' = [at EXCEPT ![w] = "board"]
        /\ UNCHANGED <<tables, request>>
    BY <1>2 DEF FindTarget, Refuses
  <2>2. request[w].id \in TaskId
    BY Busy
  <2>3. row \in TaskRow
    BY <1>2, <2>2 DEF IInv, TablesOK, TablesTyped
  <2>4. JobsTyped'
    BY <2>1, <2>3 DEF IInv, JobsTyped, Step
  <2>5. \A v \in Worker \ {w} :
           request'[v] = request[v] /\ at'[v] = at[v] /\ seen'[v] = seen[v]
    BY <2>1 DEF IInv, JobsTyped
  <2>6. request[w].id <= last.tasks
    BY <1>2, <2>2, BoundAssumption DEF IInv, TablesOK, TablesTyped, Fresh, TaskId
  <2>7. row.board \in BoardId /\ boards[row.board] # None
    BY <1>2, <2>2, <2>3 DEF IInv, TablesOK, TasksOnTheirBoards, TaskRow
  <2>8. row.board <= last.boards
    BY <2>7, BoundAssumption DEF IInv, TablesOK, TablesTyped, Fresh, BoardId
  <2>9. seen'[w] = row /\ at'[w] = "board"
    BY <2>1 DEF IInv, JobsTyped
  <2>10. TargetOK(w)'
    BY <2>1, <2>3, <2>6, <2>8, <2>9 DEF TargetOK, OnStatus, OnTask, tables
  <2>11. JobOK(w)'
    BY <2>9, <2>10 DEF JobOK
  <2>12. QED
    BY <2>1, <2>4, <2>5, <2>11, MovingKeeps
<1>3. QED
  BY <1>1, <1>2

\* The checks that come after the target has been read: they end the request or
\* lead to a later call.
LEMMA GoingKeeps ==
    ASSUME IInv, NEW w \in Worker, request[w] # None, at[w] # "target",
           NEW step \in {"name", "status", "write"}, Goes(w, step), OwnerOK(w),
           step = "write" /\ request[w].op \in SetsStatus => StatusOK(w)
    PROVE  IInv'
<1>1. /\ at' = [at EXCEPT ![w] = step] /\ UNCHANGED tables
      /\ request' = request /\ seen' = seen
  BY DEF Goes
<1>2. JobsTyped'
  BY <1>1 DEF IInv, JobsTyped, Step
<1>3. \A v \in Worker \ {w} :
         request'[v] = request[v] /\ at'[v] = at[v] /\ seen'[v] = seen[v]
  BY <1>1 DEF IInv, JobsTyped
<1>4. at'[w] = step
  BY <1>1 DEF IInv, JobsTyped
<1>5. TargetOK(w)
  BY DEF IInv, JobOK
<1>6. /\ TargetOK(w) => TargetOK(w)'
      /\ OwnerOK(w) => OwnerOK(w)'
      /\ StatusOK(w) => StatusOK(w)'
  BY <1>1 DEF TargetOK, OwnerOK, StatusOK, BoardOf, tables
<1>7. JobOK(w)'
  BY <1>1, <1>4, <1>5, <1>6 DEF JobOK
<1>8. QED
  BY <1>1, <1>2, <1>3, <1>7, MovingKeeps

LEMMA FindBoardKeeps ==
    ASSUME IInv, NEW w \in Worker, request[w] # None,
           request[w].op \in OnBoard \cup OnStatus \cup OnTask,
           NEW step \in {"name", "status", "write"},
           step = "write" => request[w].op \notin SetsStatus,
           FindBoard(w, BoardOf(w), step)
    PROVE  IInv'
<1>1. CASE boards[BoardOf(w)] # request[w].user
  BY <1>1, RefusingKeeps DEF FindBoard
<1>2. CASE boards[BoardOf(w)] = request[w].user
  <2>1. at[w] = "board" /\ Goes(w, step)
    BY <1>2 DEF FindBoard
  <2>2. TargetOK(w)
    BY <2>1 DEF IInv, JobOK
  <2>3. BoardOf(w) \in BoardId
    BY <2>2, Busy DEF BoardOf, TargetOK, StatusRow, TaskRow
  <2>4. boards[BoardOf(w)] # None
    BY <1>2, Busy, RowsAreNotNone
  <2>5. BoardOf(w) <= last.boards
    BY <2>3, <2>4, BoundAssumption DEF IInv, TablesOK, TablesTyped, Fresh, BoardId
  <2>6. OwnerOK(w)
    BY <1>2, <2>3, <2>5 DEF OwnerOK
  <2>7. QED
    BY <2>1, <2>6, GoingKeeps
<1>3. QED
  BY <1>1, <1>2

LEMMA FindStatusKeeps ==
    ASSUME IInv, NEW w \in Worker, request[w] # None, request[w].op \in SetsStatus,
           FindStatus(w, BoardOf(w))
    PROVE  IInv'
<1> DEFINE row == statuses[request[w].status]
<1>1. CASE ~(row # None /\ row.board = BoardOf(w))
  BY <1>1, RefusingKeeps DEF FindStatus
<1>2. CASE row # None /\ row.board = BoardOf(w)
  <2>1. at[w] = "status" /\ Goes(w, "write")
    BY <1>2 DEF FindStatus
  <2>2. OwnerOK(w)
    BY <2>1, Busy DEF JobOK, SetsStatus
  <2>3. request[w].status \in StatusId
    BY Busy
  <2>4. request[w].status <= last.statuses
    BY <1>2, <2>3, BoundAssumption DEF IInv, TablesOK, TablesTyped, Fresh, StatusId
  <2>5. StatusOK(w)
    BY <1>2, <2>4 DEF StatusOK
  <2>6. QED
    BY <2>1, <2>2, <2>5, GoingKeeps
<1>3. QED
  BY <1>1, <1>2

LEMMA FindNameKeeps ==
    ASSUME IInv, NEW w \in Worker, request[w] # None,
           request[w].op \in {"create_status", "edit_status"},
           NEW self, FindName(w, BoardOf(w), self)
    PROVE  IInv'
<1>1. CASE Named(BoardOf(w), request[w].name) \ self # {}
  BY <1>1, RefusingKeeps DEF FindName
<1>2. CASE Named(BoardOf(w), request[w].name) \ self = {}
  <2>1. at[w] = "name" /\ Goes(w, "write")
    BY <1>2 DEF FindName
  <2>2. OwnerOK(w)
    BY <2>1, Busy DEF JobOK
  <2>3. request[w].op \notin SetsStatus
    BY DEF SetsStatus
  <2>4. QED
    BY <2>1, <2>2, <2>3, GoingKeeps
<1>3. QED
  BY <1>1, <1>2

-----------------------------------------------------------------------------
(* Writing                                                                 *)

\* What w changes belongs to its user.
OwnTrees(w) ==
    \A b \in BoardId : Tree(b)' # Tree(b) =>
        request[w].user = IF boards[b] = None THEN boards'[b] ELSE boards[b]

Kept(w) == Returns(w) /\ Grows /\ TablesOK' /\ OwnTrees(w)

\* A board none of whose rows change keeps its tree.
LEMMA TreeSame ==
    ASSUME NEW b \in BoardId, boards'[b] = boards[b],
           \A s \in StatusId :
               \/ statuses[s] # None /\ statuses[s].board = b
               \/ statuses'[s] # None /\ statuses'[s].board = b
               => statuses'[s] = statuses[s],
           \A t \in TaskId :
               \/ tasks[t] # None /\ tasks[t].board = b
               \/ tasks'[t] # None /\ tasks'[t].board = b
               => tasks'[t] = tasks[t]
    PROVE  Tree(b)' = Tree(b)
<1>1. \A n : Named(b, n)' = Named(b, n)
  BY DEF Named
<1>2. {s \in StatusId : statuses[s] # None /\ statuses[s].board = b}'
        = {s \in StatusId : statuses[s] # None /\ statuses[s].board = b}
  OBVIOUS
<1> DEFINE own == {u \in TaskId : tasks[u] # None /\ tasks[u].board = b}
<1>3. own' = own
  OBVIOUS
<1>4. \A t \in own : tasks'[t] = tasks[t]
  OBVIOUS
<1>5. {<<t, tasks[t].status>> : t \in own}' = {<<t, tasks[t].status>> : t \in own}
  BY <1>3, <1>4
<1>6. {n \in Name : Named(b, n) # {}}' = {n \in Name : Named(b, n) # {}}
  BY <1>1
<1>7. QED
  BY <1>2, <1>5, <1>6 DEF Tree

LEMMA Unwritten ==
    ASSUME IInv, NEW w \in Worker, Refuses(w) \/ Throws(w)
    PROVE  Kept(w)
<1>1. Returns(w) /\ UNCHANGED tables
  BY DEF Refuses, Throws, Returns, Answer
<1>2. \A b \in BoardId : Tree(b)' = Tree(b)
  BY <1>1 DEF Tree, Named, tables
<1>3. QED
  BY <1>1, <1>2, NothingGrows DEF Kept, OwnTrees

\* The ids given out so far are numbers.
LEMMA Counters ==
    ASSUME IInv
    PROVE  /\ last.boards \in Nat /\ last.statuses \in Nat /\ last.tasks \in Nat
           /\ last \in [boards : 0 .. MaxBoard, statuses : 0 .. MaxStatus, tasks : 0 .. MaxTask]
           /\ \A b \in BoardId : b \in Nat
           /\ \A s \in StatusId : s \in Nat
           /\ \A t \in TaskId : t \in Nat
  BY BoundAssumption DEF IInv, TablesOK, TablesTyped, BoardId, StatusId, TaskId

LEMMA CommitReturns ==
    ASSUME NEW w \in Worker, Commits(w)
    PROVE  Returns(w)
  BY DEF Commits, Returns, Answer

\* Named, for any contents of the table.
NamedIn(table, b, n) ==
    {s \in StatusId : table[s] # None /\ table[s].board = b /\ table[s].name = n}

LEMMA NamedNow == \A b, n : Named(b, n) = NamedIn(statuses, b, n)
  BY DEF Named, NamedIn

LEMMA NamesUniqueNext ==
    ASSUME \A s \in StatusId : statuses'[s] # None =>
              /\ boards'[statuses'[s].board] # None
              /\ NamedIn(statuses', statuses'[s].board, statuses'[s].name) = {s}
    PROVE  NamesUnique'
  BY DEF NamesUnique, NamedIn, Named

LEMMA UpdateBoardKeeps ==
    ASSUME IInv, NEW w \in Worker, request[w] # None, request[w].op = "edit_board",
           UpdateBoard(w, request[w].id)
    PROVE  Kept(w)
<1> DEFINE b == request[w].id
<1>1. CASE boards[b] = None
  BY <1>1, Unwritten DEF UpdateBoard
<1>2. CASE boards[b] # None
  <2>1. /\ boards' = [boards EXCEPT ![b] = request[w].user]
        /\ UNCHANGED <<statuses, tasks, last>>
        /\ Commits(w) /\ at[w] = "write"
    BY <1>2 DEF UpdateBoard, Throws
  <2>2. b \in BoardId /\ boards[b] = request[w].user
    BY <1>2, <2>1, Busy DEF JobOK, OwnerOK, BoardOf, OnBoard
  <2>3. boards' = boards
    BY <2>1, <2>2 DEF IInv, TablesOK, TablesTyped
  <2>4. UNCHANGED tables
    BY <2>1, <2>3 DEF tables
  <2>5. \A c \in BoardId : Tree(c)' = Tree(c)
    BY <2>4 DEF Tree, Named, tables
  <2>6. QED
    BY <2>1, <2>4, <2>5, NothingGrows, CommitReturns DEF Kept, OwnTrees
<1>3. QED
  BY <1>1, <1>2

LEMMA DeleteBoardKeeps ==
    ASSUME IInv, NEW w \in Worker, request[w] # None, request[w].op = "delete_board",
           DeleteBoardRow(w, request[w].id)
    PROVE  Kept(w)
<1> DEFINE b == request[w].id
<1>1. CASE boards[b] = None
  BY <1>1, Unwritten DEF DeleteBoardRow
<1>2. CASE boards[b] # None
  <2>1. /\ boards' = [boards EXCEPT ![b] = None]
        /\ statuses' = [s \in StatusId |->
              IF statuses[s] # None /\ statuses[s].board = b THEN None ELSE statuses[s]]
        /\ tasks' = [t \in TaskId |->
              IF tasks[t] # None /\ (\/ tasks[t].board = b
                                     \/ statuses[tasks[t].status].board = b)
              THEN None ELSE tasks[t]]
        /\ UNCHANGED last
        /\ Commits(w) /\ at[w] = "write"
    BY <1>2 DEF DeleteBoardRow, Refuses
  <2>2. b \in BoardId /\ boards[b] = request[w].user
    BY <1>2, <2>1, Busy DEF JobOK, OwnerOK, BoardOf, OnBoard
  <2>3. TablesTyped /\ Fresh /\ TasksOnTheirBoards /\ NamesUnique
    BY DEF IInv, TablesOK
  <2>4. /\ \A c \in BoardId : boards'[c] = IF c = b THEN None ELSE boards[c]
        /\ \A s \in StatusId : statuses'[s] = IF statuses[s] # None /\ statuses[s].board = b
                                              THEN None ELSE statuses[s]
    BY <2>1, <2>3 DEF TablesTyped
  <2>5. \A t \in TaskId : tasks'[t] = IF tasks[t] # None /\ tasks[t].board = b
                                      THEN None ELSE tasks[t]
    BY <2>1, <2>3 DEF TasksOnTheirBoards
  <2>6. TablesTyped'
    <3>1. boards' \in [BoardId -> User \cup {None}]
      BY <2>1, <2>3 DEF TablesTyped
    <3>2. statuses' \in [StatusId -> StatusRow \cup {None}]
      BY <2>1, <2>3 DEF TablesTyped
    <3>3. tasks' \in [TaskId -> TaskRow \cup {None}]
      BY <2>1, <2>3 DEF TablesTyped
    <3>4. QED
      BY <2>1, <2>3, <3>1, <3>2, <3>3 DEF TablesTyped
  <2>7. Fresh'
    BY <2>1, <2>3, <2>4, <2>5 DEF Fresh
  <2>8. TasksOnTheirBoards'
    <3>1. SUFFICES ASSUME NEW t \in TaskId, tasks'[t] # None
                   PROVE  /\ boards'[tasks'[t].board] # None
                          /\ statuses'[tasks'[t].status] # None
                          /\ statuses'[tasks'[t].status].board = tasks'[t].board
      BY DEF TasksOnTheirBoards
    <3>2. tasks'[t] = tasks[t] /\ tasks[t] # None /\ tasks[t].board # b
      BY <2>5, <3>1
    <3>3. tasks[t].board \in BoardId /\ tasks[t].status \in StatusId
      BY <2>3, <3>2 DEF TablesTyped, TaskRow
    <3>4. QED
      BY <2>3, <2>4, <3>2, <3>3 DEF TasksOnTheirBoards
  <2>9. NamesUnique'
    <3>1. SUFFICES ASSUME NEW s \in StatusId, statuses'[s] # None
                   PROVE  /\ boards'[statuses'[s].board] # None
                          /\ NamedIn(statuses', statuses'[s].board, statuses'[s].name) = {s}
      BY NamesUniqueNext
    <3>2. statuses'[s] = statuses[s] /\ statuses[s] # None /\ statuses[s].board # b
      BY <2>4, <3>1
    <3>3. statuses[s].board \in BoardId
      BY <2>3, <3>2 DEF TablesTyped, StatusRow
    <3>4. /\ boards[statuses[s].board] # None
          /\ NamedIn(statuses, statuses[s].board, statuses[s].name) = {s}
      BY <2>3, <3>2, NamedNow DEF NamesUnique
    <3>5. NamedIn(statuses', statuses[s].board, statuses[s].name) = {s}
      BY <2>4, <3>2, <3>4 DEF NamedIn
    <3>6. QED
      BY <2>4, <3>2, <3>3, <3>4, <3>5
  <2>10. Grows
    BY <2>1, <2>4, <2>5, Counters DEF Grows
  <2>11. OwnTrees(w)
    <3>1. SUFFICES ASSUME NEW c \in BoardId, c # b PROVE Tree(c)' = Tree(c)
      BY <1>2, <2>2 DEF OwnTrees
    <3>2. QED
      BY <2>4, <2>5, <3>1, TreeSame
  <2>12. QED
    BY <2>1, <2>3, <2>6, <2>7, <2>8, <2>9, <2>10, <2>11, CommitReturns DEF Kept, TablesOK
<1>3. QED
  BY <1>1, <1>2

LEMMA InsertStatusKeeps ==
    ASSUME IInv, NEW w \in Worker, request[w] # None, request[w].op = "create_status",
           InsertStatus(w, request[w].id, request[w].name)
    PROVE  Kept(w)
<1> DEFINE b == request[w].id
           n == request[w].name
           s == last.statuses + 1
<1>1. CASE ~(boards[b] # None /\ Named(b, n) = {})
  BY <1>1, Unwritten DEF InsertStatus
<1>2. CASE boards[b] # None /\ Named(b, n) = {}
  <2>1. /\ statuses' = [statuses EXCEPT ![s] = [board |-> b, name |-> n]]
        /\ last' = [last EXCEPT !.statuses = s]
        /\ UNCHANGED <<boards, tasks>>
        /\ Commits(w) /\ at[w] = "write" /\ s \in StatusId
    BY <1>2 DEF InsertStatus, Throws
  <2>2. b \in BoardId /\ n \in Name /\ boards[b] = request[w].user
    BY <1>2, <2>1, Busy DEF JobOK, OwnerOK, BoardOf, OnBoard
  <2>3. TablesTyped /\ Fresh /\ TasksOnTheirBoards /\ NamesUnique
    BY DEF IInv, TablesOK
  <2>4. statuses[s] = None
    BY <2>1, <2>3, Counters DEF Fresh
  <2>5. [board |-> b, name |-> n] \in StatusRow /\ [board |-> b, name |-> n] # None
    BY <2>2, RowsAreNotNone DEF StatusRow
  <2>6. \A z \in StatusId : statuses'[z] = IF z = s THEN [board |-> b, name |-> n]
                                                    ELSE statuses[z]
    BY <2>1, <2>3 DEF TablesTyped
  <2>7. /\ last'.statuses = s /\ last'.boards = last.boards /\ last'.tasks = last.tasks
    BY <2>1, Counters
  <2>8. TablesTyped'
    <3>1. statuses' \in [StatusId -> StatusRow \cup {None}]
      BY <2>1, <2>3, <2>5 DEF TablesTyped
    <3>2. s \in 0 .. MaxStatus
      BY <2>1, BoundAssumption DEF StatusId
    <3>3. last' \in [boards : 0 .. MaxBoard, statuses : 0 .. MaxStatus, tasks : 0 .. MaxTask]
      BY <2>1, <3>2, Counters
    <3>4. QED
      BY <2>1, <2>3, <3>1, <3>3 DEF TablesTyped
  <2>9. Fresh'
    BY <2>1, <2>3, <2>6, <2>7, Counters DEF Fresh
  <2>10. TasksOnTheirBoards'
    <3>1. \A t \in TaskId : tasks[t] # None => tasks[t].status \in StatusId
      BY <2>3 DEF TablesTyped, TaskRow
    <3>2. QED
      BY <2>1, <2>3, <2>4, <2>6, <3>1 DEF TasksOnTheirBoards
  <2>11. NamesUnique'
    <3>1. SUFFICES ASSUME NEW z \in StatusId, statuses'[z] # None
                   PROVE  /\ boards[statuses'[z].board] # None
                          /\ NamedIn(statuses', statuses'[z].board, statuses'[z].name) = {z}
      BY <2>1, NamesUniqueNext
    <3>2. CASE z = s
      <4>1. statuses'[z].board = b /\ statuses'[z].name = n
        BY <2>6, <3>2
      <4>2. NamedIn(statuses', b, n) = {s}
        BY <1>2, <2>1, <2>5, <2>6, NamedNow DEF NamedIn
      <4>3. QED
        BY <1>2, <3>2, <4>1, <4>2
    <3>3. CASE z # s
      <4>1. statuses'[z] = statuses[z] /\ statuses[z] # None
        BY <2>6, <3>1, <3>3
      <4>2. /\ boards[statuses[z].board] # None
            /\ NamedIn(statuses, statuses[z].board, statuses[z].name) = {z}
        BY <2>3, <4>1, NamedNow DEF NamesUnique
      <4>3. ~(statuses[z].board = b /\ statuses[z].name = n)
        BY <1>2, <4>1 DEF Named
      <4>4. NamedIn(statuses', statuses[z].board, statuses[z].name) = {z}
        BY <2>6, <3>3, <4>1, <4>2, <4>3 DEF NamedIn
      <4>5. QED
        BY <4>1, <4>2, <4>4
    <3>4. QED
      BY <3>2, <3>3
  <2>12. Grows
    BY <2>1, <2>6, <2>7, Counters DEF Grows
  <2>13. OwnTrees(w)
    <3>1. SUFFICES ASSUME NEW c \in BoardId, c # b PROVE Tree(c)' = Tree(c)
      BY <1>2, <2>2 DEF OwnTrees
    <3>2. QED
      BY <2>1, <2>4, <2>6, <3>1, TreeSame
  <2>14. QED
    BY <2>1, <2>8, <2>9, <2>10, <2>11, <2>12, <2>13, CommitReturns DEF Kept, TablesOK
<1>3. QED
  BY <1>1, <1>2

LEMMA UpdateStatusKeeps ==
    ASSUME IInv, NEW w \in Worker, request[w] # None, request[w].op = "edit_status",
           UpdateStatus(w, request[w].id, request[w].name)
    PROVE  Kept(w)
<1> DEFINE s == request[w].id
           n == request[w].name
           b == statuses[s].board
           new == [statuses[s] EXCEPT !.name = n]
<1>1. CASE ~(statuses[s] # None /\ Named(b, n) \subseteq {s})
  BY <1>1, Unwritten DEF UpdateStatus
<1>2. CASE statuses[s] # None /\ Named(b, n) \subseteq {s}
  <2>1. /\ statuses' = [statuses EXCEPT ![s] = new]
        /\ UNCHANGED <<boards, tasks, last>>
        /\ Commits(w) /\ at[w] = "write"
    BY <1>2 DEF UpdateStatus, Throws
  <2>2. s \in StatusId /\ n \in Name
    BY Busy DEF OnStatus
  <2>3. TablesTyped /\ Fresh /\ TasksOnTheirBoards /\ NamesUnique
    BY DEF IInv, TablesOK
  <2>4. statuses[s] \in StatusRow /\ b \in BoardId /\ boards[b] # None
    BY <1>2, <2>2, <2>3 DEF TablesTyped, StatusRow, NamesUnique
  <2>5. boards[b] = request[w].user
    BY <1>2, <2>1, <2>4, Busy DEF JobOK, TargetOK, OwnerOK, BoardOf, OnStatus, OnBoard
  <2>6. new \in StatusRow /\ new # None /\ new.board = b /\ new.name = n
    BY <2>2, <2>4, RowsAreNotNone DEF StatusRow
  <2> HIDE DEF new
  <2>7. \A z \in StatusId : statuses'[z] = IF z = s THEN new ELSE statuses[z]
    BY <2>1, <2>3 DEF TablesTyped
  <2>8. TablesTyped'
    <3>1. statuses' \in [StatusId -> StatusRow \cup {None}]
      BY <2>1, <2>3, <2>6 DEF TablesTyped
    <3>2. QED
      BY <2>1, <2>3, <3>1 DEF TablesTyped
  <2>9. Fresh'
    BY <1>2, <2>1, <2>3, <2>7 DEF Fresh
  <2>10. TasksOnTheirBoards'
    <3>1. \A t \in TaskId : tasks[t] # None => tasks[t].status \in StatusId
      BY <2>3 DEF TablesTyped, TaskRow
    <3>2. QED
      BY <2>1, <2>3, <2>6, <2>7, <3>1 DEF TasksOnTheirBoards
  <2>11. NamesUnique'
    <3>1. SUFFICES ASSUME NEW z \in StatusId, statuses'[z] # None
                   PROVE  /\ boards[statuses'[z].board] # None
                          /\ NamedIn(statuses', statuses'[z].board, statuses'[z].name) = {z}
      BY <2>1, NamesUniqueNext
    <3>2. \A y \in StatusId : y # s /\ statuses[y] # None =>
             ~(statuses[y].board = b /\ statuses[y].name = n)
      BY <1>2 DEF Named
    <3>3. CASE z = s
      <4>1. NamedIn(statuses', b, n) = {s}
        BY <2>2, <2>6, <2>7, <3>2 DEF NamedIn
      <4>2. QED
        BY <2>4, <2>6, <2>7, <3>3, <4>1
    <3>4. CASE z # s
      <4>1. statuses'[z] = statuses[z] /\ statuses[z] # None
        BY <2>7, <3>1, <3>4
      <4>2. /\ boards[statuses[z].board] # None
            /\ NamedIn(statuses, statuses[z].board, statuses[z].name) = {z}
        BY <2>3, <4>1, NamedNow DEF NamesUnique
      <4>3. ~(statuses[z].board = b /\ statuses[z].name = n)
        BY <3>2, <3>4, <4>1
      <4>4. NamedIn(statuses', statuses[z].board, statuses[z].name) = {z}
        BY <2>6, <2>7, <3>4, <4>1, <4>2, <4>3 DEF NamedIn
      <4>5. QED
        BY <4>1, <4>2, <4>4
    <3>5. QED
      BY <3>3, <3>4
  <2>12. Grows
    BY <1>2, <2>1, <2>6, <2>7, Counters DEF Grows
  <2>13. OwnTrees(w)
    <3>1. SUFFICES ASSUME NEW c \in BoardId, c # b PROVE Tree(c)' = Tree(c)
      BY <2>4, <2>5 DEF OwnTrees
    <3>2. QED
      BY <2>1, <2>6, <2>7, <3>1, TreeSame
  <2>14. QED
    BY <2>1, <2>3, <2>8, <2>9, <2>10, <2>11, <2>12, <2>13, CommitReturns DEF Kept, TablesOK
<1>3. QED
  BY <1>1, <1>2

LEMMA DeleteStatusKeeps ==
    ASSUME IInv, NEW w \in Worker, request[w] # None, request[w].op = "delete_status",
           DeleteStatusRow(w, request[w].id)
    PROVE  Kept(w)
<1> DEFINE s == request[w].id
           b == statuses[s].board
<1>1. CASE statuses[s] = None
  BY <1>1, Unwritten DEF DeleteStatusRow
<1>2. CASE statuses[s] # None
  <2>1. /\ statuses' = [statuses EXCEPT ![s] = None]
        /\ tasks' = [t \in TaskId |-> IF tasks[t] # None /\ tasks[t].status = s
                                      THEN None ELSE tasks[t]]
        /\ UNCHANGED <<boards, last>>
        /\ Commits(w) /\ at[w] = "write"
    BY <1>2 DEF DeleteStatusRow, Refuses
  <2>2. s \in StatusId
    BY Busy DEF OnStatus
  <2>3. TablesTyped /\ Fresh /\ TasksOnTheirBoards /\ NamesUnique
    BY DEF IInv, TablesOK
  <2>4. b \in BoardId /\ boards[b] # None
    BY <1>2, <2>2, <2>3 DEF TablesTyped, StatusRow, NamesUnique
  <2>5. boards[b] = request[w].user
    BY <1>2, <2>1, <2>4, Busy DEF JobOK, TargetOK, OwnerOK, BoardOf, OnStatus, OnBoard
  <2>6. /\ \A z \in StatusId : statuses'[z] = IF z = s THEN None ELSE statuses[z]
        /\ \A t \in TaskId : tasks'[t] = IF tasks[t] # None /\ tasks[t].status = s
                                         THEN None ELSE tasks[t]
    BY <2>1, <2>3 DEF TablesTyped
  <2>7. TablesTyped'
    <3>1. statuses' \in [StatusId -> StatusRow \cup {None}]
      BY <2>1, <2>3 DEF TablesTyped
    <3>2. tasks' \in [TaskId -> TaskRow \cup {None}]
      BY <2>1, <2>3 DEF TablesTyped
    <3>3. QED
      BY <2>1, <2>3, <3>1, <3>2 DEF TablesTyped
  <2>8. Fresh'
    BY <2>1, <2>3, <2>6 DEF Fresh
  <2>9. TasksOnTheirBoards'
    <3>1. \A t \in TaskId : tasks[t] # None => tasks[t].status \in StatusId
      BY <2>3 DEF TablesTyped, TaskRow
    <3>2. QED
      BY <2>1, <2>3, <2>6, <3>1 DEF TasksOnTheirBoards
  <2>10. NamesUnique'
    <3>1. SUFFICES ASSUME NEW z \in StatusId, statuses'[z] # None
                   PROVE  /\ boards[statuses'[z].board] # None
                          /\ NamedIn(statuses', statuses'[z].board, statuses'[z].name) = {z}
      BY <2>1, NamesUniqueNext
    <3>2. statuses'[z] = statuses[z] /\ statuses[z] # None
      BY <2>6, <3>1
    <3>3. /\ boards[statuses[z].board] # None
          /\ NamedIn(statuses, statuses[z].board, statuses[z].name) = {z}
      BY <2>3, <3>2, NamedNow DEF NamesUnique
    <3>4. NamedIn(statuses', statuses[z].board, statuses[z].name) = {z}
      BY <2>6, <3>1, <3>2, <3>3 DEF NamedIn
    <3>5. QED
      BY <3>2, <3>3, <3>4
  <2>11. Grows
    BY <2>1, <2>6, Counters DEF Grows
  <2>12. OwnTrees(w)
    <3>1. SUFFICES ASSUME NEW c \in BoardId, c # b PROVE Tree(c)' = Tree(c)
      BY <2>4, <2>5 DEF OwnTrees
    <3>2. \A t \in TaskId : tasks[t] # None /\ tasks[t].status = s => tasks[t].board = b
      BY <2>3 DEF TasksOnTheirBoards
    <3>3. QED
      BY <1>2, <2>1, <2>6, <3>1, <3>2, TreeSame
  <2>13. QED
    BY <2>1, <2>3, <2>7, <2>8, <2>9, <2>10, <2>11, <2>12, CommitReturns DEF Kept, TablesOK
<1>3. QED
  BY <1>1, <1>2

LEMMA InsertTaskKeeps ==
    ASSUME IInv, NEW w \in Worker, request[w] # None, request[w].op = "create_task",
           InsertTask(w, request[w].id, request[w].status)
    PROVE  Kept(w)
<1> DEFINE b == request[w].id
           s == request[w].status
           t == last.tasks + 1
           new == [board |-> b, status |-> s]
<1>1. CASE ~(boards[b] # None /\ statuses[s] # None)
  BY <1>1, Unwritten DEF InsertTask
<1>2. CASE boards[b] # None /\ statuses[s] # None
  <2>1. /\ tasks' = [tasks EXCEPT ![t] = new]
        /\ last' = [last EXCEPT !.tasks = t]
        /\ UNCHANGED <<boards, statuses>>
        /\ Commits(w) /\ at[w] = "write" /\ t \in TaskId
    BY <1>2 DEF InsertTask, Throws
  <2>2. b \in BoardId /\ s \in StatusId /\ boards[b] = request[w].user
    BY <1>2, <2>1, Busy DEF JobOK, OwnerOK, BoardOf, OnBoard, SetsStatus
  <2>3. statuses[s].board = b
    BY <1>2, <2>1, Busy DEF JobOK, StatusOK, BoardOf, OnBoard, SetsStatus
  <2>4. TablesTyped /\ Fresh /\ TasksOnTheirBoards /\ NamesUnique
    BY DEF IInv, TablesOK
  <2>5. tasks[t] = None
    BY <2>1, <2>4, Counters DEF Fresh
  <2>6. new \in TaskRow /\ new # None /\ new.board = b /\ new.status = s
    BY <2>2, RowsAreNotNone DEF TaskRow
  <2> HIDE DEF new
  <2>7. \A z \in TaskId : tasks'[z] = IF z = t THEN new ELSE tasks[z]
    BY <2>1, <2>4 DEF TablesTyped
  <2>8. /\ last'.tasks = t /\ last'.boards = last.boards /\ last'.statuses = last.statuses
    BY <2>1, Counters
  <2>9. TablesTyped'
    <3>1. tasks' \in [TaskId -> TaskRow \cup {None}]
      BY <2>1, <2>4, <2>6 DEF TablesTyped
    <3>2. t \in 0 .. MaxTask
      BY <2>1, BoundAssumption DEF TaskId
    <3>3. last' \in [boards : 0 .. MaxBoard, statuses : 0 .. MaxStatus, tasks : 0 .. MaxTask]
      BY <2>1, <3>2, Counters
    <3>4. QED
      BY <2>1, <2>4, <3>1, <3>3 DEF TablesTyped
  <2>10. Fresh'
    BY <2>1, <2>4, <2>7, <2>8, Counters DEF Fresh
  <2>11. TasksOnTheirBoards'
    BY <1>2, <2>1, <2>3, <2>4, <2>6, <2>7 DEF TasksOnTheirBoards
  <2>12. NamesUnique'
    BY <2>1, <2>4 DEF NamesUnique, Named
  <2>13. Grows
    BY <2>1, <2>7, <2>8, Counters DEF Grows
  <2>14. OwnTrees(w)
    <3>1. SUFFICES ASSUME NEW c \in BoardId, c # b PROVE Tree(c)' = Tree(c)
      BY <1>2, <2>2 DEF OwnTrees
    <3>2. QED
      BY <2>1, <2>5, <2>6, <2>7, <3>1, TreeSame
  <2>15. QED
    BY <2>1, <2>9, <2>10, <2>11, <2>12, <2>13, <2>14, CommitReturns DEF Kept, TablesOK
<1>3. QED
  BY <1>1, <1>2

LEMMA UpdateTaskKeeps ==
    ASSUME IInv, NEW w \in Worker, request[w] # None, request[w].op = "edit_task",
           UpdateTask(w, request[w].id, request[w].status)
    PROVE  Kept(w)
<1> DEFINE t == request[w].id
           s == request[w].status
           b == seen[w].board
           new == [board |-> b, status |-> s]
<1>1. CASE tasks[t] = None
  <2>1. UNCHANGED tables /\ Returns(w)
    BY <1>1, CommitReturns DEF UpdateTask, Throws
  <2>2. \A c \in BoardId : Tree(c)' = Tree(c)
    BY <2>1 DEF Tree, Named, tables
  <2>3. QED
    BY <2>1, <2>2, NothingGrows DEF Kept, OwnTrees
<1>2. CASE tasks[t] # None /\ statuses[s] = None
  BY <1>2, Unwritten DEF UpdateTask
<1>3. CASE tasks[t] # None /\ statuses[s] # None
  <2>1. /\ tasks' = [tasks EXCEPT ![t] = new]
        /\ UNCHANGED <<boards, statuses, last>>
        /\ Commits(w) /\ at[w] = "write"
    BY <1>3 DEF UpdateTask
  <2>2. t \in TaskId /\ s \in StatusId
    BY Busy DEF OnTask, SetsStatus
  <2>3. TablesTyped /\ Fresh /\ TasksOnTheirBoards /\ NamesUnique
    BY DEF IInv, TablesOK
  <2>4. BoardOf(w) = b /\ tasks[t].board = b /\ statuses[s].board = b /\ b \in BoardId
    BY <1>3, <2>1, Busy
       DEF JobOK, TargetOK, OwnerOK, StatusOK, BoardOf, OnBoard, OnStatus, OnTask, SetsStatus
  <2>5. boards[b] # None
    BY <1>3, <2>2, <2>3, <2>4 DEF TasksOnTheirBoards
  <2>6. boards[b] = request[w].user
    BY <2>1, <2>4, <2>5, Busy DEF JobOK, OwnerOK
  <2>7. new \in TaskRow /\ new # None /\ new.board = b /\ new.status = s
    BY <2>2, <2>4, RowsAreNotNone DEF TaskRow
  <2> HIDE DEF new
  <2>8. \A z \in TaskId : tasks'[z] = IF z = t THEN new ELSE tasks[z]
    BY <2>1, <2>3 DEF TablesTyped
  <2>9. TablesTyped'
    <3>1. tasks' \in [TaskId -> TaskRow \cup {None}]
      BY <2>1, <2>3, <2>7 DEF TablesTyped
    <3>2. QED
      BY <2>1, <2>3, <3>1 DEF TablesTyped
  <2>10. Fresh'
    BY <1>3, <2>1, <2>3, <2>8 DEF Fresh
  <2>11. TasksOnTheirBoards'
    BY <1>3, <2>1, <2>3, <2>4, <2>5, <2>7, <2>8 DEF TasksOnTheirBoards
  <2>12. NamesUnique'
    BY <2>1, <2>3 DEF NamesUnique, Named
  <2>13. Grows
    BY <1>3, <2>1, <2>4, <2>7, <2>8, Counters DEF Grows
  <2>14. OwnTrees(w)
    <3>1. SUFFICES ASSUME NEW c \in BoardId, c # b PROVE Tree(c)' = Tree(c)
      BY <2>5, <2>6 DEF OwnTrees
    <3>2. QED
      BY <1>3, <2>1, <2>4, <2>7, <2>8, <3>1, TreeSame
  <2>15. QED
    BY <2>1, <2>9, <2>10, <2>11, <2>12, <2>13, <2>14, CommitReturns DEF Kept, TablesOK
<1>4. QED
  BY <1>1, <1>2, <1>3

LEMMA DeleteTaskKeeps ==
    ASSUME IInv, NEW w \in Worker, request[w] # None, request[w].op = "delete_task",
           DeleteTaskRow(w, request[w].id)
    PROVE  Kept(w)
<1> DEFINE t == request[w].id
           b == tasks[t].board
<1>1. CASE tasks[t] = None
  BY <1>1, Unwritten DEF DeleteTaskRow
<1>2. CASE tasks[t] # None
  <2>1. /\ tasks' = [tasks EXCEPT ![t] = None]
        /\ UNCHANGED <<boards, statuses, last>>
        /\ Commits(w) /\ at[w] = "write"
    BY <1>2 DEF DeleteTaskRow, Refuses
  <2>2. t \in TaskId
    BY Busy DEF OnTask
  <2>3. TablesTyped /\ Fresh /\ TasksOnTheirBoards /\ NamesUnique
    BY DEF IInv, TablesOK
  <2>4. b \in BoardId /\ boards[b] # None
    BY <1>2, <2>2, <2>3 DEF TablesTyped, TaskRow, TasksOnTheirBoards
  <2>5. boards[b] = request[w].user
    BY <1>2, <2>1, <2>4, Busy DEF JobOK, TargetOK, OwnerOK, BoardOf, OnTask, OnStatus, OnBoard
  <2>6. \A z \in TaskId : tasks'[z] = IF z = t THEN None ELSE tasks[z]
    BY <2>1, <2>3 DEF TablesTyped
  <2>7. TablesTyped'
    <3>1. tasks' \in [TaskId -> TaskRow \cup {None}]
      BY <2>1, <2>3 DEF TablesTyped
    <3>2. QED
      BY <2>1, <2>3, <3>1 DEF TablesTyped
  <2>8. Fresh' /\ TasksOnTheirBoards'
    BY <2>1, <2>3, <2>6 DEF Fresh, TasksOnTheirBoards
  <2>9. NamesUnique'
    BY <2>1, <2>3 DEF NamesUnique, Named
  <2>10. Grows
    BY <2>1, <2>6, Counters DEF Grows
  <2>11. OwnTrees(w)
    <3>1. SUFFICES ASSUME NEW c \in BoardId, c # b PROVE Tree(c)' = Tree(c)
      BY <2>4, <2>5 DEF OwnTrees
    <3>2. QED
      BY <1>2, <2>1, <2>6, <3>1, TreeSame
  <2>12. QED
    BY <2>1, <2>7, <2>8, <2>9, <2>10, <2>11, CommitReturns DEF Kept, TablesOK
<1>3. QED
  BY <1>1, <1>2

LEMMA InsertBoardKeeps ==
    ASSUME IInv, NEW w \in Worker, request[w] # None, request[w].op = "create_board",
           InsertBoard(w)
    PROVE  Kept(w)
<1> DEFINE u == request[w].user
           b == last.boards + 1
           card == Cardinality(Defaults)
           ids == last.statuses + 1 .. last.statuses + card
<1>1. /\ b \in BoardId /\ ids \subseteq StatusId /\ Commits(w)
      /\ boards' = [boards EXCEPT ![b] = u]
      /\ last' = [last EXCEPT !.boards = b, !.statuses = @ + card]
      /\ UNCHANGED tasks
  BY DEF InsertBoard
<1>2. PICK name \in [ids -> Defaults] :
         /\ \A s, z \in ids : name[s] = name[z] => s = z
         /\ statuses' = [s \in StatusId |-> IF s \in ids
                                            THEN [board |-> b, name |-> name[s]]
                                            ELSE statuses[s]]
  BY DEF InsertBoard
<1>3. card \in Nat
  BY DefaultsAssumption, FS_CardinalityType
<1> HIDE DEF card
<1>4. TablesTyped /\ Fresh /\ TasksOnTheirBoards /\ NamesUnique
  BY DEF IInv, TablesOK
<1>5. \A z \in StatusId : statuses[z] # None => z \notin ids
  BY <1>3, <1>4, Counters DEF Fresh
<1>6. boards[b] = None
  BY <1>1, <1>4, Counters DEF Fresh
<1>7. u \in User /\ u # None
  BY Busy, RowsAreNotNone
<1>8. \A z \in ids : /\ [board |-> b, name |-> name[z]] \in StatusRow
                     /\ [board |-> b, name |-> name[z]] # None
                     /\ z \in StatusId
  BY <1>1, <1>2, DefaultsAssumption, RowsAreNotNone DEF StatusRow
<1>9. /\ last'.boards = b /\ last'.statuses = last.statuses + card
      /\ last'.tasks = last.tasks
  BY <1>1, Counters
<1>10. /\ \A c \in BoardId : boards'[c] = IF c = b THEN u ELSE boards[c]
       /\ \A z \in StatusId : z \notin ids => statuses'[z] = statuses[z]
       /\ \A z \in ids : /\ statuses'[z] = [board |-> b, name |-> name[z]]
                         /\ statuses'[z].board = b /\ statuses'[z].name = name[z]
                         /\ statuses'[z] # None
  BY <1>1, <1>2, <1>4, <1>8 DEF TablesTyped
<1>11. TablesTyped'
  <2>1. boards' \in [BoardId -> User \cup {None}]
    BY <1>1, <1>4, <1>7 DEF TablesTyped
  <2>2. statuses' \in [StatusId -> StatusRow \cup {None}]
    BY <1>2, <1>4, <1>8 DEF TablesTyped
  <2>3. b \in 0 .. MaxBoard
    BY <1>1, BoundAssumption DEF BoardId
  <2>4. last.statuses + card \in 0 .. MaxStatus
    <3>1. CASE card = 0
      BY <3>1, Counters, BoundAssumption
    <3>2. CASE card > 0
      <4>1. last.statuses + card \in ids
        BY <1>3, <3>2, Counters
      <4>2. QED
        BY <1>1, <4>1, BoundAssumption DEF StatusId
    <3>3. QED
      BY <1>3, <3>1, <3>2
  <2>5. last' \in [boards : 0 .. MaxBoard, statuses : 0 .. MaxStatus, tasks : 0 .. MaxTask]
    BY <1>1, <2>3, <2>4, Counters
  <2>6. QED
    BY <1>1, <1>4, <2>1, <2>2, <2>5 DEF TablesTyped
<1>12. Fresh'
  <2>1. \A c \in BoardId : c > b => boards'[c] = None
    BY <1>4, <1>10, Counters DEF Fresh
  <2>2. \A z \in StatusId : z > last.statuses + card => statuses'[z] = None
    <3>1. \A z \in StatusId : z > last.statuses + card => z \notin ids
      BY <1>3, Counters
    <3>2. QED
      BY <1>3, <1>4, <1>10, <3>1, Counters DEF Fresh
  <2>3. QED
    BY <1>1, <1>4, <1>9, <2>1, <2>2 DEF Fresh
<1> HIDE DEF ids, b
<1>13. TasksOnTheirBoards'
  <2>1. \A t \in TaskId : tasks[t] # None => /\ tasks[t].status \in StatusId
                                             /\ tasks[t].board \in BoardId
    BY <1>4 DEF TablesTyped, TaskRow
  <2>2. QED
    BY <1>1, <1>4, <1>5, <1>6, <1>10, <2>1 DEF TasksOnTheirBoards
<1>14. NamesUnique'
  <2>1. SUFFICES ASSUME NEW z \in StatusId, statuses'[z] # None
                 PROVE  /\ boards'[statuses'[z].board] # None
                        /\ NamedIn(statuses', statuses'[z].board, statuses'[z].name) = {z}
    BY NamesUniqueNext
  <2>2. \A y \in StatusId : statuses[y] # None =>
            statuses[y].board \in BoardId /\ statuses[y].board # b
    BY <1>4, <1>6 DEF TablesTyped, StatusRow, NamesUnique
  <2>3. CASE z \in ids
    <3>1. NamedIn(statuses', b, name[z]) = {z}
      BY <1>2, <1>10, <2>2, <2>3 DEF NamedIn
    <3>2. QED
      BY <1>1, <1>7, <1>10, <2>3, <3>1
  <2>4. CASE z \notin ids
    <3>1. statuses'[z] = statuses[z] /\ statuses[z] # None
      BY <1>10, <2>1, <2>4
    <3>2. /\ boards[statuses[z].board] # None
          /\ NamedIn(statuses, statuses[z].board, statuses[z].name) = {z}
      BY <1>4, <3>1, NamedNow DEF NamesUnique
    <3>3. NamedIn(statuses', statuses[z].board, statuses[z].name) = {z}
      <4>1. statuses[z].board # b
        BY <2>2, <3>1
      <4>2. \A y \in StatusId : y \in ids => /\ statuses'[y] # None
                                             /\ statuses'[y].board = b
                                             /\ statuses[y] = None
        BY <1>5, <1>10
      <4>3. \A y \in StatusId : y \notin ids => statuses'[y] = statuses[y]
        BY <1>10
      <4>4. ASSUME NEW bb, NEW nn, bb # b
            PROVE  NamedIn(statuses', bb, nn) = NamedIn(statuses, bb, nn)
        BY <4>2, <4>3, <4>4 DEF NamedIn
      <4>5. QED
        BY <3>2, <4>1, <4>4
    <3>4. QED
      BY <1>10, <2>2, <3>1, <3>2, <3>3
  <2>5. QED
    BY <2>3, <2>4
<1>15. Grows
  <2>1. \A z \in StatusId : z <= last.statuses => z \notin ids
    BY Counters DEF ids
  <2>2. \A c \in BoardId : c <= last.boards => c # b
    BY Counters DEF b
  <2>3. last.boards <= last'.boards /\ last.statuses <= last'.statuses
    BY <1>3, <1>9, Counters DEF b
  <2>4. QED
    BY <1>1, <1>9, <1>10, <2>1, <2>2, <2>3, Counters DEF Grows
<1>16. OwnTrees(w)
  <2>1. SUFFICES ASSUME NEW c \in BoardId, c # b PROVE Tree(c)' = Tree(c)
    BY <1>6, <1>10 DEF OwnTrees
  <2>2. \A z \in ids : statuses[z] = None
    BY <1>5, <1>8
  <2>3. QED
    BY <1>1, <1>10, <2>1, <2>2, TreeSame
<1>17. QED
  BY <1>1, <1>4, <1>11, <1>12, <1>13, <1>14, <1>15, <1>16, CommitReturns DEF Kept, TablesOK

-----------------------------------------------------------------------------
(* Every step                                                              *)

\* A step of a handler either reads, and leaves the tables alone, or writes
\* and returns.
Reads(w) == UNCHANGED tables /\ IInv'

LEMMA ReadingReads ==
    ASSUME IInv, NEW w \in Worker, request[w] # None
    PROVE  /\ \A b, step : FindBoard(w, b, step) => UNCHANGED tables
           /\ \A b : FindStatus(w, b) => UNCHANGED tables
           /\ \A b, self : FindName(w, b, self) => UNCHANGED tables
           /\ \A table : FindTarget(w, table) => UNCHANGED tables
  BY DEF FindBoard, FindStatus, FindName, FindTarget, Refuses, Goes

LEMMA BoardHandlers ==
    ASSUME IInv, NEW w \in Worker, CreateBoard(w) \/ EditBoard(w) \/ DeleteBoard(w)
    PROVE  Reads(w) \/ Kept(w)
<1>1. request[w] # None
  BY DEF CreateBoard, EditBoard, DeleteBoard, Handling
<1>2. CASE CreateBoard(w)
  BY <1>1, <1>2, InsertBoardKeeps DEF CreateBoard, Handling
<1>3. CASE EditBoard(w)
  <2>1. request[w].op = "edit_board" /\ BoardOf(w) = request[w].id
    BY <1>3 DEF EditBoard, Handling, BoardOf, OnBoard
  <2>2. CASE FindBoard(w, request[w].id, "write")
    BY <1>1, <2>1, <2>2, FindBoardKeeps, ReadingReads DEF Reads, OnBoard, SetsStatus
  <2>3. CASE UpdateBoard(w, request[w].id)
    BY <1>1, <2>1, <2>3, UpdateBoardKeeps
  <2>4. QED
    BY <1>3, <2>2, <2>3 DEF EditBoard
<1>4. CASE DeleteBoard(w)
  <2>1. request[w].op = "delete_board" /\ BoardOf(w) = request[w].id
    BY <1>4 DEF DeleteBoard, Handling, BoardOf, OnBoard
  <2>2. CASE FindBoard(w, request[w].id, "write")
    BY <1>1, <2>1, <2>2, FindBoardKeeps, ReadingReads DEF Reads, OnBoard, SetsStatus
  <2>3. CASE DeleteBoardRow(w, request[w].id)
    BY <1>1, <2>1, <2>3, DeleteBoardKeeps
  <2>4. QED
    BY <1>4, <2>2, <2>3 DEF DeleteBoard
<1>5. QED
  BY <1>2, <1>3, <1>4

LEMMA StatusHandlers ==
    ASSUME IInv, NEW w \in Worker, CreateStatus(w) \/ EditStatus(w) \/ DeleteStatus(w)
    PROVE  Reads(w) \/ Kept(w)
<1>1. request[w] # None
  BY DEF CreateStatus, EditStatus, DeleteStatus, Handling
<1>2. CASE CreateStatus(w)
  <2>1. request[w].op = "create_status" /\ BoardOf(w) = request[w].id
    BY <1>2 DEF CreateStatus, Handling, BoardOf, OnBoard
  <2>2. CASE FindBoard(w, request[w].id, "name")
    BY <1>1, <2>1, <2>2, FindBoardKeeps, ReadingReads DEF Reads, OnBoard
  <2>3. CASE FindName(w, request[w].id, {})
    BY <1>1, <2>1, <2>3, FindNameKeeps, ReadingReads DEF Reads
  <2>4. CASE InsertStatus(w, request[w].id, request[w].name)
    BY <1>1, <2>1, <2>4, InsertStatusKeeps
  <2>5. QED
    BY <1>2, <2>2, <2>3, <2>4 DEF CreateStatus
<1>3. CASE EditStatus(w)
  <2>1. request[w].op = "edit_status" /\ BoardOf(w) = seen[w].board
    BY <1>3 DEF EditStatus, Handling, BoardOf, OnBoard
  <2>2. CASE FindTarget(w, statuses)
    BY <1>1, <2>1, <2>2, FindStatusTargetKeeps, ReadingReads DEF Reads, OnStatus
  <2>3. CASE FindBoard(w, seen[w].board, "name")
    BY <1>1, <2>1, <2>3, FindBoardKeeps, ReadingReads DEF Reads, OnStatus
  <2>4. CASE FindName(w, seen[w].board, {request[w].id})
    BY <1>1, <2>1, <2>4, FindNameKeeps, ReadingReads DEF Reads
  <2>5. CASE UpdateStatus(w, request[w].id, request[w].name)
    BY <1>1, <2>1, <2>5, UpdateStatusKeeps
  <2>6. QED
    BY <1>3, <2>2, <2>3, <2>4, <2>5 DEF EditStatus
<1>4. CASE DeleteStatus(w)
  <2>1. request[w].op = "delete_status" /\ BoardOf(w) = seen[w].board
    BY <1>4 DEF DeleteStatus, Handling, BoardOf, OnBoard
  <2>2. CASE FindTarget(w, statuses)
    BY <1>1, <2>1, <2>2, FindStatusTargetKeeps, ReadingReads DEF Reads, OnStatus
  <2>3. CASE FindBoard(w, seen[w].board, "write")
    BY <1>1, <2>1, <2>3, FindBoardKeeps, ReadingReads DEF Reads, OnStatus, SetsStatus
  <2>4. CASE DeleteStatusRow(w, request[w].id)
    BY <1>1, <2>1, <2>4, DeleteStatusKeeps
  <2>5. QED
    BY <1>4, <2>2, <2>3, <2>4 DEF DeleteStatus
<1>5. QED
  BY <1>2, <1>3, <1>4

LEMMA TaskHandlers ==
    ASSUME IInv, NEW w \in Worker, CreateTask(w) \/ EditTask(w) \/ DeleteTask(w)
    PROVE  Reads(w) \/ Kept(w)
<1>1. request[w] # None
  BY DEF CreateTask, EditTask, DeleteTask, Handling
<1>2. CASE CreateTask(w)
  <2>1. request[w].op = "create_task" /\ BoardOf(w) = request[w].id
    BY <1>2 DEF CreateTask, Handling, BoardOf, OnBoard
  <2>2. CASE FindBoard(w, request[w].id, "status")
    BY <1>1, <2>1, <2>2, FindBoardKeeps, ReadingReads DEF Reads, OnBoard
  <2>3. CASE FindStatus(w, request[w].id)
    BY <1>1, <2>1, <2>3, FindStatusKeeps, ReadingReads DEF Reads, SetsStatus
  <2>4. CASE InsertTask(w, request[w].id, request[w].status)
    BY <1>1, <2>1, <2>4, InsertTaskKeeps
  <2>5. QED
    BY <1>2, <2>2, <2>3, <2>4 DEF CreateTask
<1>3. CASE EditTask(w)
  <2>1. request[w].op = "edit_task" /\ BoardOf(w) = seen[w].board
    BY <1>3 DEF EditTask, Handling, BoardOf, OnBoard
  <2>2. CASE FindTarget(w, tasks)
    BY <1>1, <2>1, <2>2, FindTaskTargetKeeps, ReadingReads DEF Reads, OnTask
  <2>3. CASE FindBoard(w, seen[w].board, "status")
    BY <1>1, <2>1, <2>3, FindBoardKeeps, ReadingReads DEF Reads, OnTask
  <2>4. CASE FindStatus(w, seen[w].board)
    BY <1>1, <2>1, <2>4, FindStatusKeeps, ReadingReads DEF Reads, SetsStatus
  <2>5. CASE UpdateTask(w, request[w].id, request[w].status)
    BY <1>1, <2>1, <2>5, UpdateTaskKeeps
  <2>6. QED
    BY <1>3, <2>2, <2>3, <2>4, <2>5 DEF EditTask
<1>4. CASE DeleteTask(w)
  <2>1. request[w].op = "delete_task" /\ BoardOf(w) = seen[w].board
    BY <1>4 DEF DeleteTask, Handling, BoardOf, OnBoard
  <2>2. CASE FindTarget(w, tasks)
    BY <1>1, <2>1, <2>2, FindTaskTargetKeeps, ReadingReads DEF Reads, OnTask
  <2>3. CASE FindBoard(w, seen[w].board, "write")
    BY <1>1, <2>1, <2>3, FindBoardKeeps, ReadingReads DEF Reads, OnTask, SetsStatus
  <2>4. CASE DeleteTaskRow(w, request[w].id)
    BY <1>1, <2>1, <2>4, DeleteTaskKeeps
  <2>5. QED
    BY <1>4, <2>2, <2>3, <2>4 DEF DeleteTask
<1>5. QED
  BY <1>2, <1>3, <1>4

LEMMA HandleKeeps ==
    ASSUME IInv, NEW w \in Worker, Handle(w)
    PROVE  IInv' /\ OwnTrees(w)
<1>1. Reads(w) \/ Kept(w)
  <2>1. CASE DatabaseFails(w)
    BY <2>1, Unwritten DEF DatabaseFails
  <2>2. QED
    BY <2>1, BoardHandlers, StatusHandlers, TaskHandlers DEF Handle
<1>2. Kept(w) => IInv' /\ OwnTrees(w)
  BY ReturningKeeps DEF Kept
<1>3. Reads(w) => IInv' /\ OwnTrees(w)
  BY DEF Reads, OwnTrees, Tree, Named, tables
<1>4. QED
  BY <1>1, <1>2, <1>3

LEMMA NextKeeps ==
    ASSUME IInv, [Next]_vars
    PROVE  IInv'
<1>1. CASE UNCHANGED vars
  BY <1>1 DEF vars, tables, IInv, TablesOK, TablesTyped, JobsTyped, Fresh,
     TasksOnTheirBoards, NamesUnique, Named, JobOK, TargetOK, OwnerOK, StatusOK, BoardOf
<1>2. CASE Next
  BY <1>2, ReceiveKeeps, HandleKeeps DEF Next
<1>3. QED
  BY <1>1, <1>2

LEMMA Invariance == Spec => []IInv
<1>1. QED
  BY InitIInv, NextKeeps, PTL DEF Spec

-----------------------------------------------------------------------------
(* Theorems                                                                *)

\* Type correctness of the tables and of the threads (init.sql, the handlers).
THEOREM TypeCorrect == Spec => []TypeOK
<1>1. IInv => TypeOK
  BY TypeSplit DEF IInv, TablesOK
<1>2. QED
  BY <1>1, Invariance, PTL

\* For any number of threads, users and rows, a task is always in a status of
\* its own board, and both exist: the handlers' checks, each in an earlier
\* transaction than the write, are enough.
THEOREM TasksStayOnTheirBoards == Spec => []TasksOnTheirBoards
<1>1. IInv => TasksOnTheirBoards
  BY DEF IInv, TablesOK
<1>2. QED
  BY <1>1, Invariance, PTL

\* For any number of threads no board has two statuses of one name
\* (UNIQUE (board_id, name) behind find_by_board_and_name).
THEOREM NamesStayUnique == Spec => []NamesUnique
<1>1. IInv => NamesUnique
  BY DEF IInv, TablesOK
<1>2. QED
  BY <1>1, Invariance, PTL

\* No request changes anything of a board that is another user's at that
\* moment, although its owner was looked up in an earlier transaction.
THEOREM OnlyOwnersChange == Spec => OwnersOnly
<1> DEFINE A == \A w \in Worker, b \in BoardId :
          request[w] # None /\ at'[w] # at[w] /\ Tree(b)' # Tree(b) =>
              request[w].user = IF boards[b] = None THEN boards'[b] ELSE boards[b]
<1>1. ASSUME IInv, [Next]_vars PROVE [A]_vars
  <2>1. SUFFICES ASSUME Next, NEW w \in Worker, NEW b \in BoardId,
                        request[w] # None, at'[w] # at[w], Tree(b)' # Tree(b)
                 PROVE  request[w].user = IF boards[b] = None THEN boards'[b] ELSE boards[b]
    BY <1>1
  <2>2. PICK v \in Worker : (\E r \in Requests : Receive(v, r)) \/ Handle(v)
    BY <2>1 DEF Next
  <2>3. CASE \E r \in Requests : Receive(v, r)
    BY <2>1, <2>3 DEF Receive, Tree, Named, tables
  <2>4. CASE Handle(v)
    <3>1. at'[w] = at[w] \/ v = w
      <4>1. \E a : at' = [at EXCEPT ![v] = a]
        BY <2>4 DEF Handle, CreateBoard, EditBoard, DeleteBoard, CreateStatus, EditStatus,
           DeleteStatus, CreateTask, EditTask, DeleteTask, DatabaseFails, FindBoard,
           FindStatus, FindName, FindTarget, Goes, Refuses, Throws, Commits, Answers,
           InsertBoard, UpdateBoard, DeleteBoardRow, InsertStatus, UpdateStatus,
           DeleteStatusRow, InsertTask, UpdateTask, DeleteTaskRow
      <4>2. QED
        BY <1>1, <4>1 DEF IInv, JobsTyped
    <3>2. OwnTrees(w)
      BY <1>1, <2>1, <2>4, <3>1, HandleKeeps
    <3>3. QED
      BY <2>1, <3>2 DEF OwnTrees
  <2>5. QED
    BY <2>2, <2>3, <2>4
<1>2. QED
  BY <1>1, Invariance, PTL DEF Spec, OwnersOnly

\* Who is answered 200 or 204 was at its last call, and that call was made.
LEMMA OkIsWritten ==
    ASSUME IInv, NEW w \in Worker, NEW v \in Worker, Handle(v),
           request[w] # None, request'[w] = None, at'[w] = "ok"
    PROVE  /\ request[w].op = "edit_board" => UpdateBoard(w, request[w].id)
           /\ request[w].op = "delete_board" => DeleteBoardRow(w, request[w].id)
           /\ request[w].op = "edit_status" =>
                 UpdateStatus(w, request[w].id, request[w].name)
           /\ request[w].op = "delete_status" => DeleteStatusRow(w, request[w].id)
           /\ request[w].op = "delete_task" => DeleteTaskRow(w, request[w].id)
<1>1. request \in [Worker -> Requests \cup {None}] /\ at \in [Worker -> Step \cup Answer]
  BY DEF IInv, JobsTyped
<1>2. v = w
  <2>1. request' = request \/ \E r : request' = [request EXCEPT ![v] = r]
    BY DEF Handle, CreateBoard, EditBoard, DeleteBoard, CreateStatus, EditStatus,
       DeleteStatus, CreateTask, EditTask, DeleteTask, DatabaseFails, FindBoard,
       FindStatus, FindName, FindTarget, Goes, Refuses, Throws, Commits, Answers,
       InsertBoard, UpdateBoard, DeleteBoardRow, InsertStatus, UpdateStatus,
       DeleteStatusRow, InsertTask, UpdateTask, DeleteTaskRow
  <2>2. QED
    BY <1>1, <2>1
<1>3. ~Refuses(w) /\ ~Throws(w) /\ (\A step : ~Goes(w, step))
  BY <1>1 DEF Refuses, Throws, Answers, Goes
<1>4. /\ \A b, step : ~FindBoard(w, b, step)
      /\ \A b, self : ~FindName(w, b, self)
      /\ ~FindTarget(w, statuses) /\ ~FindTarget(w, tasks) /\ ~DatabaseFails(w)
  BY <1>1, <1>3 DEF FindBoard, FindName, FindTarget, DatabaseFails
<1>5. QED
  BY <1>2, <1>4 DEF Handle, Handling, CreateBoard, EditBoard, DeleteBoard, CreateStatus,
     EditStatus, DeleteStatus, CreateTask, EditTask, DeleteTask

\* For any number of threads a delete is answered 204 only by the request that
\* removed the row, and an edited board or status is there as it was reported.
THEOREM AnswersAreReal == Spec => SuccessIsReal
<1> DEFINE Real(w) ==
      /\ Answered(w, "delete_board") =>
            boards[request[w].id] # None /\ boards'[request[w].id] = None
      /\ Answered(w, "delete_status") =>
            statuses[request[w].id] # None /\ statuses'[request[w].id] = None
      /\ Answered(w, "delete_task") =>
            tasks[request[w].id] # None /\ tasks'[request[w].id] = None
      /\ Answered(w, "edit_board") => boards'[request[w].id] # None
      /\ Answered(w, "edit_status") =>
            /\ statuses'[request[w].id] # None
            /\ statuses'[request[w].id].name = request[w].name
    A == \A w \in Worker :
      LET id == request[w].id
      IN  /\ Answered(w, "delete_board") => boards[id] # None /\ boards'[id] = None
          /\ Answered(w, "delete_status") => statuses[id] # None /\ statuses'[id] = None
          /\ Answered(w, "delete_task") => tasks[id] # None /\ tasks'[id] = None
          /\ Answered(w, "edit_board") => boards'[id] # None
          /\ Answered(w, "edit_status") =>
                 statuses'[id] # None /\ statuses'[id].name = request[w].name
<1>1. ASSUME IInv, [Next]_vars PROVE [\A w \in Worker : Real(w)]_vars
  <2>1. SUFFICES ASSUME Next, NEW w \in Worker, request[w] # None,
                        request'[w] = None, at'[w] = "ok"
                 PROVE  Real(w)
    BY <1>1 DEF Answered, Handling
  <2>2. PICK v \in Worker : (\E r \in Requests : Receive(v, r)) \/ Handle(v)
    BY <2>1 DEF Next
  <2>3. Handle(v)
    BY <1>1, <2>1, <2>2, RowsAreNotNone DEF Receive, IInv, JobsTyped
  <2>4. /\ boards \in [BoardId -> User \cup {None}]
        /\ statuses \in [StatusId -> StatusRow \cup {None}]
        /\ tasks \in [TaskId -> TaskRow \cup {None}]
    BY <1>1, <2>1 DEF IInv, TablesOK, TablesTyped
  <2>5. ~Refuses(w) /\ ~Throws(w)
    BY <1>1, <2>1 DEF Refuses, Throws, Answers, IInv, JobsTyped
  <2>6. Answered(w, "delete_board") =>
            boards[request[w].id] # None /\ boards'[request[w].id] = None
    BY <1>1, <2>1, <2>3, <2>4, <2>5, OkIsWritten, Busy
       DEF Answered, Handling, DeleteBoardRow, OnBoard
  <2>7. Answered(w, "delete_status") =>
            statuses[request[w].id] # None /\ statuses'[request[w].id] = None
    BY <1>1, <2>1, <2>3, <2>4, <2>5, OkIsWritten, Busy
       DEF Answered, Handling, DeleteStatusRow, OnStatus
  <2>8. Answered(w, "delete_task") =>
            tasks[request[w].id] # None /\ tasks'[request[w].id] = None
    BY <1>1, <2>1, <2>3, <2>4, <2>5, OkIsWritten, Busy
       DEF Answered, Handling, DeleteTaskRow, OnTask
  <2>9. Answered(w, "edit_board") => boards'[request[w].id] # None
    BY <1>1, <2>1, <2>3, <2>4, <2>5, OkIsWritten, Busy, RowsAreNotNone
       DEF Answered, Handling, UpdateBoard, OnBoard
  <2>10. ASSUME Answered(w, "edit_status")
         PROVE  /\ statuses'[request[w].id] # None
                /\ statuses'[request[w].id].name = request[w].name
    <3> DEFINE z == request[w].id
               row == [statuses[z] EXCEPT !.name = request[w].name]
    <3>1. /\ z \in StatusId /\ statuses[z] # None /\ request[w].name \in Name
          /\ statuses' = [statuses EXCEPT ![z] = row]
      BY <1>1, <2>1, <2>3, <2>4, <2>5, <2>10, OkIsWritten, Busy
         DEF Answered, Handling, UpdateStatus, OnStatus
    <3>2. statuses[z] \in StatusRow
      BY <2>4, <3>1
    <3>3. row \in StatusRow /\ row.name = request[w].name
      BY <3>1, <3>2 DEF StatusRow
    <3>4. QED
      BY <2>4, <3>1, <3>3, RowsAreNotNone
  <2>11. QED
    BY <2>6, <2>7, <2>8, <2>9, <2>10
<1>2. ASSUME IInv, [Next]_vars PROVE [A]_vars
  BY <1>1, <1>2
<1>3. QED
  BY <1>2, Invariance, PTL DEF Spec, SuccessIsReal

=============================================================================
