-------------------------- MODULE HandlersStore_proof --------------------------
(***************************************************************************)
(* Handlers implements BoardStore.  Every repository call that writes is   *)
(* the effect of the request it is made for, which JobOK of Handlers_proof *)
(* shows to be allowed at that moment: what was read of the board, the     *)
(* row and the status is still so, or the row is gone and nothing is       *)
(* written.  All other calls leave the tables alone, and until the last    *)
(* one the caller knows nothing.                                           *)
(***************************************************************************)
EXTENDS Handlers_proof

\* w answers its caller as BoardStore allows.
StoreAnswers(w) == Store!Refused(w) \/ Store!Failed(w) \/ Store!Succeeded(w)

LEMMA InitStore == Init => Store!Init
<1> SUFFICES ASSUME Init PROVE Store!Init
  OBVIOUS
<1>1. Column = [t \in TaskId |-> None]
  BY DEF Init, Column
<1>2. Given = [boards |-> {}, statuses |-> {}, tasks |-> {}]
  BY DEF Init, Given
<1>3. LastAnswer = [w \in Worker |-> "idle"]
  BY DEF Init, LastAnswer, Answer
<1>4. QED
  BY <1>1, <1>2, <1>3 DEF Init, Store!Init

LEMMA TablesSame ==
    ASSUME UNCHANGED tables
    PROVE  UNCHANGED Store!tables
  BY DEF tables, Store!tables, Column, Given

LEMMA AnswersGets ==
    ASSUME IInv, NEW w \in Worker, request[w] # None, NEW a \in Answer, Answers(w, a)
    PROVE  Store!Gets(w, a)
<1>1. at \in [Worker -> Step \cup Answer] /\ at' = [at EXCEPT ![w] = a]
  BY DEF IInv, JobsTyped, Answers
<1>2. LastAnswer' = [LastAnswer EXCEPT ![w] = a]
  BY <1>1 DEF LastAnswer
<1>3. QED
  BY <1>2 DEF Answers, Store!Gets

LEMMA CommitsAnswers ==
    ASSUME IInv, NEW w \in Worker, request[w] # None, Commits(w), Store!Effect(request[w])
    PROVE  StoreAnswers(w)
<1>1. CASE Answers(w, "ok")
  BY <1>1, AnswersGets DEF Answer, StoreAnswers, Store!Succeeded
<1>2. CASE Answers(w, "failed")
  BY <1>2, AnswersGets DEF Answer, StoreAnswers, Store!Failed
<1>3. QED
  BY <1>1, <1>2 DEF Commits

LEMMA UnwrittenAnswers ==
    ASSUME IInv, NEW w \in Worker, request[w] # None, Refuses(w) \/ Throws(w)
    PROVE  StoreAnswers(w)
<1>1. UNCHANGED Store!tables
  BY TablesSame DEF Refuses, Throws
<1>2. Store!Gets(w, "refused") \/ Store!Gets(w, "failed")
  BY AnswersGets DEF Refuses, Throws, Answer
<1>3. QED
  BY <1>1, <1>2 DEF StoreAnswers, Store!Refused, Store!Failed

\* What the tables are when a call is made.
LEMMA Now ==
    ASSUME IInv
    PROVE  /\ boards \in [BoardId -> User \cup {None}]
           /\ statuses \in [StatusId -> StatusRow \cup {None}]
           /\ tasks \in [TaskId -> TaskRow \cup {None}]
           /\ last \in [boards : 0 .. MaxBoard, statuses : 0 .. MaxStatus, tasks : 0 .. MaxTask]
           /\ last.boards \in Nat /\ last.statuses \in Nat /\ last.tasks \in Nat
           /\ None \notin StatusId
           /\ \A s \in StatusId : statuses[s] # None =>
                 /\ statuses[s] \in StatusRow
                 /\ statuses[s].board \in BoardId /\ statuses[s].name \in Name
                 /\ boards[statuses[s].board] # None
           /\ \A t \in TaskId : tasks[t] # None =>
                 /\ tasks[t] \in TaskRow
                 /\ tasks[t].board \in BoardId /\ tasks[t].status \in StatusId
                 /\ boards[tasks[t].board] # None
                 /\ statuses[tasks[t].status] # None
                 /\ statuses[tasks[t].status].board = tasks[t].board
<1>1. TablesTyped /\ TasksOnTheirBoards /\ NamesUnique
  BY DEF IInv, TablesOK
<1>2. None \notin StatusId
  BY NoneAssumption DEF Id
<1>3. \A s \in StatusId : statuses[s] # None =>
         /\ statuses[s] \in StatusRow
         /\ statuses[s].board \in BoardId /\ statuses[s].name \in Name
         /\ boards[statuses[s].board] # None
  BY <1>1 DEF TablesTyped, NamesUnique, StatusRow
<1>4. \A t \in TaskId : tasks[t] # None =>
         /\ tasks[t] \in TaskRow
         /\ tasks[t].board \in BoardId /\ tasks[t].status \in StatusId
  BY <1>1 DEF TablesTyped, TaskRow
<1>5. QED
  BY <1>1, <1>2, <1>3, <1>4, Counters DEF TablesTyped, TasksOnTheirBoards

\* What Column says of a task.
LEMMA ColumnOf ==
    ASSUME IInv, NEW t \in TaskId
    PROVE  /\ Column[t] = IF tasks[t] = None THEN None ELSE tasks[t].status
           /\ Column[t] = None <=> tasks[t] = None
  BY Now DEF Column

\* The columns after a write of one task.
LEMMA ColumnPut ==
    ASSUME IInv, NEW t \in TaskId, NEW b \in BoardId, NEW s \in StatusId,
           tasks' = [tasks EXCEPT ![t] = [board |-> b, status |-> s]]
    PROVE  Column' = [Column EXCEPT ![t] = s]
<1> DEFINE row == [board |-> b, status |-> s]
<1>0. row # None /\ row.status = s
  BY RowsAreNotNone DEF TaskRow
<1> HIDE DEF row
<1>1. \A z \in TaskId : tasks'[z] = IF z = t THEN row ELSE tasks[z]
  BY Now DEF row
<1>2. Column' = [z \in TaskId |-> IF z = t THEN s ELSE Column[z]]
  BY <1>0, <1>1 DEF Column
<1>3. QED
  BY <1>2 DEF Column

LEMMA ColumnDropped ==
    ASSUME IInv, NEW t \in TaskId, tasks' = [tasks EXCEPT ![t] = None]
    PROVE  Column' = [Column EXCEPT ![t] = None]
<1>1. \A z \in TaskId : tasks'[z] = IF z = t THEN None ELSE tasks[z]
  BY Now
<1>2. Column' = [z \in TaskId |-> IF z = t THEN None ELSE Column[z]]
  BY <1>1 DEF Column
<1>3. QED
  BY <1>2 DEF Column

\* Ids are given out.
LEMMA GivenIds ==
    /\ Given = [boards |-> 1 .. last.boards, statuses |-> 1 .. last.statuses,
                tasks |-> 1 .. last.tasks]
    /\ Given' = [boards |-> 1 .. last'.boards, statuses |-> 1 .. last'.statuses,
                 tasks |-> 1 .. last'.tasks]
    /\ Given.boards = 1 .. last.boards
    /\ Given.statuses = 1 .. last.statuses
    /\ Given.tasks = 1 .. last.tasks
  BY DEF Given

LEMMA GivenStatus ==
    ASSUME IInv, NEW s, s = last.statuses + 1, last' = [last EXCEPT !.statuses = s]
    PROVE  Given' = [Given EXCEPT !.statuses = @ \cup {s}] /\ s \notin Given.statuses
<1> DEFINE B == 1 .. last.boards
           S == 1 .. last.statuses
           T == 1 .. last.tasks
<1>1. last'.boards = last.boards /\ last'.statuses = s /\ last'.tasks = last.tasks
  BY Now
<1>2. s \notin S /\ 1 .. s = S \cup {s}
  BY Now
<1>3. Given = [boards |-> B, statuses |-> S, tasks |-> T] /\ Given.statuses = S
  BY GivenIds
<1>4. Given' = [boards |-> B, statuses |-> S \cup {s}, tasks |-> T]
  BY <1>1, <1>2, GivenIds
<1> HIDE DEF B, S, T
<1>5. Given' = [Given EXCEPT !.statuses = @ \cup {s}]
  BY <1>3, <1>4
<1>6. QED
  BY <1>2, <1>3, <1>5

LEMMA GivenTask ==
    ASSUME IInv, NEW t, t = last.tasks + 1, last' = [last EXCEPT !.tasks = t]
    PROVE  Given' = [Given EXCEPT !.tasks = @ \cup {t}] /\ t \notin Given.tasks
<1> DEFINE B == 1 .. last.boards
           S == 1 .. last.statuses
           T == 1 .. last.tasks
<1>1. last'.boards = last.boards /\ last'.statuses = last.statuses /\ last'.tasks = t
  BY Now
<1>2. t \notin T /\ 1 .. t = T \cup {t}
  BY Now
<1>3. Given = [boards |-> B, statuses |-> S, tasks |-> T] /\ Given.tasks = T
  BY GivenIds
<1>4. Given' = [boards |-> B, statuses |-> S, tasks |-> T \cup {t}]
  BY <1>1, <1>2, GivenIds
<1> HIDE DEF B, S, T
<1>5. Given' = [Given EXCEPT !.tasks = @ \cup {t}]
  BY <1>3, <1>4
<1>6. QED
  BY <1>2, <1>3, <1>5

\* A write that takes away the tasks of some statuses, and no others.
LEMMA ColumnsGone ==
    ASSUME IInv, NEW gone, None \notin gone,
           tasks' = [t \in TaskId |-> IF tasks[t] # None /\ tasks[t].status \in gone
                                      THEN None ELSE tasks[t]]
    PROVE  Column' = [t \in TaskId |-> IF Column[t] \in gone THEN None ELSE Column[t]]
  BY DEF Column

LEMMA NamedFree ==
    ASSUME NEW b, NEW n
    PROVE  /\ Named(b, n) = {} => Store!Free(b, n)
           /\ \A s \in StatusId : Named(b, n) \subseteq {s} =>
                 Store!Free(b, n) \/ statuses[s].name = n
  BY DEF Named, Store!Free, Store!Of

-----------------------------------------------------------------------------
(* The writes                                                              *)

\* The board w writes to is its user's, if it is there.
LEMMA OwnedNow ==
    ASSUME IInv, NEW w \in Worker, request[w] # None, at[w] = "write",
           request[w].op # "create_board", boards[BoardOf(w)] # None
    PROVE  Store!OwnsBoard(request[w], BoardOf(w))
  BY Busy DEF JobOK, OwnerOK, Store!OwnsBoard

LEMMA UpdateBoardStores ==
    ASSUME IInv, NEW w \in Worker, request[w] # None, request[w].op = "edit_board",
           UpdateBoard(w, request[w].id)
    PROVE  StoreAnswers(w)
<1> DEFINE b == request[w].id
<1>1. b \in BoardId /\ BoardOf(w) = b /\ at[w] = "write"
  BY Busy DEF OnBoard, BoardOf, UpdateBoard
<1>2. CASE Throws(w)
  BY <1>2, UnwrittenAnswers
<1>3. CASE /\ boards[b] # None
           /\ boards' = [boards EXCEPT ![b] = request[w].user]
           /\ UNCHANGED <<statuses, tasks, last>>
           /\ Commits(w)
  <2>1. boards[b] = request[w].user
    BY <1>1, <1>3, OwnedNow DEF Store!OwnsBoard
  <2>2. boards' = boards
    BY <1>3, <2>1, Now
  <2>3. UNCHANGED Store!tables
    BY <1>3, <2>2, TablesSame DEF tables
  <2>4. Store!Effect(request[w])
    BY <2>1, <2>3 DEF Store!Effect, Store!EditBoard, Store!OwnsBoard
  <2>5. QED
    BY <1>3, <2>4, CommitsAnswers
<1>4. QED
  BY <1>2, <1>3 DEF UpdateBoard

LEMMA DeleteBoardStores ==
    ASSUME IInv, NEW w \in Worker, request[w] # None, request[w].op = "delete_board",
           DeleteBoardRow(w, request[w].id)
    PROVE  StoreAnswers(w)
<1> DEFINE b == request[w].id
<1>1. b \in BoardId /\ BoardOf(w) = b /\ at[w] = "write"
  BY Busy DEF OnBoard, BoardOf, DeleteBoardRow
<1>2. CASE Refuses(w)
  BY <1>2, UnwrittenAnswers
<1>3. CASE boards[b] # None /\ ~Refuses(w)
  <2>1. /\ boards' = [boards EXCEPT ![b] = None]
        /\ statuses' = [s \in StatusId |->
               IF statuses[s] # None /\ statuses[s].board = b THEN None ELSE statuses[s]]
        /\ tasks' = [t \in TaskId |->
               IF tasks[t] # None /\ (\/ tasks[t].board = b
                                      \/ statuses[tasks[t].status].board = b)
               THEN None ELSE tasks[t]]
        /\ UNCHANGED last
        /\ Commits(w)
    BY <1>3 DEF DeleteBoardRow
  <2>2. Store!OwnsBoard(request[w], b)
    BY <1>1, <1>3, OwnedNow
  <2>3. statuses' = [s \in StatusId |-> IF s \in Store!Of(b) THEN None ELSE statuses[s]]
    BY <2>1 DEF Store!Of
  <2>4. ASSUME NEW t \in TaskId
        PROVE  (tasks[t] # None /\ (\/ tasks[t].board = b
                                    \/ statuses[tasks[t].status].board = b))
               <=> (tasks[t] # None /\ tasks[t].status \in Store!Of(b))
    BY Now DEF Store!Of
  <2>5. tasks' = [t \in TaskId |-> IF tasks[t] # None /\ tasks[t].status \in Store!Of(b)
                                   THEN None ELSE tasks[t]]
    BY <2>1, <2>4
  <2>6. None \notin Store!Of(b)
    BY Now DEF Store!Of
  <2>7. Column' = [t \in TaskId |-> IF Column[t] \in Store!Of(b) THEN None ELSE Column[t]]
    BY <2>5, <2>6, ColumnsGone
  <2>8. UNCHANGED Given
    BY <2>1 DEF Given
  <2>9. Store!Effect(request[w])
    BY <2>1, <2>2, <2>3, <2>7, <2>8 DEF Store!Effect, Store!DeleteBoard
  <2>10. QED
    BY <2>1, <2>9, CommitsAnswers
<1>4. QED
  BY <1>2, <1>3 DEF DeleteBoardRow

LEMMA InsertStatusStores ==
    ASSUME IInv, NEW w \in Worker, request[w] # None, request[w].op = "create_status",
           InsertStatus(w, request[w].id, request[w].name)
    PROVE  StoreAnswers(w)
<1> DEFINE b == request[w].id
           n == request[w].name
           s == last.statuses + 1
<1>1. b \in BoardId /\ BoardOf(w) = b /\ at[w] = "write" /\ s \in StatusId
  BY Busy DEF OnBoard, BoardOf, InsertStatus
<1>2. CASE Throws(w)
  BY <1>2, UnwrittenAnswers
<1>3. CASE ~Throws(w)
  <2>1. /\ boards[b] # None /\ Named(b, n) = {}
        /\ statuses' = [statuses EXCEPT ![s] = [board |-> b, name |-> n]]
        /\ last' = [last EXCEPT !.statuses = s]
        /\ UNCHANGED <<boards, tasks>>
        /\ Commits(w)
    BY <1>3 DEF InsertStatus
  <2>2. Store!OwnsBoard(request[w], b) /\ Store!Free(b, n)
    BY <1>1, <2>1, OwnedNow, NamedFree
  <2>3. Given' = [Given EXCEPT !.statuses = @ \cup {s}] /\ s \notin Given.statuses
    BY <2>1, GivenStatus
  <2>4. UNCHANGED Column
    BY <2>1 DEF Column
  <2> HIDE DEF s
  <2>5. Store!CreateStatus(request[w])
    BY <1>1, <2>1, <2>2, <2>3, <2>4 DEF Store!CreateStatus
  <2>6. QED
    BY <2>1, <2>5, CommitsAnswers DEF Store!Effect
<1>4. QED
  BY <1>2, <1>3

LEMMA UpdateStatusStores ==
    ASSUME IInv, NEW w \in Worker, request[w] # None, request[w].op = "edit_status",
           UpdateStatus(w, request[w].id, request[w].name)
    PROVE  StoreAnswers(w)
<1> DEFINE s == request[w].id
           n == request[w].name
<1>1. s \in StatusId /\ BoardOf(w) = seen[w].board /\ at[w] = "write"
  BY Busy DEF OnStatus, OnBoard, BoardOf, UpdateStatus
<1>2. CASE Throws(w)
  BY <1>2, UnwrittenAnswers
<1>3. CASE ~Throws(w)
  <2>1. /\ statuses[s] # None /\ Named(statuses[s].board, n) \subseteq {s}
        /\ statuses' = [statuses EXCEPT ![s] = [statuses[s] EXCEPT !.name = n]]
        /\ UNCHANGED <<boards, tasks, last>>
        /\ Commits(w)
    BY <1>3 DEF UpdateStatus
  <2>2. statuses[s].board = BoardOf(w) /\ boards[BoardOf(w)] # None
    BY <1>1, <2>1, Busy, Now DEF JobOK, TargetOK, OnStatus
  <2>3. Store!OwnsStatus(request[w], s)
    BY <1>1, <2>1, <2>2, OwnedNow DEF Store!OwnsStatus
  <2>4. Store!Free(statuses[s].board, n) \/ statuses[s].name = n
    BY <1>1, <2>1, NamedFree
  <2>5. UNCHANGED <<Column, Given>>
    BY <2>1 DEF Column, Given
  <2>6. statuses' = [statuses EXCEPT ![s].name = n]
    BY <2>1
  <2>7. Store!EditStatus(request[w])
    BY <2>1, <2>3, <2>4, <2>5, <2>6 DEF Store!EditStatus
  <2>8. QED
    BY <2>1, <2>7, CommitsAnswers DEF Store!Effect
<1>4. QED
  BY <1>2, <1>3

LEMMA DeleteStatusStores ==
    ASSUME IInv, NEW w \in Worker, request[w] # None, request[w].op = "delete_status",
           DeleteStatusRow(w, request[w].id)
    PROVE  StoreAnswers(w)
<1> DEFINE s == request[w].id
<1>1. s \in StatusId /\ BoardOf(w) = seen[w].board /\ at[w] = "write"
  BY Busy DEF OnStatus, OnBoard, BoardOf, DeleteStatusRow
<1>2. CASE Refuses(w)
  BY <1>2, UnwrittenAnswers
<1>3. CASE ~Refuses(w)
  <2>1. /\ statuses[s] # None
        /\ statuses' = [statuses EXCEPT ![s] = None]
        /\ tasks' = [t \in TaskId |-> IF tasks[t] # None /\ tasks[t].status = s
                                      THEN None ELSE tasks[t]]
        /\ UNCHANGED <<boards, last>>
        /\ Commits(w)
    BY <1>3 DEF DeleteStatusRow
  <2>2. statuses[s].board = BoardOf(w) /\ boards[BoardOf(w)] # None
    BY <1>1, <2>1, Busy, Now DEF JobOK, TargetOK, OnStatus
  <2>3. Store!OwnsStatus(request[w], s)
    BY <1>1, <2>1, <2>2, OwnedNow DEF Store!OwnsStatus
  <2>4. tasks' = [t \in TaskId |-> IF tasks[t] # None /\ tasks[t].status \in {s}
                                   THEN None ELSE tasks[t]]
    BY <2>1
  <2>5. None \notin {s}
    BY <1>1, Now
  <2>6. Column' = [t \in TaskId |-> IF Column[t] \in {s} THEN None ELSE Column[t]]
    BY <2>4, <2>5, ColumnsGone
  <2>7. Column' = [t \in TaskId |-> IF Column[t] = s THEN None ELSE Column[t]]
    BY <2>6
  <2>8. UNCHANGED Given
    BY <2>1 DEF Given
  <2>9. Store!DeleteStatus(request[w])
    BY <2>1, <2>3, <2>7, <2>8 DEF Store!DeleteStatus
  <2>10. QED
    BY <2>1, <2>9, CommitsAnswers DEF Store!Effect
<1>4. QED
  BY <1>2, <1>3

LEMMA InsertTaskStores ==
    ASSUME IInv, NEW w \in Worker, request[w] # None, request[w].op = "create_task",
           InsertTask(w, request[w].id, request[w].status)
    PROVE  StoreAnswers(w)
<1> DEFINE b == request[w].id
           s == request[w].status
           t == last.tasks + 1
<1>1. /\ b \in BoardId /\ s \in StatusId /\ BoardOf(w) = b /\ at[w] = "write"
      /\ t \in TaskId
  BY Busy DEF OnBoard, SetsStatus, BoardOf, InsertTask
<1>2. CASE Throws(w)
  BY <1>2, UnwrittenAnswers
<1>3. CASE ~Throws(w)
  <2>1. /\ boards[b] # None /\ statuses[s] # None
        /\ tasks' = [tasks EXCEPT ![t] = [board |-> b, status |-> s]]
        /\ last' = [last EXCEPT !.tasks = t]
        /\ UNCHANGED <<boards, statuses>>
        /\ Commits(w)
    BY <1>3 DEF InsertTask
  <2>2. Store!OwnsBoard(request[w], b)
    BY <1>1, <2>1, OwnedNow
  <2>3. s \in Store!Of(b)
    BY <1>1, <2>1, Busy DEF JobOK, StatusOK, SetsStatus, Store!Of
  <2>4. Given' = [Given EXCEPT !.tasks = @ \cup {t}] /\ t \notin Given.tasks
    BY <2>1, GivenTask
  <2> HIDE DEF b, s, t
  <2>5. Column' = [Column EXCEPT ![t] = s]
    BY <1>1, <2>1, ColumnPut
  <2>6. Store!CreateTask(request[w])
    BY <1>1, <2>1, <2>2, <2>3, <2>4, <2>5 DEF Store!CreateTask, b, s
  <2>7. QED
    BY <2>1, <2>6, CommitsAnswers DEF Store!Effect
<1>4. QED
  BY <1>2, <1>3

LEMMA UpdateTaskStores ==
    ASSUME IInv, NEW w \in Worker, request[w] # None, request[w].op = "edit_task",
           UpdateTask(w, request[w].id, request[w].status)
    PROVE  StoreAnswers(w)
<1> DEFINE t == request[w].id
           s == request[w].status
           b == seen[w].board
<1>1. /\ t \in TaskId /\ s \in StatusId /\ BoardOf(w) = seen[w].board /\ at[w] = "write"
      /\ b \in BoardId
  BY Busy DEF OnTask, OnBoard, SetsStatus, BoardOf, UpdateTask, JobOK, TargetOK, OnStatus,
     TaskRow
<1>2. CASE tasks[t] = None /\ UNCHANGED tables /\ Commits(w)
  <2>1. Column[t] = None /\ UNCHANGED Store!tables
    BY <1>1, <1>2, ColumnOf, TablesSame
  <2>2. Store!Gets(w, "ok") \/ Store!Gets(w, "failed")
    BY <1>2, AnswersGets DEF Commits, Answer
  <2>3. QED
    BY <2>1, <2>2 DEF StoreAnswers, Store!Succeeded, Store!Failed
<1>3. CASE Throws(w)
  BY <1>3, UnwrittenAnswers
<1>4. CASE /\ tasks[t] # None /\ statuses[s] # None
           /\ tasks' = [tasks EXCEPT ![t] = [board |-> b, status |-> s]]
           /\ UNCHANGED <<boards, statuses, last>>
           /\ Commits(w)
  <2>1. tasks[t].board = BoardOf(w) /\ boards[BoardOf(w)] # None
    BY <1>1, <1>4, Busy, Now DEF JobOK, TargetOK, OnTask
  <2>2. Column[t] = tasks[t].status /\ Column[t] # None
    BY <1>1, <1>4, ColumnOf
  <2>3. /\ statuses[Column[t]] # None
        /\ statuses[Column[t]].board = BoardOf(w)
    BY <1>1, <1>4, <2>1, <2>2, Now
  <2>4. Store!OwnsTask(request[w], t)
    BY <1>1, <2>1, <2>2, <2>3, OwnedNow, <1>4 DEF Store!OwnsTask, Store!OwnsStatus
  <2>5. s \in Store!Of(BoardOf(w))
    BY <1>1, <1>4, Busy DEF JobOK, StatusOK, SetsStatus, Store!Of
  <2>6. UNCHANGED Given
    BY <1>4 DEF Given
  <2> HIDE DEF b, s, t
  <2>7. Column' = [Column EXCEPT ![t] = s]
    BY <1>1, <1>4, ColumnPut
  <2>8. Store!EditTask(request[w])
    BY <1>4, <2>3, <2>4, <2>5, <2>6, <2>7 DEF Store!EditTask, s, t
  <2>9. QED
    BY <1>4, <2>8, CommitsAnswers DEF Store!Effect
<1>5. QED
  BY <1>2, <1>3, <1>4 DEF UpdateTask

LEMMA DeleteTaskStores ==
    ASSUME IInv, NEW w \in Worker, request[w] # None, request[w].op = "delete_task",
           DeleteTaskRow(w, request[w].id)
    PROVE  StoreAnswers(w)
<1> DEFINE t == request[w].id
<1>1. t \in TaskId /\ BoardOf(w) = seen[w].board /\ at[w] = "write"
  BY Busy DEF OnTask, OnBoard, BoardOf, DeleteTaskRow
<1>2. CASE Refuses(w)
  BY <1>2, UnwrittenAnswers
<1>3. CASE ~Refuses(w)
  <2>1. /\ tasks[t] # None
        /\ tasks' = [tasks EXCEPT ![t] = None]
        /\ UNCHANGED <<boards, statuses, last>>
        /\ Commits(w)
    BY <1>3 DEF DeleteTaskRow
  <2>2. tasks[t].board = BoardOf(w) /\ boards[BoardOf(w)] # None
    BY <1>1, <2>1, Busy, Now DEF JobOK, TargetOK, OnTask
  <2>3. /\ Column[t] = tasks[t].status /\ Column[t] # None
        /\ statuses[Column[t]] # None
        /\ statuses[Column[t]].board = BoardOf(w)
    BY <1>1, <2>1, <2>2, ColumnOf, Now
  <2>4. Store!OwnsTask(request[w], t)
    BY <1>1, <2>1, <2>2, <2>3, OwnedNow DEF Store!OwnsTask, Store!OwnsStatus
  <2>5. Column' = [Column EXCEPT ![t] = None]
    BY <1>1, <2>1, ColumnDropped
  <2>6. UNCHANGED Given
    BY <2>1 DEF Given
  <2>7. Store!DeleteTask(request[w])
    BY <2>1, <2>4, <2>5, <2>6 DEF Store!DeleteTask
  <2>8. QED
    BY <2>1, <2>7, CommitsAnswers DEF Store!Effect
<1>4. QED
  BY <1>2, <1>3

\* A new board and its statuses come in one transaction.
LEMMA InsertBoardStores ==
    ASSUME IInv, NEW w \in Worker, request[w] # None, request[w].op = "create_board",
           InsertBoard(w)
    PROVE  StoreAnswers(w)
<1> DEFINE b == last.boards + 1
           card == Cardinality(Defaults)
           ids == last.statuses + 1 .. last.statuses + card
<1>1. /\ b \in BoardId /\ ids \subseteq StatusId /\ Commits(w)
      /\ boards' = [boards EXCEPT ![b] = request[w].user]
      /\ last' = [last EXCEPT !.boards = b, !.statuses = @ + card]
      /\ UNCHANGED tasks
  BY DEF InsertBoard
<1>2. PICK name \in [ids -> Defaults] :
         /\ \A n \in Defaults : \E s \in ids : name[s] = n
         /\ \A s, z \in ids : name[s] = name[z] => s = z
         /\ statuses' = [s \in StatusId |-> IF s \in ids
                                            THEN [board |-> b, name |-> name[s]]
                                            ELSE statuses[s]]
  BY DEF InsertBoard
<1>3. card \in Nat
  BY DefaultsAssumption, FS_CardinalityType
<1> HIDE DEF card
<1>4. {name[s] : s \in ids} = Defaults
  BY <1>2
<1>5. /\ 1 .. b = 1 .. last.boards \cup {b}
      /\ 1 .. last.statuses + card = 1 .. last.statuses \cup ids
      /\ b \notin 1 .. last.boards
      /\ \A s \in ids : s \notin 1 .. last.statuses
  BY <1>3, Now
<1>6. /\ last'.boards = b /\ last'.statuses = last.statuses + card
      /\ last'.tasks = last.tasks
  BY <1>1, Now
<1> HIDE DEF b, ids
<1>7. Given' = [boards |-> Given.boards \cup {b}, statuses |-> Given.statuses \cup ids,
                tasks |-> Given.tasks]
  BY <1>5, <1>6, GivenIds
<1>8. ids \in SUBSET (StatusId \ Given.statuses) /\ b \in BoardId \ Given.boards
  BY <1>1, <1>5 DEF Given
<1>9. UNCHANGED Column
  BY <1>1 DEF Column
<1>10. Store!CreateBoard(request[w])
  <2>1. \E m \in [ids -> Defaults] :
           /\ {m[s] : s \in ids} = Defaults
           /\ \A s, z \in ids : m[s] = m[z] => s = z
           /\ statuses' = [s \in StatusId |-> IF s \in ids
                                              THEN [board |-> b, name |-> m[s]]
                                              ELSE statuses[s]]
    BY <1>2, <1>4
  <2>2. QED
    BY <1>1, <1>7, <1>8, <1>9, <2>1 DEF Store!CreateBoard
<1>11. QED
  BY <1>1, <1>10, CommitsAnswers DEF Store!Effect

-----------------------------------------------------------------------------
(* Every step                                                              *)

\* A call that is not the handler's last shows nothing of it.
LEMMA GoingStutters ==
    ASSUME IInv, NEW w \in Worker, at[w] \in Step, NEW step \in Step,
           at' = [at EXCEPT ![w] = step], UNCHANGED <<tables, request>>
    PROVE  UNCHANGED Store!vars
<1>1. Step \cap Answer = {}
  BY DEF Step, Answer
<1>2. LastAnswer' = LastAnswer
  BY <1>1 DEF LastAnswer, IInv, JobsTyped
<1>3. QED
  BY <1>2, TablesSame DEF Store!vars

\* What a call of w's handler may be to BoardStore.
StoreStep(w) == StoreAnswers(w) \/ UNCHANGED Store!vars

LEMMA ReadingStutters ==
    ASSUME IInv, NEW w \in Worker, request[w] # None
    PROVE  /\ \A b, step : step \in Step /\ FindBoard(w, b, step) => StoreStep(w)
           /\ \A b : FindStatus(w, b) => StoreStep(w)
           /\ \A b, self : FindName(w, b, self) => StoreStep(w)
           /\ \A table : FindTarget(w, table) => StoreStep(w)
<1>1. Refuses(w) => StoreStep(w)
  BY UnwrittenAnswers DEF StoreStep
<1>2. ASSUME at[w] \in Step, NEW step \in Step, at' = [at EXCEPT ![w] = step],
             UNCHANGED <<tables, request>>
      PROVE  StoreStep(w)
  BY <1>2, GoingStutters DEF StoreStep
<1>3. ASSUME NEW b, NEW step \in Step, FindBoard(w, b, step) PROVE StoreStep(w)
  BY <1>1, <1>2, <1>3 DEF FindBoard, Goes, Step
<1>4. ASSUME NEW b, FindStatus(w, b) PROVE StoreStep(w)
  BY <1>1, <1>2, <1>4 DEF FindStatus, Goes, Step
<1>5. ASSUME NEW b, NEW self, FindName(w, b, self) PROVE StoreStep(w)
  BY <1>1, <1>2, <1>5 DEF FindName, Goes, Step
<1>6. ASSUME NEW table, FindTarget(w, table) PROVE StoreStep(w)
  BY <1>1, <1>2, <1>6 DEF FindTarget, Step
<1>7. QED
  BY <1>3, <1>4, <1>5, <1>6

LEMMA WritingStores ==
    ASSUME IInv, NEW w \in Worker, request[w] # None
    PROVE  /\ request[w].op = "create_board" /\ InsertBoard(w) => StoreStep(w)
           /\ request[w].op = "edit_board" /\ UpdateBoard(w, request[w].id) => StoreStep(w)
           /\ request[w].op = "delete_board" /\ DeleteBoardRow(w, request[w].id) => StoreStep(w)
           /\ request[w].op = "create_status"
                /\ InsertStatus(w, request[w].id, request[w].name) => StoreStep(w)
           /\ request[w].op = "edit_status"
                /\ UpdateStatus(w, request[w].id, request[w].name) => StoreStep(w)
           /\ request[w].op = "delete_status"
                /\ DeleteStatusRow(w, request[w].id) => StoreStep(w)
           /\ request[w].op = "create_task"
                /\ InsertTask(w, request[w].id, request[w].status) => StoreStep(w)
           /\ request[w].op = "edit_task"
                /\ UpdateTask(w, request[w].id, request[w].status) => StoreStep(w)
           /\ request[w].op = "delete_task"
                /\ DeleteTaskRow(w, request[w].id) => StoreStep(w)
  BY InsertBoardStores, UpdateBoardStores, DeleteBoardStores, InsertStatusStores,
     UpdateStatusStores, DeleteStatusStores, InsertTaskStores, UpdateTaskStores,
     DeleteTaskStores DEF StoreStep

LEMMA HandleStores ==
    ASSUME IInv, NEW w \in Worker, Handle(w)
    PROVE  StoreStep(w)
<1>1. "write" \in Step /\ "name" \in Step /\ "status" \in Step
  BY DEF Step
<1>2. CASE CreateBoard(w)
  BY <1>2, WritingStores DEF CreateBoard, Handling
<1>3. CASE EditBoard(w)
  BY <1>1, <1>3, ReadingStutters, WritingStores DEF EditBoard, Handling
<1>4. CASE DeleteBoard(w)
  BY <1>1, <1>4, ReadingStutters, WritingStores DEF DeleteBoard, Handling
<1>5. CASE CreateStatus(w)
  BY <1>1, <1>5, ReadingStutters, WritingStores DEF CreateStatus, Handling
<1>6. CASE EditStatus(w)
  BY <1>1, <1>6, ReadingStutters, WritingStores DEF EditStatus, Handling
<1>7. CASE DeleteStatus(w)
  BY <1>1, <1>7, ReadingStutters, WritingStores DEF DeleteStatus, Handling
<1>8. CASE CreateTask(w)
  BY <1>1, <1>8, ReadingStutters, WritingStores DEF CreateTask, Handling
<1>9. CASE EditTask(w)
  BY <1>1, <1>9, ReadingStutters, WritingStores DEF EditTask, Handling
<1>10. CASE DeleteTask(w)
  BY <1>1, <1>10, ReadingStutters, WritingStores DEF DeleteTask, Handling
<1>11. CASE DatabaseFails(w)
  BY <1>11, UnwrittenAnswers DEF DatabaseFails, StoreStep
<1>12. QED
  BY <1>2, <1>3, <1>4, <1>5, <1>6, <1>7, <1>8, <1>9, <1>10, <1>11 DEF Handle

LEMMA ReceiveStores ==
    ASSUME IInv, NEW w \in Worker, NEW r \in Requests, Receive(w, r)
    PROVE  Store!Asks(w)
<1>1. at \in [Worker -> Step \cup Answer] /\ at' = [at EXCEPT ![w] = FirstStep(r.op)]
  BY DEF IInv, JobsTyped, Receive
<1>2. FirstStep(r.op) \notin Answer
  BY DEF FirstStep, Answer
<1>3. LastAnswer' = [LastAnswer EXCEPT ![w] = "busy"]
  BY <1>1, <1>2 DEF LastAnswer
<1>4. QED
  BY <1>3, TablesSame DEF Receive, Store!Asks

\* The handlers implement the store, for any number of threads, users and rows:
\* although each checks owner, status and name transactions before it writes, no
\* interleaving shows a caller anything but one permitted change per request.
THEOREM HandlersImplementStore == Spec => ImplementsStore
<1>1. IInv /\ [Next]_vars => [Store!Next]_(Store!vars)
  <2> SUFFICES ASSUME IInv, [Next]_vars PROVE Store!Next \/ UNCHANGED Store!vars
    OBVIOUS
  <2>1. ASSUME NEW w \in Worker, NEW r \in Requests, Receive(w, r) PROVE Store!Next
    BY <2>1, ReceiveStores DEF Store!Next
  <2>2. ASSUME NEW w \in Worker, Handle(w) PROVE Store!Next \/ UNCHANGED Store!vars
    BY <2>2, HandleStores DEF StoreStep, StoreAnswers, Store!Next
  <2>3. CASE UNCHANGED vars
    BY <2>3, TablesSame DEF vars, LastAnswer, Store!vars
  <2>4. QED
    BY <2>1, <2>2, <2>3 DEF Next
<1>2. QED
  BY <1>1, InitStore, Invariance, PTL DEF Spec, ImplementsStore, Store!Spec

=============================================================================
