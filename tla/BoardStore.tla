------------------------------ MODULE BoardStore ------------------------------
(***************************************************************************)
(* What the handlers of boards, statuses and tasks promise their callers:  *)
(* a request takes effect at one moment, between its arrival and its       *)
(* answer, and at that moment its user owns the board it changes, the name *)
(* is free there and the status is of the task's board.  The data is a     *)
(* tree: a task is in a status, a status on a board, and what is deleted   *)
(* takes with it what is under it.  Ids are given once.                    *)
(*                                                                         *)
(* A request that is refused has had no effect.  One that has failed with  *)
(* a 500 may have had its effect or not.  One that succeeded has had it,   *)
(* but for the edit of a task that has been deleted.                       *)
(***************************************************************************)
CONSTANTS Caller, Requests, Name, Defaults, None, BoardId, StatusId, TaskId

VARIABLES
    boards,    \* the owner of each board
    statuses,  \* the board and the name of each status
    column,    \* the status of each task
    given,     \* ids that have been in use
    request,   \* what each caller waits for
    answer     \* and the last answer it got

tables == <<boards, statuses, column, given>>
vars == <<tables, request, answer>>

Init ==
    /\ boards = [b \in BoardId |-> None]
    /\ statuses = [s \in StatusId |-> None]
    /\ column = [t \in TaskId |-> None]
    /\ given = [boards |-> {}, statuses |-> {}, tasks |-> {}]
    /\ request = [c \in Caller |-> None]
    /\ answer = [c \in Caller |-> "idle"]

Of(b) == {s \in StatusId : statuses[s] # None /\ statuses[s].board = b}
Free(b, n) == \A s \in Of(b) : statuses[s].name # n

OwnsBoard(r, b) == boards[b] = r.user
OwnsStatus(r, s) == statuses[s] # None /\ OwnsBoard(r, statuses[s].board)
OwnsTask(r, t) == column[t] # None /\ OwnsStatus(r, column[t])

-----------------------------------------------------------------------------
(* Effects                                                                 *)

CreateBoard(r) ==
    \E b \in BoardId \ given.boards, ids \in SUBSET (StatusId \ given.statuses) :
        /\ boards' = [boards EXCEPT ![b] = r.user]
        /\ \E name \in [ids -> Defaults] :
             /\ {name[s] : s \in ids} = Defaults
             /\ \A s, z \in ids : name[s] = name[z] => s = z
             /\ statuses' = [s \in StatusId |-> IF s \in ids
                                                THEN [board |-> b, name |-> name[s]]
                                                ELSE statuses[s]]
        /\ given' = [boards |-> given.boards \cup {b}, statuses |-> given.statuses \cup ids,
                     tasks |-> given.tasks]
        /\ UNCHANGED column

\* Of a board only the owner is kept, and that stays.
EditBoard(r) == OwnsBoard(r, r.id) /\ UNCHANGED tables

DeleteBoard(r) ==
    /\ OwnsBoard(r, r.id)
    /\ boards' = [boards EXCEPT ![r.id] = None]
    /\ statuses' = [s \in StatusId |-> IF s \in Of(r.id) THEN None ELSE statuses[s]]
    /\ column' = [t \in TaskId |-> IF column[t] \in Of(r.id) THEN None ELSE column[t]]
    /\ UNCHANGED given

CreateStatus(r) ==
    /\ OwnsBoard(r, r.id)
    /\ Free(r.id, r.name)
    /\ \E s \in StatusId \ given.statuses :
         /\ statuses' = [statuses EXCEPT ![s] = [board |-> r.id, name |-> r.name]]
         /\ given' = [given EXCEPT !.statuses = @ \cup {s}]
    /\ UNCHANGED <<boards, column>>

EditStatus(r) ==
    /\ OwnsStatus(r, r.id)
    /\ Free(statuses[r.id].board, r.name) \/ statuses[r.id].name = r.name
    /\ statuses' = [statuses EXCEPT ![r.id].name = r.name]
    /\ UNCHANGED <<boards, column, given>>

DeleteStatus(r) ==
    /\ OwnsStatus(r, r.id)
    /\ statuses' = [statuses EXCEPT ![r.id] = None]
    /\ column' = [t \in TaskId |-> IF column[t] = r.id THEN None ELSE column[t]]
    /\ UNCHANGED <<boards, given>>

CreateTask(r) ==
    /\ OwnsBoard(r, r.id)
    /\ r.status \in Of(r.id)
    /\ \E t \in TaskId \ given.tasks :
         /\ column' = [column EXCEPT ![t] = r.status]
         /\ given' = [given EXCEPT !.tasks = @ \cup {t}]
    /\ UNCHANGED <<boards, statuses>>

EditTask(r) ==
    /\ OwnsTask(r, r.id)
    /\ r.status \in Of(statuses[column[r.id]].board)
    /\ column' = [column EXCEPT ![r.id] = r.status]
    /\ UNCHANGED <<boards, statuses, given>>

DeleteTask(r) ==
    /\ OwnsTask(r, r.id)
    /\ column' = [column EXCEPT ![r.id] = None]
    /\ UNCHANGED <<boards, statuses, given>>

Effect(r) ==
    \/ r.op = "create_board" /\ CreateBoard(r)
    \/ r.op = "edit_board" /\ EditBoard(r)
    \/ r.op = "delete_board" /\ DeleteBoard(r)
    \/ r.op = "create_status" /\ CreateStatus(r)
    \/ r.op = "edit_status" /\ EditStatus(r)
    \/ r.op = "delete_status" /\ DeleteStatus(r)
    \/ r.op = "create_task" /\ CreateTask(r)
    \/ r.op = "edit_task" /\ EditTask(r)
    \/ r.op = "delete_task" /\ DeleteTask(r)

-----------------------------------------------------------------------------
(* Requests                                                                *)

Asks(c) ==
    /\ request[c] = None
    /\ \E r \in Requests : request' = [request EXCEPT ![c] = r]
    /\ answer' = [answer EXCEPT ![c] = "busy"]
    /\ UNCHANGED tables

Gets(c, a) ==
    /\ request[c] # None
    /\ request' = [request EXCEPT ![c] = None]
    /\ answer' = [answer EXCEPT ![c] = a]

Refused(c) == Gets(c, "refused") /\ UNCHANGED tables

Failed(c) == Gets(c, "failed") /\ (Effect(request[c]) \/ UNCHANGED tables)

Succeeded(c) ==
    LET r == request[c]
    IN  /\ Gets(c, "ok")
        /\ \/ Effect(r)
           \/ r.op = "edit_task" /\ column[r.id] = None /\ UNCHANGED tables

Next ==
    \E c \in Caller : Asks(c) \/ Refused(c) \/ Failed(c) \/ Succeeded(c)

Spec == Init /\ [][Next]_vars

=============================================================================
