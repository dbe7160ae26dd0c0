------------------------------ MODULE MCHandlers ------------------------------
(***************************************************************************)
(* Handlers with small constants for TLC.                                  *)
(***************************************************************************)
EXTENDS Handlers, TLC

\* Threads are interchangeable, and so are the accounts.
Symmetric == {p @@ q : p \in Permutations(Worker), q \in Permutations(User)}

\* Requests are about ids that have been given out: all others are answered
\* 404, as the ids of deleted rows are.
IdsAreKnown ==
    \A w \in Worker : request[w] # None =>
        LET r == request[w]
        IN  /\ r.op \in {"edit_board", "delete_board", "create_status", "create_task"} =>
                   r.id <= last.boards
            /\ r.op \in {"edit_status", "delete_status"} => r.id <= last.statuses
            /\ r.op \in {"edit_task", "delete_task"} => r.id <= last.tasks
            /\ r.status # None => r.status <= last.statuses

\* Tasks are only deleted with their status or board.
NoTaskDeletes ==
    IdsAreKnown /\ \A w \in Worker : request[w] # None => request[w].op # "delete_task"

=============================================================================
