------------------------------ MODULE BoardSync ------------------------------
(***************************************************************************)
(* One client's boards and the server's: BoardSyncManager                  *)
(* (frontend/sync/board_sync_manager.cpp) over LocalBoardRepository and    *)
(* the SQLite triggers, driven by the create and edit screens and by the   *)
(* periodic sync, against the backend's board handlers, which another      *)
(* device of the same user calls too.                                      *)
(*                                                                         *)
(* A board's title and description are one Text, a fresh one each time     *)
(* somebody types.  No screen deletes a board (nothing calls the boards'   *)
(* markDeletedById), so sync() has no DELETE to send and a board, once     *)
(* on the server, stays there.  A request is served in one step: the races *)
(* between two handlers of the backend are not this module's.              *)
(***************************************************************************)
EXTENDS Integers, FiniteSets, Bags

CONSTANTS
    None,        \* no row
    MaxLocal,    \* bound: how far down local ids go
    MaxServer,   \* bound: ids the server gives out
    MaxText,     \* bound: texts typed in a behaviour
    MaxDay,      \* bound: how often midnight passes
    MaxPushes,   \* bound: pushes in flight together
    MaxRestarts, \* bound: how often the client is closed and opened again
    MaxRetries   \* NetworkManager::MAX_RETRIES_

LocalId == -MaxLocal .. -1
ServerId == 1 .. MaxServer
Id == LocalId \cup ServerId
Text == 1 .. MaxText

\* An updated_at: SQLite's CURRENT_TIMESTAMP writes "YYYY-MM-DD hh:mm:ss",
\* Qt and the server write "YYYY-MM-DDThh:mm:ssZ".
Stamp == [day : 0 .. MaxDay, iso : BOOLEAN]

LocalRow == [text : Text, sync_status : {"pending", "synced", "conflict"},
             server_version : {0, 1}, updated_at : Stamp]

\* What the server stores and sends of a board, beside its id.
ServerRow == [text : Text, updated_at : Stamp]

\* A push in flight: not yet served, or with the answer on its way back.
Push == [op : {"create", "update"}, id : Id, text : Text,
         retries : 0 .. MaxRetries,
         answer : [id : ServerId, row : ServerRow] \cup {None}]

ASSUME BoundAssumption ==
    /\ {MaxLocal, MaxServer, MaxText, MaxDay, MaxPushes, MaxRestarts} \subseteq Nat
    /\ MaxRetries \in Nat
ASSUME NoneAssumption == None \notin LocalRow \cup ServerRow \cup [id : ServerId, row : ServerRow]

VARIABLES
    local,     \* the local boards table
    server,    \* the server's boards table
    serial,    \* the last id PostgreSQL's SERIAL gave out
    pushes,    \* the sync requests in flight: a bag
    load,      \* GET boards: "idle", "sent" or "answered"
    snapshot,  \* the boards an answered GET carries
    today,     \* the date, UTC
    typed,     \* texts typed so far
    healthy,   \* the network and the backend's database work
    crashed,   \* an exception has left a slot: the client is gone
    restarts,  \* how often it has been opened again
    owed       \* history: texts typed here and neither stored by the server
               \* since nor replaced by their own author

net == <<pushes, load, snapshot>>
vars == <<local, server, serial, net, today, typed, healthy,
          crashed, restarts, owed>>

-----------------------------------------------------------------------------
(* Timestamps                                                              *)

SqlNow == [day |-> today, iso |-> FALSE]
IsoNow == [day |-> today, iso |-> TRUE]

\* The string comparison existing->updated_at_ > board.updated_at_: the date
\* decides, then the separator, and ' ' sorts before 'T'.  (Two ISO times of
\* one day are never compared, see PendingStampsAreSql.)
Later(a, b) == a.day > b.day \/ (a.day = b.day /\ a.iso /\ ~b.iso)

-----------------------------------------------------------------------------
(* The local repository                                                    *)

Rows == {i \in Id : local[i] # None}
Pending == {i \in Rows : local[i].sync_status = "pending"}

\* createLocalId: one below the least negative id in use.
CreateLocalId ==
    IF \E i \in Rows : i < 0
    THEN (CHOOSE i \in Rows : \A j \in Rows : i <= j) - 1
    ELSE -1

\* markSynced on a table t: the trigger refreshes updated_at.
MarkSynced(t, i) ==
    IF t[i] = None THEN t
    ELSE [t EXCEPT ![i].sync_status = "synced", ![i].updated_at = SqlNow]

\* replaceId where new is free: the row moves and the trigger fires.
ReplaceId(t, old, new) ==
    IF t[old] = None THEN t
    ELSE [t EXCEPT ![old] = None, ![new] = [t[old] EXCEPT !.updated_at = SqlNow]]

\* replaceId violates the primary key, and the exception leaves the slot.
ReplaceIdThrows(old, new) == local[old] # None /\ local[new] # None

\* A row as the server sent it.  The trigger fires when the updated_at stored
\* is the one sent, to the second (same).
Overwritten(old, row, same) ==
    [text |-> row.text, sync_status |-> "synced", server_version |-> 1,
     updated_at |-> IF same /\ old # None /\ old.updated_at = row.updated_at
                    THEN SqlNow ELSE row.updated_at]

Conflicting(old, row) ==
    /\ old # None
    /\ old.sync_status = "pending"
    /\ Later(old.updated_at, row.updated_at)

\* Mutant of SavedFromServer: a pending row is kept whatever its date.
SavedFromServerKeeping(old, row, same) ==
    IF old # None /\ old.sync_status = "pending"
    THEN [old EXCEPT !.sync_status = "conflict"]
    ELSE IF old # None /\ old.sync_status = "conflict" THEN old
    ELSE Overwritten(old, row, same)

\* saveFromServer: what becomes of a local row when the server's arrives.
SavedFromServer(old, row, same) ==
    IF Conflicting(old, row)
    THEN [old EXCEPT !.sync_status = "conflict", !.updated_at = SqlNow]
    ELSE Overwritten(old, row, same)

-----------------------------------------------------------------------------
(* Pushing                                                                 *)

\* Mutant of PushOf: a row whose POST is under way is taken for created.
PushOfSent(i) ==
    [op |-> IF local'[i].server_version = 0 /\ \A p \in BagToSet(pushes) : p.id # i
            THEN "create" ELSE "update",
     id |-> i, text |-> local'[i].text, retries |-> 0, answer |-> None]

PushOf(i) ==
    [op |-> IF local'[i].server_version = 0 THEN "create" ELSE "update",
     id |-> i, text |-> local'[i].text, retries |-> 0, answer |-> None]

\* sync: one request for every pending row, whether or not one is in flight
\* for it already.  Bound: MaxPushes.
Sync ==
    LET sent == {PushOf(i) : i \in Pending'}
    IN  /\ BagCardinality(pushes) + Cardinality(sent) <= MaxPushes
        /\ pushes' = pushes (+) SetToBag(sent)

Without(p) == pushes (-) SetToBag({p})
Replacing(p, q) == Without(p) (+) SetToBag({q})

Init ==
    /\ local = [i \in Id |-> None]
    /\ server = [i \in ServerId |-> None]
    /\ serial = 0
    /\ pushes = EmptyBag
    /\ load = "idle"
    /\ snapshot = [i \in ServerId |-> None]
    /\ today = 0
    /\ typed = 0
    /\ healthy = TRUE
    /\ crashed = FALSE
    /\ restarts = 0
    /\ owed = {}

\* BoardCreateScreen::onCreateBoardRequest.
CreateBoard ==
    /\ ~crashed
    /\ typed < MaxText
    /\ CreateLocalId \in LocalId
    /\ typed' = typed + 1
    /\ local' = [local EXCEPT ![CreateLocalId] =
                   [text |-> typed', sync_status |-> "pending",
                    server_version |-> 0, updated_at |-> IsoNow]]
    /\ owed' = owed \cup {typed'}
    /\ Sync
    /\ UNCHANGED <<server, serial, load, snapshot, today, healthy, crashed, restarts>>

\* Mutant of EditBoard: the edit stamps the row itself, the way a new row is.
EditBoardStamping(i) ==
    /\ ~crashed
    /\ typed < MaxText
    /\ i > 0 /\ local[i] # None
    /\ typed' = typed + 1
    /\ local' = [local EXCEPT ![i].text = typed', ![i].sync_status = "pending",
                              ![i].updated_at = IsoNow]
    /\ owed' = (owed \ {local[i].text}) \cup {typed'}
    /\ Sync
    /\ UNCHANGED <<server, serial, load, snapshot, today, healthy, crashed, restarts>>

\* BoardEditScreen::onUpdateBoardRequest: only a board that has its server id.
\* The row is saved with the updated_at it had, so the trigger sets it.
EditBoard(i) ==
    /\ ~crashed
    /\ typed < MaxText
    /\ i > 0 /\ local[i] # None
    /\ typed' = typed + 1
    /\ local' = [local EXCEPT ![i].text = typed', ![i].sync_status = "pending",
                              ![i].updated_at = SqlNow]
    /\ owed' = (owed \ {local[i].text}) \cup {typed'}
    /\ Sync
    /\ UNCHANGED <<server, serial, load, snapshot, today, healthy, crashed, restarts>>

\* onPeriodicSync, as far as boards go: syncAll, then loadAll.
PeriodicSync ==
    /\ ~crashed
    /\ load = "idle"
    /\ load' = "sent"
    /\ UNCHANGED local
    /\ Sync
    /\ UNCHANGED <<server, serial, snapshot, today, typed, healthy, crashed, restarts, owed>>

\* The client is closed, or was gone already, and opened again: the user has
\* to log in, which takes the backend, and beginUserSession empties the
\* tables and loads.  What was in flight is lost.
Restart ==
    /\ healthy
    /\ restarts < MaxRestarts
    /\ restarts' = restarts + 1
    /\ local' = [i \in Id |-> None]
    /\ pushes' = EmptyBag
    /\ load' = "sent"
    /\ snapshot' = [i \in ServerId |-> None]
    /\ crashed' = FALSE
    /\ UNCHANGED <<server, serial, today, typed, healthy, owed>>

-----------------------------------------------------------------------------
(* Answers                                                                 *)

\* Mutant of CreateAnswered: the row keeps the local id.
CreateAnsweredInPlace(p) ==
    /\ \E same \in BOOLEAN :
          local' = MarkSynced([local EXCEPT ![p.answer.id] =
                       SavedFromServer(@, p.answer.row, same)], p.id)
    /\ UNCHANGED crashed

\* handlePushResponse on a 200 for a create: the local id gives way to the
\* server's, the server's row is stored, and the row is marked as synced
\* whatever it was.
CreateAnswered(p) ==
    LET sid == p.answer.id
        moved == IF p.id < 0 THEN ReplaceId(local, p.id, sid) ELSE local
        id == IF p.id < 0 THEN sid ELSE p.id
    IN  IF p.id < 0 /\ ReplaceIdThrows(p.id, sid)
        THEN crashed' = TRUE /\ UNCHANGED local
        ELSE /\ \E same \in BOOLEAN :
                  local' = MarkSynced([moved EXCEPT ![sid] =
                               SavedFromServer(@, p.answer.row, same)], id)
             /\ UNCHANGED crashed

\* The same on a 200 for an update.
UpdateAnswered(p) ==
    /\ \E same \in BOOLEAN :
          local' = MarkSynced([local EXCEPT ![p.answer.id] =
                       SavedFromServer(@, p.answer.row, same)], p.id)
    /\ UNCHANGED crashed

DeliverPush(p) ==
    /\ ~crashed
    /\ p.answer # None
    /\ \/ p.op = "create" /\ CreateAnswered(p)
       \/ p.op = "update" /\ UpdateAnswered(p)
    /\ pushes' = Without(p)
    /\ UNCHANGED <<server, serial, load, snapshot, today, typed, healthy, restarts, owed>>

\* handleResponse with the list of boards: saveFromServer for each of them.
DeliverLoad ==
    /\ ~crashed
    /\ load = "answered"
    /\ load' = "idle"
    /\ LET sent == {i \in ServerId : snapshot[i] # None}
       IN  \E same \in SUBSET sent :
             local' = [i \in Id |-> IF i \in sent
                                    THEN SavedFromServer(local[i], snapshot[i], i \in same)
                                    ELSE local[i]]
    /\ snapshot' = [i \in ServerId |-> None]
    /\ UNCHANGED <<server, serial, pushes, today, typed, healthy, crashed, restarts, owed>>

\* A request is refused, its connection or its answer is lost: no answer the
\* client would store, and no retry.
LosePush(p) ==
    /\ ~healthy
    /\ pushes' = Without(p)
    /\ UNCHANGED <<local, server, serial, load, snapshot, today, typed, healthy,
                   crashed, restarts, owed>>

\* Mutant of RetryPush: one retry too many.
RetryPushOnceMore(p) ==
    /\ ~crashed /\ ~healthy
    /\ p.answer = None
    /\ p.retries <= MaxRetries
    /\ pushes' = Replacing(p, [p EXCEPT !.retries = @ + 1])
    /\ UNCHANGED <<local, server, serial, load, snapshot, today, typed, healthy,
                   crashed, restarts, owed>>

\* onResult on a 500: the same request again, up to MAX_RETRIES_ times.
RetryPush(p) ==
    /\ ~crashed /\ ~healthy
    /\ p.answer = None
    /\ p.retries < MaxRetries
    /\ pushes' = Replacing(p, [p EXCEPT !.retries = @ + 1])
    /\ UNCHANGED <<local, server, serial, load, snapshot, today, typed, healthy,
                   crashed, restarts, owed>>

LoadFails ==
    /\ ~healthy
    /\ load # "idle"
    /\ load' = "idle"
    /\ snapshot' = [i \in ServerId |-> None]
    /\ UNCHANGED <<local, server, serial, pushes, today, typed, healthy, crashed,
                   restarts, owed>>

-----------------------------------------------------------------------------
(* The backend and the other device                                        *)

\* BoardRepository::insert and update, from any client.
Insert(text) ==
    /\ serial < MaxServer
    /\ serial' = serial + 1
    /\ server' = [server EXCEPT ![serial'] = [text |-> text, updated_at |-> IsoNow]]

Update(i, text) ==
    /\ server[i] # None
    /\ server' = [server EXCEPT ![i] = [text |-> text, updated_at |-> IsoNow]]
    /\ UNCHANGED serial

Answered(p, sid) == Replacing(p, [p EXCEPT !.answer = [id |-> sid, row |-> server'[sid]]])

\* handleCreate, to its 200.
ServeCreate(p) ==
    /\ p.op = "create"
    /\ Insert(p.text)
    /\ pushes' = Answered(p, serial')

\* handleEdit, to its 200.
ServeEdit(p) ==
    /\ p.op = "update"
    /\ Update(p.id, p.text)
    /\ pushes' = Answered(p, p.id)

ServePush(p) ==
    /\ healthy
    /\ p.answer = None
    /\ ServeCreate(p) \/ ServeEdit(p)
    /\ owed' = owed \ {p.text}
    /\ UNCHANGED <<local, load, snapshot, today, typed, healthy, crashed, restarts>>

\* GET boards, answered from one SELECT.
ServeLoad ==
    /\ healthy
    /\ load = "sent"
    /\ load' = "answered"
    /\ snapshot' = server
    /\ UNCHANGED <<local, server, serial, pushes, today, typed, healthy, crashed,
                   restarts, owed>>

\* Another device of the user creates or edits a board.
OtherDevice ==
    /\ typed < MaxText
    /\ typed' = typed + 1
    /\ \/ Insert(typed')
       \/ \E i \in ServerId : Update(i, typed')
    /\ UNCHANGED <<local, pushes, load, snapshot, today, healthy, crashed, restarts, owed>>

MidnightPasses ==
    /\ today < MaxDay
    /\ today' = today + 1
    /\ UNCHANGED <<local, server, serial, net, typed, healthy, crashed, restarts, owed>>

HealthChanges ==
    /\ healthy' = ~healthy
    /\ UNCHANGED <<local, server, serial, net, today, typed, crashed, restarts, owed>>

InFlight == BagToSet(pushes)

Next ==
    \/ CreateBoard
    \/ \E i \in ServerId : EditBoard(i)
    \/ PeriodicSync
    \/ Restart
    \/ \E p \in InFlight : DeliverPush(p) \/ LosePush(p) \/ RetryPush(p) \/ ServePush(p)
    \/ DeliverLoad
    \/ LoadFails
    \/ ServeLoad
    \/ OtherDevice
    \/ MidnightPasses
    \/ HealthChanges

\* The event loop keeps running, the periodic timer repeats, and while the
\* backend is healthy it answers.  Nothing is assumed of the user, of the
\* other device or of how often the network fails.
Fairness ==
    /\ WF_vars(PeriodicSync)
    /\ WF_vars(DeliverLoad)
    /\ WF_vars(ServeLoad)
    /\ WF_vars(\E p \in InFlight : ServePush(p))
    /\ WF_vars(\E p \in InFlight : DeliverPush(p))

SafetySpec == Init /\ [][Next]_vars
Spec == SafetySpec /\ Fairness

-----------------------------------------------------------------------------
(* Properties                                                              *)

\* Every variable keeps to the values the code can give it; the bounds of the
\* sequence of ids and of the retries (onResult) are among them.
TypeOK ==
    /\ local \in [Id -> LocalRow \cup {None}]
    /\ server \in [ServerId -> ServerRow \cup {None}]
    /\ serial \in 0 .. MaxServer
    /\ InFlight \subseteq Push
    /\ load \in {"idle", "sent", "answered"}
    /\ snapshot \in [ServerId -> ServerRow \cup {None}]
    /\ today \in 0 .. MaxDay
    /\ typed \in 0 .. MaxText
    /\ healthy \in BOOLEAN
    /\ crashed \in BOOLEAN
    /\ restarts \in 0 .. MaxRestarts
    /\ owed \subseteq Text

\* A board the server has not named yet is still to be created there: sync()
\* only looks at pending rows, and chooses POST by server_version, so a row
\* with a local id and any other mark would never reach the server.
UnsentIsPending ==
    \A i \in Rows : i < 0 => local[i].sync_status = "pending" /\ local[i].server_version = 0

\* saveFromServer compares the two times as strings, which tells two times of
\* one day apart only when both are written alike.  They never are: a pending
\* row that has its server id was stamped by SQLite, so an edit made on the
\* day of the server's own never wins.
PendingStampsAreSql ==
    \A i \in Pending : i > 0 => ~local[i].updated_at.iso

\* A row that has a server id, and a PATCH in flight, are always about a board
\* the server has: sync() never edits what handleEdit can only answer with 404,
\* whichever answers come late, twice or under a local id that is in use again
\* (replaceId and markSynced in handlePushResponse, createLocalId).
NamedBoardsExist ==
    /\ \A i \in Rows : i > 0 => server[i] # None
    /\ \A p \in InFlight : p.op = "update" => p.id > 0 /\ server[p.id] # None

Mirrored ==
    /\ Pending = {}
    /\ \A i \in ServerId :
         IF server[i] = None THEN local[i] = None
         ELSE /\ local[i] # None
              /\ local[i].text = server[i].text
              /\ local[i].sync_status = "synced"

\* A list that is still true when it is parsed leaves the client with exactly the
\* server's boards, if nothing is pending: no conflict of an earlier day and no
\* row an answer has misplaced outlives it (saveFromServer, parse).
LoadMirrors ==
    [][/\ healthy /\ load = "answered" /\ load' = "idle"
       /\ snapshot = server /\ Pending = {}
       => Mirrored']_vars

\* A create in flight waits for an id that the bound withholds.
Withheld == serial = MaxServer /\ \E p \in InFlight : p.op = "create" /\ p.answer = None

\* Once the network and the backend stay up, the client and the server come to
\* hold the same boards and nothing is left to push, whatever was typed, lost,
\* retried or answered out of order before: also when a lost answer has made
\* two boards of one, and when a local id is in use again while its first push
\* is under way.  Excused: a client an exception has ended, and a create that
\* the bound on the server's ids keeps from being served.
Converges ==
    <>[]healthy => <>[](Mirrored \/ crashed \/ Withheld)

\* A text typed here and not yet stored by the server is still in the local
\* table or on its way (README.md:23: boards are created and edited without a
\* network; README.md:24: when it is back, the client syncs and resolves
\* version conflicts).
OwedTextsKept ==
    \A k \in owed : \/ \E i \in Rows : local[i].text = k
                    \/ \E p \in InFlight : p.answer = None /\ p.text = k

\* The background exchange never ends the client (README.md:24): no exception
\* of a repository leaves the slot an answer is delivered to.
NeverTerminates == ~crashed

=============================================================================
