-------------------------- MODULE SyncCoordinator --------------------------
(***************************************************************************)
(* The client's session and its background load: SyncCoordinator           *)
(* (frontend/sync/sync_coordinator.cpp), the GET half of NetworkManager    *)
(* (frontend/src/network_manager.cpp) and the parts of MainWindow and      *)
(* LoginScreen that begin and end a session.                               *)
(*                                                                         *)
(* Everything runs on the Qt event loop, so a slot is one atomic action;   *)
(* what interleaves is the network: several requests are outstanding at    *)
(* once, they are answered in any order, a 500 or a time-out is sent again *)
(* after a second with the token of that later moment, and logins and      *)
(* logouts happen while requests of the previous session are still out.    *)
(*                                                                         *)
(* Abstractions: of the local database only whose rows each table holds is *)
(* kept; the pushes that syncAll sends are a stream of requests of their   *)
(* own that none of these variables depends on (see BoardSync); the slot   *)
(* behind dataChanged repaints a screen and is left out.                   *)
(***************************************************************************)
EXTENDS Naturals, FiniteSets

CONSTANTS
    User,        \* the accounts that may log in on this client
    NoUser,      \* the empty JWT, and current_user_id_ = -1
    MaxRetries,  \* NetworkManager::MAX_RETRIES_
    MaxSide,     \* bound: outstanding user and pomodoro requests
    MaxLogins    \* bound: logins in a behaviour

ASSUME UserAssumption == NoUser \notin User
ASSUME RetriesAssumption == MaxRetries \in Nat

VARIABLES
    token,           \* JWT_token_, named by the account it was issued to
    current_user,    \* current_user_id_
    periodic,        \* periodic_timer_->isActive()
    remote_loading,  \* remote_loading_
    emit_initial,    \* emit_initial_after_load_
    waiting,         \* waiting_initial_boards_, _statuses_ and _tasks_
    requests,        \* request_storage_ and the armed retry timers: a bag
    local,           \* whose rows each local table holds
    screen,          \* the widget on top of stacked_widget_
    server,          \* how the server answers at the moment
    logins           \* logins so far, for the bound

session == <<token, current_user, periodic>>
cycle == <<remote_loading, emit_initial, waiting>>
vars == <<session, cycle, requests, local, screen, server, logins>>

-----------------------------------------------------------------------------

Stage == {"boards", "statuses", "tasks"}
Side == {"user", "pomodoro"}
Endpoint == Stage \cup Side
Table == Endpoint

\* A request is on its way, or waits for its one-second retry timer.
Request == [endpoint : Endpoint, token : User \cup {NoUser},
            retries : 0 .. MaxRetries, backoff : BOOLEAN]

\* NetworkManager::GET: sendRequest attaches the token of the moment.
Get(e, tok) == [endpoint |-> e, token |-> tok, retries |-> 0, backoff |-> FALSE]

Sending(bag, r) == [bag EXCEPT ![r] = @ + 1]
Taking(bag, r) == [bag EXCEPT ![r] = @ - 1]

StageRequest == {r \in Request : r.endpoint \in Stage}
SideRequest == {r \in Request : r.endpoint \in Side}

\* Bound: a new load begins only when at most MaxSide user and pomodoro
\* requests of the loads before it are still outstanding.
AtMostSide(n) ==
    Cardinality({c \in SideRequest \X (1 .. n + 1) : c[2] <= requests[c[1]]}) <= n
Room == AtMostSide(MaxSide)

-----------------------------------------------------------------------------

Init ==
    /\ token = NoUser
    /\ current_user = NoUser
    /\ periodic = FALSE
    /\ remote_loading = FALSE
    /\ emit_initial = FALSE
    /\ waiting = [s \in Stage |-> FALSE]
    /\ requests = [r \in Request |-> 0]
    /\ local = [t \in Table |-> {}]
    /\ screen = "welcome"
    /\ server = "up"
    /\ logins = 0

\* loadAll: dropped while a load is in progress, otherwise the flags are
\* reset and the user, the boards and the pomodoro sessions are asked for.
LoadAll(emit, tok) ==
    \/ /\ remote_loading
       /\ UNCHANGED <<cycle, requests>>
    \/ /\ ~remote_loading
       /\ remote_loading' = TRUE
       /\ emit_initial' = emit
       /\ waiting' = [s \in Stage |-> s = "boards"]
       /\ requests' = Sending(Sending(Sending(requests,
                        Get("user", tok)), Get("boards", tok)), Get("pomodoro", tok))

\* LoginScreen::onNetworkResponse on a 200, beginUserSession and
\* onAuthenticated, one slot after the other on the same signal.  The login
\* and registration windows are only open over the welcome screen.
Login(u) ==
    /\ screen = "welcome"
    /\ server = "up"
    /\ Room
    /\ logins < MaxLogins
    /\ logins' = logins + 1
    /\ token' = u
    /\ current_user' = u
    /\ local' = [t \in Table |-> IF t = "user" THEN {u} ELSE {}]
    /\ periodic' = TRUE
    /\ LoadAll(TRUE, u)
    /\ UNCHANGED <<screen, server>>

\* Mutant of Logout: the periodic timer is not stopped.
LogoutKeepingTimer ==
    /\ screen = "app"
    /\ token' = NoUser
    /\ current_user' = NoUser
    /\ local' = [t \in Table |-> {}]
    /\ screen' = "welcome"
    /\ UNCHANGED <<cycle, periodic, requests, server, logins>>

\* MainWindow::switchToLogin: clearSession stops the timer and empties the
\* tables, then the token goes.  The load flags and the requests stay.
Logout ==
    /\ screen = "app"
    /\ token' = NoUser
    /\ current_user' = NoUser
    /\ periodic' = FALSE
    /\ local' = [t \in Table |-> {}]
    /\ screen' = "welcome"
    /\ UNCHANGED <<cycle, requests, server, logins>>

\* Mutant of OnPeriodicSync: it loads as beginUserSession does, and so
\* announces the initial data again at the end.
OnPeriodicSyncAnnouncing ==
    /\ periodic
    /\ token # NoUser
    /\ ~remote_loading
    /\ Room
    /\ LoadAll(TRUE, token)
    /\ UNCHANGED <<session, local, screen, server, logins>>

\* onPeriodicSync: the 30-second timer.
OnPeriodicSync ==
    /\ periodic
    /\ token # NoUser
    /\ ~remote_loading
    /\ Room
    /\ LoadAll(FALSE, token)
    /\ UNCHANGED <<session, local, screen, server, logins>>

\* The board, profile and profile-edit screens ask for the user info when
\* they are given their network manager or are refreshed.
RefreshUserInfo ==
    /\ screen = "app"
    /\ AtMostSide(MaxSide - 1)
    /\ requests' = Sending(requests, Get("user", token))
    /\ UNCHANGED <<session, cycle, local, screen, server, logins>>

-----------------------------------------------------------------------------

\* Mutant of FinishInitialLoadCycle: remote_loading_ is not reset.
FinishWithoutReset ==
    /\ waiting' = [s \in Stage |-> FALSE]
    /\ emit_initial' = FALSE
    /\ screen' = IF emit_initial /\ local'["boards"] # {} THEN "app" ELSE screen
    /\ UNCHANGED remote_loading

\* finishInitialLoadCycle, emitInitialData and onInitialDataReady: the
\* dashboard is shown when the login asked for it and there is a board.
FinishInitialLoadCycle ==
    /\ waiting' = [s \in Stage |-> FALSE]
    /\ remote_loading' = FALSE
    /\ emit_initial' = FALSE
    /\ screen' = IF emit_initial /\ local'["boards"] # {} THEN "app" ELSE screen

\* Mutant of Parsed: the managers do not look the parents up.
ParsedUnchecked(e, u) == [local EXCEPT ![e] = @ \cup {u}]

\* The tables after a manager has parsed the answer to a request sent for u:
\* a status is dropped when its board is not local, a task when its board or
\* its status is not.
Parsed(e, u) ==
    IF \/ e = "statuses" /\ u \notin local["boards"]
       \/ e = "tasks" /\ u \notin local["boards"] \cap local["statuses"]
    THEN local
    ELSE [local EXCEPT ![e] = @ \cup {u}]

\* Mutant of LoadNext: the tasks are asked for right after the boards.
LoadTasksAtOnce(e, bag) ==
    /\ waiting' = [waiting EXCEPT ![e] = FALSE, !["tasks"] = TRUE]
    /\ requests' = Sending(bag, Get("tasks", token))
    /\ UNCHANGED <<remote_loading, emit_initial, screen>>

\* loadChildrenAfterBoards and loadTasksAfterStatuses.
LoadNext(e, bag) ==
    LET next == IF e = "boards" THEN "statuses" ELSE "tasks"
    IN  /\ waiting' = [waiting EXCEPT ![e] = FALSE, ![next] = TRUE]
        /\ requests' = Sending(bag, Get(next, token))
        /\ UNCHANGED <<remote_loading, emit_initial, screen>>

\* Mutant of HandleFailure: an error code returns before the waiting flags
\* are looked at.
HandleFailureReturning(e, bag) ==
    /\ requests' = bag
    /\ UNCHANGED <<local, cycle, screen>>

\* handleResponse on an error code (0 when offline) or a body that is no
\* JSON object: the load is given up when this is the answer it waits for.
HandleFailure(e, bag) ==
    /\ requests' = bag
    /\ UNCHANGED local
    /\ \/ e \in Stage /\ waiting[e] /\ FinishInitialLoadCycle
       \/ ~(e \in Stage /\ waiting[e]) /\ UNCHANGED <<cycle, screen>>

\* handleResponse on a success: the rows are stored whether or not a load is
\* waiting for them.
HandleRows(e, u, bag) ==
    /\ local' = Parsed(e, u)
    /\ \/ /\ e \in Stage \ {"tasks"} /\ waiting[e]
          /\ LoadNext(e, bag)
       \/ /\ e = "tasks" /\ waiting[e]
          /\ FinishInitialLoadCycle
          /\ requests' = bag
       \/ /\ ~(e \in Stage /\ waiting[e])
          /\ requests' = bag
          /\ UNCHANGED <<cycle, screen>>

\* What a request may come back with.  Without a token the server answers 401.
Answers(r) ==
    CASE server = "up"      -> {IF r.token = NoUser THEN "error" ELSE "rows"}
      [] server = "failing" -> {"retryable", "malformed"}
      [] server = "offline" -> {"retryable", "error"}

\* NetworkManager::onResult: a 500 or a time-out is tried again up to
\* MAX_RETRIES_ times, everything else is handed to the coordinator.
OnResult(r) ==
    /\ requests[r] > 0
    /\ ~r.backoff
    /\ \E a \in Answers(r) :
         \/ /\ a = "retryable" /\ r.retries < MaxRetries
            /\ requests' = Sending(Taking(requests, r),
                             [r EXCEPT !.retries = @ + 1, !.backoff = TRUE])
            /\ UNCHANGED <<cycle, local, screen>>
         \/ /\ a # "rows" /\ (a = "retryable" => r.retries = MaxRetries)
            /\ HandleFailure(r.endpoint, Taking(requests, r))
         \/ /\ a = "rows"
            /\ HandleRows(r.endpoint, r.token, Taking(requests, r))
    /\ UNCHANGED <<session, server, logins>>

\* The retry timer: sendRequest with the token of this moment.
Resend(r) ==
    /\ requests[r] > 0
    /\ r.backoff
    /\ requests' = Sending(Taking(requests, r),
                     [r EXCEPT !.token = token, !.backoff = FALSE])
    /\ UNCHANGED <<session, cycle, local, screen, server, logins>>

\* The network and the backend come and go.
ServerChanges ==
    /\ server' \in {"up", "failing", "offline"} \ {server}
    /\ UNCHANGED <<session, cycle, requests, local, screen, logins>>

-----------------------------------------------------------------------------

Next ==
    \/ \E u \in User : Login(u)
    \/ Logout
    \/ OnPeriodicSync
    \/ RefreshUserInfo
    \/ \E r \in Request : OnResult(r) \/ Resend(r)
    \/ ServerChanges

\* Every reply finishes, with an answer or a network error, an armed
\* single-shot timer fires, and so does the periodic timer.
Fairness ==
    /\ \A e \in Endpoint :
         WF_vars(\E r \in Request : r.endpoint = e /\ (OnResult(r) \/ Resend(r)))
    /\ WF_vars(OnPeriodicSync)

SafetySpec == Init /\ [][Next]_vars
Spec == SafetySpec /\ Fairness

-----------------------------------------------------------------------------

\* The flags, the session and the tables keep to their values; the user of the
\* coordinator is the token's, and the periodic timer runs exactly while there
\* is one (beginUserSession, onAuthenticated, clearSession).
TypeOK ==
    /\ token \in User \cup {NoUser}
    /\ current_user = token
    /\ periodic \in BOOLEAN /\ (periodic <=> token # NoUser)
    /\ remote_loading \in BOOLEAN
    /\ emit_initial \in BOOLEAN
    /\ waiting \in [Stage -> BOOLEAN]
    /\ requests \in [Request -> Nat]
    /\ local \in [Table -> SUBSET User]
    /\ screen \in {"welcome", "app"}
    /\ server \in {"up", "failing", "offline"}
    /\ logins \in Nat

\* Nothing is awaited and no list request is out, or exactly one stage is
\* awaited and exactly one list request is out, the one for that stage.
AwaitsOne(s) ==
    /\ \A t \in Stage : waiting[t] <=> t = s
    /\ \E r \in StageRequest :
         /\ r.endpoint = s
         /\ requests[r] = 1
         /\ \A q \in StageRequest \ {r} : requests[q] = 0

\* The guard remote_loading_ is never left set with nobody to clear it: as
\* long as it is set, the answer that moves the load on is still to come, and
\* it is the only one that can (loadAll, handleResponse, onResult).
LoadNeverOrphaned ==
    IF remote_loading
    THEN \E s \in Stage : AwaitsOne(s)
    ELSE /\ \A s \in Stage : ~waiting[s]
         /\ \A r \in StageRequest : requests[r] = 0
         /\ ~emit_initial

\* No load brings up the dashboard without a user: one left over from a finished
\* session ends unannounced (switchToLogin against finishInitialLoadCycle and
\* onInitialDataReady).  The other way to the dashboard, through the profile that
\* a photo's late answer opens, is in Accounts.
AppHasSession == screen = "app" => token # NoUser /\ ~emit_initial

\* Late answers of an earlier session do not leave a status without its board
\* or a task without its status in the local tables (parse against
\* clearLocalData).
ParentsAreLocal ==
    /\ local["statuses"] \subseteq local["boards"]
    /\ local["tasks"] \subseteq local["statuses"]

stage == IF remote_loading THEN CHOOSE s \in Stage : waiting[s] ELSE "idle"

\* The flags of the coordinator walk through LoadCycle, in order and to an end.
Cycle == INSTANCE LoadCycle
ImplementsLoadCycle == Cycle!Spec

\* Once the server stays up and a user stays logged in, that user's boards,
\* statuses and tasks end up in the local tables for good, whatever loads,
\* failures and sessions came before (onPeriodicSync).
EventuallyLoaded ==
    \A u \in User :
        <>[](server = "up" /\ token = u) =>
            <>[](\A t \in Table : u \in local[t])

=============================================================================
