# Chronos in TLA+

Chronos is a kanban board with a pomodoro timer: a Qt client that keeps its data
in SQLite and works without a network, and a C++ backend (Boost.Beast, libpqxx)
over PostgreSQL. The modules here specify the parts of it where order, failure
and concurrency matter. TLC checks them on small instances; TLAPS proves their
main safety properties for every value of their constants.

Paths in this text are relative to the repository, `backend/...` and
`frontend/...`. `PROJECT.json` maps each definition to the lines it models.

* [Inventory](#inventory): the parts of the system
* [Modules](#modules): how they correspond to the code
* [Runs](#runs): what TLC checks, and the bounds
* [Fairness](#fairness)
* [Proofs](#proofs)
* [Disagreements found](#disagreements-found)
* [Not modelled](#not-modelled)
* [Plan](#plan)

To check everything:

    tlc -workers 2 -config MCHandlers.cfg MCHandlers.tla    # likewise the other configurations
    tlapm Handlers_proof.tla                                # likewise the other *_proof modules

## Inventory

### Client (`frontend/`)

Everything runs on one Qt event loop: a slot is atomic, and what interleaves is
the network, the timers and the user.

| Component | State | Operations | Interacts with | What makes it correct |
|---|---|---|---|---|
| **SyncCoordinator** (`sync/sync_coordinator.cpp`), with MainWindow and LoginScreen | `current_user_id_`, the guard `remote_loading_`, three `waiting_initial_*` flags, `emit_initial_after_load_`, the 30 s timer | begin and clear a session, `loadAll`, handle a response or a failure, `syncAll` | NetworkManager's `responseReceived` and `errorOccurred`; the sync managers; MainWindow's screens | a load begun always ends; the guard is never left set with no answer to come; a finished session's answers disturb neither the screen nor the tables |
| **NetworkManager** (`src/network_manager.cpp`) | the token, `request_storage_`, retry counts | GET, POST, PATCH, DELETE; retry a 500 or a time-out after 1 s, three times | everything that sends | each request is answered or given up once; a retry carries the token of the moment |
| **BoardSyncManager** and LocalBoardRepository | the `boards` table: id (negative until the server has named it), `sync_status`, `server_version`, `updated_at` | `createLocalId`, `save`, `replaceId`, `markSynced`, `saveFromServer`, `sync`, `handlePushResponse` | the create and edit screens, SQLite's triggers, the board handlers | client and server become equal; no board that has not been sent is forgotten |
| **Status and task sync managers**, their repositories, BoardScreen, StatusWindow, TaskCard | the same for `statuses` and `tasks`, under foreign keys and `UNIQUE (board_id, name)`; the draft of a new task | the same, and deletion, moving and renaming; pushes wait until their board is synced | SQLite, the status and task handlers, a second device | no edit stays pending for ever unless the server refuses it; what is called synced equals the server's |
| **UserSyncManager**, LocalUserRepository, the registration, login and profile screens | the user's row, `pending_password_`, the avatar key | register, log in and out, edit, upload and delete a photo, sync | auth and personal handlers | nothing edited under one account is pending in the session of another, and no password outlives its session; the profile shown ends up the server's |
| **PomodoroScreen**, PomodoroSyncManager, LocalPomodoroSessionRepository | the phase and its remaining seconds, the goal, the seconds worked, the id of the local row, the minutes saved last | start, tick, stop, save locally, post, load | pomodoro handlers | a goal is reached and not overrun; what is posted is accepted and logged; a crash loses less than a minute |

### Backend (`backend/`)

Several threads run one `io_context`; a connection's read-handle-write loop is
sequential, handlers of different connections run in parallel.

| Component | State | Operations | Interacts with | What makes it correct |
|---|---|---|---|---|
| **ConnectionPool** (`src/db/connection_pool.cpp`) | idle connections, `total_created_`, a mutex and a condition variable | `acquire`, `release`, `create_connection`, the Handle's destructor | every repository call | at most `max_size_` connections; no place leaks; no wake-up is lost |
| **Board, status and task handlers** (`src/server/{board,status,task}/v1`) with their repositories | none of their own: the tables `boards`, `statuses`, `tasks` | create, edit, delete, and reads | pool, PostgreSQL's constraints and cascades | a task is in a status of its board; names are unique; only owners change a board; answers are true |
| **Accounts** (`auth`, `personal`) | `users`, the first board | register (the user, then a first board), login, info, edit | JWT, password hashing | a success is never reported of half a registration |
| **Pomodoro handlers** | `pomodoro_sessions` | create, list | pool | what the timer posts passes the checks |
| **Server and Session** (`server.cpp`, `session.cpp`) | one request and one response per connection | accept, read, route, write | handlers | one response per request, in order |
| **Avatar storage** (`personal/v1/avatar_upload.cpp`, `storage/`) | an object in S3 and its key in `users` | upload, delete, and taking the key back | S3 | an upload that is answered 200 has stored its photo |
| **Metrics, logging** | counters | — | — | — |

### What is hard

* **Order of answers.** Pushes and loads of the client are in flight together and
  are answered in any order, some by retries of earlier sessions.
* **Two names for one row.** A board has a negative id until the server names it;
  answers, lists and edits meet it before, during and after the renaming.
* **Checks in one transaction, writes in another.** Every handler of the backend.
* **Whole rows written back.** A profile edit and a photo read the user's row in one
  transaction and save all of it in another; an edited profile is overwritten by
  user information that arrives later.
* **Screens without a session.** The late answer to a photo opens the profile again
  after a logout, and from there an edit or the dashboard.
* **Ids that mean two things.** A pomodoro session gets the id `MAX(id) + 1` of a
  table that also holds the server's ids.
* **Wake-ups.** The pool notifies after it has released its mutex, and connects
  outside it.
* **Failure.** Connections break, requests time out, the client is closed with
  rows still to be sent.

`PROJECT.json` lists each such place with its line under `hazards`, with the
properties that would fail if the code went wrong there, or the reason why none
does.

## Modules

    LoadCycle        <--refines--  SyncCoordinator  <-- SyncCoordinator_proof, MCSyncCoordinator
    ConnectionLimit  <--refines--  ConnectionPool   <-- ConnectionPool_proof,  MCConnectionPool
                                   BoardSync        <-- BoardSync_proof,       MCBoardSync
    BoardStore       <--refines--  Handlers         <-- Handlers_proof,        MCHandlers
                                                        HandlersStore_proof
                                   HierarchySync    <-- HierarchySync_proof,   MCHierarchySync
                                   Pomodoro         <-- Pomodoro_proof,        MCPomodoro
                                   Accounts         <-- Accounts_proof,        MCAccounts

The client's modules share its one event loop and NetworkManager: in each, a slot
is one action, a request is answered, lost, or sent again after a 500 or a time-out,
and the backend's handlers are actions of the same module. `SyncCoordinator` has
the order of the loads and the session around all of them and keeps of the tables
only whose rows they are; `BoardSync`, `HierarchySync`, `Accounts` and `Pomodoro`
have the rows of one table or two each. `Handlers` has the backend's side of boards,
statuses and tasks at the grain of its transactions; the client's modules take
a handler as one step, except for `Accounts`, whose handlers are in steps too.

### SyncCoordinator, implementing LoadCycle

`LoadCycle` is what the coordinator promises: idle, or waiting for exactly one
of boards, statuses and tasks, in this order, and always to an end.

`SyncCoordinator` has the coordinator's members as variables (`remote_loading`,
`waiting`, `emit_initial`, `periodic`), NetworkManager's outstanding requests as
a bag, and of each local table only whose rows it holds: what the properties
need is whether rows of one account survive into the session of another.
Actions are slots:

| Action | Code |
|---|---|
| `Login`, `Logout` | LoginScreen::onNetworkResponse, beginUserSession, MainWindow::switchToLogin |
| `OnPeriodicSync`, `RefreshUserInfo`, `LoadAll` | the timer's slot, BoardScreen::showEvent, loadAll |
| `OnResult`, with `HandleRows` and `HandleFailure` | NetworkManager::onResult and the slots connected to its two signals |
| `Resend` | the single-shot retry timer |
| `ServerChanges` | the network and the backend: up, answering 500, or unreachable |

The refinement mapping is `stage`: the one flag of `waiting` that is set while
`remote_loading` is, and otherwise idle.

### ConnectionPool, implementing ConnectionLimit

`ConnectionLimit` promises that no more than `Limit` threads have a connection
or are opening one. In `ConnectionPool` an action is a section the mutex
protects, or a step outside it: `AcquireFree`, `AcquireNew`, `AcquireWait`
(to sleep in `cv_.wait`), `Connected` and `ConnectFails` (`create_connection`
runs without the mutex), `Release`, and `Notify` (`notify_one`, after the mutex
is released). `SpuriousWakeup` is what the standard allows a condition variable,
`ServerDrops` a connection that breaks while idle or in use. The mapping is
`Using`, the threads that connect or hold.

### BoardSync

One client's boards table, the server's, the pushes between them as a bag and
one GET of the list. Text is a number, a fresh one each time somebody types. A
time is the pair the comparison in `saveFromServer` depends on: its date, and
whether it was written by SQLite (`2026-01-10 12:00:00`) or as ISO 8601
(`2026-01-10T12:00:00Z`), since the two formats are compared as strings. Actions
are the screens (`CreateBoard`, `EditBoard`), the timer (`PeriodicSync`), the
answers (`DeliverPush`, `DeliverLoad`, and their failures and retries), the
server (`ServePush`, `ServeLoad`), a second device of the user (`OtherDevice`),
`MidnightPasses` and `Restart` (the client is closed; the next login empties the
tables). An exception that no slot catches sets `crashed`, after which the
client does nothing.

### Handlers, implementing BoardStore

`BoardStore` is the backend as a caller may imagine it: a tree of boards, statuses
and tasks, of which each request changes what it asks for at one moment between its
arrival and its answer, as its user has the right to at that very moment. A refused
request has changed nothing; of a failed one (500) nobody knows; a successful one has
had its effect, with one exception that the code makes necessary: an edit of a task
that has been deleted meanwhile is answered 200.

In `Handlers` there are the nine handlers that write, as each thread runs them: `request` is what a
thread works on, `at` the repository call it makes next, `seen` the row it read
in an earlier one. One action is one repository call, which is one transaction:
`FindTarget`, `FindBoard`, `FindStatus`, `FindName` read, and nine operators named
for the repository functions write. A handler such as `EditTask` is the
disjunction of its calls in their order. PostgreSQL is in the writes: the foreign
keys, `ON DELETE CASCADE` and `UNIQUE (board_id, name)` of `migrations/init.sql`
decide whether a write is made or throws. `Commits` lets the connection break
after the COMMIT was done and before it was acknowledged: the write stands and
the answer is 500. `DatabaseFails` is the catch clause of every handler.

The mapping to `BoardStore` hides `at` and `seen`: `Column` is the status of each task,
without the board that its row repeats, which follows from the status as long as
`TasksOnTheirBoards` holds; `Given` are the ids up to the sequences' last; `LastAnswer`
is "busy" until the handler has answered. A write is the effect of its request and
every other repository call a stutter. The mapping is safe only because each write is
right at its own moment: that the reads before it were right at theirs is not enough.

Only keys are kept of a row. Texts, positions, deadlines and the completed flag
decide nothing in the handlers' control beyond checks of length that refuse a
request before its first transaction; `Requests` holds the requests that pass.

### HierarchySync

The columns and tasks of one board, and the board itself as far as it is `synced` or
not, since `isParentBoardSynced` holds back pushes. A task whose column has no server id is
pushed all the same, and refused. The local tables `statuses` and `tasks` are
functions from ids, negative ones included; of a row its name or its column is kept, with `sync_status`, `server_version` and
`deleted`. Of the server there are `names` and `placed`. A behaviour lies within one day, and `old`
marks a task the server has stored on an earlier one: since SQLite's and ISO's
formats are compared as strings, only the date decides, and only such a row makes
`saveFromServer` take a pending task for a conflict. `fk` is whether this connection enforces foreign
keys: the pragma is executed only by the connection that creates the schema.

| Action | Code |
|---|---|
| `CreateStatus`, `RenameStatus`, `DeleteStatus` | BoardScreen::onStatusCreateRequest, StatusWindow's slots, with LocalStatusRepository under them |
| `OpenTaskCreate`, `CreateTask` | TaskCreateScreen: the id of the column is read when it opens, and used when it is saved |
| `MoveTask`, `EditTask`, `EditTaskOnScreen`, `DeleteTask` | StatusWindow::dropEvent, TaskEditScreen, TaskCard's slots |
| `EditBoard`, `BoardSynced` | the parent becomes pending and synced again |
| `PeriodicSync` | syncAll and the load that follows it |
| `DeliverPush`, with `StatusCreated`, `TaskCreated`, `StatusRefused`, ... | handlePushResponse of both managers, replaceId, markSynced, the screens' rollback of a refused create |
| `DeliverStatuses`, `DeliverTasks`, `LoadFails` | parse and saveFromServer |
| `ServePush`, `ServeStatuses`, `ServeTasks`, `OtherDevice` | the handlers and lists of `status/v1` and `task/v1`, for this client and another |

As in BoardSync, an exception that leaves a slot sets `crashed`. A row that another
device has deleted is never removed here, as in the code.

### Pomodoro

PomodoroScreen second by second: `phase`, `remaining`, `total`, `cycles` and `goal`
are its members `is_work_phase_`, `remaining_seconds_`, `total_work_time_seconds_`,
`completed_cycles_` and `goal_minutes_` (`None` when `has_goal_` is false). `local_id`
is `local_session_id_`, `last_saved` is `last_saved_work_minutes_`; they tie the running
session to its row of the local table, `sessions`; `posts` are its requests, `logged`
is the server's table. `onTimerTick` is three actions by what it meets (`TickInPhase`,
`TickEndsWork`, `TickEndsBreak`); `StopTimer` is shared by the goal's end and
`StopClicked`; `DeliverPost` and `DeliverList` are the answers, `ServePost` and
`ServeList` the handlers. The timer outlives a logout, so `Login` and `Logout` are
possible at any second. `session` in a row is which run of the timer it is about: the
code has no such field, and confusing two of them is what `LoggedRowsStay` is about.

### Accounts

The client's screens and table of users, and the handlers of `auth` and
`personal`, with every repository call a step. A request in `wire` carries its
token, whether the client still waits for it (`heard`), and how far the handler
has come (`stage`): after a time-out the client sends the request again and the
first goes on beside it.

| Action | Code |
|---|---|
| `OpenScreen`, `Register`, `Login`, `OpenDashboard`, `Logout` | RegistrationScreen, LoginScreen, MainWindow |
| `OpenProfileEdit` | switchToProfileEdit, and the GET of its showEvent |
| `SaveProfile`, with `EditedUser` and `Edited` | onProfileEditRequest and sendProfileUpdate, with getCurrentUser for nobody logged in, and `trg_users_updated_at` |
| `SavePhoto` | onProfileEditRequest, with its uploads and deletions |
| `PeriodicSync` | UserSyncManager::sync with the load of the user |
| `CreateUser`, `CreateBoard` | handleRegister: the account is committed before the board |
| `ServeLogin`, `ServeInfo`, `Refuse` | handleLogin, handleInfo, every 4xx of the handlers |
| `ReadUser`, `SaveEdit`, `SaveUpload`, `StorePhoto`, `StoreFails`, `SaveDelete` | handleEdit, handleAvatarUpload and handleAvatarDelete: the row is read, saved whole, and the key taken back when the store fails, if that does not fail too |
| `DatabaseFails`, `GiveUp` | any of the catch clauses; a lost request or answer, or a time-out |
| `Resend` | NetworkManager's retry, with the token of that moment |
| `DeliverRegister`, `DeliverLogin`, `DeliverInfo`, `DeliverEdit`, `DeliverPhoto`, `DeliverFailure` | the slots an answer reaches |

Some of what the code does is easy to overlook and is in the model.

* `users` as JSON has no `updated_at`: what `saveFromServer` compares with the row is
  when the account was created. The edit itself is stamped by the trigger
  `trg_users_updated_at`. Both times are compared as strings, so `changed` is 1 from
  the day after the creation on: then an answer that finds the edit pending makes it
  a conflict, which is not pushed and which the next answer overwrites. On
  the day of the creation the first answer overwrites it.
* Answers to an edit reach UserSyncManager and not the branch of ProfileEditScreen
  written for them (a push emits `syncResponseReceived` only), so that a refused edit is
  taken back by the next GET info without a word.
* The answer to a photo emits `profileRequested`, whoever is logged in: `DeliverPhoto`
  opens the profile, also after a logout (`screen` = "profile"). The logo
  there opens the dashboard, and a row which an answer to GET info has stored after the
  logout can be edited: `sendProfileUpdate` then takes the first of the table.
* Concurrent `handleEdit` and `handleAvatarUpload` write whole rows and lose each
  other's fields.

Modules whose names end in `_proof` hold the proofs. Operators introduced by a
comment "Mutant of ..." are plausible mistakes; they are used by no specification
and exist to show that each property can fail.

## Runs

| Run | Configuration | Properties | Result | Distinct states |
|---|---|---|---|---|
| `coordinator` | MCSyncCoordinator.cfg | TypeOK, LoadNeverOrphaned, AppHasSession, ParentsAreLocal | hold | 295,425 |
| `coordinator_live` | MCSyncCoordinatorLive.cfg | ImplementsLoadCycle, EventuallyLoaded | hold | 83,415 |
| `pool` | MCConnectionPool.cfg | TypeOK, PlacesAccounted, NoLostWakeup, SleeperHasCompany, PlacesAreUsed, ImplementsLimit | hold | 27,762 |
| `board_sync` | MCBoardSync.cfg | TypeOK, UnsentIsPending, PendingStampsAreSql, NamedBoardsExist, LoadMirrors, Converges | hold | 412,012 |
| `board_text_lost` | MCBoardSyncOwed.cfg | OwedTextsKept | violated | |
| `board_sync_throws` | MCBoardSyncTerminates.cfg | NeverTerminates | violated | |
| `handlers` | MCHandlers.cfg | TypeOK, TasksOnTheirBoards, NamesUnique, OwnersOnly, SuccessIsReal, ImplementsStore | hold | 601,849 |
| `handlers_moved` | MCHandlersMoved.cfg | MovedTaskExists | violated | |
| `hierarchy` | MCHierarchySync.cfg | TypeOK, UnsentIsPending, EditsSettle, SyncedMeansEqual | hold | 408,786 |
| `pomodoro` | MCPomodoro.cfg | TypeOK, TimerRuns, PostsAcceptable, MinutesKept, GoalIsReached, SessionsLogged | hold | 280,952 |
| `pomodoro_history` | MCPomodoroHistory.cfg | LoggedRowsStay | violated | |
| `accounts` | MCAccounts.cfg | TypeOK, AnswersAreTrue, PendingIsOwn, ProfileSettles | hold | 882,495 |

### What the properties say

* **LoadNeverOrphaned.** While the guard is set, exactly one stage is awaited and
  exactly one request for it is out; while it is not, none is. Every answer path
  of the code, retries included, must pass the load on or end it.
* **AppHasSession.** No load brings up the dashboard without a user, although one of
  the finished session goes on and ends after the logout. (The profile that a photo's
  late answer opens has a way to the dashboard too, which is in Accounts and asks for no
  user.)
* **ParentsAreLocal.** Late lists never leave a status without its board or a
  task without its status.
* **EventuallyLoaded.** When the server stays up and an account logged in, its rows
  end up in every table.
* **PlacesAccounted, NoLostWakeup, SleeperHasCompany, PlacesAreUsed.** The count
  equals the connections there are; while somebody sleeps, as many threads are on
  their way to take or to notify as there are places; nobody sleeps alone; and a
  place does not stay unused while others sleep.
* **UnsentIsPending.** A board with a local id is pending with version 0: otherwise
  `sync` would not send it, or would send it as an edit of a board that does not exist.
* **PendingStampsAreSql.** The two times that decide a conflict are never written in
  one format, so on one day it is the format that decides.
* **NamedBoardsExist.** A row with a server id, and a PATCH in flight, are about a board
  that the server has, whichever answers come late, twice, or when a local id is in
  use again: an edit is never sent that can only be answered 404.
* **LoadMirrors.** A list that is still true when it is parsed makes the client's boards
  the server's if nothing is pending. So neither a conflict of an earlier day nor a
  row that a late answer has misplaced outlives one undisturbed load.
* **Converges.** Once network and backend stay up, both sides are equal and nothing
  is left to send: also when a lost answer has made two boards of one, or a local id
  is in use again while the first push under it is on its way.
* **TasksOnTheirBoards.** No foreign key says that a task's status belongs to the
  task's board. It holds because a status never changes its board and ids are not
  used again, although the check is a transaction older than the write.
* **NamesUnique.** The look-up of a name does not decide; the constraint does.
* **OwnersOnly.** Nothing of a board changes by a request of somebody who is not its
  owner at that moment, cascades included.
* **SuccessIsReal.** A delete is answered 204 only to the request that removed the
  row; an edited board or status is there as it was reported.
* **ImplementsStore.** However the transactions of concurrent handlers interleave, what
  callers see is what `BoardStore` allows. This is more than the four properties above:
  no request has half an effect, or two, or one after its answer, and a success is
  reported of nothing that was not done.
* **UnsentIsPending** (HierarchySync). The same for statuses and tasks, through
  renamings, rollbacks, purges and conflicts.
* **EditsSettle.** If the client goes on, every edit of a column or task is at last
  confirmed, but for those the server can only refuse: a name it has already, a row or
  a column it has dropped. The exceptions are exactly these, in the property.
* **SyncedMeansEqual.** In the end a row called synced says what the server's says,
  and every row of the server has arrived unless its name is taken here or its
  column could not come.
* **TimerRuns.** Work done, phase and cycles account for each other to the second; a
  phase never runs with no time left, at which `onTimerTick` would return for ever; a
  goal is never overrun.
* **PostsAcceptable.** The server's checks never refuse what the timer posts, which
  nothing would send again.
* **MinutesKept.** The local row of the running session is less than a minute behind,
  as long as no answer and no login has touched the table. Of a session that one has
  touched it says nothing.
* **GoalIsReached, SessionsLogged.** A session with a goal ends by itself, and what is
  posted is logged unless its request fails.
* **AnswersAreTrue.** A registration is answered 200 only with its board there, an
  upload only with its photo, whatever errors and whichever earlier attempts of the
  same request are still running. It does not say that the key of the photo is still in
  the user's row: another attempt may have taken it back.
* **PendingIsOwn.** While somebody is logged in only their own row is pending; a PUT
  goes out, the first time, under its row's account or under no token, with which it is
  refused; and no password is left for a later session. This although a profile
  may be edited after a logout, and answers of the last session arrive late.
* **ProfileSettles.** At rest, the profile shown is the server's.

### Bounds

* `MCSyncCoordinator`: two accounts, two logins, one retry instead of three, and a
  load begins only while at most one user or pomodoro request is outstanding. Two
  logins are a session and its successor, with any account in either; one retry is
  enough for a request to outlive the session that sent it. For the liveness run there is one account, so that no symmetry is needed.
* `MCConnectionPool`: four threads and two connections, so that two threads hold
  while two sleep, and two may be woken at once.
* `MCBoardSync`: two local and two server ids, two texts, two pushes in flight, one
  retry, one midnight, one restart: a create and an edit of one board, or of two,
  in flight together with a list. A create that waits for an
  id the bound withholds (`Withheld`) is excused in `Converges`: behaviours in which both
  ids are given out, to one board twice or to two, have to converge like the others.
* `MCHandlers`: two threads, two users, two boards, two statuses, one task. Two
  threads are enough for every race of two handlers. A new board gets one status in
  place of the code's three; `Defaults` is a constant, and the proofs are for any. `IdsAreKnown` leaves
  out requests for ids not given out yet, which are answered 404 like those of
  deleted rows. Threads and users are symmetric: no action tells two of them apart
  but by what they did. `NoTaskDeletes` (`handlers_moved` only) leaves out requests
  that delete a task by itself: with one of those, a vanished task could also be
  explained by a PATCH before the DELETE.

* `MCHierarchySync`: one board, one local id and two server ids for each of statuses
  and tasks, two names, two edits by the user or by another device, one failure. One
  row of each kind is there at first. With two edits a row is created and then edited,
  moved or deleted while its create is in flight, or edited on both devices, and one
  failure sends a request twice. One local id is reused as soon as its row is
  renamed, which is when the code goes wrong if it does. A create that waits for an id
  the bounds withhold is excused in `GoesOn`.
* `MCPomodoro`: a minute of two seconds, work of three and breaks of one, a goal of two
  minutes, so that minutes, phases and the goal end at different seconds, and the
  last phase is cut short by the goal; two sessions, two ids of the server, one logout
  and one login, one lost or repeated request. `MCPomodoroHistory` has two accounts
  and needs neither failure nor logout.
* `MCAccounts`: two profiles, distinct in their email, and two accounts; two requests
  in flight, which is what a race takes; two registrations or logins, one edit,
  one failure, one retry. One edit is enough to leave a row pending, with or without a
  session, and to meet a login. One password: a second one would only add refused logins,
  which a wrong email gives too.

Deadlock is checked in the coordinator's, the pool's and the handlers' runs. In
the others it is not: when every bound is reached, or after an exception, the
client may really have nothing more to do, as on the welcome screen with no request
in flight.

## Fairness

* **SyncCoordinator.** For each endpoint, a reply finishes or a retry timer fires:
  Qt delivers `finished` for every reply, with an answer or an error. The
  periodic timer fires while it runs. Nothing is assumed of logins, logouts or
  the server.
* **ConnectionPool.** A woken thread gets the mutex, connecting ends, a handler
  returns and so releases, and `release` goes on to `notify_one`: all of them
  statements of threads the operating system keeps running. Requests need not arrive.
* **BoardSync.** The timer repeats, answers are delivered, and a healthy backend
  serves. That it is healthy is not assumed: it is the hypothesis of `Converges`.
* **HierarchySync.** The same: the timer, the answers to the requests of each row, and a
  backend that serves each row's requests and the lists. Requests and answers may
  be lost, but only `MaxFailures` times.
* **Pomodoro.** The QTimer fires, and the backend answers the posts of each session.
  Nothing is assumed of the user.
* **Accounts.** A request that is being served goes on to an answer, and the answer is
  delivered; the periodic timer fires. Nothing is assumed of the user.
* **Handlers** and **ConnectionLimit** have safety properties only.

## Proofs

| Module | Theorems | Proved |
|---|---|---|
| SyncCoordinator_proof | TypeCorrect, LoadHasItsRequest, DashboardHasSession, NoOrphanRows, ImplementsCycle | the four invariants of run `coordinator`; every step is a step of LoadCycle or a stutter |
| ConnectionPool_proof | TypeCorrect, PoolAccounted, WakeupsKept, NeverAllAsleep, PoolImplementsLimit | the four invariants of run `pool`; the pool implements ConnectionLimit |
| BoardSync_proof | TypeCorrect, UnsentStaysPending, StampsDiffer, EditsAreOfNamedBoards, QuietLoadsMirror | the four invariants of run `board_sync`, and its action property |
| Handlers_proof | TypeCorrect, TasksStayOnTheirBoards, NamesStayUnique, OnlyOwnersChange, AnswersAreReal | the three invariants and two action properties of run `handlers` |
| HandlersStore_proof | HandlersImplementStore | the handlers implement BoardStore |
| HierarchySync_proof | TypeCorrect, UnsentStaysPending | the two invariants of run `hierarchy` |
| Pomodoro_proof | TypeCorrect, TimerNeverStops, NoPostIsRefused, CrashLosesLittle | the four invariants of run `pomodoro` |
| Accounts_proof | TypeCorrect, SuccessIsWhole, PushesAreOwn | the three invariants of run `accounts` |

So every invariant and every action property that a run checks to hold is proved as
well, for any number of rows, users, threads, requests and failures.

They assume no more than the modules' ASSUMEs: bounds are natural numbers, the
pool has a finite number of threads and at least one place, `None` and `NoUser`
are distinct from real values, a new board's default names are finitely many, a
minute, the phases and every goal are at least one second or minute long, and the
server has room for the one status and the one task HierarchySync begins with.
TLC evaluates each assumption in the runs.

Each follows from one inductive invariant, `IInv`, or from that and one more:

* **SyncCoordinator.** `LoadNeverOrphaned` is nearly inductive. It needs that the
  announcement of the initial data is pending only while a load runs and the welcome
  screen is up (`AnnouncementPending`), for otherwise a late load could switch screens
  after a logout.
* **ConnectionPool.** `PlacesAccounted` and `NoLostWakeup` together: a thread that is
  about to notify stands for the place it gave back. `SleeperHasCompany` follows,
  since `MaxSize` places are either in use or available.
* **BoardSync.** Besides the table (`TableOK`), what is in flight: an update is only ever
  about an id of the server and an answer names one (`FlightOK`). Otherwise
  `markSynced` could mark a row with a local id.
  `NamedBoardsExist` is inductive with two more places a board can be named in, the
  list that was read and the answers on their way (`Known`), because the server drops no
  board in the runs of this module (`Remains`). `LoadMirrors` follows from
  it: `parse` stores every board of the list but removes nothing, so a local row that the
  server does not have would stay.
* **Handlers.** `TasksOnTheirBoards` is not inductive: the write relies on what was
  read transactions before. `JobOK` says of each thread what of its reading still
  holds: *if* the row exists, it is on the board that was read; the board is gone
  or still its user's; the status is gone or still of that board. `Fresh` (ids not
  given out are unused) makes this stable, and `Grows` says of every step that
  owners and boards of rows do not change and ids do not come back. One lemma per
  repository call shows that it keeps the tables, grows, and touches no other
  user's board (`OwnTrees`, from which `OwnersOnly` follows).
* **HandlersStore.** The refinement uses the same `JobOK`: at the moment of a write, what
  the handler has read is still so, or the row is gone and the write finds nothing. So
  each write is a permitted effect of `BoardStore` at that moment, and each other call
  leaves the mapped tables and answers alone. The cascades of a DELETE are the
  store's deletion of a subtree because tasks are on their statuses' boards.
* **HierarchySync.** The local tables need what is in flight, as in BoardSync: an update
  is never about a local id, an answer that is "ok" names an id of the server
  (`PushOK`), and a list on its way holds rows of the server. A list is parsed row by
  row, by a recursive function over the ids (`Parsed`), since each row may take
  or free a name for the next: `ParsedKeeps` is the induction over its steps, which `IntervalInduction` reduces to the library's induction
  on a well-founded relation, with a set in place of the operator that the provers
  cannot instantiate.
* **Accounts.** For `AnswersAreTrue`, what the handler of each request has done when it
  has come to its stage (`Sound`): the account is committed before the board, the key is in
  the row before the photo is stored. It is stable because accounts are never removed
  and their boards stay (`Grows`). `PendingIsOwn` is inductive beside it
  (`OwnPending`): only a saved profile makes a row pending, that of the session or, with
  nobody logged in, the first of the table; a login empties the table; and an answer,
  however late and of whichever account, makes none pending. What `sync` pushes is
  therefore the session's row or goes out without a token (`PushIsGood`).
* **Pomodoro.** `TimerRuns` needs that `total` is zero whenever no timer runs (`Idle`),
  as `startTimer` computes the first phase from the last session's total, before it
  resets it. `MinutesKept` needs what the member `last_saved_work_minutes_` means
  while the table is undisturbed (`Kept`): that much is in the row of `local_id`, and
  that row is this session's. That a new row gets an id of its own within the bounds
  is `IdsBounded`. With these, `TimerNeverStops` and the others hold for any lengths of
  minute, work and break, any goals and any number of sessions.

Only model-checked is what depends on fairness (`EventuallyLoaded`, `PlacesAreUsed`,
`Converges`, `EditsSettle`, `SyncedMeansEqual`, `GoalIsReached`, `SessionsLogged`,
`ProfileSettles`, and the liveness half of `ImplementsLoadCycle`), as TLAPS does not
reason about ENABLED.

## Disagreements found

* **`board_text_lost`.** The repository's `README.md` calls the client offline-first: boards may be
  created without a network and are sent when it is back. `beginUserSession`
  empties the tables at every login, and the client has no other way in after it
  was closed, since nothing calls `restoreSession`. A board typed offline is gone
  when the client is opened again.
* **`board_sync_throws`.** `handlePushResponse` calls `replaceId` without looking
  whether the server's row is already stored. When the list of boards overtakes the
  answer to the create, the primary key is violated and the exception leaves the
  slot.
* **`pomodoro_history`.** The README promises a history of finished sessions. A new local row
  gets the id `MAX(id) + 1` of a table that holds the server's ids too, and the answer to a
  POST deletes the row of whatever session is running by then: rows of confirmed
  sessions become rows of others.
* **`handlers_moved`.** A PATCH moves a task to another status while the old status
  is deleted. The task goes with the old status; `TaskRepository::update` does not
  look at its empty result, and the PATCH is answered 200 for a task that is not in
  the status it was moved to, nor anywhere. No order of the two requests one after
  the other ends so.

Not a run, but worth knowing: `StatusRepository::save` wraps every exception in
`std::runtime_error`, so `status/v1/create.cpp`'s clause for `pqxx::sql_error` is
never taken, and the loser of a race for a name is answered 500, not the 409 of
`docs/API.md`. `DatabaseFails` and the throwing disjuncts of the writes cover it:
no table differs. A session whose POST fails is never sent again:
`PomodoroSyncManager::sync` does nothing. NetworkManager attaches the token when it
sends, so a PUT of a profile or a POST of a session that is sent again after a logout and
a login is another account's by then (`Resend` in Accounts, `ResendPost` in Pomodoro). A login while the load of an earlier
session still runs is not announced, and the welcome screen stays. `replaceId`
throws where the connection enforces foreign keys and tasks refer to the status, and
elsewhere deletions leave tasks without a column (`fk` in HierarchySync).

## Not modelled

* **Handlers that only read** and change nothing: board get and board tasks.
* **JWT encoding, password hashing, the signing of requests to the object store**:
  a token stands for the account it names, and is neither forged nor expired.
* **Routing, CORS, validation and wording of messages, metrics and logs**: no state, or
  none that is read again. Session's loop reads, handles and writes one request
  after the other and shares nothing with other connections.
* **Widgets**: layout, painting, the preview of an image.
* **Moving a `Handle`** of the pool: no handler does so while it owns a connection.
* **Deletion of boards by the client**: no screen asks for it; the server's handler
  is in Handlers. `TaskCard::onTaskSaveRequest` and `restoreSession`, which nothing
  calls.
* **Texts, priorities, positions, deadlines** of tasks: a task is its column. The one
  hazard this leaves without a property is a PATCH that writes back a deadline it
  has read over that of another PATCH.
* **The children a board's `replaceId` moves along**: BoardSync has no statuses, and
  the board of HierarchySync has its server id from the start.

## Plan

Done: `SyncCoordinator` with `LoadCycle`, `ConnectionPool` with `ConnectionLimit`,
`Handlers` with `BoardStore`, `BoardSync`, `HierarchySync`, `Pomodoro` and `Accounts`, all of
them checked and proved. Left, in the order of what they would add:

1. Of HierarchySync, what `LoadMirrors` says of boards: which statuses and tasks one
   undisturbed load makes equal to the server's, given the names and columns that
   are taken or missing here.
2. Of Accounts, an action property over the rows that `handleEdit` and the photo's
   handlers write back whole: which fields of which request an answered success may
   still lose.
3. Texts of tasks in Handlers, for PATCHes that write back what they have read.
