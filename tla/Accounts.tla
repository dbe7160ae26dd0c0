-------------------------------- MODULE Accounts --------------------------------
(***************************************************************************)
(* Accounts: registration, login, the profile and its photo, from the      *)
(* screens of one client to the table users and the bucket of photos.      *)
(*                                                                         *)
(* handleRegister, handleEdit and the two avatar handlers are not one      *)
(* transaction: every repository call of theirs commits, so requests of    *)
(* one account interleave between a read and the save of the whole row.    *)
(* The client's retries run beside handlers whose answer it gave up on.    *)
(*                                                                         *)
(* A profile (email, name, status) is one value, distinct in its email.    *)
(* Passwords are compared, not hashed.  The loads around the user's own    *)
(* are those of SyncCoordinator.                                           *)
(***************************************************************************)
EXTENDS Integers, SequencesExt

CONSTANTS
    Profile,
    Password,
    None,         \* no profile, no password, no row, no answer
    MaxAccounts,  \* bound: accounts
    MaxSlots,     \* bound: requests in flight
    MaxSubmits,   \* bound: registrations and logins the user submits
    MaxEdits,     \* bound: profile edits
    MaxFailures,  \* bound: lost requests and answers, errors of database and bucket
    MaxRetries    \* MAX_RETRIES_

ASSUME NoneAssumption == None \notin Profile \cup Password
ASSUME BoundAssumption ==
    {MaxAccounts, MaxSlots, MaxSubmits, MaxEdits, MaxFailures, MaxRetries} \subseteq Nat

Account == 1 .. MaxAccounts
Slot == 1 .. MaxSlots
Nobody == 0  \* no token, current_user_id_ < 0

\* A row of the server's table users; avatar: avatar_s3_key is not empty.
User == [profile : Profile, password : Password, avatar : BOOLEAN]

\* A row of the client's table users.  changed is updated_at as saveFromServer
\* compares it, strings both: 1 on a later day than the account's creation, 0
\* also on that day, where SQLite's "YYYY-MM-DD hh" is below the server's
\* "YYYY-MM-DDThh".  Of a row that is not pending it is not read, and kept at 0.
LocalUser == [profile : Profile, changed : 0 .. 1,
              sync_status : {"pending", "synced", "conflict"}]

\* A request in flight.  token: whose token it carries; row: the row a PUT pushes
\* (sync_local_id_); heard: the client waits for the answer; stage: how far the
\* handler is; account: of its answer; seen: the row it has read, or answers.
Request == [kind : {"register", "login", "info", "edit", "upload", "delete"},
            token : Account \cup {Nobody}, row : Account \cup {Nobody},
            profile : Profile \cup {None}, password : Password \cup {None},
            retries : 0 .. MaxRetries, heard : BOOLEAN,
            stage : {"sent", "created", "read", "saved", "ok", "refused", "error",
                     "timeout", "none", "retry"},
            account : Account \cup {Nobody}, seen : User \cup {None}]

VARIABLES
    users,    \* the server's table, by id
    boards,   \* the accounts that have a board
    bucket,   \* the accounts whose photo is stored
    wire,     \* the requests in flight, by slot
    session,  \* JWT_token_ and current_user_id_, which change together
    local,    \* the client's table users, by id
    pending_password, \* pending_password_ of UserSyncManager
    screen,   \* what is in front: "dashboard" is a screen from which the profile can
              \* be opened, "profile" the profile itself over the welcome screen
    form,     \* the fields of the registration screen, which is opened with blank ones
    edit_screen, \* ProfileEditScreen exists
    avatar_key, \* its current_avatar_s3_key_ is not empty
    submits, edits, failures

server == <<users, boards, bucket>>
client == <<session, local, pending_password, screen, form, edit_screen, avatar_key>>
count == <<submits, edits, failures>>
vars == <<server, client, wire, count>>

Blank == [profile |-> None, password |-> None, photo |-> FALSE]

Init ==
    /\ users = <<>>
    /\ boards = {}
    /\ bucket = {}
    /\ wire = <<>>
    /\ session = Nobody
    /\ local = <<>>
    /\ pending_password = None
    /\ screen = "welcome"
    /\ form = Blank
    /\ edit_screen = FALSE
    /\ avatar_key = FALSE
    /\ submits = 0
    /\ edits = 0
    /\ failures = 0

-----------------------------------------------------------------------------
(* NetworkManager                                                          *)

NewRequest(kind, token, profile, password) ==
    [kind |-> kind, token |-> token, row |-> Nobody,
     profile |-> profile, password |-> password,
     retries |-> 0, heard |-> TRUE, stage |-> "sent", account |-> Nobody, seen |-> None]

\* How many slots up to s are free.
Rank(w, s) == Cardinality({t \in Slot \ DOMAIN w : t <= s})

\* sendRequest, for one request after the other.
PutAll(w, requests) ==
    LET new == {s \in Slot \ DOMAIN w : Rank(w, s) <= Len(requests)}
    IN  [s \in DOMAIN w \cup new |->
            IF s \in new THEN requests[Rank(w, s)] ELSE w[s]]
Put(w, request) == PutAll(w, <<request>>)

Room(w, n) == Cardinality(Slot \ DOMAIN w) >= n

Without(w, s) == Restrict(w, DOMAIN w \ {s})

-----------------------------------------------------------------------------
(* The client's table users                                                *)

\* save: email is UNIQUE in the local table too.
NameFree(table, id, profile) ==
    \A i \in DOMAIN table \ {id} : table[i].profile # profile

Saved(table, id, row) ==
    [i \in DOMAIN table \cup {id} |-> IF i = id THEN row ELSE table[i]]

\* Mutant of SavedFromServer: an edit that is not sent is kept.
SavedFromServerKeeping(table, id, profile) ==
    IF id \in DOMAIN table /\ table[id].sync_status = "pending" THEN table
    ELSE IF NameFree(table, id, profile)
    THEN Saved(table, id, [profile |-> profile, changed |-> 0, sync_status |-> "synced"])
    ELSE table

\* saveFromServer: the row carries the time the account was created, there being
\* no updated_at in it; a save that throws is logged.
SavedFromServer(table, id, profile) ==
    IF /\ id \in DOMAIN table
       /\ table[id].sync_status = "pending"
       /\ table[id].changed > 0
    THEN Saved(table, id, [table[id] EXCEPT !.sync_status = "conflict"])
    ELSE IF NameFree(table, id, profile)
    THEN Saved(table, id, [profile |-> profile, changed |-> 0, sync_status |-> "synced"])
    ELSE table

MarkedSynced(table, id) ==
    [i \in DOMAIN table |->
        IF i = id THEN [table[i] EXCEPT !.sync_status = "synced"] ELSE table[i]]

\* findUnsynced
Unsynced(table) == {i \in DOMAIN table : table[i].sync_status = "pending"}

\* sync: a PUT for each pending row; the password goes with the first one.
Pushes(table, password) ==
    LET rows == Unsynced(table)
        Push(i) == [NewRequest("edit", session, table[i].profile,
                               IF i = Min(rows) THEN password ELSE None) EXCEPT !.row = i]
    IN SetToSeq({Push(i) : i \in rows})

InfoRequest == NewRequest("info", session, None, None)

-----------------------------------------------------------------------------
(* The screens                                                             *)

\* openLoginScreen and switchToRegistration.
OpenScreen(s) ==
    /\ screen # "dashboard"
    /\ submits < MaxSubmits
    /\ s = "registration" => screen = "login"
    /\ s # screen
    /\ screen' = s
    /\ form' = Blank
    /\ UNCHANGED <<server, session, local, pending_password, edit_screen, avatar_key, wire,
                   count>>

\* onRegisterRequest; photo: a file is picked.
Register(profile, password, photo) ==
    /\ screen = "registration"
    /\ submits < MaxSubmits
    /\ Room(wire, 1)
    /\ form' = [profile |-> profile, password |-> password, photo |-> photo]
    /\ wire' = Put(wire, NewRequest("register", session, profile, password))
    /\ submits' = submits + 1
    /\ UNCHANGED <<server, session, local, pending_password, screen, edit_screen,
                   avatar_key, edits, failures>>

\* onLoginRequest
Login(profile, password) ==
    /\ screen = "login"
    /\ submits < MaxSubmits
    /\ Room(wire, 1)
    /\ wire' = Put(wire, NewRequest("login", session, profile, password))
    /\ submits' = submits + 1
    /\ UNCHANGED <<server, client, edits, failures>>

\* onInitialDataReady: only an account with a board gets past the first screens;
\* but the logo of the profile (onProfileOpenDashboard) asks for no account.
OpenDashboard ==
    /\ screen # "dashboard"
    /\ session \in boards \/ screen = "profile"
    /\ screen' = "dashboard"
    /\ form' = Blank
    /\ UNCHANGED <<server, session, local, pending_password, edit_screen, avatar_key, wire,
                   count>>

\* The profile is in front, or a click away.
AtProfile == screen \in {"dashboard", "profile"}

\* switchToLogin and clearSession; UserSyncManager and the answers under way are
\* not told.
Logout ==
    /\ AtProfile
    /\ session' = Nobody
    /\ local' = <<>>
    /\ screen' = "welcome"
    /\ UNCHANGED <<server, pending_password, form, edit_screen, avatar_key, wire, count>>

\* switchToProfileEdit, the first time, and showEvent.  What the profile's windows
\* send each further time they are shown, PeriodicSync sends too.
OpenProfileEdit ==
    /\ AtProfile
    /\ ~edit_screen
    /\ Room(wire, 1)
    /\ edit_screen' = TRUE
    /\ wire' = Put(wire, InfoRequest)
    /\ UNCHANGED <<server, session, local, pending_password, screen, form, avatar_key, count>>

\* onProfileEditRequest, when a photo is picked or is to be deleted.
SavePhoto(kind, profile, password) ==
    /\ AtProfile /\ edit_screen
    /\ edits < MaxEdits
    /\ kind = "delete" => avatar_key
    /\ Room(wire, 1)
    /\ wire' = Put(wire, NewRequest(kind, session, profile, password))
    /\ edits' = edits + 1
    /\ UNCHANGED <<server, client, submits, failures>>

\* sendProfileUpdate, and trg_users_updated_at: the save leaves updated_at as it
\* was, so the trigger stamps it with the time of the edit.
Edited(row, profile, changed) ==
    [row EXCEPT !.profile = profile, !.changed = changed, !.sync_status = "pending"]

\* sendProfileUpdate: with nobody logged in, getCurrentUser, the first of the table.
EditedUser == IF session # Nobody THEN session ELSE Min(DOMAIN local)

\* sendProfileUpdate: the row is saved and pushed, the password given to
\* UserSyncManager is gone with the PUT, and the profile screen shows the user
\* again.  A row that is not there, or cannot be saved, is the end of it.
SaveProfile(profile, password, changed) ==
    /\ AtProfile /\ edit_screen
    /\ edits < MaxEdits
    /\ DOMAIN local # {} /\ EditedUser \in DOMAIN local
    /\ changed >= local[EditedUser].changed
    /\ NameFree(local, EditedUser, profile)
    /\ local' = Saved(local, EditedUser, Edited(local[EditedUser], profile, changed))
    /\ Room(wire, Cardinality(Unsynced(local')) + 1)
    /\ LET given == IF password = None THEN pending_password ELSE password
       IN wire' = PutAll(wire, Append(Pushes(local', given), InfoRequest))
    /\ pending_password' = None
    /\ edits' = edits + 1
    /\ UNCHANGED <<server, session, screen, form, edit_screen, avatar_key, submits, failures>>

\* onPeriodicSync, of the user: syncAll, then loadAll, unless a load is under way.
PeriodicSync ==
    /\ session # Nobody
    /\ ~\E s \in DOMAIN wire : wire[s].kind = "info" /\ wire[s].heard
    /\ Room(wire, Cardinality(Unsynced(local)) + 1)
    /\ wire' = PutAll(wire, Append(Pushes(local, pending_password), InfoRequest))
    /\ pending_password' = IF Unsynced(local) = {} THEN pending_password ELSE None
    /\ UNCHANGED <<server, session, local, screen, form, edit_screen, avatar_key, count>>

-----------------------------------------------------------------------------
(* The handlers                                                            *)

\* What the handlers check of the fields: those of a registration screen that was
\* opened anew are blank.
Acceptable(r) ==
    /\ r.profile # None
    /\ r.kind \in {"register", "login"} => r.password # None

\* UserRepository::insert, and update, of the whole row.
Insert(row) == Len(users) < MaxAccounts /\ users' = Append(users, row)
Update(id, row) == users' = [users EXCEPT ![id] = row]

NewUser(r) == [profile |-> r.profile, password |-> r.password, avatar |-> FALSE]

\* users_email_key
Taken(profile, id) ==
    \E i \in DOMAIN users : i # id /\ users[i].profile = profile

Final == {"ok", "refused", "error", "timeout", "none"}

\* The handler of a request gets to a stage; nobody hears the answer of one the
\* client has given up on.
Answered(s, stage, account, seen) ==
    wire' = IF stage \in Final /\ ~wire[s].heard THEN Without(wire, s)
            ELSE [wire EXCEPT ![s].stage = stage, ![s].account = account, ![s].seen = seen]

\* The error paths of handleRegister.
RegisterRefused(r) == ~Acceptable(r) \/ Taken(r.profile, Nobody)

\* parse_login_request, and a wrong email or password.
LoginRefused(r) ==
    \/ ~Acceptable(r)
    \/ ~\E i \in DOMAIN users :
            users[i].profile = r.profile /\ users[i].password = r.password

\* The validation in handleEdit and the avatar handlers.
EditRefused(r) == r.kind # "info" /\ ~Acceptable(r)

\* What is answered before a handler changes anything; the others are behind
\* with_auth.
Refused(r) ==
    \/ r.kind = "register" /\ RegisterRefused(r)
    \/ r.kind = "login" /\ LoginRefused(r)
    \/ /\ r.kind \notin {"register", "login"}
       /\ r.token = Nobody \/ EditRefused(r)

Refuse(s) ==
    /\ wire[s].stage = "sent"
    /\ Refused(wire[s])
    /\ Answered(s, "refused", Nobody, None)
    /\ UNCHANGED <<server, client, count>>

\* Mutant of CreateUser: the id of the User that was passed in.
CreateUserUnnumbered(s) ==
    /\ wire[s].kind = "register" /\ wire[s].stage = "sent"
    /\ ~Refused(wire[s])
    /\ Insert(NewUser(wire[s]))
    /\ Answered(s, "created", Nobody, None)
    /\ UNCHANGED <<boards, bucket, client, count>>

\* createUser
CreateUser(s) ==
    /\ wire[s].kind = "register" /\ wire[s].stage = "sent"
    /\ ~Refused(wire[s])
    /\ Insert(NewUser(wire[s]))
    /\ Answered(s, "created", Len(users'), None)
    /\ UNCHANGED <<boards, bucket, client, count>>

\* create_board
CreateBoard(s) ==
    /\ wire[s].stage = "created"
    /\ boards' = boards \cup {wire[s].account}
    /\ Answered(s, "ok", wire[s].account, None)
    /\ UNCHANGED <<users, bucket, client, count>>

\* handleLogin
ServeLogin(s) ==
    /\ wire[s].kind = "login" /\ wire[s].stage = "sent"
    /\ ~Refused(wire[s])
    /\ \E i \in DOMAIN users :
          /\ users[i].profile = wire[s].profile
          /\ Answered(s, "ok", i, users[i])
    /\ UNCHANGED <<server, client, count>>

\* handleInfo
ServeInfo(s) ==
    /\ wire[s].kind = "info" /\ wire[s].stage = "sent"
    /\ ~Refused(wire[s])
    /\ Answered(s, "ok", wire[s].token, users[wire[s].token])
    /\ UNCHANGED <<server, client, count>>

\* find_by_id of handleEdit, handleAvatarUpload and handleAvatarDelete.
ReadUser(s) ==
    /\ wire[s].kind \in {"edit", "upload", "delete"} /\ wire[s].stage = "sent"
    /\ ~Refused(wire[s])
    /\ Answered(s, "read", wire[s].token, users[wire[s].token])
    /\ UNCHANGED <<server, client, count>>

\* The row that was read, with the fields of the request.
Updated(r, avatar) ==
    [profile |-> r.profile,
     password |-> IF r.password = None THEN r.seen.password ELSE r.password,
     avatar |-> avatar]

\* UserRepository::save, or a 405 for users_email_key.
Save(s, row, stage, seen) ==
    LET id == wire[s].account
    IN  /\ wire[s].stage = "read"
        /\ \/ Taken(row.profile, id) /\ UNCHANGED users /\ Answered(s, "refused", Nobody, None)
           \/ ~Taken(row.profile, id) /\ Update(id, row) /\ Answered(s, stage, id, seen)
        /\ UNCHANGED <<boards, bucket, client, count>>

\* handleEdit saves the key of the photo as it was read.
SaveEdit(s) ==
    LET row == Updated(wire[s], wire[s].seen.avatar)
    IN  wire[s].kind = "edit" /\ Save(s, row, "ok", row)

\* handleAvatarDelete; the photo stays in the bucket.
SaveDelete(s) ==
    LET row == Updated(wire[s], FALSE)
    IN  wire[s].kind = "delete" /\ Save(s, row, "ok", row)

\* handleAvatarUpload, up to the upload.
SaveUpload(s) ==
    /\ wire[s].kind = "upload"
    /\ Save(s, Updated(wire[s], TRUE), "saved", wire[s].seen)

\* upload_user_avatar
StorePhoto(s) ==
    /\ wire[s].stage = "saved"
    /\ bucket' = bucket \cup {wire[s].account}
    /\ Answered(s, "ok", wire[s].account, Updated(wire[s], TRUE))
    /\ UNCHANGED <<users, boards, client, count>>

\* Mutant of StoreFails: the S3UploadError is not thrown on.
StoreFailsSilently(s) ==
    /\ wire[s].stage = "saved"
    /\ failures < MaxFailures
    /\ Answered(s, "ok", wire[s].account, Updated(wire[s], TRUE))
    /\ failures' = failures + 1
    /\ UNCHANGED <<server, client, submits, edits>>

\* S3UploadError: the row read at first is saved again; what that throws is
\* caught and forgotten.
StoreFails(s) ==
    LET r == wire[s] IN
    /\ r.stage = "saved"
    /\ failures < MaxFailures
    /\ \/ UNCHANGED users
       \/ ~Taken(r.seen.profile, r.account) /\ Update(r.account, r.seen)
    /\ Answered(s, "error", Nobody, None)
    /\ failures' = failures + 1
    /\ UNCHANGED <<boards, bucket, client, submits, edits>>

\* An error of the database: a repository call throws.
DatabaseFails(s) ==
    /\ wire[s].stage \in {"sent", "created", "read"}
    /\ wire[s].stage = "sent" => ~Refused(wire[s])
    /\ failures < MaxFailures
    /\ Answered(s, "error", Nobody, None)
    /\ failures' = failures + 1
    /\ UNCHANGED <<server, client, submits, edits>>

-----------------------------------------------------------------------------
(* Answers                                                                 *)

\* The client gives up on a request, wherever the server is with it: by a
\* timeout, which is tried again, or by an error of the connection.
GiveUp(s, stage) ==
    /\ wire[s].heard
    /\ wire[s].stage \notin {"error", "timeout", "none"}
    /\ failures < MaxFailures
    /\ Room(wire, 1)
    /\ LET failed == [wire[s] EXCEPT !.stage = stage, !.account = Nobody, !.seen = None]
       IN wire' = IF wire[s].stage \in Final THEN [wire EXCEPT ![s] = failed]
                  ELSE Put([wire EXCEPT ![s].heard = FALSE], failed)
    /\ failures' = failures + 1
    /\ UNCHANGED <<server, client, submits, edits>>

\* onResult: the connection errors the client has given up on.
Retryable(r) == r.stage \in {"error", "timeout"} /\ r.retries < MaxRetries

\* sendRequest again, with the token of that moment.
Resend(s) ==
    /\ wire[s].heard
    /\ Retryable(wire[s])
    /\ wire' = [wire EXCEPT ![s].stage = "sent", ![s].token = session,
                            ![s].retries = @ + 1]
    /\ UNCHANGED <<server, client, count>>

Delivered(s) == wire[s].heard /\ wire[s].stage \in Final /\ ~Retryable(wire[s])

\* What no screen takes notice of; a failed registration or login shows a message.
DeliverFailure(s) ==
    /\ Delivered(s)
    /\ wire[s].stage # "ok"
    /\ wire' = Without(wire, s)
    /\ UNCHANGED <<server, client, count>>

\* RegistrationScreen::onNetworkResponse: the fields are read again for the login.
DeliverRegister(s) ==
    /\ Delivered(s)
    /\ wire[s].kind = "register" /\ wire[s].stage = "ok"
    /\ wire' = IF screen = "registration"
               THEN Put(Without(wire, s),
                        NewRequest("login", session, form.profile, form.password))
               ELSE Without(wire, s)
    /\ UNCHANGED <<server, client, count>>

\* Mutant of DeliverLogin: beginUserSession keeps the tables.
DeliverLoginKeeping(s) ==
    LET id == wire[s].account
        info == NewRequest("info", id, None, None)
        upload == NewRequest("upload", id, form.profile, form.password)
        photo == screen = "registration" /\ form.photo
        rest == Without(wire, s)
    IN /\ Delivered(s)
       /\ wire[s].kind = "login" /\ wire[s].stage = "ok"
       /\ IF screen \in {"login", "registration"}
          THEN /\ session' = id
               /\ local' = SavedFromServer(local, id, wire[s].seen.profile)
               /\ screen' = IF screen = "login" THEN "welcome" ELSE screen
               /\ Room(rest, 2)
               /\ wire' = PutAll(rest, IF photo THEN <<info, upload>> ELSE <<info>>)
          ELSE wire' = rest /\ UNCHANGED <<session, local, screen>>
       /\ UNCHANGED <<server, pending_password, form, edit_screen, avatar_key, count>>

\* LoginScreen and RegistrationScreen: whichever is visible takes the answer.
DeliverLogin(s) ==
    LET id == wire[s].account
        info == NewRequest("info", id, None, None)
        upload == NewRequest("upload", id, form.profile, form.password)
        photo == screen = "registration" /\ form.photo
        rest == Without(wire, s)
    IN /\ Delivered(s)
       /\ wire[s].kind = "login" /\ wire[s].stage = "ok"
       /\ IF screen \in {"login", "registration"}
          THEN /\ session' = id
               /\ local' = SavedFromServer(<<>>, id, wire[s].seen.profile)
               /\ screen' = IF screen = "login" THEN "welcome" ELSE screen
               /\ Room(rest, 2)
               /\ wire' = PutAll(rest, IF photo THEN <<info, upload>> ELSE <<info>>)
          ELSE wire' = rest /\ UNCHANGED <<session, local, screen>>
       /\ UNCHANGED <<server, pending_password, form, edit_screen, avatar_key, count>>

\* handleResponse, and the profile screens.
DeliverInfo(s) ==
    /\ Delivered(s)
    /\ wire[s].kind = "info" /\ wire[s].stage = "ok"
    /\ local' = SavedFromServer(local, wire[s].account, wire[s].seen.profile)
    /\ avatar_key' = (edit_screen /\ wire[s].seen.avatar)
    /\ wire' = Without(wire, s)
    /\ UNCHANGED <<server, session, pending_password, screen, form, edit_screen, count>>

\* handlePushResponse: the answered account is saved, the pushed row is marked.
DeliverEdit(s) ==
    /\ Delivered(s)
    /\ wire[s].kind = "edit" /\ wire[s].stage = "ok"
    /\ local' = MarkedSynced(
                    SavedFromServer(local, wire[s].account, wire[s].seen.profile),
                    wire[s].row)
    /\ wire' = Without(wire, s)
    /\ UNCHANGED <<server, session, pending_password, screen, form, edit_screen, avatar_key,
                   count>>

\* ProfileEditScreen::onNetworkResponse, if there is that screen: visible or not,
\* and whoever is logged in, it switches to the profile, which closes the login
\* and registration screens and asks for the user.
DeliverPhoto(s) ==
    /\ Delivered(s)
    /\ wire[s].kind \in {"upload", "delete"} /\ wire[s].stage = "ok"
    /\ IF edit_screen
       THEN /\ avatar_key' = (wire[s].kind = "upload")
            /\ screen' = IF screen = "dashboard" THEN screen ELSE "profile"
            /\ wire' = Put(Without(wire, s), InfoRequest)
       ELSE wire' = Without(wire, s) /\ UNCHANGED <<avatar_key, screen>>
    /\ UNCHANGED <<server, session, local, pending_password, form, edit_screen, count>>

-----------------------------------------------------------------------------
Serve(s) ==
    \/ Refuse(s)
    \/ CreateUser(s)
    \/ CreateBoard(s)
    \/ ServeLogin(s)
    \/ ServeInfo(s)
    \/ ReadUser(s)
    \/ SaveEdit(s)
    \/ SaveDelete(s)
    \/ SaveUpload(s)
    \/ StorePhoto(s)

Deliver(s) ==
    \/ Resend(s)
    \/ DeliverFailure(s)
    \/ DeliverRegister(s)
    \/ DeliverLogin(s)
    \/ DeliverInfo(s)
    \/ DeliverEdit(s)
    \/ DeliverPhoto(s)

Next ==
    \/ \E s \in {"login", "registration"} : OpenScreen(s)
    \/ \E profile \in Profile, password \in Password :
          \/ \E photo \in BOOLEAN : Register(profile, password, photo)
          \/ Login(profile, password)
    \/ \E profile \in Profile, password \in Password \cup {None} :
          \/ \E changed \in 0 .. 1 : SaveProfile(profile, password, changed)
          \/ \E kind \in {"upload", "delete"} : SavePhoto(kind, profile, password)
    \/ OpenDashboard
    \/ Logout
    \/ OpenProfileEdit
    \/ PeriodicSync
    \/ \E s \in DOMAIN wire :
          \/ Serve(s)
          \/ Deliver(s)
          \/ StoreFails(s)
          \/ DatabaseFails(s)
          \/ \E stage \in {"timeout", "none"} : GiveUp(s, stage)

\* The backend serves what it has read, answers arrive, and the timer fires.
Fairness ==
    /\ \A s \in Slot : WF_vars(s \in DOMAIN wire /\ (Serve(s) \/ Deliver(s)))
    /\ WF_vars(PeriodicSync)

Spec == Init /\ [][Next]_vars /\ Fairness

-----------------------------------------------------------------------------
(* Properties                                                              *)

\* Every variable keeps to the values the code can give it.
TypeOK ==
    /\ users \in Seq(User) /\ Len(users) <= MaxAccounts
    /\ boards \subseteq DOMAIN users
    /\ bucket \subseteq DOMAIN users
    /\ DOMAIN wire \subseteq Slot /\ \A s \in DOMAIN wire : wire[s] \in Request
    /\ session \in DOMAIN users \cup {Nobody}
    /\ DOMAIN local \subseteq DOMAIN users
    /\ \A i \in DOMAIN local : local[i] \in LocalUser
    /\ pending_password \in Password \cup {None}
    /\ screen \in {"welcome", "login", "registration", "dashboard", "profile"}
    /\ form.profile \in Profile \cup {None}
    /\ edit_screen \in BOOLEAN
    /\ avatar_key \in BOOLEAN

\* handleRegister answers 200 only for an account with its board, and
\* handleAvatarUpload only for a photo that is stored; the two steps before
\* either answer can be parted by an error or by a retry of the same request.
AnswersAreTrue ==
    \A s \in DOMAIN wire : wire[s].stage = "ok" =>
        /\ wire[s].kind = "register" => wire[s].account \in boards
        /\ wire[s].kind = "upload" => wire[s].account \in bucket

\* UserSyncManager::sync pushes every pending row under the token of the moment,
\* with the password it was last given.  A row can become pending with nobody
\* logged in: a photo's late answer brings the profile back after a logout, and a
\* late answer about the user leaves a row to edit there.  Still, while somebody
\* is logged in only their own row is pending, no password is left over, and a
\* PUT goes out first under the token of its row's account, or under none and is
\* refused.  (Sent again by Resend, it takes the token of that moment.)
PendingIsOwn ==
    /\ session # Nobody => Unsynced(local) \subseteq {session}
    /\ pending_password = None
    /\ \A s \in DOMAIN wire : wire[s].kind = "edit" /\ wire[s].retries = 0 =>
          wire[s].token \in {Nobody, wire[s].row}

\* Once the user stops, the profile the client shows is that of the server,
\* whatever was refused, lost or answered late on the way.
ProfileSettles ==
    <>[](session # Nobody =>
            /\ session \in DOMAIN local
            /\ local[session].profile = users[session].profile
            /\ local[session].sync_status = "synced")

=============================================================================
