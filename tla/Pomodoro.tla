-------------------------------- MODULE Pomodoro --------------------------------
(***************************************************************************)
(* The focus timer of the client (PomodoroScreen), the local table of its  *)
(* sessions, the POST that logs a session when the timer stops, and the    *)
(* backend's pomodoro handlers, which another device calls too.            *)
(*                                                                         *)
(* PomodoroSyncManager pushes nothing: the POST is made once, and its      *)
(* answer is taken for one of the session the screen shows by then.  The   *)
(* screen is made once and outlives a logout: closing its window does not  *)
(* stop its timer.                                                         *)
(***************************************************************************)
EXTENDS Integers, FiniteSets

CONSTANTS
    User,
    None,        \* nobody, no goal, no row, no list
    Minute,      \* seconds in a minute
    Work, Break, \* seconds of default_work_seconds_ and total_break_seconds_
    Goal,        \* minutes goal_spinbox_ can be set to
    MaxWork,     \* bound: seconds of work in one session
    MaxSessions, \* bound: sessions started here
    MaxLogged,   \* bound: ids the server gives out
    MaxLogins,   \* bound
    MaxFailures  \* bound: requests lost, and errors of the backend

ASSUME LengthAssumption == {Minute, Work, Break} \subseteq Nat \ {0}
ASSUME GoalAssumption == Goal \subseteq Nat \ {0} /\ None \notin Goal
ASSUME BoundAssumption ==
    {MaxWork, MaxSessions, MaxLogged, MaxLogins, MaxFailures} \subseteq Nat
ASSUME UserAssumption == None \notin User

ServerId == 1 .. MaxLogged
Id == 1 .. MaxLogged + MaxSessions

\* session counts what was started here; 0 is a session of another device.
Session == 0 .. MaxSessions

\* A row of the local table: which session's work it holds.
Row == [user : User, minutes : Nat, session : Session, sync_status : {"pending", "synced"}]

\* A row of the server's table.
Logged == [user : User, goal : Goal \cup {None}, minutes : Nat, cycles : Nat,
           session : Session]

ASSUME NoneAssumption == None \notin Row

\* A POST in flight, until its code is set not served.
Post == [body : Logged, code : {"sent", "ok"}, id : ServerId \cup {None}]

VARIABLES
    screen,      \* current_state_; the timer runs when it is "timer"
    goal,        \* goal_minutes_, None without has_goal_
    phase,       \* is_work_phase_
    remaining,   \* remaining_seconds_
    total,       \* total_work_time_seconds_
    cycles,      \* completed_cycles_
    last_saved,  \* last_saved_work_minutes_
    local_id,    \* local_session_id_
    user,        \* who is logged in
    sessions,    \* the local table pomodoro_sessions
    logged,      \* the server's table pomodoro_sessions
    last,        \* the last id of its SERIAL
    posts,       \* the POSTs in flight
    listed,      \* what an answered GET of the user's sessions carries
    started,     \* sessions started so far
    undisturbed, \* history: since startTimer the same user has been logged in, and
                 \* no answer, list or login has touched the local table
    logins,
    failures

clock == <<screen, goal, phase, remaining, total, cycles>>
saved == <<last_saved, local_id, sessions>>
server == <<logged, last>>
net == <<posts, listed>>
count == <<started, logins, failures>>
vars == <<clock, saved, user, server, net, undisturbed, count>>

Least(a, b) == IF a < b THEN a ELSE b

Rows == {i \in Id : sessions[i] # None}

Init ==
    /\ screen = "welcome"
    /\ goal = None
    /\ phase = "work"
    /\ remaining = 0
    /\ total = 0
    /\ cycles = 0
    /\ last_saved = 0
    /\ local_id = 0
    /\ user \in User
    /\ sessions = [i \in Id |-> None]
    /\ logged = [i \in ServerId |-> None]
    /\ last = 0
    /\ posts = {}
    /\ listed = None
    /\ started = 0
    /\ undisturbed = TRUE
    /\ logins = 0
    /\ failures = 0

-----------------------------------------------------------------------------
(* The local table and the POST                                            *)

\* insert and update of the local table.
Saved(id, row) == sessions' = [sessions EXCEPT ![id] = row]

\* Mutant of Minutes: rounded down.
MinutesDown(seconds) == seconds \div Minute

\* Work is saved in minutes, rounded up.
Minutes(seconds) == (seconds + Minute - 1) \div Minute

\* getNextId: MAX(id) + 1, ids of the server included.
NextId == IF Rows = {} THEN 1 ELSE (CHOOSE i \in Rows : \A j \in Rows : j <= i) + 1

\* saveLocalSession: update or insert.
SaveLocalSession(worked) ==
    LET id == IF local_id <= 0 THEN NextId ELSE local_id
    IN  IF user = None \/ worked <= 0
        THEN UNCHANGED saved
        ELSE /\ Saved(id, [user |-> user, minutes |-> Minutes(worked),
                           session |-> started, sync_status |-> "pending"])
             /\ local_id' = id
             /\ last_saved' = Minutes(worked)

\* saveSession's request; without a token with_auth refuses it.
Posted(worked, completed) ==
    posts' = IF worked <= 0 \/ user = None THEN posts
             ELSE posts \cup {[body |-> [user |-> user, goal |-> goal,
                                         minutes |-> Minutes(worked),
                                         cycles |-> completed, session |-> started],
                               code |-> "sent", id |-> None]}

\* stopTimer.
StopTimer(worked, completed) ==
    /\ SaveLocalSession(worked)
    /\ Posted(worked, completed)
    /\ total' = 0
    /\ cycles' = 0
    /\ screen' = "welcome"

-----------------------------------------------------------------------------
(* The timer                                                               *)

\* Mutant of NextWorkPhaseSeconds: what is left of the goal.
NextWorkPhaseRest(g, worked) == IF g = None THEN Work ELSE g * Minute - worked

\* The next work phase: never more than what is left of the goal.
NextWorkPhaseSeconds(g, worked) ==
    IF g = None THEN Work ELSE Least(Work, g * Minute - worked)

\* onStartFocusClicked.
StartFocusClicked ==
    /\ screen = "welcome"
    /\ started < MaxSessions
    /\ screen' = "goal"
    /\ UNCHANGED <<goal, phase, remaining, total, cycles, saved, user, server, net,
                   undisturbed, count>>

\* Mutant of StartTimer: the last session's minutes are kept.
StartTimerOn(g) ==
    /\ goal' = g
    /\ screen' = "timer"
    /\ phase' = "work"
    /\ remaining' = NextWorkPhaseSeconds(g, total)
    /\ total' = 0
    /\ cycles' = 0
    /\ local_id' = 0
    /\ UNCHANGED last_saved

\* startTimer.  (The length is computed before total is reset, but stopTimer has
\* reset it too.)
StartTimer(g) ==
    /\ goal' = g
    /\ screen' = "timer"
    /\ phase' = "work"
    /\ remaining' = NextWorkPhaseSeconds(g, total)
    /\ total' = 0
    /\ cycles' = 0
    /\ local_id' = 0
    /\ last_saved' = 0

\* onGoalConfirmed, and with None onSkipGoalClicked.
GoalConfirmed(g) ==
    /\ screen = "goal"
    /\ StartTimer(g)
    /\ started' = started + 1
    /\ undisturbed' = (user # None)
    /\ UNCHANGED <<sessions, user, server, net, logins, failures>>

\* Mutant of GoalReached: only more than the goal ends the session.
GoalPassed(worked) == goal # None /\ worked > goal * Minute

\* The end of a phase ends the session if its goal has been worked.
GoalReached(worked) == goal # None /\ worked >= goal * Minute

\* The seconds worked once this tick has been counted.
Worked == IF phase = "work" THEN total + 1 ELSE total

Ticks ==
    /\ screen = "timer"
    /\ remaining > 0
    /\ phase = "work" => total < MaxWork
    /\ UNCHANGED <<goal, user, server, listed, undisturbed, count>>

\* onTimerTick inside a phase: every full minute of work is saved.
TickInPhase ==
    /\ Ticks
    /\ remaining > 1
    /\ remaining' = remaining - 1
    /\ total' = Worked
    /\ \/ phase = "work" /\ Worked \div Minute > last_saved /\ SaveLocalSession(Worked)
       \/ ~(phase = "work" /\ Worked \div Minute > last_saved) /\ UNCHANGED saved
    /\ UNCHANGED <<screen, phase, cycles, posts>>

\* onTimerTick at the end of a work phase.
TickEndsWork ==
    /\ Ticks
    /\ remaining = 1 /\ phase = "work"
    /\ phase' = "break"
    /\ remaining' = Break
    /\ \/ GoalReached(Worked) /\ StopTimer(Worked, cycles + 1)
       \/ /\ ~GoalReached(Worked)
          /\ total' = Worked
          /\ cycles' = cycles + 1
          /\ \/ Worked \div Minute > last_saved /\ SaveLocalSession(Worked)
             \/ ~(Worked \div Minute > last_saved) /\ UNCHANGED saved
          /\ UNCHANGED <<screen, posts>>

\* onTimerTick at the end of a break, when GoalReached has been tested already.
TickEndsBreak ==
    /\ Ticks
    /\ remaining = 1 /\ phase = "break"
    /\ phase' = "work"
    /\ remaining' = NextWorkPhaseSeconds(goal, total)
    /\ UNCHANGED <<screen, total, cycles, saved, posts>>

\* onStopClicked.
StopClicked ==
    /\ screen = "timer"
    /\ StopTimer(total, cycles)
    /\ UNCHANGED <<goal, phase, remaining, user, server, listed, undisturbed, count>>

-----------------------------------------------------------------------------
(* Answers                                                                 *)

\* onNetworkResponse and saveLocalSessionFromServer on a 200.  The row deleted is
\* the one of local_id, whatever session that is of by now.
SaveLocalSessionFromServer(p) ==
    /\ sessions' = [i \in Id |->
           IF i = p.id THEN [user |-> p.body.user, minutes |-> p.body.minutes,
                             session |-> p.body.session, sync_status |-> "synced"]
           ELSE IF i = local_id THEN None ELSE sessions[i]]
    /\ local_id' = p.id
    /\ last_saved' = p.body.minutes

\* The 200 for a POST: any other code changes nothing here.
DeliverPost(p) ==
    /\ p.code = "ok"
    /\ posts' = posts \ {p}
    /\ SaveLocalSessionFromServer(p)
    /\ undisturbed' = FALSE
    /\ UNCHANGED <<clock, user, server, listed, count>>

\* PomodoroSyncManager::parse: each row is updated or inserted.
DeliverList ==
    /\ listed # None
    /\ sessions' = [i \in Id |->
           IF i \in ServerId /\ listed[i] # None
           THEN [user |-> listed[i].user, minutes |-> listed[i].minutes,
                 session |-> listed[i].session, sync_status |-> "synced"]
           ELSE sessions[i]]
    /\ listed' = None
    /\ undisturbed' = FALSE
    /\ UNCHANGED <<clock, last_saved, local_id, user, server, posts, count>>

Fails ==
    /\ failures < MaxFailures
    /\ failures' = failures + 1
    /\ UNCHANGED <<clock, saved, user, server, listed, undisturbed, started, logins>>

\* The request or its answer is lost, or is refused for an expired token.
LosePost(p) ==
    /\ Fails
    /\ posts' = posts \ {p}

\* The answer is too late, or a 500: onResult sends the request again, with the
\* token of that moment.  Without one it is refused.
ResendPost(p) ==
    LET again == [p EXCEPT !.body.user = user, !.code = "sent", !.id = None]
    IN  /\ Fails
        /\ p.code = "ok"
        /\ posts' = (posts \ {p}) \cup (IF user = None THEN {} ELSE {again})

-----------------------------------------------------------------------------
(* The account                                                             *)

\* beginUserSession.
Login(u) ==
    /\ user = None
    /\ logins < MaxLogins
    /\ logins' = logins + 1
    /\ user' = u
    /\ sessions' = [i \in Id |-> None]
    /\ undisturbed' = FALSE
    /\ UNCHANGED <<clock, last_saved, local_id, server, net, started, failures>>

\* MainWindow::switchToLogin: clearSession, and the token is forgotten.
Logout ==
    /\ user # None
    /\ logins < MaxLogins
    /\ user' = None
    /\ sessions' = [i \in Id |-> None]
    /\ undisturbed' = FALSE
    /\ UNCHANGED <<clock, last_saved, local_id, server, net, count>>

-----------------------------------------------------------------------------
(* The backend                                                             *)

\* Mutant of Acceptable: completed_cycles must be positive.
AcceptablePositive(body) == body.minutes > 0 /\ body.cycles > 0

\* handleCreate's checks of the fields, and the CHECKs of init.sql.
Acceptable(body) ==
    /\ body.goal # None => body.goal > 0
    /\ body.minutes > 0
    /\ body.cycles >= 0

\* PomodoroSessionRepository::insert.
Insert(body) ==
    /\ last < MaxLogged
    /\ last' = last + 1
    /\ logged' = [logged EXCEPT ![last'] = body]

\* pomodoro/v1 handleCreate.
ServePost(p) ==
    /\ p.code = "sent"
    /\ Acceptable(p.body)
    /\ Insert(p.body)
    /\ posts' = (posts \ {p}) \cup {[p EXCEPT !.code = "ok", !.id = last']}
    /\ UNCHANGED <<clock, saved, user, listed, undisturbed, count>>

\* PomodoroSessionRepository::find_by_user_id.
FindByUserId(u) ==
    [i \in ServerId |-> IF logged[i] # None /\ logged[i].user = u THEN logged[i] ELSE None]

\* pomodoro/v1 handleGetUserSessions.
ServeList ==
    /\ user # None
    /\ listed = None
    /\ listed' = FindByUserId(user)
    /\ UNCHANGED <<clock, saved, user, server, posts, undisturbed, count>>

\* A session of another device.
OtherDevice(u) ==
    /\ started < MaxSessions
    /\ \A i \in ServerId : logged[i] # None => logged[i].session # 0
    /\ Insert([user |-> u, goal |-> None, minutes |-> 1, cycles |-> 0, session |-> 0])
    /\ UNCHANGED <<clock, saved, user, net, undisturbed, count>>

Next ==
    \/ StartFocusClicked
    \/ \E g \in Goal \cup {None} : GoalConfirmed(g)
    \/ TickInPhase
    \/ TickEndsWork
    \/ TickEndsBreak
    \/ StopClicked
    \/ \E p \in posts : DeliverPost(p) \/ LosePost(p) \/ ResendPost(p) \/ ServePost(p)
    \/ DeliverList
    \/ \E u \in User : Login(u) \/ OtherDevice(u)
    \/ Logout
    \/ ServeList

\* The QTimer fires, and the backend answers.
Fairness ==
    /\ WF_vars(TickInPhase)
    /\ WF_vars(TickEndsWork)
    /\ WF_vars(TickEndsBreak)
    /\ \A s \in Session : WF_vars(\E p \in posts : p.body.session = s /\ ServePost(p))

Spec == Init /\ [][Next]_vars /\ Fairness

-----------------------------------------------------------------------------
(* Properties                                                              *)

\* Every variable keeps to the values the code can give it: a phase is never
\* longer than 30 minutes of work or 5 of break.
TypeOK ==
    /\ screen \in {"welcome", "goal", "timer"}
    /\ goal \in Goal \cup {None}
    /\ phase \in {"work", "break"}
    /\ remaining \in 0 .. Work \cup 0 .. Break
    /\ {total, cycles, last_saved} \subseteq Nat
    /\ local_id \in Id \cup {0}
    /\ user \in User \cup {None}
    /\ sessions \in [Id -> Row \cup {None}]
    /\ logged \in [ServerId -> Logged \cup {None}]
    /\ last \in 0 .. MaxLogged
    /\ posts \subseteq Post
    /\ listed \in [ServerId -> Logged \cup {None}] \cup {None}
    /\ started \in Session
    /\ undisturbed \in BOOLEAN
    /\ logins \in 0 .. MaxLogins
    /\ failures \in 0 .. MaxFailures

\* docs/API.md:199: a running timer always has time left (onTimerTick returns at
\* once when it has not, and would do so for ever), a goal is never overrun,
\* breaks do not count as work, and the cycles done account for the work done.
TimerRuns ==
    screen = "timer" =>
        /\ remaining > 0
        /\ phase = "break" => total = cycles * Work
        /\ phase = "work" =>
             total + remaining = cycles * Work + NextWorkPhaseSeconds(goal, cycles * Work)
        /\ goal # None => total < goal * Minute

\* Whatever the timer posts passes the checks of the backend's handleCreate, and
\* a session with a goal is never posted with more work than its goal.
PostsAcceptable ==
    \A p \in posts :
        /\ p.body.minutes > 0
        /\ p.body.goal # None => p.body.minutes <= p.body.goal

\* saveLocalSession in onTimerTick: a crash loses less than a minute of the
\* session that runs, if nothing else has touched the table.
MinutesKept ==
    screen = "timer" /\ undisturbed /\ total >= Minute =>
        \E i \in Rows : /\ sessions[i].session = started
                        /\ sessions[i].minutes >= total \div Minute

\* A session with a goal comes to its end by itself.  MaxWork cuts off the others.
GoalIsReached == (screen = "timer" /\ goal # None) ~> screen = "welcome"

\* What is posted is logged by the server, unless requests fail or the bound on
\* its ids is met.
SessionsLogged ==
    \A s \in Session :
        (\E p \in posts : p.body.session = s) ~>
            \/ \E i \in ServerId : logged[i] # None /\ logged[i].session = s
            \/ failures > 0
            \/ last = MaxLogged

\* README.md:20: finished sessions are logged for later control of one's
\* productivity.  So the row of a session that the server has confirmed is not
\* made one of another session.
LoggedRowsStay ==
    [][\A i \in Rows :
          sessions[i].sync_status = "synced" /\ sessions'[i] # None =>
              sessions'[i].session = sessions[i].session]_vars

=============================================================================
