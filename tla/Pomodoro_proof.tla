---------------------------- MODULE Pomodoro_proof ----------------------------
(***************************************************************************)
(* Proofs about Pomodoro.  The timer's own numbers are inductive together  *)
(* with the reset of total by stopTimer (Idle).  That what is posted is    *)
(* acceptable, and that a crash loses less than a minute, rests on them    *)
(* and on a bound for the ids the local table uses (IdsBounded): a new     *)
(* session takes one id above those in use.                                *)
(***************************************************************************)
EXTENDS Pomodoro, TLAPS, WellFoundedInduction

ClockTyped ==
    /\ screen \in {"welcome", "goal", "timer"}
    /\ goal \in Goal \cup {None}
    /\ phase \in {"work", "break"}
    /\ remaining \in 0 .. Work \cup 0 .. Break
    /\ total \in Nat
    /\ cycles \in Nat

TableTyped ==
    /\ last_saved \in Nat
    /\ local_id \in Id \cup {0}
    /\ user \in User \cup {None}
    /\ sessions \in [Id -> Row \cup {None}]

NetTyped ==
    /\ logged \in [ServerId -> Logged \cup {None}]
    /\ last \in 0 .. MaxLogged
    /\ posts \subseteq Post
    /\ listed \in [ServerId -> Logged \cup {None}] \cup {None}

CountTyped ==
    /\ started \in Session
    /\ undisturbed \in BOOLEAN
    /\ logins \in 0 .. MaxLogins
    /\ failures \in 0 .. MaxFailures

\* stopTimer resets what startTimer reads.
Idle == screen # "timer" => total = 0

\* A served POST has its id.
Served == \A p \in posts : p.code = "ok" => p.id \in ServerId /\ p.id <= last

\* Ids in use: those of the server and one for every session started here, the
\* one that runs included once it is saved.
IdsBounded ==
    /\ \A i \in ServerId : logged[i] # None => i <= last
    /\ listed # None => \A i \in ServerId : listed[i] # None => i <= last
    /\ local_id <= last + started
    /\ \A i \in Rows : i <= last + started
    /\ screen = "goal" => started < MaxSessions
    /\ screen = "timer" => started > 0
    /\ screen = "timer" /\ local_id = 0 => \A i \in Rows : i < last + started

\* What MinutesKept rests on: last_saved is what the row of local_id holds.
Kept ==
    screen = "timer" /\ undisturbed =>
        /\ user # None
        /\ last_saved >= total \div Minute
        /\ last_saved > 0 =>
             /\ local_id \in Rows
             /\ sessions[local_id].session = started
             /\ sessions[local_id].minutes >= last_saved

Typed == ClockTyped /\ TableTyped /\ NetTyped /\ CountTyped

IInv == Typed /\ Idle /\ TimerRuns /\ Served /\ PostsAcceptable /\ IdsBounded /\ Kept

-----------------------------------------------------------------------------
(* Arithmetic and constants                                                *)

LEMMA Lengths ==
    /\ Minute \in Nat /\ Minute > 0
    /\ Work \in Nat /\ Work > 0
    /\ Break \in Nat /\ Break > 0
    /\ \A g \in Goal : g \in Nat /\ g > 0 /\ g # None
    /\ {MaxWork, MaxSessions, MaxLogged, MaxLogins, MaxFailures} \subseteq Nat
    /\ \A u \in User : u # None
  BY LengthAssumption, GoalAssumption, BoundAssumption, UserAssumption

LEMMA Division ==
    ASSUME NEW a \in Nat, NEW m \in Nat, m > 0
    PROVE  /\ a \div m \in Nat
           /\ (a \div m) * m <= a
           /\ a < (a \div m) * m + m
  BY Z3

\* Rounding up: as many minutes as were begun, and no more than a goal that is
\* not exceeded.
LEMMA RoundedUp ==
    ASSUME NEW t \in Nat
    PROVE  /\ Minutes(t) \in Nat
           /\ t \div Minute \in Nat
           /\ t \div Minute <= Minutes(t)
           /\ t > 0 => Minutes(t) > 0
           /\ \A g \in Nat : t <= g * Minute => Minutes(t) <= g
<1> DEFINE m == Minute
<1>1. m \in Nat /\ m > 0 /\ t + m - 1 \in Nat
  BY Lengths
<1>2. /\ Minutes(t) = (t + m - 1) \div m
      /\ Minutes(t) \in Nat
      /\ Minutes(t) * m <= t + m - 1
      /\ t + m - 1 < Minutes(t) * m + m
  BY <1>1, Division DEF Minutes
<1>3. t \div m \in Nat /\ (t \div m) * m <= t
  BY <1>1, Division
<1> DEFINE k == Minutes(t)
<1> HIDE DEF m, k
<1>4. k \in Nat /\ k * m <= t + m - 1 /\ t + m - 1 < k * m + m
  BY <1>2 DEF k
<1>5. t > 0 => k > 0
  BY <1>1, <1>4
<1>6. ASSUME NEW g \in Nat, t <= g * m PROVE k <= g
  <2>1. SUFFICES ASSUME k >= g + 1 PROVE FALSE
    BY <1>4
  <2>2. k * m >= (g + 1) * m
    BY <1>1, <1>4, <2>1
  <2>3. (g + 1) * m = g * m + m /\ g * m \in Nat
    BY <1>1
  <2>4. QED
    BY <1>1, <1>4, <1>6, <2>2, <2>3
<1>7. t \div m <= k
  <2> DEFINE q == t \div m
  <2>1. q \in Nat /\ q * m <= t
    BY <1>3
  <2> HIDE DEF q
  <2>2. SUFFICES ASSUME q >= k + 1 PROVE FALSE
    BY <1>4, <2>1 DEF q
  <2>3. q * m >= (k + 1) * m
    BY <1>1, <1>4, <2>1, <2>2
  <2>4. (k + 1) * m = k * m + m
    BY <1>1, <1>4
  <2>5. QED
    BY <1>1, <1>4, <2>1, <2>3, <2>4
<1>8. QED
  BY <1>2, <1>3, <1>5, <1>6, <1>7 DEF k, m

\* A set of ids that is not empty has a greatest one (MAX(id) is not NULL).
LEMMA Greatest ==
    ASSUME NEW n \in Nat, NEW S \in SUBSET (1 .. n), S # {}
    PROVE  \E i \in S : \A j \in S : j <= i
<1> DEFINE T == {x \in Nat : n - x \in S}
<1>1. T \subseteq Nat /\ T # {}
  <2>1. PICK i \in S : TRUE
    OBVIOUS
  <2>2. n - i \in Nat /\ n - (n - i) = i
    OBVIOUS
  <2>3. QED
    BY <2>2
<1>2. \E x \in T : \A y \in T : ~ (<<y, x>> \in OpToRel(<, Nat))
  BY <1>1, NatLessThanWellFounded, WFMin
<1>3. PICK x \in T : \A y \in T : ~ (<<y, x>> \in OpToRel(<, Nat))
  BY <1>2
<1>4. \A y \in T : ~ (y < x)
  BY <1>1, <1>3 DEF OpToRel
<1>5. n - x \in S
  BY <1>3
<1>6. ASSUME NEW j \in S PROVE j <= n - x
  <2>1. n - j \in T
    OBVIOUS
  <2>2. ~ (n - j < x)
    BY <1>4, <2>1
  <2>3. x \in Nat
    BY <1>1, <1>3
  <2>4. j \in 1 .. n
    OBVIOUS
  <2>5. QED
    BY <2>2, <2>3, <2>4
<1>7. QED
  BY <1>5, <1>6

-----------------------------------------------------------------------------
(* The parts of the state                                                  *)

LEMMA TypeSplit == TypeOK <=> Typed
  BY DEF TypeOK, Typed, ClockTyped, TableTyped, NetTyped, CountTyped

\* Type correctness of the numbers, for the arithmetic.
LEMMA Numbers ==
    ASSUME Typed
    PROVE  /\ remaining \in Nat /\ total \in Nat /\ cycles \in Nat
           /\ last \in Nat /\ last <= MaxLogged
           /\ started \in Nat /\ started <= MaxSessions
           /\ local_id \in Nat /\ last_saved \in Nat
           /\ MaxLogged \in Nat /\ MaxSessions \in Nat
           /\ Rows \in SUBSET (1 .. MaxLogged + MaxSessions)
           /\ goal # None => goal \in Nat /\ goal > 0
  BY Lengths DEF Typed, ClockTyped, TableTyped, NetTyped, CountTyped, Id, Session, Rows

LEMMA InitIInv == Init => IInv
<1> SUFFICES ASSUME Init PROVE IInv
  OBVIOUS
<1>1. ClockTyped /\ TableTyped /\ NetTyped /\ CountTyped
  BY Lengths DEF Init, ClockTyped, TableTyped, NetTyped, CountTyped, Session
<1>2. Idle /\ TimerRuns /\ Kept
  BY DEF Init, Idle, TimerRuns, Kept
<1>3. Served /\ PostsAcceptable
  BY DEF Init, Served, PostsAcceptable
<1>4. Rows = {}
  BY DEF Init, Rows
<1>5. IdsBounded
  BY <1>4 DEF Init, IdsBounded
<1>6. QED
  BY <1>1, <1>2, <1>3, <1>5 DEF IInv, Typed

\* getNextId gives the session that runs an id of its own.
LEMMA NextIdFits ==
    ASSUME Typed, IdsBounded, started > 0, \A i \in Rows : i < last + started
    PROVE  NextId \in Id /\ NextId <= last + started /\ NextId > 0
<1>1. CASE Rows = {}
  BY <1>1, Numbers DEF NextId, Id
<1>2. CASE Rows # {}
  <2> DEFINE top == CHOOSE i \in Rows : \A j \in Rows : j <= i
  <2>1. \E i \in Rows : \A j \in Rows : j <= i
    <3>1. MaxLogged + MaxSessions \in Nat
      BY Numbers
    <3>2. QED
      BY <1>2, <3>1, Numbers, Greatest
  <2>2. top \in Rows
    BY <2>1
  <2> HIDE DEF top
  <2>3. NextId = top + 1
    BY <1>2 DEF NextId, top
  <2>4. top \in 1 .. MaxLogged + MaxSessions /\ top < last + started
    BY <2>2, Numbers
  <2>5. QED
    BY <2>3, <2>4, Numbers DEF Id
<1>3. QED
  BY <1>1, <1>2

\* saveLocalSession keeps the table's types and bounds, and the row of local_id
\* holds the minutes worked in the session that runs.
LEMMA SavingKeeps ==
    ASSUME Typed, IdsBounded, NEW worked \in Nat, started > 0,
           local_id = 0 => \A i \in Rows : i < last + started,
           SaveLocalSession(worked), user' = user
    PROVE  /\ TableTyped'
           /\ local_id' <= last + started
           /\ \A i \in Rows' : i <= last + started
           /\ local_id' = 0 => \A i \in Rows' : i < last + started
           /\ user # None /\ worked > 0 =>
                /\ local_id' \in Rows'
                /\ sessions'[local_id'].session = started
                /\ sessions'[local_id'].minutes = Minutes(worked)
                /\ last_saved' = Minutes(worked)
<1>1. CASE user = None \/ worked <= 0
  <2>1. UNCHANGED saved
    BY <1>1 DEF SaveLocalSession
  <2>2. Rows' = Rows
    BY <2>1 DEF saved, Rows
  <2>3. QED
    BY <1>1, <2>1, <2>2 DEF saved, Typed, TableTyped, IdsBounded
<1>2. CASE user # None /\ worked > 0
  <2> DEFINE id == IF local_id <= 0 THEN NextId ELSE local_id
             row == [user |-> user, minutes |-> Minutes(worked), session |-> started,
                     sync_status |-> "pending"]
  <2>1. /\ sessions' = [sessions EXCEPT ![id] = row]
        /\ local_id' = id
        /\ last_saved' = Minutes(worked)
    BY <1>2 DEF SaveLocalSession, Saved
  <2>2. id \in Id /\ id <= last + started /\ id > 0
    <3>1. CASE local_id <= 0
      BY <3>1, Numbers, NextIdFits
    <3>2. CASE ~(local_id <= 0)
      BY <3>2, Numbers DEF Typed, TableTyped, IdsBounded
    <3>3. QED
      BY <3>1, <3>2
  <2>3. row \in Row
    BY <1>2, RoundedUp DEF Row, Typed, TableTyped, CountTyped
  <2>4. row # None
    BY <2>3, NoneAssumption
  <2> HIDE DEF id, row
  <2>5. TableTyped'
    BY <2>1, <2>2, <2>3, RoundedUp DEF Typed, TableTyped
  <2>6. sessions'[id] = row /\ \A i \in Id \ {id} : sessions'[i] = sessions[i]
    BY <2>1, <2>2 DEF Typed, TableTyped
  <2>7. id \in Rows' /\ Rows' \subseteq Rows \cup {id}
    BY <2>2, <2>4, <2>6 DEF Rows
  <2>8. \A i \in Rows' : i <= last + started
    BY <2>2, <2>7 DEF IdsBounded
  <2>9. row.session = started /\ row.minutes = Minutes(worked)
    BY DEF row
  <2>10. local_id' # 0
    BY <2>1, <2>2
  <2>11. QED
    BY <2>1, <2>2, <2>5, <2>6, <2>7, <2>8, <2>9, <2>10
<1>3. QED
  BY <1>1, <1>2, Numbers


-----------------------------------------------------------------------------
(* The timer                                                               *)

\* What the clock's numbers say while the timer runs, with the products named.
LEMMA ClockFacts ==
    ASSUME IInv, screen = "timer"
    PROVE  /\ cycles * Work \in Nat
           /\ (cycles + 1) * Work = cycles * Work + Work
           /\ goal # None => goal * Minute \in Nat /\ total < goal * Minute
           /\ remaining > 0
           /\ phase = "break" => total = cycles * Work
           /\ phase = "work" =>
                /\ goal = None => total + remaining = cycles * Work + Work
                /\ goal # None => \/ total + remaining = goal * Minute
                                  \/ total + remaining = cycles * Work + Work
                /\ goal # None => total + remaining <= goal * Minute
                /\ goal # None => total + remaining <= cycles * Work + Work
<1>1. Typed /\ TimerRuns
  BY DEF IInv
<1>2. cycles \in Nat /\ total \in Nat /\ Work \in Nat /\ Minute \in Nat /\ remaining \in Nat
  BY <1>1, Numbers, Lengths
<1>3. cycles * Work \in Nat /\ (cycles + 1) * Work = cycles * Work + Work
  BY <1>2
<1>4. goal # None => goal * Minute \in Nat /\ total < goal * Minute
  BY <1>1, <1>2, Numbers DEF TimerRuns
<1> DEFINE cw == cycles * Work
           gm == goal * Minute
<1>5. phase = "work" =>
         total + remaining = cw + (IF goal = None THEN Work ELSE Least(Work, gm - cw))
  BY <1>1 DEF TimerRuns, NextWorkPhaseSeconds
<1>6. cw \in Nat /\ (goal # None => gm \in Nat)
  BY <1>3, <1>4
<1>7. remaining > 0 /\ (phase = "break" => total = cw)
  BY <1>1 DEF TimerRuns
<1> HIDE DEF cw, gm
<1>8. phase = "work" =>
         /\ goal = None => total + remaining = cw + Work
         /\ goal # None => total + remaining = gm \/ total + remaining = cw + Work
         /\ goal # None => total + remaining <= gm
         /\ goal # None => total + remaining <= cw + Work
  BY <1>2, <1>5, <1>6 DEF Least
<1>9. QED
  BY <1>3, <1>4, <1>7, <1>8 DEF cw, gm

\* The length of a work phase that starts after so much work.
LEMMA PhaseLength ==
    ASSUME NEW g \in Goal \cup {None}, NEW worked \in Nat,
           g # None => worked < g * Minute
    PROVE  /\ NextWorkPhaseSeconds(g, worked) \in 0 .. Work
           /\ NextWorkPhaseSeconds(g, worked) > 0
<1>1. CASE g = None
  BY <1>1, Lengths DEF NextWorkPhaseSeconds
<1>2. CASE g # None
  <2> DEFINE gm == g * Minute
  <2>1. gm \in Nat /\ worked < gm
    BY <1>2, Lengths
  <2>2. NextWorkPhaseSeconds(g, worked) = Least(Work, gm - worked)
    BY <1>2 DEF NextWorkPhaseSeconds
  <2> HIDE DEF gm
  <2>3. QED
    BY <2>1, <2>2, Lengths DEF Least
<1>3. QED
  BY <1>1, <1>2

\* stopTimer, after so much work and so many cycles, leaves nothing to be true
\* of the clock, and posts what the backend accepts.
LEMMA StoppingKeeps ==
    ASSUME IInv, screen = "timer", NEW worked \in Nat, NEW completed \in Nat,
           goal # None => worked <= goal * Minute,
           StopTimer(worked, completed),
           phase' \in {"work", "break"}, remaining' \in 0 .. Work \cup 0 .. Break,
           UNCHANGED <<goal, user, server, listed, undisturbed, count>>
    PROVE  IInv'
<1>1. Typed /\ IdsBounded
  BY DEF IInv
<1>2. /\ SaveLocalSession(worked) /\ Posted(worked, completed)
      /\ total' = 0 /\ cycles' = 0 /\ screen' = "welcome"
  BY DEF StopTimer
<1>3. /\ TableTyped'
      /\ local_id' <= last + started
      /\ \A i \in Rows' : i <= last + started
  BY <1>1, <1>2, SavingKeeps DEF IdsBounded
<1>4. ClockTyped'
  BY <1>1, <1>2 DEF Typed, ClockTyped
<1>5. Minutes(worked) \in Nat
  BY RoundedUp
<1>6. posts' \subseteq Post /\ Served' /\ PostsAcceptable'
  <2>1. CASE worked <= 0 \/ user = None
    BY <2>1, <1>1, <1>2 DEF Posted, Typed, NetTyped, IInv, Served, PostsAcceptable, server
  <2>2. CASE ~(worked <= 0 \/ user = None)
    <3> DEFINE body == [user |-> user, goal |-> goal, minutes |-> Minutes(worked),
                        cycles |-> completed, session |-> started]
               p == [body |-> body, code |-> "sent", id |-> None]
    <3>1. posts' = posts \cup {p}
      BY <2>2, <1>2 DEF Posted
    <3>2. body \in Logged
      BY <2>2, <1>1, <1>5 DEF Logged, Typed, ClockTyped, TableTyped, CountTyped
    <3>3. p \in Post
      BY <3>2 DEF Post
    <3>4. p.code = "sent"
      OBVIOUS
    <3>5. p.body.minutes > 0
      BY <2>2, RoundedUp
    <3>6. p.body.goal # None => p.body.minutes <= p.body.goal
      BY <1>1, Numbers, RoundedUp
    <3> HIDE DEF p
    <3>7. QED
      BY <3>1, <3>3, <3>4, <3>5, <3>6, <1>1
         DEF IInv, Typed, NetTyped, Served, PostsAcceptable, server
  <2>3. QED
    BY <2>1, <2>2
<1>7. NetTyped' /\ CountTyped'
  BY <1>1, <1>6 DEF Typed, NetTyped, CountTyped, server, count
<1>8. Idle' /\ TimerRuns' /\ Kept'
  BY <1>2 DEF Idle, TimerRuns, Kept
<1>9. IdsBounded'
  BY <1>1, <1>2, <1>3 DEF IdsBounded, server, count
<1>10. QED
  BY <1>3, <1>4, <1>6, <1>7, <1>8, <1>9 DEF IInv, Typed

LEMMA StartFocusKeeps == IInv /\ StartFocusClicked => IInv'
<1> SUFFICES ASSUME IInv, StartFocusClicked PROVE IInv'
  OBVIOUS
<1>1. /\ screen = "welcome" /\ screen' = "goal" /\ started < MaxSessions
      /\ UNCHANGED <<goal, phase, remaining, total, cycles, saved, user, server, net,
                     undisturbed, count>>
  BY DEF StartFocusClicked
<1>2. Typed'
  BY <1>1 DEF IInv, Typed, ClockTyped, TableTyped, NetTyped, CountTyped, saved, server, net, count
<1>3. Idle' /\ TimerRuns' /\ Kept'
  BY <1>1 DEF IInv, Idle, TimerRuns, Kept
<1>4. Served' /\ PostsAcceptable'
  BY <1>1 DEF IInv, Served, PostsAcceptable, net, server
<1>5. Rows' = Rows
  BY <1>1 DEF Rows, saved
<1>6. IdsBounded'
  BY <1>1, <1>5 DEF IInv, IdsBounded, saved, server, net, count
<1>7. QED
  BY <1>2, <1>3, <1>4, <1>6 DEF IInv

\* startTimer: total is 0 already, so the first phase is as long as from nothing.
LEMMA GoalConfirmedKeeps ==
    ASSUME IInv, NEW g \in Goal \cup {None}, GoalConfirmed(g)
    PROVE  IInv'
<1>1. /\ screen = "goal" /\ screen' = "timer" /\ goal' = g /\ phase' = "work"
      /\ remaining' = NextWorkPhaseSeconds(g, total)
      /\ total' = 0 /\ cycles' = 0 /\ local_id' = 0 /\ last_saved' = 0
      /\ started' = started + 1 /\ undisturbed' = (user # None)
      /\ UNCHANGED <<sessions, user, server, net, logins, failures>>
  BY DEF GoalConfirmed, StartTimer
<1>2. Typed /\ IdsBounded
  BY DEF IInv
<1>3. total = 0
  BY <1>1 DEF IInv, Idle
<1>4. g # None => 0 < g * Minute
  BY Lengths
<1>5. remaining' \in 0 .. Work /\ remaining' > 0
  BY <1>1, <1>3, <1>4, PhaseLength
<1>6. started' \in Nat /\ started' <= MaxSessions /\ started' > 0
  BY <1>1, <1>2, Numbers DEF IdsBounded
<1>7. ClockTyped'
  BY <1>1, <1>5 DEF ClockTyped
<1>8. TableTyped' /\ NetTyped' /\ CountTyped'
  BY <1>1, <1>2, <1>6, Lengths DEF Typed, TableTyped, NetTyped, CountTyped, server, net, Session
<1>9. Idle' /\ Served' /\ PostsAcceptable'
  BY <1>1 DEF IInv, Idle, Served, PostsAcceptable, net, server
<1>10. TimerRuns'
  <2>1. 0 * Work = 0 /\ cycles' * Work = 0
    BY <1>1, Lengths
  <2>2. total' + remaining' = NextWorkPhaseSeconds(g, 0)
    BY <1>1, <1>3, <1>5, Lengths
  <2>3. cycles' * Work + NextWorkPhaseSeconds(goal', cycles' * Work)
          = NextWorkPhaseSeconds(g, 0)
    BY <1>1, <1>3, <1>5, <2>1, Lengths
  <2>4. QED
    BY <1>1, <1>4, <1>5, <2>2, <2>3 DEF TimerRuns
<1>11. Kept'
  <2> DEFINE m == Minute
             q == 0 \div m
  <2>1. m \in Nat /\ m > 0 /\ q \in Nat /\ q * m <= 0
    BY Lengths, Division
  <2>2. total' \div Minute = q
    BY <1>1
  <2> HIDE DEF m, q
  <2>3. q = 0
    BY <2>1
  <2>4. last_saved' >= total' \div Minute /\ ~(last_saved' > 0)
    BY <1>1, <2>2, <2>3
  <2>5. undisturbed' => user' # None
    BY <1>1
  <2>6. QED
    BY <2>4, <2>5 DEF Kept
<1>12. Rows' = Rows
  BY <1>1 DEF Rows
<1>13. IdsBounded'
  BY <1>1, <1>2, <1>6, <1>12, Numbers DEF IdsBounded, server, net
<1>14. QED
  BY <1>7, <1>8, <1>9, <1>10, <1>11, <1>13 DEF IInv, Typed

\* What a tick leaves alone.
LEMMA TicksFrame ==
    ASSUME IInv, Ticks, UNCHANGED posts, UNCHANGED screen,
           SaveLocalSession(Worked) \/ UNCHANGED saved
    PROVE  /\ Worked \in Nat /\ started > 0
           /\ TableTyped' /\ NetTyped' /\ CountTyped'
           /\ Served' /\ PostsAcceptable' /\ IdsBounded'
<1>1. /\ screen = "timer" /\ Typed /\ IdsBounded
      /\ UNCHANGED <<goal, user, server, listed, undisturbed, count>>
  BY DEF Ticks, IInv
<1>2. Worked \in Nat /\ started > 0
  BY <1>1, Numbers DEF Worked, IdsBounded
<1>3. /\ TableTyped'
      /\ local_id' <= last + started
      /\ \A i \in Rows' : i <= last + started
      /\ local_id' = 0 => \A i \in Rows' : i < last + started
  <2>1. CASE SaveLocalSession(Worked)
    BY <2>1, <1>1, <1>2, SavingKeeps DEF IdsBounded
  <2>2. CASE UNCHANGED saved
    BY <2>2, <1>1 DEF saved, Rows, Typed, TableTyped, IdsBounded
  <2>3. QED
    BY <2>1, <2>2
<1>4. NetTyped' /\ CountTyped'
  BY <1>1 DEF Typed, NetTyped, CountTyped, server, count
<1>5. Served' /\ PostsAcceptable'
  BY <1>1 DEF IInv, Served, PostsAcceptable, server
<1>6. IdsBounded'
  BY <1>1, <1>3 DEF IdsBounded, server, count
<1>7. QED
  BY <1>2, <1>3, <1>4, <1>5, <1>6

\* A tick that counts a second of work saves it when a minute is full: the row
\* keeps up.
LEMMA WorkIsKept ==
    ASSUME IInv, Ticks, total' = Worked, phase = "work", UNCHANGED screen,
           \/ Worked \div Minute > last_saved /\ SaveLocalSession(Worked)
           \/ ~(Worked \div Minute > last_saved) /\ UNCHANGED saved
    PROVE  Kept'
<1>1. /\ screen = "timer" /\ Typed /\ IdsBounded /\ Kept
      /\ UNCHANGED <<goal, user, server, listed, undisturbed, count>>
  BY DEF Ticks, IInv
<1>2. Worked \in Nat /\ Worked > 0 /\ started > 0
  BY <1>1, Numbers DEF Worked, IdsBounded
<1>3. SUFFICES ASSUME undisturbed PROVE
        /\ user' # None
        /\ last_saved' >= total' \div Minute
        /\ last_saved' > 0 =>
             /\ local_id' \in Rows'
             /\ sessions'[local_id'].session = started'
             /\ sessions'[local_id'].minutes >= last_saved'
  BY <1>1 DEF Kept
<1>4. user # None /\ user' # None /\ started' = started
  BY <1>1, <1>3 DEF Kept, count
<1>5. CASE SaveLocalSession(Worked)
  <2>1. /\ local_id' \in Rows'
        /\ sessions'[local_id'].session = started
        /\ sessions'[local_id'].minutes = Minutes(Worked)
        /\ last_saved' = Minutes(Worked)
    BY <1>1, <1>2, <1>4, <1>5, SavingKeeps DEF IdsBounded
  <2>2. Minutes(Worked) \in Nat /\ Worked \div Minute <= Minutes(Worked)
    BY <1>2, RoundedUp
  <2>3. total' \div Minute = Worked \div Minute /\ Worked \div Minute \in Nat
    BY <1>2, RoundedUp
  <2>4. QED
    BY <1>4, <2>1, <2>2, <2>3
<1>6. CASE ~(Worked \div Minute > last_saved) /\ UNCHANGED saved
  <2>1. last_saved >= total' \div Minute
    BY <1>1, <1>2, <1>6, RoundedUp, Numbers
  <2>2. Rows' = Rows
    BY <1>6 DEF saved, Rows
  <2>3. QED
    BY <1>1, <1>3, <1>4, <1>6, <2>1, <2>2 DEF Kept, saved
<1>7. QED
  BY <1>5, <1>6

\* The clock while it stays in its phase, or goes on to the next.
LEMMA ClockKeeps ==
    ASSUME IInv, Ticks, screen' = "timer", total' = Worked,
           phase' \in {"work", "break"}, cycles' \in Nat,
           remaining' \in 0 .. Work \cup 0 .. Break, TimerRuns'
    PROVE  ClockTyped' /\ Idle' /\ TimerRuns'
<1>1. goal' \in Goal \cup {None}
  BY DEF Ticks, IInv, Typed, ClockTyped
<1>2. total' \in Nat
  BY Numbers DEF Worked, IInv
<1>3. QED
  BY <1>1, <1>2 DEF ClockTyped, Idle

LEMMA TickInPhaseKeeps == IInv /\ TickInPhase => IInv'
<1> SUFFICES ASSUME IInv, TickInPhase PROVE IInv'
  OBVIOUS
<1>1. /\ Ticks /\ screen = "timer" /\ screen' = "timer"
      /\ remaining > 1 /\ remaining' = remaining - 1 /\ total' = Worked
      /\ \/ phase = "work" /\ Worked \div Minute > last_saved /\ SaveLocalSession(Worked)
         \/ ~(phase = "work" /\ Worked \div Minute > last_saved) /\ UNCHANGED saved
      /\ UNCHANGED <<screen, phase, cycles, posts, goal>>
  BY DEF TickInPhase, Ticks
<1>2. /\ started > 0 /\ TableTyped' /\ NetTyped' /\ CountTyped'
      /\ Served' /\ PostsAcceptable' /\ IdsBounded'
  BY <1>1, TicksFrame
<1>3. Typed /\ TimerRuns /\ Kept
  BY DEF IInv
<1>4. remaining' \in 0 .. Work \cup 0 .. Break /\ remaining' > 0
  BY <1>1, <1>3, Lengths DEF Typed, ClockTyped
<1>5. TimerRuns'
  <2>1. CASE phase = "work"
    <3>1. total' = total + 1 /\ total' + remaining' = total + remaining
      BY <1>1, <1>3, <2>1, Numbers DEF Worked
    <3>2. goal # None => total' < goal * Minute
      <4> DEFINE gm == goal * Minute
      <4>1. goal # None => gm \in Nat /\ total + remaining <= gm
        BY <1>1, <2>1, ClockFacts
      <4> HIDE DEF gm
      <4>2. goal # None => total + 1 < gm
        BY <4>1, <1>1, <1>3, Numbers
      <4>3. QED
        BY <3>1, <4>2 DEF gm
    <3>3. total' + remaining' = cycles' * Work + NextWorkPhaseSeconds(goal', cycles' * Work)
      BY <1>1, <1>3, <2>1, <3>1 DEF TimerRuns
    <3>4. QED
      BY <1>1, <1>4, <2>1, <3>2, <3>3 DEF TimerRuns
  <2>2. CASE phase # "work"
    <3>1. total' = total
      BY <1>1, <2>2 DEF Worked
    <3>2. QED
      BY <1>1, <1>3, <1>4, <2>2, <3>1 DEF TimerRuns
  <2>3. QED
    BY <2>1, <2>2
<1>6. ClockTyped' /\ Idle'
  BY <1>1, <1>3, <1>4, <1>5, ClockKeeps DEF Typed, ClockTyped
<1>7. Kept'
  <2>1. CASE phase = "work"
    BY <1>1, <2>1, WorkIsKept
  <2>2. CASE phase # "work"
    <3>1. UNCHANGED saved /\ total' = total
      BY <1>1, <2>2 DEF Worked
    <3>2. Rows' = Rows /\ UNCHANGED <<user, started, undisturbed>>
      BY <1>1, <3>1 DEF saved, Rows, Ticks, count
    <3>3. QED
      BY <1>1, <1>3, <3>1, <3>2 DEF Kept, saved
  <2>3. QED
    BY <2>1, <2>2
<1>8. QED
  BY <1>2, <1>5, <1>6, <1>7 DEF IInv, Typed

\* The end of a work phase: either all of Work was worked, or the goal is
\* reached and the session ends.
LEMMA TickEndsWorkKeeps == IInv /\ TickEndsWork => IInv'
<1> SUFFICES ASSUME IInv, TickEndsWork PROVE IInv'
  OBVIOUS
<1>1. /\ Ticks /\ screen = "timer" /\ remaining = 1 /\ phase = "work"
      /\ phase' = "break" /\ remaining' = Break
      /\ UNCHANGED <<goal, user, server, listed, undisturbed, count>>
  BY DEF TickEndsWork, Ticks
<1>2. Typed /\ TimerRuns
  BY DEF IInv
<1>3. Worked = total + 1 /\ total + remaining = Worked /\ Worked \in Nat
  BY <1>1, <1>2, Numbers DEF Worked
<1>4. remaining' \in 0 .. Work \cup 0 .. Break /\ remaining' > 0
  BY <1>1, Lengths
<1>5. CASE GoalReached(Worked) /\ StopTimer(Worked, cycles + 1)
  <2>1. goal # None => Worked <= goal * Minute
    BY <1>1, <1>3, ClockFacts
  <2>2. cycles + 1 \in Nat
    BY <1>2, Numbers
  <2>3. QED
    BY <1>1, <1>3, <1>4, <1>5, <2>1, <2>2, StoppingKeeps
<1>6. CASE /\ ~GoalReached(Worked)
           /\ total' = Worked
           /\ cycles' = cycles + 1
           /\ \/ Worked \div Minute > last_saved /\ SaveLocalSession(Worked)
              \/ ~(Worked \div Minute > last_saved) /\ UNCHANGED saved
           /\ UNCHANGED <<screen, posts>>
  <2>1. /\ TableTyped' /\ NetTyped' /\ CountTyped'
        /\ Served' /\ PostsAcceptable' /\ IdsBounded'
    BY <1>1, <1>6, TicksFrame
  <2>2. Kept'
    BY <1>1, <1>6, WorkIsKept
  <2>3. goal # None => Worked < goal * Minute
    <3>1. goal # None => ~(Worked >= goal * Minute) /\ goal * Minute \in Nat
      BY <1>1, <1>6, ClockFacts DEF GoalReached
    <3> DEFINE gm == goal * Minute
    <3>2. goal # None => ~(Worked >= gm) /\ gm \in Nat
      BY <3>1
    <3> HIDE DEF gm
    <3>3. goal # None => Worked < gm
      BY <1>3, <3>2
    <3>4. QED
      BY <3>3 DEF gm
  <2>4. Worked = (cycles + 1) * Work
    <3> DEFINE gm == goal * Minute
               cw == cycles * Work
               cw1 == (cycles + 1) * Work
    <3>1. /\ goal # None => gm \in Nat /\ Worked < gm
          /\ cw1 = cw + Work
          /\ goal = None => Worked = cw + Work
          /\ goal # None => Worked = gm \/ Worked = cw + Work
      BY <1>1, <1>3, <2>3, ClockFacts
    <3> HIDE DEF gm, cw, cw1
    <3>2. Worked = cw1
      BY <3>1, <1>3
    <3>3. QED
      BY <3>2 DEF cw1
  <2>5. TimerRuns'
    BY <1>1, <1>4, <1>6, <2>3, <2>4 DEF TimerRuns
  <2>6. ClockTyped' /\ Idle'
    BY <1>1, <1>2, <1>4, <1>6, <2>5, Numbers, ClockKeeps
  <2>7. QED
    BY <2>1, <2>2, <2>5, <2>6 DEF IInv, Typed
<1>7. QED
  BY <1>5, <1>6 DEF TickEndsWork

\* The end of a break: the goal is not reached, so there is time to work.
LEMMA TickEndsBreakKeeps == IInv /\ TickEndsBreak => IInv'
<1> SUFFICES ASSUME IInv, TickEndsBreak PROVE IInv'
  OBVIOUS
<1>1. /\ Ticks /\ screen = "timer" /\ screen' = "timer"
      /\ remaining = 1 /\ phase = "break" /\ phase' = "work"
      /\ remaining' = NextWorkPhaseSeconds(goal, total)
      /\ UNCHANGED <<screen, total, cycles, saved, posts, goal>>
  BY DEF TickEndsBreak, Ticks
<1>2. Typed /\ TimerRuns /\ Kept
  BY DEF IInv
<1>3. /\ TableTyped' /\ NetTyped' /\ CountTyped'
      /\ Served' /\ PostsAcceptable' /\ IdsBounded'
  BY <1>1, TicksFrame
<1>4. remaining' \in 0 .. Work /\ remaining' > 0
  BY <1>1, <1>2, Numbers, PhaseLength DEF Typed, ClockTyped, TimerRuns
<1>5. TimerRuns'
  <2>1. total = cycles * Work
    BY <1>1, <1>2 DEF TimerRuns
  <2>2. total' + remaining' = cycles' * Work + NextWorkPhaseSeconds(goal', cycles' * Work)
    BY <1>1, <2>1
  <2>3. QED
    BY <1>1, <1>2, <1>4, <2>2 DEF TimerRuns
<1>6. total' = Worked
  BY <1>1 DEF Worked
<1>7. ClockTyped' /\ Idle'
  BY <1>1, <1>2, <1>4, <1>5, <1>6, Numbers, ClockKeeps
<1>8. Rows' = Rows /\ UNCHANGED <<user, started, undisturbed>>
  BY <1>1 DEF saved, Rows, Ticks, count
<1>9. Kept'
  BY <1>1, <1>2, <1>8 DEF Kept, saved
<1>10. QED
  BY <1>3, <1>5, <1>7, <1>9 DEF IInv, Typed

LEMMA StopClickedKeeps == IInv /\ StopClicked => IInv'
<1> SUFFICES ASSUME IInv, StopClicked PROVE IInv'
  OBVIOUS
<1>1. /\ screen = "timer" /\ StopTimer(total, cycles)
      /\ UNCHANGED <<goal, phase, remaining, user, server, listed, undisturbed, count>>
  BY DEF StopClicked
<1>2. Typed
  BY DEF IInv
<1>3. goal # None => total <= goal * Minute
  <2> DEFINE gm == goal * Minute
  <2>1. goal # None => gm \in Nat /\ total < gm
    BY <1>1, ClockFacts
  <2> HIDE DEF gm
  <2>2. goal # None => total <= gm
    BY <2>1, <1>2, Numbers
  <2>3. QED
    BY <2>2 DEF gm
<1>4. phase' \in {"work", "break"} /\ remaining' \in 0 .. Work \cup 0 .. Break
  BY <1>1, <1>2 DEF Typed, ClockTyped
<1>5. QED
  BY <1>1, <1>2, <1>3, <1>4, Numbers, StoppingKeeps

-----------------------------------------------------------------------------
(* Answers, the account and the backend                                    *)

\* A step that leaves the clock alone and keeps no promise about the row.
LEMMA ClockStays ==
    ASSUME IInv, UNCHANGED clock
    PROVE  ClockTyped' /\ Idle' /\ TimerRuns'
  BY DEF IInv, Typed, ClockTyped, Idle, TimerRuns, clock

\* What is in flight after some POSTs are taken out.
LEMMA FewerPosts ==
    ASSUME IInv, NEW p \in posts, posts' = posts \ {p}, UNCHANGED server
    PROVE  posts' \subseteq Post /\ Served' /\ PostsAcceptable'
  BY DEF IInv, Typed, NetTyped, Served, PostsAcceptable, server

\* ... and after one is replaced by one about the same work.
LEMMA SameBody ==
    ASSUME IInv, NEW p \in posts, NEW q \in Post,
           q.body.minutes = p.body.minutes, q.body.goal = p.body.goal,
           q.code = "ok" => q.id \in ServerId /\ q.id <= last',
           last' \in Nat, last <= last', posts' = (posts \ {p}) \cup {q}
    PROVE  posts' \subseteq Post /\ Served' /\ PostsAcceptable'
<1>1. posts' \subseteq Post
  BY DEF IInv, Typed, NetTyped
<1>2. ASSUME NEW r \in posts', r.code = "ok" PROVE r.id \in ServerId /\ r.id <= last'
  <2>1. CASE r = q
    BY <1>2, <2>1
  <2>2. CASE r \in posts
    <3>1. r.id \in ServerId /\ r.id <= last
      BY <1>2, <2>2 DEF IInv, Served
    <3>2. last \in Nat
      BY Numbers DEF IInv
    <3>3. QED
      BY <3>1, <3>2 DEF ServerId
  <2>3. QED
    BY <2>1, <2>2
<1>3. PostsAcceptable'
  BY DEF IInv, PostsAcceptable
<1>4. QED
  BY <1>1, <1>2, <1>3 DEF Served

LEMMA DeliverPostKeeps ==
    ASSUME IInv, NEW p \in posts, DeliverPost(p)
    PROVE  IInv'
<1>1. /\ p.code = "ok" /\ posts' = posts \ {p} /\ undisturbed' = FALSE
      /\ local_id' = p.id /\ last_saved' = p.body.minutes
      /\ UNCHANGED <<clock, user, server, listed, count>>
  BY DEF DeliverPost, SaveLocalSessionFromServer
<1> DEFINE row == [user |-> p.body.user, minutes |-> p.body.minutes,
                   session |-> p.body.session, sync_status |-> "synced"]
<1>2. sessions' = [i \in Id |-> IF i = p.id THEN row
                                ELSE IF i = local_id THEN None ELSE sessions[i]]
  BY DEF DeliverPost, SaveLocalSessionFromServer
<1>3. Typed /\ IdsBounded
  BY DEF IInv
<1>4. p \in Post /\ p.body \in Logged /\ p.id \in ServerId /\ p.id <= last
  BY <1>1, <1>3 DEF Typed, NetTyped, Post, IInv, Served
<1>5. row \in Row /\ p.body.minutes \in Nat
  BY <1>4 DEF Logged, Row
<1> HIDE DEF row
<1>6. p.id \in Id /\ p.id \in Nat /\ p.id > 0 /\ p.id <= last + started
  BY <1>3, <1>4, Numbers DEF ServerId, Id
<1>7. TableTyped'
  BY <1>1, <1>2, <1>3, <1>5, <1>6 DEF Typed, TableTyped
<1>8. NetTyped' /\ CountTyped' /\ Served' /\ PostsAcceptable'
  BY <1>1, <1>3, FewerPosts DEF Typed, NetTyped, CountTyped, server, count
<1>9. Rows' \subseteq Rows \cup {p.id}
  BY <1>2 DEF Rows
<1>10. IdsBounded'
  <2>1. \A i \in Rows' : i <= last' + started'
    BY <1>1, <1>3, <1>6, <1>9 DEF IdsBounded, server, count
  <2>2. local_id' # 0 /\ local_id' <= last' + started'
    BY <1>1, <1>6 DEF server, count
  <2>3. UNCHANGED <<logged, last, listed, started, screen>>
    BY <1>1 DEF server, count, clock
  <2>4. QED
    BY <1>3, <2>1, <2>2, <2>3 DEF IdsBounded
<1>11. Kept' /\ ClockTyped' /\ Idle' /\ TimerRuns'
  BY <1>1, ClockStays DEF Kept
<1>12. QED
  BY <1>7, <1>8, <1>10, <1>11 DEF IInv, Typed

LEMMA DeliverListKeeps == IInv /\ DeliverList => IInv'
<1> SUFFICES ASSUME IInv, DeliverList PROVE IInv'
  OBVIOUS
<1>1. /\ listed # None /\ listed' = None /\ undisturbed' = FALSE
      /\ UNCHANGED <<clock, last_saved, local_id, user, server, posts, count>>
  BY DEF DeliverList
<1> DEFINE row(i) == [user |-> listed[i].user, minutes |-> listed[i].minutes,
                      session |-> listed[i].session, sync_status |-> "synced"]
<1>2. sessions' = [i \in Id |-> IF i \in ServerId /\ listed[i] # None THEN row(i)
                                ELSE sessions[i]]
  BY DEF DeliverList
<1>3. Typed /\ IdsBounded
  BY DEF IInv
<1>4. ASSUME NEW i \in ServerId, listed[i] # None PROVE row(i) \in Row
  <2>1. listed[i] \in Logged
    BY <1>1, <1>3, <1>4 DEF Typed, NetTyped
  <2>2. QED
    BY <2>1 DEF Logged, Row
<1> HIDE DEF row
<1>5. TableTyped'
  BY <1>1, <1>2, <1>3, <1>4 DEF Typed, TableTyped
<1>6. NetTyped' /\ CountTyped' /\ Served' /\ PostsAcceptable'
  BY <1>1, <1>3 DEF Typed, NetTyped, CountTyped, IInv, Served, PostsAcceptable, server, count
<1>7. \A i \in Rows' : i \in Rows \/ (i \in ServerId /\ listed[i] # None)
  BY <1>2 DEF Rows
<1>8. IdsBounded'
  <2>1. \A i \in Rows' : i <= last + started
    <3>1. \A i \in ServerId : listed[i] # None => i <= last
      BY <1>1, <1>3 DEF IdsBounded
    <3>2. \A i \in ServerId : i \in Nat
      BY DEF ServerId
    <3>3. QED
      BY <1>3, <1>7, <3>1, <3>2, Numbers DEF IdsBounded
  <2>2. screen = "timer" /\ local_id = 0 => \A i \in Rows' : i < last + started
    <3>1. \A i \in ServerId : listed[i] # None => i <= last
      BY <1>1, <1>3 DEF IdsBounded
    <3>2. \A i \in ServerId : i \in Nat
      BY DEF ServerId
    <3>3. QED
      BY <1>3, <1>7, <3>1, <3>2, Numbers DEF IdsBounded
  <2>3. UNCHANGED <<logged, last, local_id, started, screen>> /\ listed' = None
    BY <1>1 DEF server, count, clock
  <2>4. QED
    BY <1>3, <2>1, <2>2, <2>3 DEF IdsBounded
<1>9. Kept' /\ ClockTyped' /\ Idle' /\ TimerRuns'
  BY <1>1, ClockStays DEF Kept
<1>10. QED
  BY <1>5, <1>6, <1>8, <1>9 DEF IInv, Typed

\* What a step that leaves the table alone keeps of it.
LEMMA TableStays ==
    ASSUME IInv, UNCHANGED <<clock, saved, user, undisturbed, started>>
    PROVE  TableTyped' /\ Kept' /\ Rows' = Rows
<1>1. Rows' = Rows
  BY DEF Rows, saved
<1>2. UNCHANGED <<screen, total>>
  BY DEF clock
<1>3. TableTyped'
  BY DEF IInv, Typed, TableTyped, saved
<1>4. Kept'
  BY <1>1, <1>2 DEF IInv, Kept, saved
<1>5. QED
  BY <1>1, <1>3, <1>4

LEMMA LosePostKeeps ==
    ASSUME IInv, NEW p \in posts, LosePost(p) \/ ResendPost(p)
    PROVE  IInv'
<1>1. /\ failures < MaxFailures /\ failures' = failures + 1
      /\ UNCHANGED <<clock, saved, user, server, listed, undisturbed, started, logins>>
  BY DEF LosePost, ResendPost, Fails
<1>2. Typed /\ IdsBounded
  BY DEF IInv
<1>3. posts' \subseteq Post /\ Served' /\ PostsAcceptable'
  <2>1. CASE posts' = posts \ {p}
    BY <1>1, <2>1, FewerPosts
  <2> DEFINE q == [p EXCEPT !.body.user = user, !.code = "sent", !.id = None]
  <2>2. CASE user # None /\ posts' = (posts \ {p}) \cup {q}
    <3>1. p \in Post /\ p.body \in Logged /\ user \in User
      BY <1>2, <2>2 DEF Typed, NetTyped, TableTyped, Post
    <3> DEFINE body == [p.body EXCEPT !.user = user]
    <3>2. body \in Logged /\ body.minutes = p.body.minutes /\ body.goal = p.body.goal
      BY <3>1 DEF Logged
    <3>3. q \in Post /\ q.body = body /\ q.code = "sent"
      BY <3>1, <3>2 DEF Post
    <3>4. q.body.minutes = p.body.minutes /\ q.body.goal = p.body.goal
      BY <3>2, <3>3
    <3>5. last' = last /\ last \in Nat
      BY <1>1, <1>2, Numbers DEF server
    <3> HIDE DEF q, body
    <3>6. QED
      BY <2>2, <3>3, <3>4, <3>5, SameBody
  <2>3. QED
    BY <2>1, <2>2 DEF LosePost, ResendPost
<1>4. NetTyped' /\ CountTyped'
  BY <1>1, <1>2, <1>3, Lengths DEF Typed, NetTyped, CountTyped, server
<1>5. TableTyped' /\ Kept' /\ Rows' = Rows
  BY <1>1, TableStays
<1>6. IdsBounded'
  BY <1>1, <1>2, <1>5 DEF IdsBounded, server, saved, clock
<1>7. ClockTyped' /\ Idle' /\ TimerRuns'
  BY <1>1, ClockStays
<1>8. QED
  BY <1>3, <1>4, <1>5, <1>6, <1>7 DEF IInv, Typed

LEMMA ServePostKeeps ==
    ASSUME IInv, NEW p \in posts, ServePost(p)
    PROVE  IInv'
<1>1. /\ last < MaxLogged /\ last' = last + 1
      /\ logged' = [logged EXCEPT ![last'] = p.body]
      /\ posts' = (posts \ {p}) \cup {[p EXCEPT !.code = "ok", !.id = last']}
      /\ UNCHANGED <<clock, saved, user, listed, undisturbed, count>>
  BY DEF ServePost, Insert
<1>2. Typed /\ IdsBounded
  BY DEF IInv
<1>3. last' \in ServerId /\ last' \in Nat /\ last <= last' /\ last \in Nat
  BY <1>1, <1>2, Numbers DEF ServerId
<1>4. p \in Post /\ p.body \in Logged
  BY <1>2 DEF Typed, NetTyped, Post
<1> DEFINE q == [p EXCEPT !.code = "ok", !.id = last']
<1>5. q \in Post /\ q.body = p.body /\ q.id = last'
  BY <1>3, <1>4 DEF Post
<1>6. posts' = (posts \ {p}) \cup {q}
  BY <1>1
<1> HIDE DEF q
<1>7. posts' \subseteq Post /\ Served' /\ PostsAcceptable'
  BY <1>3, <1>5, <1>6, SameBody
<1>8. NetTyped' /\ CountTyped'
  BY <1>1, <1>2, <1>3, <1>4, <1>7, Numbers DEF Typed, NetTyped, CountTyped, count, ServerId
<1>9. TableTyped' /\ Kept' /\ Rows' = Rows
  BY <1>1, TableStays DEF count
<1>10. IdsBounded'
  <2>1. \A i \in ServerId : logged'[i] # None => i <= last'
    BY <1>1, <1>2, <1>3 DEF Typed, NetTyped, IdsBounded, ServerId
  <2>2. listed' # None => \A i \in ServerId : listed'[i] # None => i <= last'
    BY <1>1, <1>2, <1>3 DEF IdsBounded, ServerId
  <2>3. /\ local_id' <= last' + started'
        /\ \A i \in Rows' : i <= last' + started'
        /\ screen' = "timer" /\ local_id' = 0 => \A i \in Rows' : i < last' + started'
    BY <1>1, <1>2, <1>3, <1>9, Numbers DEF IdsBounded, saved, count, clock
  <2>4. QED
    BY <1>1, <1>2, <2>1, <2>2, <2>3 DEF IdsBounded, clock, count
<1>11. ClockTyped' /\ Idle' /\ TimerRuns'
  BY <1>1, ClockStays
<1>12. QED
  BY <1>7, <1>8, <1>9, <1>10, <1>11 DEF IInv, Typed

LEMMA OtherDeviceKeeps ==
    ASSUME IInv, NEW u \in User, OtherDevice(u)
    PROVE  IInv'
<1> DEFINE body == [user |-> u, goal |-> None, minutes |-> 1, cycles |-> 0, session |-> 0]
<1>1. /\ last < MaxLogged /\ last' = last + 1
      /\ logged' = [logged EXCEPT ![last'] = body]
      /\ UNCHANGED <<clock, saved, user, net, undisturbed, count>>
  BY DEF OtherDevice, Insert
<1>2. Typed /\ IdsBounded
  BY DEF IInv
<1>3. last' \in ServerId /\ last' \in Nat /\ last <= last' /\ last \in Nat
  BY <1>1, <1>2, Numbers DEF ServerId
<1>4. body \in Logged
  BY <1>2, Lengths DEF Logged, Session
<1> HIDE DEF body
<1>5. Served' /\ PostsAcceptable'
  BY <1>1, <1>3 DEF IInv, Served, PostsAcceptable, net, ServerId
<1>6. NetTyped' /\ CountTyped'
  BY <1>1, <1>2, <1>3, <1>4, Numbers DEF Typed, NetTyped, CountTyped, count, net, ServerId
<1>7. TableTyped' /\ Kept' /\ Rows' = Rows
  BY <1>1, TableStays DEF count
<1>8. IdsBounded'
  <2>1. \A i \in ServerId : logged'[i] # None => i <= last'
    BY <1>1, <1>2, <1>3 DEF Typed, NetTyped, IdsBounded, ServerId
  <2>2. listed' # None => \A i \in ServerId : listed'[i] # None => i <= last'
    BY <1>1, <1>2, <1>3 DEF IdsBounded, ServerId, net
  <2>3. /\ local_id' <= last' + started'
        /\ \A i \in Rows' : i <= last' + started'
        /\ screen' = "timer" /\ local_id' = 0 => \A i \in Rows' : i < last' + started'
    BY <1>1, <1>2, <1>3, <1>7, Numbers DEF IdsBounded, saved, count, clock
  <2>4. QED
    BY <1>1, <1>2, <2>1, <2>2, <2>3 DEF IdsBounded, clock, count
<1>9. ClockTyped' /\ Idle' /\ TimerRuns'
  BY <1>1, ClockStays
<1>10. QED
  BY <1>5, <1>6, <1>7, <1>8, <1>9 DEF IInv, Typed

\* Logging in or out empties the table.
LEMMA AccountKeeps ==
    ASSUME IInv, Logout \/ \E u \in User : Login(u)
    PROVE  IInv'
<1>1. /\ user' \in User \cup {None} /\ sessions' = [i \in Id |-> None]
      /\ logins' \in 0 .. MaxLogins /\ undisturbed' = FALSE
      /\ UNCHANGED <<clock, last_saved, local_id, server, net, started, failures>>
  <2>1. CASE Logout
    BY <2>1 DEF Logout, count, IInv, Typed, CountTyped
  <2>2. CASE \E u \in User : Login(u)
    BY <2>2, Lengths DEF Login, IInv, Typed, CountTyped
  <2>3. QED
    BY <2>1, <2>2
<1>2. Typed /\ IdsBounded
  BY DEF IInv
<1>3. Rows' = {}
  BY <1>1 DEF Rows
<1>4. Typed'
  BY <1>1, <1>2, ClockStays DEF Typed, TableTyped, NetTyped, CountTyped, server, net
<1>5. Served' /\ PostsAcceptable'
  BY <1>1 DEF IInv, Served, PostsAcceptable, server, net
<1>6. IdsBounded'
  BY <1>1, <1>2, <1>3 DEF IdsBounded, server, net, clock
<1>7. Kept' /\ Idle' /\ TimerRuns'
  BY <1>1, ClockStays DEF Kept
<1>8. QED
  BY <1>4, <1>5, <1>6, <1>7 DEF IInv

LEMMA ServeListKeeps == IInv /\ ServeList => IInv'
<1> SUFFICES ASSUME IInv, ServeList PROVE IInv'
  OBVIOUS
<1>1. /\ listed' = [i \in ServerId |->
                     IF logged[i] # None /\ logged[i].user = user THEN logged[i] ELSE None]
      /\ UNCHANGED <<clock, saved, user, server, posts, undisturbed, count>>
  BY DEF ServeList, FindByUserId
<1>2. Typed /\ IdsBounded
  BY DEF IInv
<1>3. listed' \in [ServerId -> Logged \cup {None}]
  BY <1>1, <1>2 DEF Typed, NetTyped
<1>4. NetTyped' /\ CountTyped' /\ Served' /\ PostsAcceptable'
  BY <1>1, <1>2, <1>3
     DEF Typed, NetTyped, CountTyped, IInv, Served, PostsAcceptable, server, count
<1>5. TableTyped' /\ Kept' /\ Rows' = Rows
  BY <1>1, TableStays DEF count
<1>6. IdsBounded'
  BY <1>1, <1>2, <1>5 DEF IdsBounded, server, saved, clock, count
<1>7. ClockTyped' /\ Idle' /\ TimerRuns'
  BY <1>1, ClockStays
<1>8. QED
  BY <1>4, <1>5, <1>6, <1>7 DEF IInv, Typed

LEMMA StutterKeeps == IInv /\ UNCHANGED vars => IInv'
<1> SUFFICES ASSUME IInv, UNCHANGED vars PROVE IInv'
  OBVIOUS
<1>1. UNCHANGED <<clock, saved, user, server, net, undisturbed, count>>
  BY DEF vars
<1>2. TableTyped' /\ Kept' /\ Rows' = Rows /\ ClockTyped' /\ Idle' /\ TimerRuns'
  BY <1>1, TableStays, ClockStays DEF count
<1>3. NetTyped' /\ CountTyped' /\ Served' /\ PostsAcceptable'
  BY <1>1 DEF IInv, Typed, NetTyped, CountTyped, Served, PostsAcceptable, server, net, count
<1>4. IdsBounded'
  BY <1>1, <1>2 DEF IInv, IdsBounded, server, saved, clock, count, net
<1>5. QED
  BY <1>2, <1>3, <1>4 DEF IInv, Typed

LEMMA NextKeeps == IInv /\ [Next]_vars => IInv'
<1> SUFFICES ASSUME IInv, [Next]_vars PROVE IInv'
  OBVIOUS
<1>1. CASE StartFocusClicked
  BY <1>1, StartFocusKeeps
<1>2. CASE \E g \in Goal \cup {None} : GoalConfirmed(g)
  BY <1>2, GoalConfirmedKeeps
<1>3. CASE TickInPhase
  BY <1>3, TickInPhaseKeeps
<1>4. CASE TickEndsWork
  BY <1>4, TickEndsWorkKeeps
<1>5. CASE TickEndsBreak
  BY <1>5, TickEndsBreakKeeps
<1>6. CASE StopClicked
  BY <1>6, StopClickedKeeps
<1>7. CASE \E p \in posts : DeliverPost(p) \/ LosePost(p) \/ ResendPost(p) \/ ServePost(p)
  BY <1>7, DeliverPostKeeps, LosePostKeeps, ServePostKeeps
<1>8. CASE DeliverList
  BY <1>8, DeliverListKeeps
<1>9. CASE \E u \in User : Login(u) \/ OtherDevice(u)
  BY <1>9, AccountKeeps, OtherDeviceKeeps
<1>10. CASE Logout
  BY <1>10, AccountKeeps
<1>11. CASE ServeList
  BY <1>11, ServeListKeeps
<1>12. CASE UNCHANGED vars
  BY <1>12, StutterKeeps
<1>13. QED
  BY <1>1, <1>2, <1>3, <1>4, <1>5, <1>6, <1>7, <1>8, <1>9, <1>10, <1>11, <1>12 DEF Next

-----------------------------------------------------------------------------
(* Theorems                                                                *)

\* The inductive invariant holds in every reachable state.
LEMMA Invariance == Spec => []IInv
<1>1. Init => IInv
  BY InitIInv
<1>2. IInv /\ [Next]_vars => IInv'
  BY NextKeeps
<1>3. QED
  BY <1>1, <1>2, PTL DEF Spec

\* Every variable of the screen, the local table, the requests and the server's
\* table keeps its type: no phase that pomodoro_screen.cpp's startTimer and
\* onTimerTick set is longer than Work or Break, and no row has an id outside
\* the ids of the server and of the sessions started here.
THEOREM TypeCorrect == Spec => []TypeOK
<1>1. IInv => TypeOK
  BY TypeSplit DEF IInv
<1>2. QED
  BY <1>1, Invariance, PTL

\* For all lengths of phases and all goals: onTimerTick never finds a running
\* timer without time left, no goal is overrun, and the cycles account for the
\* work (docs/API.md:199).
THEOREM TimerNeverStops == Spec => []TimerRuns
<1>1. IInv => TimerRuns
  BY DEF IInv
<1>2. QED
  BY <1>1, Invariance, PTL

\* saveSession never posts what the checks of pomodoro/v1 handleCreate refuse,
\* nor more minutes than the goal, although it rounds up.
THEOREM NoPostIsRefused == Spec => []PostsAcceptable
<1>1. IInv => PostsAcceptable
  BY DEF IInv
<1>2. QED
  BY <1>1, Invariance, PTL

\* onTimerTick and saveLocalSession: the row of the session that runs holds every
\* full minute of its work, whatever the lengths of the phases, as long as no
\* answer, list or login has touched the table.
THEOREM CrashLosesLittle == Spec => []MinutesKept
<1>1. IInv => MinutesKept
  <2> SUFFICES ASSUME IInv, screen = "timer", undisturbed, total >= Minute
               PROVE  \E i \in Rows : /\ sessions[i].session = started
                                      /\ sessions[i].minutes >= total \div Minute
    BY DEF MinutesKept
  <2>1. /\ last_saved >= total \div Minute
        /\ last_saved > 0 =>
             /\ local_id \in Rows
             /\ sessions[local_id].session = started
             /\ sessions[local_id].minutes >= last_saved
    BY DEF IInv, Kept
  <2>2. total \in Nat /\ last_saved \in Nat /\ Minute \in Nat /\ Minute > 0
    BY Numbers, Lengths DEF IInv
  <2> DEFINE q == total \div Minute
  <2>3. q \in Nat /\ total < q * Minute + Minute
    BY <2>2, Division
  <2>4. q <= last_saved
    BY <2>1, <2>2, <2>3
  <2>5. q > 0
    <3> HIDE DEF q
    <3>1. q = 0 => q * Minute = 0
      BY <2>2
    <3>2. QED
      BY <2>2, <2>3, <3>1
  <2>6. sessions[local_id].minutes \in Nat /\ local_id \in Rows
        /\ sessions[local_id].session = started /\ sessions[local_id].minutes >= last_saved
    <3>1. local_id \in Rows
      BY <2>1, <2>2, <2>3, <2>4, <2>5
    <3>2. sessions[local_id] \in Row
      BY <3>1 DEF IInv, Typed, TableTyped, Rows
    <3>3. QED
      BY <2>1, <2>2, <2>3, <2>4, <2>5, <3>1, <3>2 DEF Row
  <2>7. sessions[local_id].minutes >= q
    BY <2>2, <2>3, <2>4, <2>6
  <2>8. QED
    BY <2>6, <2>7
<1>2. QED
  BY <1>1, Invariance, PTL

=============================================================================
