--------------------------- MODULE ConnectionPool ---------------------------
(***************************************************************************)
(* The backend's pool of PostgreSQL connections                            *)
(* (backend/src/db/connection_pool.cpp) as the io_context's threads use    *)
(* it: a request handler acquires a Handle, runs one transaction, and the  *)
(* Handle's destructor gives the connection back.                          *)
(*                                                                         *)
(* What runs under the mutex m_ is one atomic action.  The steps that do   *)
(* not are separate: opening a connection, which happens with the mutex    *)
(* released, and release's notify_one, which comes after its block.        *)
(***************************************************************************)
EXTENDS Naturals, Sequences, FiniteSets

CONSTANTS
    Thread,   \* the threads that run io_context::run
    MaxSize   \* max_size_

ASSUME ThreadAssumption == IsFiniteSet(Thread)
\* The constructor throws on a pool_size of 0.
ASSUME MaxSizeAssumption == MaxSize \in Nat \ {0}

VARIABLES
    free,           \* free_: the idle connections, oldest first
    total_created,  \* total_created_
    pc,             \* where each thread is in acquire, its handler or release
    conn            \* the state of the connection a thread's Handle owns

vars == <<free, total_created, pc, conn>>

Conn == {"open", "broken"}

\* waiting: inside cv_.wait; awake: woken, not yet back at the top of the
\* loop; releasing: past release's block, before its notify_one.
Place == {"idle", "connecting", "holding", "releasing", "waiting", "awake"}

At(place) == {t \in Thread : pc[t] = place}

-----------------------------------------------------------------------------

\* The constructor has opened the first connection.
Init ==
    /\ free = <<"open">>
    /\ total_created = 1
    /\ pc = [t \in Thread |-> "idle"]
    /\ conn = [t \in Thread |-> "open"]

\* A thread at the top of acquire's loop, on entry or after a wake-up.
InLoop(t) == pc[t] \in {"idle", "awake"}

\* The oldest idle connection is handed out, alive or not: acquire does not
\* ask is_open().
AcquireFree(t) ==
    /\ InLoop(t)
    /\ free # <<>>
    /\ conn' = [conn EXCEPT ![t] = Head(free)]
    /\ free' = Tail(free)
    /\ pc' = [pc EXCEPT ![t] = "holding"]
    /\ UNCHANGED total_created

\* Mutant of AcquireNew: the place is counted once the connection is open.
AcquireNewUncounted(t) ==
    /\ InLoop(t)
    /\ free = <<>>
    /\ total_created < MaxSize
    /\ pc' = [pc EXCEPT ![t] = "connecting"]
    /\ UNCHANGED <<free, conn, total_created>>

\* A place in the pool is taken before the mutex is released to connect.
AcquireNew(t) ==
    /\ InLoop(t)
    /\ free = <<>>
    /\ total_created < MaxSize
    /\ total_created' = total_created + 1
    /\ pc' = [pc EXCEPT ![t] = "connecting"]
    /\ UNCHANGED <<free, conn>>

AcquireWait(t) ==
    /\ InLoop(t)
    /\ free = <<>>
    /\ total_created >= MaxSize
    /\ pc' = [pc EXCEPT ![t] = "waiting"]
    /\ UNCHANGED <<free, total_created, conn>>

\* create_connection returns an open connection within its 30 attempts.
Connected(t) ==
    /\ pc[t] = "connecting"
    /\ pc' = [pc EXCEPT ![t] = "holding"]
    /\ conn' = [conn EXCEPT ![t] = "open"]
    /\ UNCHANGED <<free, total_created>>

\* t goes back to its event loop and cv_.notify_one wakes one waiting thread,
\* if there is one.
NotifyOne(t) ==
    \/ /\ At("waiting") = {}
       /\ pc' = [pc EXCEPT ![t] = "idle"]
    \/ \E w \in At("waiting") : pc' = [pc EXCEPT ![t] = "idle", ![w] = "awake"]

\* Mutant of ConnectFails: the exception leaves acquire without notify_one.
ConnectFailsSilently(t) ==
    /\ pc[t] = "connecting"
    /\ total_created' = total_created - 1
    /\ pc' = [pc EXCEPT ![t] = "idle"]
    /\ UNCHANGED <<free, conn>>

\* create_connection gives up: the place is returned and the exception leaves
\* acquire, all under the mutex.
ConnectFails(t) ==
    /\ pc[t] = "connecting"
    /\ total_created' = total_created - 1
    /\ NotifyOne(t)
    /\ UNCHANGED <<free, conn>>

\* Mutant of Release: the place of a broken connection is not given back.
ReleaseKeepingPlace(t) ==
    /\ pc[t] = "holding"
    /\ free' = IF conn[t] = "open" THEN Append(free, conn[t]) ELSE free
    /\ pc' = [pc EXCEPT ![t] = "releasing"]
    /\ UNCHANGED <<conn, total_created>>

\* The Handle's destructor: an open connection goes back to the idle ones, a
\* broken one gives its place back.
Release(t) ==
    /\ pc[t] = "holding"
    /\ \/ /\ conn[t] = "open"
          /\ free' = Append(free, conn[t])
          /\ UNCHANGED total_created
       \/ /\ conn[t] = "broken"
          /\ total_created' = IF total_created > 0 THEN total_created - 1 ELSE total_created
          /\ UNCHANGED free
    /\ pc' = [pc EXCEPT ![t] = "releasing"]
    /\ UNCHANGED conn

Notify(t) ==
    /\ pc[t] = "releasing"
    /\ NotifyOne(t)
    /\ UNCHANGED <<free, total_created, conn>>

\* A condition variable may wake a thread that nobody notified.
SpuriousWakeup(t) ==
    /\ pc[t] = "waiting"
    /\ pc' = [pc EXCEPT ![t] = "awake"]
    /\ UNCHANGED <<free, total_created, conn>>

\* PostgreSQL closes a connection, idle or in use.
ServerDrops ==
    \/ \E i \in 1 .. Len(free) :
         /\ free[i] = "open"
         /\ free' = [free EXCEPT ![i] = "broken"]
         /\ UNCHANGED <<total_created, pc, conn>>
    \/ \E t \in Thread :
         /\ pc[t] = "holding"
         /\ conn[t] = "open"
         /\ conn' = [conn EXCEPT ![t] = "broken"]
         /\ UNCHANGED <<free, total_created, pc>>

Acquire(t) == AcquireFree(t) \/ AcquireNew(t) \/ AcquireWait(t)

Step(t) ==
    \/ Acquire(t)
    \/ Connected(t)
    \/ ConnectFails(t)
    \/ Release(t)
    \/ Notify(t)
    \/ SpuriousWakeup(t)

Next == (\E t \in Thread : Step(t)) \/ ServerDrops

\* A thread that is awake gets the mutex, connecting ends one way or the
\* other, a handler returns, and release goes on to its notify_one.  No
\* request has to arrive, and nothing is dropped for certain.
Fairness ==
    \A t \in Thread :
        /\ WF_vars(pc[t] = "awake" /\ Acquire(t))
        /\ WF_vars(Connected(t) \/ ConnectFails(t))
        /\ WF_vars(Release(t))
        /\ WF_vars(Notify(t))

SafetySpec == Init /\ [][Next]_vars
Spec == SafetySpec /\ Fairness

-----------------------------------------------------------------------------

\* Every variable keeps to its values; total_created_, a size_t, is never
\* decremented below 0 (acquire's catch block).
TypeOK ==
    /\ free \in Seq(Conn)
    /\ total_created \in Nat
    /\ pc \in [Thread -> Place]
    /\ conn \in [Thread -> Conn]

Using == At("connecting") \cup At("holding")

\* Every place that is counted is an idle connection, one in use or one being
\* opened, and no more are counted than the pool may have: none leaks when a
\* connection breaks or cannot be opened (total_created_ in acquire, release).
PlacesAccounted ==
    /\ total_created = Len(free) + Cardinality(Using)
    /\ total_created <= MaxSize

\* What a thread could take at once: idle connections and uncounted places.
Available == Len(free) + (MaxSize - total_created)

Alert == At("awake") \cup At("releasing")

\* No wake-up is lost: while a thread sleeps in cv_.wait, there are at least as
\* many threads woken or about to notify as there are places to be had.
NoLostWakeup ==
    At("waiting") # {} =>
        Available <= Cardinality(Alert)

\* A thread that sleeps in cv_.wait never sleeps alone: some other thread has a
\* place it will give back, or is on its way to take or to notify.
SleeperHasCompany ==
    At("waiting") # {} => Using \cup Alert # {}

\* A place to be had does not stay unused while threads sleep in cv_.wait.
PlacesAreUsed ==
    Available > 0 /\ At("waiting") # {} ~> Available = 0 \/ At("waiting") = {}

\* The pool, seen from its callers, keeps to its limit.
Limit == INSTANCE ConnectionLimit WITH Limit <- MaxSize, using <- Using
ImplementsLimit == Limit!Spec

=============================================================================
