------------------------ MODULE ConnectionPool_proof ------------------------
(***************************************************************************)
(* Proofs about ConnectionPool, for any finite set of threads and any pool *)
(* size: the books of the pool always balance, no wake-up is lost, and the *)
(* pool implements ConnectionLimit.                                        *)
(***************************************************************************)
EXTENDS ConnectionPool, FiniteSetTheorems, TLAPS

-----------------------------------------------------------------------------
(* Counting                                                                *)

\* Every set of threads is finite, so its size is a number.
LEMMA ThreadSetsAreFinite ==
    ASSUME NEW S \in SUBSET Thread
    PROVE  IsFiniteSet(S) /\ Cardinality(S) \in Nat
BY ThreadAssumption, FS_Subset, FS_CardinalityType

\* A set of threads grows by one with a thread that is not in it.
LEMMA AddThread ==
    ASSUME NEW S \in SUBSET Thread, NEW t \in Thread, t \notin S
    PROVE  Cardinality(S \cup {t}) = Cardinality(S) + 1
BY ThreadSetsAreFinite, FS_AddElement

\* A set of threads shrinks by one without a thread that is in it.
LEMMA RemoveThread ==
    ASSUME NEW S \in SUBSET Thread, NEW t \in Thread, t \in S
    PROVE  Cardinality(S \ {t}) = Cardinality(S) - 1
BY ThreadSetsAreFinite, FS_RemoveElement

\* It shrinks by at most one without a thread that may be in it.
LEMMA DropThread ==
    ASSUME NEW S \in SUBSET Thread, NEW t \in Thread
    PROVE  Cardinality(S \ {t}) >= Cardinality(S) - 1
<1>1. CASE t \in S
  BY <1>1, RemoveThread, ThreadSetsAreFinite
<1>2. CASE t \notin S
  <2>1. S \ {t} = S
    BY <1>2
  <2>2. QED
    BY <2>1, ThreadSetsAreFinite
<1>3. QED
  BY <1>1, <1>2

LEMMA PlacesAreThreads ==
    /\ Using \in SUBSET Thread /\ Alert \in SUBSET Thread
    /\ Cardinality(Using) \in Nat /\ Cardinality(Alert) \in Nat
<1>1. Using \in SUBSET Thread /\ Alert \in SUBSET Thread
  BY DEF Using, Alert, At
<1>2. QED
  BY <1>1, ThreadSetsAreFinite

-----------------------------------------------------------------------------
(* Type correctness                                                        *)

\* The counter needs the balance of the books to stay a natural number:
\* ConnectFails subtracts without looking.
IInv == TypeOK /\ PlacesAccounted /\ NoLostWakeup

LEMMA InitIInv == Init => IInv
<1> SUFFICES ASSUME Init PROVE IInv
  OBVIOUS
<1>1. TypeOK
  BY DEF Init, TypeOK, Conn, Place
<1>2. Using = {} /\ At("waiting") = {}
  BY DEF Init, Using, At
<1>3. PlacesAccounted
  BY <1>2, FS_EmptySet, MaxSizeAssumption DEF Init, PlacesAccounted
<1>4. QED
  BY <1>1, <1>2, <1>3 DEF IInv, NoLostWakeup

\* A step of one thread that notifies: either nobody sleeps, or one sleeper is
\* now alert.
LEMMA NotifyOneEffect ==
    ASSUME TypeOK, NEW t \in Thread, NotifyOne(t),
           pc[t] \in {"connecting", "releasing"}
    PROVE  /\ pc' \in [Thread -> Place]
           /\ Using' = Using \ {t}
           /\ \/ At("waiting")' = {}
              \/ \E w \in At("waiting") :
                   /\ w \notin Alert /\ w # t
                   /\ Alert' = (Alert \ {t}) \cup {w}
<1>1. CASE At("waiting") = {} /\ pc' = [pc EXCEPT ![t] = "idle"]
  BY <1>1 DEF TypeOK, Place, Using, At
<1>2. ASSUME NEW w \in At("waiting"), pc' = [pc EXCEPT ![t] = "idle", ![w] = "awake"]
      PROVE  /\ pc' \in [Thread -> Place]
             /\ Using' = Using \ {t}
             /\ w \notin Alert /\ w # t
             /\ Alert' = (Alert \ {t}) \cup {w}
  BY <1>2 DEF TypeOK, Place, Using, Alert, At
<1>3. QED
  BY <1>1, <1>2 DEF NotifyOne

LEMMA StepIInv == IInv /\ [Next]_vars => IInv'
<1> SUFFICES ASSUME IInv, [Next]_vars PROVE IInv'
  OBVIOUS
<1> USE DEF IInv
<1>0. /\ TypeOK /\ PlacesAccounted /\ NoLostWakeup
      /\ MaxSize \in Nat /\ Len(free) \in Nat /\ total_created \in Nat
      /\ Available \in Nat
  BY MaxSizeAssumption, PlacesAreThreads DEF TypeOK, Available, PlacesAccounted
<1>1. ASSUME NEW t \in Thread, AcquireFree(t) PROVE IInv'
  <2>1. TypeOK' /\ Len(free') = Len(free) - 1
    BY <1>1 DEF TypeOK, AcquireFree, Conn, Place
  <2>2. /\ t \notin Using /\ Using' = Using \cup {t}
        /\ Alert' = Alert \ {t} /\ At("waiting")' = At("waiting")
    BY <1>1 DEF AcquireFree, InLoop, TypeOK, Place, Using, Alert, At
  <2>3. PlacesAccounted'
    BY <1>0, <1>1, <2>1, <2>2, AddThread, PlacesAreThreads
       DEF PlacesAccounted, AcquireFree
  <2>4. Available' = Available - 1
    BY <1>0, <1>1, <2>1 DEF Available, AcquireFree
  <2>5. Cardinality(Alert') \in Nat /\ Cardinality(Alert') >= Cardinality(Alert) - 1
    <3>1. Alert \ {t} \in SUBSET Thread
      BY PlacesAreThreads
    <3>2. QED
      BY <2>2, <3>1, DropThread, ThreadSetsAreFinite, PlacesAreThreads
  <2>6. NoLostWakeup'
    BY <1>0, <2>2, <2>4, <2>5, PlacesAreThreads DEF NoLostWakeup
  <2>7. QED
    BY <2>1, <2>3, <2>6
<1>2. ASSUME NEW t \in Thread, AcquireNew(t) PROVE IInv'
  <2>1. TypeOK'
    BY <1>2 DEF TypeOK, AcquireNew, Place
  <2>2. /\ t \notin Using /\ Using' = Using \cup {t}
        /\ Alert' = Alert \ {t} /\ At("waiting")' = At("waiting")
    BY <1>2 DEF AcquireNew, InLoop, TypeOK, Place, Using, Alert, At
  <2>3. PlacesAccounted'
    BY <1>0, <1>2, <2>2, AddThread, PlacesAreThreads
       DEF PlacesAccounted, AcquireNew
  <2>4. Available' = Available - 1
    BY <1>0, <1>2 DEF Available, AcquireNew
  <2>5. Cardinality(Alert') \in Nat /\ Cardinality(Alert') >= Cardinality(Alert) - 1
    <3>1. Alert \ {t} \in SUBSET Thread
      BY PlacesAreThreads
    <3>2. QED
      BY <2>2, <3>1, DropThread, ThreadSetsAreFinite, PlacesAreThreads
  <2>6. NoLostWakeup'
    BY <1>0, <2>2, <2>4, <2>5, PlacesAreThreads DEF NoLostWakeup
  <2>7. QED
    BY <2>1, <2>3, <2>6
<1>3. ASSUME NEW t \in Thread, AcquireWait(t) PROVE IInv'
  <2>1. TypeOK'
    BY <1>3 DEF TypeOK, AcquireWait, Place
  <2>2. Using' = Using
    BY <1>3 DEF AcquireWait, InLoop, TypeOK, Place, Using, At
  <2>3. PlacesAccounted'
    BY <1>3, <2>2 DEF PlacesAccounted, AcquireWait
  <2>4. Available' = 0
    BY <1>0, <1>3 DEF Available, AcquireWait, PlacesAccounted
  <2>5. Cardinality(Alert') \in Nat
    <3>1. Alert' \in SUBSET Thread
      BY DEF Alert, At
    <3>2. QED
      BY <3>1, ThreadSetsAreFinite
  <2>6. NoLostWakeup'
    BY <2>4, <2>5 DEF NoLostWakeup
  <2>7. QED
    BY <2>1, <2>3, <2>6
<1>4. ASSUME NEW t \in Thread, Connected(t) PROVE IInv'
  <2>1. TypeOK'
    BY <1>4 DEF TypeOK, Connected, Place, Conn
  <2>2. Using' = Using /\ Alert' = Alert /\ At("waiting")' = At("waiting")
    BY <1>4 DEF Connected, TypeOK, Place, Using, Alert, At
  <2>3. PlacesAccounted' /\ NoLostWakeup'
    BY <1>0, <1>4, <2>2 DEF PlacesAccounted, NoLostWakeup, Available, Connected
  <2>4. QED
    BY <2>1, <2>3
<1>5. ASSUME NEW t \in Thread, ConnectFails(t) PROVE IInv'
  <2>1. t \in Using /\ t \notin Alert
    BY <1>5 DEF ConnectFails, Using, Alert, At
  <2>2. /\ pc' \in [Thread -> Place]
        /\ Using' = Using \ {t}
        /\ \/ At("waiting")' = {}
           \/ \E w \in At("waiting") :
                /\ w \notin Alert /\ w # t
                /\ Alert' = (Alert \ {t}) \cup {w}
    BY <1>0, <1>5, NotifyOneEffect DEF ConnectFails
  <2>3. Cardinality(Using') = Cardinality(Using) - 1 /\ Cardinality(Using') \in Nat
    <3>1. Using \ {t} \in SUBSET Thread
      BY PlacesAreThreads
    <3>2. QED
      BY <2>1, <2>2, <3>1, RemoveThread, ThreadSetsAreFinite, PlacesAreThreads
  <2>4. TypeOK' /\ PlacesAccounted'
    <3>1. free' = free /\ conn' = conn /\ total_created' = total_created - 1
      BY <1>5 DEF ConnectFails
    <3>2. total_created' \in Nat /\ PlacesAccounted'
      BY <1>0, <2>3, <3>1, PlacesAreThreads DEF PlacesAccounted
    <3>3. QED
      BY <1>0, <2>2, <3>1, <3>2 DEF TypeOK
  <2>5. Available' = Available + 1
    BY <1>0, <1>5 DEF Available, ConnectFails
  <2>6. ASSUME NEW w \in At("waiting"), w \notin Alert,
               Alert' = (Alert \ {t}) \cup {w}
        PROVE  NoLostWakeup'
    <3>1. Alert' = Alert \cup {w} /\ w \in Thread
      BY <2>1, <2>6 DEF At
    <3>2. Cardinality(Alert') = Cardinality(Alert) + 1
      BY <3>1, <2>6, AddThread, PlacesAreThreads
    <3>3. QED
      BY <1>0, <2>5, <2>6, <3>2, PlacesAreThreads DEF NoLostWakeup
  <2>7. NoLostWakeup'
    BY <2>2, <2>6 DEF NoLostWakeup
  <2>8. QED
    BY <2>4, <2>7
<1>6. ASSUME NEW t \in Thread, Release(t) PROVE IInv'
  <2>1. t \in Using /\ t \notin Alert
    BY <1>6 DEF Release, Using, Alert, At
  <2>2. /\ pc' \in [Thread -> Place]
        /\ Using' = Using \ {t} /\ Alert' = Alert \cup {t}
        /\ At("waiting")' = At("waiting")
    BY <1>6 DEF Release, TypeOK, Place, Using, Alert, At
  <2>3. /\ Cardinality(Using') = Cardinality(Using) - 1
        /\ Cardinality(Alert') = Cardinality(Alert) + 1
        /\ Cardinality(Using') \in Nat
    BY <2>1, <2>2, AddThread, RemoveThread, ThreadSetsAreFinite, PlacesAreThreads
  <2>4. total_created > 0
    BY <1>0, <2>3, PlacesAreThreads DEF PlacesAccounted
  <2>5. /\ TypeOK'
        /\ \/ Len(free') = Len(free) + 1 /\ total_created' = total_created
           \/ Len(free') = Len(free) /\ total_created' = total_created - 1
    BY <1>6, <2>2, <2>4 DEF TypeOK, Release, Conn
  <2>6. PlacesAccounted' /\ Available' = Available + 1
    <3>1. PlacesAccounted'
      BY <1>0, <2>3, <2>5, PlacesAreThreads DEF PlacesAccounted
    <3>2. Available' = Available + 1
      BY <1>0, <2>5 DEF Available
    <3>3. QED
      BY <3>1, <3>2
  <2>7. NoLostWakeup'
    BY <1>0, <2>2, <2>3, <2>6, PlacesAreThreads DEF NoLostWakeup
  <2>8. QED
    BY <2>5, <2>6, <2>7
<1>7. ASSUME NEW t \in Thread, Notify(t) PROVE IInv'
  <2>1. t \notin Using /\ t \in Alert
    BY <1>7 DEF Notify, Using, Alert, At
  <2>2. /\ pc' \in [Thread -> Place]
        /\ Using' = Using \ {t}
        /\ \/ At("waiting")' = {}
           \/ \E w \in At("waiting") :
                /\ w \notin Alert /\ w # t
                /\ Alert' = (Alert \ {t}) \cup {w}
    BY <1>0, <1>7, NotifyOneEffect DEF Notify
  <2>3. TypeOK' /\ PlacesAccounted' /\ Available' = Available
    <3>1. Using' = Using
      BY <2>1, <2>2
    <3>2. QED
      BY <1>7, <2>2, <3>1 DEF TypeOK, PlacesAccounted, Available, Notify
  <2>4. ASSUME NEW w \in At("waiting"), w \notin Alert,
               Alert' = (Alert \ {t}) \cup {w}
        PROVE  NoLostWakeup'
    <3>1. Cardinality(Alert \ {t}) = Cardinality(Alert) - 1
      BY <2>1, RemoveThread, PlacesAreThreads
    <3>2. w \in Thread /\ w \notin Alert \ {t} /\ Alert \ {t} \in SUBSET Thread
      BY <2>4, PlacesAreThreads DEF At
    <3>3. Cardinality(Alert') = Cardinality(Alert)
      BY <2>4, <3>1, <3>2, AddThread, PlacesAreThreads
    <3>4. QED
      BY <1>0, <2>3, <2>4, <3>3 DEF NoLostWakeup
  <2>5. NoLostWakeup'
    BY <2>2, <2>4 DEF NoLostWakeup
  <2>6. QED
    BY <2>3, <2>5
<1>8. ASSUME NEW t \in Thread, SpuriousWakeup(t) PROVE IInv'
  <2>1. TypeOK'
    BY <1>8 DEF TypeOK, SpuriousWakeup, Place
  <2>2. /\ t \in At("waiting") /\ t \notin Alert
        /\ Using' = Using /\ Alert' = Alert \cup {t}
    BY <1>8 DEF SpuriousWakeup, TypeOK, Place, Using, Alert, At
  <2>3. PlacesAccounted' /\ Available' = Available
    BY <1>8, <2>2 DEF PlacesAccounted, Available, SpuriousWakeup
  <2>4. Cardinality(Alert') = Cardinality(Alert) + 1
    BY <2>2, AddThread, PlacesAreThreads
  <2>5. NoLostWakeup'
    BY <1>0, <2>2, <2>3, <2>4, PlacesAreThreads DEF NoLostWakeup
  <2>6. QED
    BY <2>1, <2>3, <2>5
<1>9. ASSUME ServerDrops PROVE IInv'
  <2>1. TypeOK' /\ Len(free') = Len(free) /\ total_created' = total_created /\ pc' = pc
    BY <1>9 DEF TypeOK, ServerDrops, Conn
  <2>2. Using' = Using /\ Alert' = Alert /\ At("waiting")' = At("waiting")
    BY <2>1 DEF Using, Alert, At
  <2>3. QED
    BY <2>1, <2>2 DEF PlacesAccounted, NoLostWakeup, Available
<1>10. CASE UNCHANGED vars
  BY <1>10 DEF vars, TypeOK, PlacesAccounted, NoLostWakeup, Available, Using, Alert, At
<1>11. QED
  BY <1>1, <1>2, <1>3, <1>4, <1>5, <1>6, <1>7, <1>8, <1>9, <1>10
     DEF Next, Step, Acquire

LEMMA Invariance == SafetySpec => []IInv
<1>1. QED
  BY InitIInv, StepIInv, PTL DEF SafetySpec

-----------------------------------------------------------------------------
(* The results                                                             *)

\* The variables of the pool keep their types; total_created_, which
\* ConnectFails decrements unchecked, never wraps below zero.
THEOREM TypeCorrect == SafetySpec => []TypeOK
<1>1. IInv => TypeOK
  BY DEF IInv
<1>2. QED
  BY <1>1, Invariance, PTL

\* The pool's books balance for any number of threads and any size: no place
\* leaks and no more connections exist than max_size_.
THEOREM PoolAccounted == SafetySpec => []PlacesAccounted
<1>1. IInv => PlacesAccounted
  BY DEF IInv
<1>2. QED
  BY <1>1, Invariance, PTL

\* notify_one after the block of release and in the failure branch of acquire
\* is enough: no thread sleeps through a place that became available.
THEOREM WakeupsKept == SafetySpec => []NoLostWakeup
<1>1. IInv => NoLostWakeup
  BY DEF IInv
<1>2. QED
  BY <1>1, Invariance, PTL

\* The threads are never all asleep in cv_.wait.
THEOREM NeverAllAsleep == SafetySpec => []SleeperHasCompany
<1>1. IInv => SleeperHasCompany
  <2> SUFFICES ASSUME IInv, At("waiting") # {}, Using = {}, Alert = {}
               PROVE  FALSE
    BY DEF SleeperHasCompany
  <2>1. Cardinality(Using) = 0 /\ Cardinality(Alert) = 0
    BY FS_EmptySet
  <2>2. Available <= 0
    BY <2>1 DEF IInv, NoLostWakeup
  <2>3. QED
    BY <2>1, <2>2, MaxSizeAssumption DEF IInv, TypeOK, PlacesAccounted, Available
<1>2. QED
  BY <1>1, Invariance, PTL

\* The pool implements its abstract limit: acquire gives out a connection, or
\* starts to open one, only below max_size_.
THEOREM PoolImplementsLimit == SafetySpec => ImplementsLimit
<1>1. Init => Limit!Init
  BY DEF Init, Limit!Init, Using, At
<1>2. IInv /\ [Next]_vars => [Limit!Next]_Using
  <2> SUFFICES ASSUME IInv, [Next]_vars PROVE [Limit!Next]_Using
    OBVIOUS
  <2>0. /\ TypeOK /\ PlacesAccounted
        /\ MaxSize \in Nat /\ Len(free) \in Nat /\ Cardinality(Using) \in Nat
    BY MaxSizeAssumption, PlacesAreThreads DEF IInv, TypeOK
  <2>1. ASSUME NEW t \in Thread, AcquireFree(t) \/ AcquireNew(t)
        PROVE  Limit!Take(t)
    <3>1. t \notin Using /\ Using' = Using \cup {t}
      BY <2>0, <2>1 DEF AcquireFree, AcquireNew, InLoop, TypeOK, Place, Using, At
    <3>2. Cardinality(Using) < MaxSize
      <4>1. CASE AcquireFree(t)
        <5>1. Len(free) > 0
          BY <2>0, <4>1 DEF AcquireFree, TypeOK
        <5>2. QED
          BY <2>0, <5>1 DEF PlacesAccounted
      <4>2. CASE AcquireNew(t)
        BY <2>0, <4>2 DEF AcquireNew, PlacesAccounted, TypeOK
      <4>3. QED
        BY <2>1, <4>1, <4>2
    <3>3. Limit!Cardinality(Using) = Cardinality(Using)
      BY DEF Limit!Cardinality, Cardinality
    <3>4. QED
      BY <3>1, <3>2, <3>3 DEF Limit!Take
  <2>2. ASSUME NEW t \in Thread, ConnectFails(t) \/ Release(t)
        PROVE  Limit!Give(t)
    <3>1. t \in Using /\ Using' = Using \ {t}
      BY <2>0, <2>2 DEF ConnectFails, NotifyOne, Release, TypeOK, Place, Using, At
    <3>2. QED
      BY <3>1 DEF Limit!Give
  <2>3. ASSUME NEW t \in Thread,
               AcquireWait(t) \/ Connected(t) \/ Notify(t) \/ SpuriousWakeup(t)
        PROVE  Using' = Using
    BY <2>0, <2>3 DEF AcquireWait, InLoop, Connected, Notify, NotifyOne,
                      SpuriousWakeup, TypeOK, Place, Using, At
  <2>4. ASSUME ServerDrops PROVE Using' = Using
    BY <2>4 DEF ServerDrops, Using, At
  <2>5. CASE UNCHANGED vars
    BY <2>5 DEF vars, Using, At
  <2>6. QED
    BY <2>1, <2>2, <2>3, <2>4, <2>5 DEF Next, Step, Acquire, Limit!Next
<1>3. QED
  BY <1>1, <1>2, Invariance, PTL DEF SafetySpec, ImplementsLimit, Limit!Spec

=============================================================================
