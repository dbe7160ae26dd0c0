------------------------ MODULE SyncCoordinator_proof ------------------------
(***************************************************************************)
(* Proofs about SyncCoordinator, for any set of accounts and any number of *)
(* retries: the load flags always have the request that will clear them,   *)
(* the dashboard always has a session, late answers leave no orphan rows,  *)
(* and the flags walk through LoadCycle.                                   *)
(***************************************************************************)
EXTENDS SyncCoordinator, TLAPS

\* A login that waits for its initial data is still on the welcome screen.
AnnouncementPending == emit_initial => screen = "welcome" /\ token # NoUser

IInv == /\ TypeOK
        /\ LoadNeverOrphaned
        /\ AppHasSession
        /\ AnnouncementPending
        /\ ParentsAreLocal

-----------------------------------------------------------------------------
(* The bag of requests                                                     *)

LEMMA SendingBag ==
    ASSUME NEW bag \in [Request -> Nat], NEW r \in Request
    PROVE  /\ Sending(bag, r) \in [Request -> Nat]
           /\ Sending(bag, r)[r] = bag[r] + 1
           /\ \A q \in Request \ {r} : Sending(bag, r)[q] = bag[q]
BY DEF Sending

LEMMA TakingBag ==
    ASSUME NEW bag \in [Request -> Nat], NEW r \in Request, bag[r] > 0
    PROVE  /\ Taking(bag, r) \in [Request -> Nat]
           /\ Taking(bag, r)[r] = bag[r] - 1
           /\ \A q \in Request \ {r} : Taking(bag, r)[q] = bag[q]
BY DEF Taking

LEMMA GetIsRequest ==
    ASSUME NEW e \in Endpoint, NEW tok \in User \cup {NoUser}
    PROVE  Get(e, tok) \in Request /\ Get(e, tok).endpoint = e
BY RetriesAssumption DEF Get, Request

\* A list request that comes back is the one the load waits for, and when it
\* is taken from the bag no other list request is left.
LEMMA AnsweredIsAwaited ==
    ASSUME TypeOK, LoadNeverOrphaned, NEW r \in StageRequest, requests[r] > 0
    PROVE  /\ remote_loading
           /\ \A t \in Stage : waiting[t] <=> t = r.endpoint
           /\ requests[r] = 1
           /\ \A q \in StageRequest \ {r} : requests[q] = 0
           /\ \A q \in StageRequest : Taking(requests, r)[q] = 0
<1>0. r \in Request /\ requests \in [Request -> Nat]
  BY DEF StageRequest, TypeOK
<1>1. remote_loading
  BY <1>0 DEF LoadNeverOrphaned
<1>2. PICK s \in Stage : AwaitsOne(s)
  BY <1>1 DEF LoadNeverOrphaned
<1>3. PICK p \in StageRequest :
        /\ p.endpoint = s
        /\ requests[p] = 1
        /\ \A q \in StageRequest \ {p} : requests[q] = 0
  BY <1>2 DEF AwaitsOne
<1>4. p = r
  BY <1>3
<1>5. \A t \in Stage : waiting[t] <=> t = s
  BY <1>2 DEF AwaitsOne
<1>6. \A q \in StageRequest : Taking(requests, r)[q] = 0
  BY <1>0, <1>3, <1>4, TakingBag DEF StageRequest
<1>7. QED
  BY <1>1, <1>3, <1>4, <1>5, <1>6

\* loadAll keeps a running load as it is, or starts one with its one request.
LEMMA LoadAllKeeps ==
    ASSUME TypeOK, LoadNeverOrphaned, NEW emit \in BOOLEAN,
           NEW tok \in User \cup {NoUser}, LoadAll(emit, tok)
    PROVE  /\ remote_loading' = TRUE
           /\ emit_initial' \in BOOLEAN
           /\ waiting' \in [Stage -> BOOLEAN]
           /\ requests' \in [Request -> Nat]
           /\ LoadNeverOrphaned'
<1>1. CASE remote_loading
  <2>1. UNCHANGED <<cycle, requests>>
    BY <1>1 DEF LoadAll
  <2>2. QED
    BY <1>1, <2>1 DEF cycle, TypeOK, LoadNeverOrphaned, AwaitsOne
<1>2. CASE ~remote_loading
  <2> DEFINE user == Get("user", tok)
             boards == Get("boards", tok)
             pomodoro == Get("pomodoro", tok)
             bag1 == Sending(requests, user)
             bag2 == Sending(bag1, boards)
             bag3 == Sending(bag2, pomodoro)
  <2>1. /\ remote_loading' = TRUE /\ emit_initial' = emit
        /\ waiting' = [s \in Stage |-> s = "boards"]
        /\ requests' = bag3
    BY <1>2 DEF LoadAll
  <2>2. /\ user \in Request /\ user.endpoint = "user"
        /\ boards \in Request /\ boards.endpoint = "boards"
        /\ pomodoro \in Request /\ pomodoro.endpoint = "pomodoro"
    BY GetIsRequest DEF Endpoint, Stage, Side
  <2>3. /\ requests \in [Request -> Nat]
        /\ \A q \in StageRequest : requests[q] = 0
    BY <1>2 DEF TypeOK, LoadNeverOrphaned
  <2> HIDE DEF user, boards, pomodoro
  <2>4. /\ bag1 \in [Request -> Nat]
        /\ \A q \in StageRequest : bag1[q] = 0
    BY <2>2, <2>3, SendingBag DEF StageRequest, Stage
  <2> HIDE DEF bag1
  <2>5. /\ bag2 \in [Request -> Nat]
        /\ bag2[boards] = 1
        /\ \A q \in StageRequest \ {boards} : bag2[q] = 0
    BY <2>2, <2>4, SendingBag DEF StageRequest, Stage
  <2> HIDE DEF bag2
  <2>6. /\ bag3 \in [Request -> Nat]
        /\ bag3[boards] = 1
        /\ \A q \in StageRequest \ {boards} : bag3[q] = 0
    BY <2>2, <2>5, SendingBag DEF StageRequest, Stage
  <2> HIDE DEF bag3
  <2>7. boards \in StageRequest
    BY <2>2 DEF StageRequest, Stage
  <2>8. AwaitsOne("boards")'
    BY <2>1, <2>2, <2>6, <2>7 DEF AwaitsOne, Stage
  <2>9. QED
    BY <2>1, <2>6, <2>8 DEF LoadNeverOrphaned, Stage
<1>3. QED
  BY <1>1, <1>2 DEF TypeOK

-----------------------------------------------------------------------------
(* The inductive invariant                                                 *)

LEMMA InitIInv == Init => IInv
<1> SUFFICES ASSUME Init PROVE IInv
  OBVIOUS
<1>1. TypeOK
  BY DEF Init, TypeOK
<1>2. LoadNeverOrphaned
  BY DEF Init, LoadNeverOrphaned, StageRequest
<1>3. AppHasSession /\ AnnouncementPending
  BY DEF Init, AppHasSession, AnnouncementPending
<1>4. ParentsAreLocal
  BY DEF Init, ParentsAreLocal, Table, Endpoint, Stage
<1>5. QED
  BY <1>1, <1>2, <1>3, <1>4 DEF IInv

LEMMA LoginKeeps ==
    ASSUME IInv, NEW u \in User, Login(u)
    PROVE  IInv'
<1>1. LoadAll(TRUE, u)
  BY DEF Login
<1>2. /\ remote_loading' = TRUE
      /\ emit_initial' \in BOOLEAN
      /\ waiting' \in [Stage -> BOOLEAN]
      /\ requests' \in [Request -> Nat]
      /\ LoadNeverOrphaned'
  BY <1>1, LoadAllKeeps DEF IInv
<1>3. TypeOK' /\ token' # NoUser /\ screen' = "welcome"
  BY <1>2, UserAssumption DEF IInv, TypeOK, Login, Table
<1>4. ParentsAreLocal'
  BY DEF Login, ParentsAreLocal, Table, Endpoint, Stage
<1>5. QED
  BY <1>2, <1>3, <1>4 DEF IInv, AppHasSession, AnnouncementPending

LEMMA PeriodicKeeps ==
    ASSUME IInv, OnPeriodicSync
    PROVE  IInv'
<1>1. LoadAll(FALSE, token) /\ ~remote_loading
  BY DEF OnPeriodicSync
<1>2. /\ remote_loading' = TRUE
      /\ waiting' \in [Stage -> BOOLEAN]
      /\ requests' \in [Request -> Nat]
      /\ LoadNeverOrphaned'
  BY <1>1, LoadAllKeeps DEF IInv, TypeOK
<1>3. emit_initial' = FALSE
  BY <1>1 DEF LoadAll
<1>4. TypeOK'
  BY <1>2, <1>3 DEF IInv, TypeOK, OnPeriodicSync, session
<1>5. QED
  BY <1>2, <1>3, <1>4 DEF IInv, AppHasSession, AnnouncementPending,
     ParentsAreLocal, OnPeriodicSync, session

\* The load flags and the list requests are untouched.
LEMMA OrphanFrame ==
    ASSUME LoadNeverOrphaned, UNCHANGED cycle,
           \A q \in StageRequest : requests'[q] = requests[q]
    PROVE  LoadNeverOrphaned'
BY DEF LoadNeverOrphaned, AwaitsOne, cycle

LEMMA LogoutKeeps ==
    ASSUME IInv, Logout
    PROVE  IInv'
<1>1. UNCHANGED <<cycle, requests>>
  BY DEF Logout
<1>2. LoadNeverOrphaned'
  BY <1>1, OrphanFrame DEF IInv
<1>3. TypeOK' /\ ParentsAreLocal'
  BY <1>1 DEF IInv, TypeOK, Logout, cycle, ParentsAreLocal, Table, Endpoint, Stage
<1>4. screen' = "welcome" /\ ~emit_initial'
  BY <1>1 DEF IInv, AppHasSession, Logout, cycle
<1>5. QED
  BY <1>2, <1>3, <1>4 DEF IInv, AppHasSession, AnnouncementPending

LEMMA RefreshKeeps ==
    ASSUME IInv, RefreshUserInfo
    PROVE  IInv'
<1>1. /\ Get("user", token) \in Request /\ Get("user", token).endpoint = "user"
      /\ requests' = Sending(requests, Get("user", token))
      /\ requests \in [Request -> Nat]
      /\ UNCHANGED <<session, cycle, local, screen, server, logins>>
  BY GetIsRequest DEF IInv, TypeOK, RefreshUserInfo, Endpoint, Side
<1>2. /\ requests' \in [Request -> Nat]
      /\ \A q \in StageRequest : requests'[q] = requests[q]
  BY <1>1, SendingBag DEF StageRequest, Stage
<1>3. LoadNeverOrphaned'
  BY <1>1, <1>2, OrphanFrame DEF IInv
<1>4. QED
  BY <1>1, <1>2, <1>3 DEF IInv, TypeOK, AppHasSession, AnnouncementPending,
     ParentsAreLocal, session, cycle

\* A request that is sent again, or set aside to be, stays the awaited one.
LEMMA RetryKeeps ==
    ASSUME IInv, NEW r \in Request, NEW p \in Request, p # r,
           p.endpoint = r.endpoint, requests[r] > 0,
           requests' = Sending(Taking(requests, r), p),
           UNCHANGED <<session, cycle, local, screen, server, logins>>
    PROVE  IInv'
<1> DEFINE bag == Taking(requests, r)
<1>1. /\ bag \in [Request -> Nat] /\ bag[r] = requests[r] - 1
      /\ \A q \in Request \ {r} : bag[q] = requests[q]
  BY TakingBag DEF IInv, TypeOK
<1> HIDE DEF bag
<1>2. requests' = Sending(bag, p)
  BY DEF bag
<1>3. /\ requests' \in [Request -> Nat]
      /\ requests'[p] = bag[p] + 1
      /\ \A q \in Request \ {p} : requests'[q] = bag[q]
  BY <1>1, <1>2, SendingBag
<1>4. CASE r \in StageRequest
  <2>1. p \in StageRequest
    BY <1>4 DEF StageRequest
  <2>2. /\ remote_loading /\ requests[r] = 1
        /\ \A t \in Stage : waiting[t] <=> t = r.endpoint
        /\ \A q \in StageRequest \ {r} : requests[q] = 0
    BY <1>4, AnsweredIsAwaited DEF IInv
  <2>3. requests'[p] = 1 /\ \A q \in StageRequest \ {p} : requests'[q] = 0
    BY <1>1, <1>3, <2>1, <2>2 DEF StageRequest
  <2>4. AwaitsOne(p.endpoint)'
    BY <2>1, <2>2, <2>3 DEF AwaitsOne, cycle
  <2>5. LoadNeverOrphaned'
    BY <2>1, <2>2, <2>4 DEF LoadNeverOrphaned, cycle, StageRequest
  <2>6. QED
    BY <1>3, <2>5 DEF IInv, TypeOK, AppHasSession, AnnouncementPending,
       ParentsAreLocal, session, cycle
<1>5. CASE r \notin StageRequest
  <2>1. \A q \in StageRequest : requests'[q] = requests[q]
    BY <1>1, <1>3, <1>5 DEF StageRequest
  <2>2. LoadNeverOrphaned'
    BY <2>1, OrphanFrame DEF IInv
  <2>3. QED
    BY <1>3, <2>2 DEF IInv, TypeOK, AppHasSession, AnnouncementPending,
       ParentsAreLocal, session, cycle
<1>6. QED
  BY <1>4, <1>5

\* finishInitialLoadCycle, with no list request left in the bag.
LEMMA FinishKeeps ==
    ASSUME IInv, FinishInitialLoadCycle, UNCHANGED <<session, server, logins>>,
           requests' \in [Request -> Nat],
           \A q \in StageRequest : requests'[q] = 0,
           local' \in [Table -> SUBSET User], ParentsAreLocal'
    PROVE  IInv'
<1>1. /\ remote_loading' = FALSE /\ emit_initial' = FALSE
      /\ waiting' = [s \in Stage |-> FALSE]
      /\ screen' \in {"app", screen} /\ (screen' = "app" => screen = "app" \/ emit_initial)
  BY DEF FinishInitialLoadCycle
<1>2. LoadNeverOrphaned'
  BY <1>1 DEF LoadNeverOrphaned
<1>3. TypeOK'
  BY <1>1 DEF IInv, TypeOK, session
<1>4. AppHasSession' /\ AnnouncementPending'
  BY <1>1 DEF IInv, AppHasSession, AnnouncementPending, session
<1>5. QED
  BY <1>2, <1>3, <1>4 DEF IInv

LEMMA ParsedKeepsParents ==
    ASSUME TypeOK, ParentsAreLocal, NEW e \in Endpoint, NEW u \in User,
           local' = Parsed(e, u)
    PROVE  local' \in [Table -> SUBSET User] /\ ParentsAreLocal'
<1>1. CASE local' = local
  BY <1>1 DEF TypeOK, ParentsAreLocal
<1>2. CASE /\ local' = [local EXCEPT ![e] = @ \cup {u}]
           /\ ~(e = "statuses" /\ u \notin local["boards"])
           /\ ~(e = "tasks" /\ u \notin local["boards"] \cap local["statuses"])
  BY <1>2 DEF TypeOK, ParentsAreLocal, Table, Endpoint, Stage, Side
<1>3. QED
  BY <1>1, <1>2 DEF Parsed

LEMMA FailureKeeps ==
    ASSUME IInv, NEW r \in Request, requests[r] > 0,
           HandleFailure(r.endpoint, Taking(requests, r)),
           UNCHANGED <<session, server, logins>>
    PROVE  IInv'
<1>1. /\ requests' = Taking(requests, r) /\ local' = local
      /\ requests' \in [Request -> Nat]
      /\ \A q \in Request \ {r} : requests'[q] = requests[q]
  BY TakingBag DEF HandleFailure, IInv, TypeOK
<1>2. ParentsAreLocal' /\ local' \in [Table -> SUBSET User]
  BY <1>1 DEF IInv, TypeOK, ParentsAreLocal
<1>3. CASE r \in StageRequest
  <2>1. waiting[r.endpoint] /\ r.endpoint \in Stage
        /\ \A q \in StageRequest : requests'[q] = 0
    BY <1>1, <1>3, AnsweredIsAwaited DEF IInv, StageRequest
  <2>2. FinishInitialLoadCycle
    BY <2>1 DEF HandleFailure
  <2>3. QED
    BY <1>1, <1>2, <2>1, <2>2, FinishKeeps
<1>4. CASE r \notin StageRequest
  <2>1. UNCHANGED <<cycle, screen>>
    BY <1>4 DEF HandleFailure, StageRequest
  <2>2. LoadNeverOrphaned'
    BY <1>1, <1>4, <2>1, OrphanFrame DEF IInv, StageRequest
  <2>3. QED
    BY <1>1, <1>2, <2>1, <2>2 DEF IInv, TypeOK, AppHasSession,
       AnnouncementPending, session, cycle
<1>5. QED
  BY <1>3, <1>4

LEMMA RowsKeep ==
    ASSUME IInv, NEW r \in Request, requests[r] > 0, r.token \in User,
           HandleRows(r.endpoint, r.token, Taking(requests, r)),
           UNCHANGED <<session, server, logins>>
    PROVE  IInv'
<1> DEFINE bag == Taking(requests, r)
<1>0. r.endpoint \in Endpoint /\ requests \in [Request -> Nat]
      /\ token \in User \cup {NoUser}
  BY DEF Request, IInv, TypeOK
<1>1. /\ bag \in [Request -> Nat]
      /\ \A q \in Request \ {r} : bag[q] = requests[q]
  BY <1>0, TakingBag
<1>2. local' \in [Table -> SUBSET User] /\ ParentsAreLocal'
  BY <1>0, ParsedKeepsParents DEF HandleRows, IInv
<1>3. CASE r \in StageRequest
  <2>1. /\ waiting[r.endpoint] /\ r.endpoint \in Stage /\ remote_loading
        /\ \A t \in Stage : waiting[t] <=> t = r.endpoint
        /\ \A q \in StageRequest : bag[q] = 0
    BY <1>3, AnsweredIsAwaited DEF IInv, StageRequest
  <2>2. CASE r.endpoint = "tasks"
    <3>1. FinishInitialLoadCycle /\ requests' = bag
      BY <2>1, <2>2 DEF HandleRows
    <3>2. QED
      BY <1>1, <1>2, <2>1, <3>1, FinishKeeps
  <2>3. CASE r.endpoint # "tasks"
    <3> DEFINE next == IF r.endpoint = "boards" THEN "statuses" ELSE "tasks"
               get == Get(next, token)
    <3>1. LoadNext(r.endpoint, bag)
      BY <2>1, <2>3 DEF HandleRows
    <3>2. /\ next \in Stage /\ next \in Endpoint /\ next # r.endpoint
      BY <2>1, <2>3 DEF Stage, Endpoint
    <3>3. /\ waiting' = [waiting EXCEPT ![r.endpoint] = FALSE, ![next] = TRUE]
          /\ requests' = Sending(bag, get)
          /\ UNCHANGED <<remote_loading, emit_initial, screen>>
      BY <3>1 DEF LoadNext
    <3> HIDE DEF next, bag
    <3>4. get \in Request /\ get.endpoint = next
      BY <1>0, <3>2, GetIsRequest
    <3> HIDE DEF get
    <3>5. get \in StageRequest
      BY <3>2, <3>4 DEF StageRequest
    <3>6. /\ requests' \in [Request -> Nat]
          /\ requests'[get] = 1
          /\ \A q \in StageRequest \ {get} : requests'[q] = 0
      BY <1>1, <2>1, <3>3, <3>4, <3>5, SendingBag DEF StageRequest
    <3>7. /\ waiting' \in [Stage -> BOOLEAN]
          /\ \A t \in Stage : waiting'[t] <=> t = next
      BY <2>1, <3>2, <3>3 DEF IInv, TypeOK
    <3>8. AwaitsOne(next)'
      BY <3>4, <3>5, <3>6, <3>7 DEF AwaitsOne
    <3>9. LoadNeverOrphaned'
      BY <2>1, <3>2, <3>3, <3>8 DEF LoadNeverOrphaned
    <3>10. TypeOK'
      BY <1>2, <3>3, <3>6, <3>7 DEF IInv, TypeOK, session
    <3>11. QED
      BY <1>2, <3>3, <3>9, <3>10 DEF IInv, AppHasSession, AnnouncementPending, session
  <2>4. QED
    BY <2>2, <2>3
<1>4. CASE r \notin StageRequest
  <2>1. UNCHANGED <<cycle, screen>> /\ requests' = bag
    BY <1>0, <1>4 DEF HandleRows, StageRequest, Stage
  <2>2. LoadNeverOrphaned'
    BY <1>1, <1>4, <2>1, OrphanFrame DEF IInv, StageRequest
  <2>3. QED
    BY <1>1, <1>2, <2>1, <2>2 DEF IInv, TypeOK, AppHasSession,
       AnnouncementPending, session, cycle
<1>5. QED
  BY <1>3, <1>4

LEMMA ResultKeeps ==
    ASSUME IInv, NEW r \in Request, OnResult(r)
    PROVE  IInv'
<1>0. requests[r] > 0 /\ ~r.backoff /\ UNCHANGED <<session, server, logins>>
  BY DEF OnResult
<1>1. PICK a \in Answers(r) :
         \/ /\ a = "retryable" /\ r.retries < MaxRetries
            /\ requests' = Sending(Taking(requests, r),
                             [r EXCEPT !.retries = @ + 1, !.backoff = TRUE])
            /\ UNCHANGED <<cycle, local, screen>>
         \/ /\ a # "rows" /\ (a = "retryable" => r.retries = MaxRetries)
            /\ HandleFailure(r.endpoint, Taking(requests, r))
         \/ /\ a = "rows"
            /\ HandleRows(r.endpoint, r.token, Taking(requests, r))
  BY DEF OnResult
<1>2. CASE /\ r.retries < MaxRetries
           /\ requests' = Sending(Taking(requests, r),
                            [r EXCEPT !.retries = @ + 1, !.backoff = TRUE])
           /\ UNCHANGED <<cycle, local, screen>>
  <2> DEFINE p == [r EXCEPT !.retries = @ + 1, !.backoff = TRUE]
  <2>1. r.retries \in Nat /\ r.retries + 1 \in 0 .. MaxRetries
    BY <1>2, RetriesAssumption DEF Request
  <2>2. p \in Request /\ p.endpoint = r.endpoint /\ p.retries = r.retries + 1
    BY <2>1 DEF Request
  <2>3. requests' = Sending(Taking(requests, r), p)
    BY <1>2
  <2> HIDE DEF p
  <2>4. p.retries # r.retries
    BY <2>1, <2>2
  <2>5. p # r
    BY <2>4
  <2>6. QED
    BY <1>0, <1>2, <2>2, <2>3, <2>5, RetryKeeps
<1>3. CASE HandleFailure(r.endpoint, Taking(requests, r))
  BY <1>0, <1>3, FailureKeeps
<1>4. CASE a = "rows" /\ HandleRows(r.endpoint, r.token, Taking(requests, r))
  <2>1. server \in {"up", "failing", "offline"} /\ "rows" \in Answers(r)
    BY <1>1, <1>4 DEF IInv, TypeOK
  <2>2. r.token # NoUser
    BY <2>1 DEF Answers
  <2>3. r.token \in User
    BY <2>2 DEF Request
  <2>4. QED
    BY <1>0, <1>4, <2>3, RowsKeep
<1>5. QED
  BY <1>1, <1>2, <1>3, <1>4

LEMMA ResendKeeps ==
    ASSUME IInv, NEW r \in Request, Resend(r)
    PROVE  IInv'
<1> DEFINE p == [r EXCEPT !.token = token, !.backoff = FALSE]
<1>1. p \in Request /\ p # r /\ p.endpoint = r.endpoint
  BY DEF Resend, Request, IInv, TypeOK
<1>2. QED
  BY <1>1, RetryKeeps DEF Resend

LEMMA StepIInv == IInv /\ [Next]_vars => IInv'
<1> SUFFICES ASSUME IInv, [Next]_vars PROVE IInv'
  OBVIOUS
<1>1. CASE ServerChanges
  <2>1. LoadNeverOrphaned'
    BY <1>1, OrphanFrame DEF IInv, ServerChanges, cycle
  <2>2. QED
    BY <1>1, <2>1 DEF IInv, ServerChanges, TypeOK, AppHasSession,
       AnnouncementPending, ParentsAreLocal, session, cycle
<1>2. CASE UNCHANGED vars
  <2>1. LoadNeverOrphaned'
    BY <1>2, OrphanFrame DEF IInv, vars, cycle
  <2>2. QED
    BY <1>2, <2>1 DEF IInv, vars, TypeOK, AppHasSession,
       AnnouncementPending, ParentsAreLocal, session, cycle
<1>3. QED
  BY <1>1, <1>2, LoginKeeps, LogoutKeeps, PeriodicKeeps, RefreshKeeps,
     ResultKeeps, ResendKeeps DEF Next

LEMMA Invariance == SafetySpec => []IInv
<1>1. QED
  BY InitIInv, StepIInv, PTL DEF SafetySpec

-----------------------------------------------------------------------------
(* The results                                                             *)

\* The variables of the coordinator keep their types.
THEOREM TypeCorrect == SafetySpec => []TypeOK
<1>1. IInv => TypeOK
  BY DEF IInv
<1>2. QED
  BY <1>1, Invariance, PTL

\* As long as remote_loading_ is set, exactly one list request is outstanding
\* and it is the one the set waiting flag names: through retries, failures,
\* late answers, logouts and new logins.
THEOREM LoadHasItsRequest == SafetySpec => []LoadNeverOrphaned
<1>1. IInv => LoadNeverOrphaned
  BY DEF IInv
<1>2. QED
  BY <1>1, Invariance, PTL

\* No load left over from a session brings the dashboard back after a logout.
THEOREM DashboardHasSession == SafetySpec => []AppHasSession
<1>1. IInv => AppHasSession
  BY DEF IInv
<1>2. QED
  BY <1>1, Invariance, PTL

\* Answers that outlive their session leave no status without its board and no
\* task without its status.
THEOREM NoOrphanRows == SafetySpec => []ParentsAreLocal
<1>1. IInv => ParentsAreLocal
  BY DEF IInv
<1>2. QED
  BY <1>1, Invariance, PTL

-----------------------------------------------------------------------------
(* The refinement of LoadCycle                                             *)

LEMMA IdleStage ==
    ASSUME ~remote_loading
    PROVE  stage = "idle"
BY DEF stage

LEMMA AwaitedStage ==
    ASSUME remote_loading, NEW s \in Stage, \A t \in Stage : waiting[t] <=> t = s
    PROVE  stage = s
<1>1. \A t \in Stage : waiting[t] => t = s
  OBVIOUS
<1>2. (CHOOSE t \in Stage : waiting[t]) = s
  BY <1>1
<1>3. QED
  BY <1>2 DEF stage

\* A list is awaited by name while a load runs.
LEMMA StageOfLoad ==
    ASSUME LoadNeverOrphaned, remote_loading
    PROVE  stage \in Stage /\ \A t \in Stage : waiting[t] <=> t = stage
<1>1. PICK s \in Stage : AwaitsOne(s)
  BY DEF LoadNeverOrphaned
<1>2. \A t \in Stage : waiting[t] <=> t = s
  BY <1>1 DEF AwaitsOne
<1>3. QED
  BY <1>2, AwaitedStage

\* finishInitialLoadCycle ends the cycle.
LEMMA FinishIsFinish ==
    ASSUME LoadNeverOrphaned, remote_loading, FinishInitialLoadCycle
    PROVE  Cycle!Next
<1>1. stage # "idle" /\ stage' = "idle"
  BY StageOfLoad DEF FinishInitialLoadCycle, stage, Stage
<1>2. QED
  BY <1>1 DEF Cycle!Next, Cycle!Finish

\* Every step of the coordinator is a step of the cycle or leaves it alone: the
\* lists are asked for in order, one at a time, with no list skipped.
THEOREM ImplementsCycle == SafetySpec => Cycle!SafetySpec
<1>1. Init => Cycle!Init
  BY IdleStage DEF Init, Cycle!Init
<1>2. IInv /\ [Next]_vars => [Cycle!Next]_stage
  <2> SUFFICES ASSUME IInv, [Next]_vars PROVE [Cycle!Next]_stage
    OBVIOUS
  <2>0. TypeOK /\ LoadNeverOrphaned
    BY DEF IInv
  <2>1. ASSUME UNCHANGED cycle PROVE stage' = stage
    BY <2>1 DEF cycle, stage
  <2>2. ASSUME NEW emit, NEW tok, LoadAll(emit, tok) PROVE [Cycle!Next]_stage
    <3>1. CASE remote_loading
      BY <2>1, <2>2, <3>1 DEF LoadAll
    <3>2. CASE ~remote_loading
      <4>1. remote_loading' = TRUE /\ waiting' = [s \in Stage |-> s = "boards"]
        BY <2>2, <3>2 DEF LoadAll
      <4>2. \A t \in Stage : waiting'[t] <=> t = "boards"
        BY <4>1
      <4>3. (CHOOSE t \in Stage : waiting'[t]) = "boards"
        BY <4>2 DEF Stage
      <4>4. stage = "idle" /\ stage' = "boards"
        BY <3>2, <4>1, <4>3 DEF stage
      <4>5. QED
        BY <4>4 DEF Cycle!Next, Cycle!Start
    <3>3. QED
      BY <3>1, <3>2
  <2>3. ASSUME NEW r \in Request, requests[r] > 0,
               HandleFailure(r.endpoint, Taking(requests, r))
        PROVE  [Cycle!Next]_stage
    <3>1. CASE r \in StageRequest
      <4>1. remote_loading /\ FinishInitialLoadCycle
        BY <2>0, <2>3, <3>1, AnsweredIsAwaited DEF HandleFailure, StageRequest
      <4>2. QED
        BY <2>0, <4>1, FinishIsFinish
    <3>2. CASE r \notin StageRequest
      BY <2>1, <2>3, <3>2 DEF HandleFailure, StageRequest
    <3>3. QED
      BY <3>1, <3>2
  <2>4. ASSUME NEW r \in Request, requests[r] > 0,
               HandleRows(r.endpoint, r.token, Taking(requests, r))
        PROVE  [Cycle!Next]_stage
    <3>1. CASE r \in StageRequest
      <4>1. /\ remote_loading /\ r.endpoint \in Stage /\ waiting[r.endpoint]
            /\ \A t \in Stage : waiting[t] <=> t = r.endpoint
        BY <2>0, <2>4, <3>1, AnsweredIsAwaited DEF StageRequest
      <4>2. stage = r.endpoint
        BY <4>1, AwaitedStage
      <4>3. CASE r.endpoint = "tasks"
        BY <2>0, <2>4, <4>1, <4>3, FinishIsFinish DEF HandleRows
      <4>4. CASE r.endpoint # "tasks"
        <5> DEFINE next == IF r.endpoint = "boards" THEN "statuses" ELSE "tasks"
        <5>1. LoadNext(r.endpoint, Taking(requests, r))
          BY <2>4, <4>1, <4>4 DEF HandleRows
        <5>2. /\ remote_loading' = remote_loading
              /\ waiting' = [waiting EXCEPT ![r.endpoint] = FALSE, ![next] = TRUE]
          BY <5>1 DEF LoadNext
        <5>3. next \in Stage /\ next # r.endpoint
          BY <4>1, <4>4 DEF Stage
        <5>4. \A t \in Stage : waiting'[t] <=> t = next
          BY <2>0, <4>1, <5>2, <5>3 DEF TypeOK
        <5>5. (CHOOSE t \in Stage : waiting'[t]) = next
          BY <5>3, <5>4
        <5>6. stage' = next
          BY <4>1, <5>2, <5>5 DEF stage
        <5>7. QED
          BY <4>1, <4>2, <4>4, <5>6 DEF Stage, Cycle!Next, Cycle!Follow
      <4>5. QED
        BY <4>3, <4>4
    <3>2. CASE r \notin StageRequest
      BY <2>1, <2>4, <3>2 DEF HandleRows, StageRequest, Stage
    <3>3. QED
      BY <3>1, <3>2
  <2>5. ASSUME NEW u \in User, Login(u) PROVE [Cycle!Next]_stage
    BY <2>2, <2>5 DEF Login
  <2>6. ASSUME OnPeriodicSync PROVE [Cycle!Next]_stage
    BY <2>2, <2>6 DEF OnPeriodicSync
  <2>7. ASSUME NEW r \in Request, OnResult(r) PROVE [Cycle!Next]_stage
    BY <2>1, <2>3, <2>4, <2>7 DEF OnResult
  <2>8. ASSUME Logout \/ RefreshUserInfo \/ ServerChanges
               \/ (\E r \in Request : Resend(r)) \/ UNCHANGED vars
        PROVE  [Cycle!Next]_stage
    BY <2>1, <2>8 DEF Logout, RefreshUserInfo, ServerChanges, Resend, vars
  <2>9. QED
    BY <2>5, <2>6, <2>7, <2>8 DEF Next
<1>3. QED
  BY <1>1, <1>2, Invariance, PTL DEF SafetySpec, Cycle!SafetySpec

=============================================================================
