----------------------------- MODULE Accounts_proof -----------------------------
(***************************************************************************)
(* Proofs about Accounts: type correctness, that a success is never        *)
(* reported of half a handler's work, and that what the client pushes is   *)
(* of the account whose token it pushes it with.                           *)
(***************************************************************************)
EXTENDS Accounts, TLAPS, FiniteSetTheorems, SequenceTheorems

(* The inductive invariant                                                 *)

Tables ==
    /\ users \in Seq(User)
    /\ Len(users) <= MaxAccounts
    /\ boards \subseteq DOMAIN users
    /\ bucket \subseteq DOMAIN users

\* What each stage of a request says of the handler's work so far, ids being the
\* accounts there are, with those that have a board and those that have a photo.
Sound(r, ids, withBoard, withPhoto) ==
    /\ r \in Request
    /\ r.token \in ids \cup {Nobody}
    /\ r.kind = "edit" /\ r.retries = 0 => r.token \in {Nobody, r.row}
    /\ r.stage \in {"created", "read", "saved", "ok"} => r.account \in ids
    /\ r.stage = "created" => r.kind = "register"
    /\ r.stage = "read" => r.kind \in {"edit", "upload", "delete"}
    /\ r.stage = "saved" => r.kind = "upload"
    /\ r.stage \in {"read", "saved"} => r.profile # None /\ r.seen \in User
    /\ r.stage = "ok" => /\ r.kind # "register" => r.seen \in User
                         /\ r.kind = "register" => r.account \in withBoard
                         /\ r.kind = "upload" => r.account \in withPhoto

Requests ==
    /\ DOMAIN wire \subseteq Slot
    /\ \A s \in DOMAIN wire : Sound(wire[s], DOMAIN users, boards, bucket)

Client ==
    /\ session \in DOMAIN users \cup {Nobody}
    /\ DOMAIN local \subseteq DOMAIN users
    /\ \A i \in DOMAIN local : local[i] \in LocalUser
    /\ pending_password \in Password \cup {None}
    /\ screen \in {"welcome", "login", "registration", "dashboard", "profile"}
    /\ form \in [profile : Profile \cup {None}, password : Password \cup {None},
                 photo : BOOLEAN]
    /\ edit_screen \in BOOLEAN
    /\ avatar_key \in BOOLEAN

\* PendingIsOwn without what Sound says of the pushes.
OwnPending ==
    /\ session # Nobody => Unsynced(local) \subseteq {session}
    /\ pending_password = None

IInv == Tables /\ Requests /\ Client /\ OwnPending

-----------------------------------------------------------------------------
(* The table users of the server                                           *)

LEMMA Bounds == MaxAccounts \in Nat /\ MaxSlots \in Nat /\ MaxRetries \in Nat
  BY BoundAssumption

\* The ids of a table are the numbers up to its length.
LEMMA Ids ==
    ASSUME NEW t \in Seq(User), Len(t) <= MaxAccounts
    PROVE  /\ DOMAIN t = 1 .. Len(t)
           /\ Len(t) \in Nat
           /\ DOMAIN t \subseteq Account
           /\ Nobody \notin DOMAIN t
  BY BoundAssumption DEF Account, Nobody

LEMMA InsertedTable ==
    ASSUME NEW t \in Seq(User), Len(t) < MaxAccounts, NEW row \in User
    PROVE  /\ Append(t, row) \in Seq(User)
           /\ Len(Append(t, row)) = Len(t) + 1
           /\ Len(Append(t, row)) <= MaxAccounts
           /\ DOMAIN t \subseteq DOMAIN Append(t, row)
           /\ Len(Append(t, row)) \in DOMAIN Append(t, row)
<1>1. Append(t, row) \in Seq(User) /\ Len(Append(t, row)) = Len(t) + 1
  BY AppendProperties
<1>2. Len(t) \in Nat /\ MaxAccounts \in Nat
  BY BoundAssumption
<1>3. DOMAIN t = 1 .. Len(t) /\ DOMAIN Append(t, row) = 1 .. Len(t) + 1
  BY <1>1
<1>4. QED
  BY <1>1, <1>2, <1>3

LEMMA UpdatedTable ==
    ASSUME NEW t \in Seq(User), NEW row \in User, NEW id \in DOMAIN t
    PROVE  /\ [t EXCEPT ![id] = row] \in Seq(User)
           /\ Len([t EXCEPT ![id] = row]) = Len(t)
           /\ DOMAIN [t EXCEPT ![id] = row] = DOMAIN t
<1>1. id \in 1 .. Len(t)
  OBVIOUS
<1>2. [t EXCEPT ![id] = row] \in Seq(User) /\ Len([t EXCEPT ![id] = row]) = Len(t)
  BY <1>1, ExceptSeq
<1>3. QED
  BY <1>2

-----------------------------------------------------------------------------
(* Requests                                                                *)

\* What is sound stays sound when tables only grow.
LEMMA SoundGrows ==
    ASSUME NEW r, NEW ids, NEW b, NEW k, NEW ids2, NEW b2, NEW k2,
           Sound(r, ids, b, k), ids \subseteq ids2, b \subseteq b2, k \subseteq k2
    PROVE  Sound(r, ids2, b2, k2)
  BY DEF Sound

LEMMA NewRequestSound ==
    ASSUME NEW kind \in {"register", "login", "info", "upload", "delete"},
           NEW ids, NEW b, NEW k, ids \subseteq Account,
           NEW token \in ids \cup {Nobody},
           NEW profile \in Profile \cup {None}, NEW password \in Password \cup {None}
    PROVE  Sound(NewRequest(kind, token, profile, password), ids, b, k)
  BY Bounds DEF Sound, NewRequest, Request, Account, Nobody

\* A PUT for a row goes out under no token, or that of the row's account.
PushRequest(i, token, profile, password) ==
    [NewRequest("edit", token, profile, password) EXCEPT !.row = i]

LEMMA PushRequestSound ==
    ASSUME NEW ids, NEW b, NEW k, ids \subseteq Account, NEW i \in ids,
           NEW token \in {i, Nobody},
           NEW profile \in Profile \cup {None}, NEW password \in Password \cup {None}
    PROVE  Sound(PushRequest(i, token, profile, password), ids, b, k)
<1> DEFINE n == NewRequest("edit", token, profile, password)
           r == [n EXCEPT !.row = i]
<1>1. i \in Account /\ token \in ids \cup {Nobody} /\ token \in Account \cup {Nobody}
  OBVIOUS
<1>2. n \in Request /\ n.token = token /\ n.stage = "sent"
  BY <1>1, Bounds DEF NewRequest, Request
<1> HIDE DEF n
<1>3. r \in Request /\ r.token = token /\ r.stage = "sent" /\ r.row = i
  BY <1>1, <1>2 DEF Request
<1> HIDE DEF r
<1>4. Sound(r, ids, b, k)
  BY <1>1, <1>3 DEF Sound
<1>5. QED
  BY <1>4 DEF PushRequest, r, n

LEMMA FreeSlots ==
    ASSUME NEW w, NEW s \in Slot \ DOMAIN w
    PROVE  Rank(w, s) \in Nat /\ Rank(w, s) >= 1
<1> DEFINE T == {t \in Slot \ DOMAIN w : t <= s}
<1>1. IsFiniteSet(Slot)
  BY Bounds, FS_Interval DEF Slot
<1>2. IsFiniteSet(T) /\ Cardinality(T) \in Nat
  BY <1>1, FS_Subset, FS_CardinalityType
<1>3. s \in T
  BY Bounds DEF Slot
<1>4. Cardinality(T) # 0
  BY <1>2, <1>3, FS_EmptySet
<1>5. QED
  BY <1>2, <1>4 DEF Rank

\* Sending leaves the requests in flight alone.
LEMMA PutAllProperties ==
    ASSUME NEW w, DOMAIN w \subseteq Slot, NEW R, NEW requests \in Seq(R)
    PROVE  /\ DOMAIN PutAll(w, requests) \subseteq Slot
           /\ \A s \in DOMAIN PutAll(w, requests) :
                 \/ s \in DOMAIN w /\ PutAll(w, requests)[s] = w[s]
                 \/ PutAll(w, requests)[s] \in R
<1> DEFINE new == {s \in Slot \ DOMAIN w : Rank(w, s) <= Len(requests)}
           p == PutAll(w, requests)
<1>1. p = [s \in DOMAIN w \cup new |-> IF s \in new THEN requests[Rank(w, s)] ELSE w[s]]
  BY DEF PutAll
<1>2. DOMAIN p = DOMAIN w \cup new
  BY <1>1
<1>3. ASSUME NEW s \in new PROVE p[s] \in R
  <2>1. Rank(w, s) \in 1 .. Len(requests)
    BY FreeSlots
  <2>2. p[s] = requests[Rank(w, s)]
    BY <1>1, <1>2
  <2>3. QED
    BY <2>1, <2>2
<1>4. ASSUME NEW s \in DOMAIN w, s \notin new PROVE p[s] = w[s]
  BY <1>1, <1>2, <1>4
<1>5. QED
  BY <1>2, <1>3, <1>4

LEMMA PutProperties ==
    ASSUME NEW w, DOMAIN w \subseteq Slot, NEW request
    PROVE  /\ DOMAIN Put(w, request) \subseteq Slot
           /\ \A s \in DOMAIN Put(w, request) :
                 \/ s \in DOMAIN w /\ Put(w, request)[s] = w[s]
                 \/ Put(w, request)[s] = request
<1>1. <<request>> \in Seq({request})
  OBVIOUS
<1>2. /\ DOMAIN PutAll(w, <<request>>) \subseteq Slot
      /\ \A s \in DOMAIN PutAll(w, <<request>>) :
             \/ s \in DOMAIN w /\ PutAll(w, <<request>>)[s] = w[s]
             \/ PutAll(w, <<request>>)[s] \in {request}
  BY <1>1, PutAllProperties
<1>3. QED
  BY <1>2 DEF Put

\* A sequence made of a finite set has its elements.
LEMMA SetToSeqProperties ==
    ASSUME NEW S, IsFiniteSet(S)
    PROVE  SetToSeq(S) \in Seq(S)
<1>1. Cardinality(S) \in Nat /\ ExistsBijection(1 .. Cardinality(S), S)
  BY FS_CardinalityType
<1>2. PICK f \in Bijection(1 .. Cardinality(S), S) : TRUE
  BY <1>1 DEF ExistsBijection
<1>3. f \in [1 .. Cardinality(S) -> S] /\ \A a, b \in DOMAIN f : f[a] = f[b] => a = b
  BY <1>2 DEF Bijection, Injection, IsInjective
<1>4. SetToSeq(S) \in [1 .. Cardinality(S) -> S]
  BY <1>3 DEF SetToSeq, IsInjective
<1>5. QED
  BY <1>1, <1>4

\* sync sends no more than a PUT for every pending row, under the token of the moment.
LEMMA PushesProperties ==
    ASSUME NEW table, IsFiniteSet(DOMAIN table), NEW password,
           NEW R, \A i \in Unsynced(table), p \in {password, None} :
                      PushRequest(i, session, table[i].profile, p) \in R
    PROVE  Pushes(table, password) \in Seq(R)
<1> DEFINE rows == Unsynced(table)
           Push(i) == PushRequest(i, session, table[i].profile,
                                  IF i = Min(rows) THEN password ELSE None)
           S == {Push(i) : i \in rows}
           f == [i \in rows |-> Push(i)]
<1>1. IsFiniteSet(rows)
  BY FS_Subset DEF Unsynced
<1>2. f \in Surjection(rows, S)
  BY DEF Surjection
<1>3. IsFiniteSet(S)
  BY <1>1, <1>2, FS_Surjection
<1>4. SetToSeq(S) \in Seq(S)
  BY <1>3, SetToSeqProperties
<1>5. S \subseteq R
  OBVIOUS
<1>6. Pushes(table, password) = SetToSeq(S)
  BY DEF Pushes, PushRequest
<1>7. QED
  BY <1>4, <1>5, <1>6

-----------------------------------------------------------------------------
(* What a step may leave alone                                             *)

Grows ==
    /\ DOMAIN users \subseteq DOMAIN users'
    /\ boards \subseteq boards'
    /\ bucket \subseteq bucket'

\* Accounts, boards and photos do not go, so an old request needs no new look.
LEMMA RequestsKept ==
    ASSUME Requests, Grows, DOMAIN wire' \subseteq Slot,
           \A s \in DOMAIN wire' :
               \/ s \in DOMAIN wire /\ wire'[s] = wire[s]
               \/ Sound(wire'[s], DOMAIN users', boards', bucket')
    PROVE  Requests'
<1>1. ASSUME NEW s \in DOMAIN wire' PROVE Sound(wire'[s], DOMAIN users', boards', bucket')
  <2>1. CASE s \in DOMAIN wire /\ wire'[s] = wire[s]
    <3>1. Sound(wire[s], DOMAIN users, boards, bucket)
      BY <2>1 DEF Requests
    <3>2. QED
      BY <2>1, <3>1, SoundGrows DEF Grows
  <2>2. QED
    BY <2>1
<1>2. QED
  BY <1>1 DEF Requests

LEMMA ClientKept ==
    ASSUME Client, OwnPending, Grows, UNCHANGED client
    PROVE  Client' /\ OwnPending'
  BY DEF Client, OwnPending, Grows, client, Unsynced

LEMMA TablesKept ==
    ASSUME Tables, UNCHANGED server
    PROVE  Tables' /\ Grows
  BY DEF Tables, Grows, server

\* A handler's step changes its own request only.
LEMMA AnsweredRequests ==
    ASSUME Requests, Grows, NEW s \in DOMAIN wire, NEW stage, NEW account, NEW seen,
           Answered(s, stage, account, seen),
           Sound([wire[s] EXCEPT !.stage = stage, !.account = account, !.seen = seen],
                 DOMAIN users', boards', bucket')
    PROVE  Requests'
<1>1. CASE wire' = Without(wire, s)
  <2>1. DOMAIN wire' = DOMAIN wire \ {s} /\ \A i \in DOMAIN wire' : wire'[i] = wire[i]
    BY <1>1 DEF Without, Restrict
  <2>2. QED
    BY <2>1, RequestsKept DEF Requests
<1>2. CASE wire' = [wire EXCEPT ![s].stage = stage, ![s].account = account, ![s].seen = seen]
  <2> DEFINE r == [wire[s] EXCEPT !.stage = stage, !.account = account, !.seen = seen]
  <2>1. DOMAIN wire' = DOMAIN wire
    BY <1>2
  <2>2. wire'[s] = r /\ \A i \in DOMAIN wire \ {s} : wire'[i] = wire[i]
    BY <1>2
  <2>3. QED
    BY <2>1, <2>2, RequestsKept DEF Requests
<1>3. QED
  BY <1>1, <1>2 DEF Answered

\* A request whose work is undone or not begun, and has no answer to give.
LEMMA EmptyAnswer ==
    ASSUME Requests, NEW s \in DOMAIN wire,
           NEW stage \in {"sent", "refused", "error", "timeout", "none"}
    PROVE  Sound([wire[s] EXCEPT !.stage = stage, !.account = Nobody, !.seen = None],
                 DOMAIN users, boards, bucket)
  BY DEF Requests, Sound, Request

\* What Request says of each field.
LEMMA Fields ==
    ASSUME Requests, NEW s \in DOMAIN wire
    PROVE  /\ s \in Slot
           /\ wire[s] \in Request
           /\ Sound(wire[s], DOMAIN users, boards, bucket)
           /\ wire[s].profile \in Profile \cup {None}
           /\ wire[s].password \in Password \cup {None}
  BY DEF Requests, Sound, Request

\* A handler that changes no table.
LEMMA AnswerOnly ==
    ASSUME IInv, NEW s \in DOMAIN wire, NEW stage, NEW account, NEW seen,
           Answered(s, stage, account, seen), UNCHANGED <<server, client>>,
           Sound([wire[s] EXCEPT !.stage = stage, !.account = account, !.seen = seen],
                 DOMAIN users, boards, bucket)
    PROVE  IInv'
<1>1. Tables' /\ Grows
  BY TablesKept DEF IInv
<1>2. Client' /\ OwnPending'
  BY <1>1, ClientKept DEF IInv
<1>3. UNCHANGED <<users, boards, bucket>>
  BY DEF server
<1>4. Requests'
  BY <1>1, <1>3, AnsweredRequests DEF IInv
<1>5. QED
  BY <1>1, <1>2, <1>4 DEF IInv

-----------------------------------------------------------------------------
(* The handlers                                                            *)

LEMMA RefuseKeeps ==
    ASSUME IInv, NEW s \in DOMAIN wire, Refuse(s)
    PROVE  IInv'
  BY EmptyAnswer, AnswerOnly DEF Refuse, IInv

LEMMA DatabaseFailsKeeps ==
    ASSUME IInv, NEW s \in DOMAIN wire, DatabaseFails(s)
    PROVE  IInv'
  BY EmptyAnswer, AnswerOnly DEF DatabaseFails, IInv

LEMMA CreateUserKeeps ==
    ASSUME IInv, NEW s \in DOMAIN wire, CreateUser(s)
    PROVE  IInv'
<1> DEFINE row == NewUser(wire[s])
<1>1. row \in User
  <2>1. wire[s].profile # None /\ wire[s].password # None
    BY DEF CreateUser, Refused, RegisterRefused, Acceptable
  <2>2. QED
    BY <2>1, Fields DEF NewUser, User, IInv
<1>2. /\ users \in Seq(User) /\ Len(users) < MaxAccounts
      /\ users' = Append(users, row)
      /\ UNCHANGED <<boards, bucket, client>>
  BY DEF CreateUser, Insert, IInv, Tables
<1>3. /\ users' \in Seq(User)
      /\ Len(users') <= MaxAccounts
      /\ DOMAIN users \subseteq DOMAIN users'
      /\ Len(users') \in DOMAIN users'
  BY <1>1, <1>2, InsertedTable
<1>4. Tables' /\ Grows
  BY <1>2, <1>3 DEF Tables, Grows, IInv
<1>5. Client' /\ OwnPending'
  BY <1>2, <1>4, ClientKept DEF IInv
<1>6. DOMAIN users' \subseteq Account
  BY <1>3, Ids
<1>7. Sound([wire[s] EXCEPT !.stage = "created", !.account = Len(users'), !.seen = None],
            DOMAIN users', boards', bucket')
  <2>1. Sound(wire[s], DOMAIN users', boards', bucket')
    BY <1>4, Fields, SoundGrows DEF IInv, Grows
  <2>2. wire[s].kind = "register"
    BY DEF CreateUser
  <2> DEFINE r == [wire[s] EXCEPT !.stage = "created", !.account = Len(users'), !.seen = None]
  <2>3. wire[s] \in Request /\ wire[s].token \in DOMAIN users' \cup {Nobody}
    BY <2>1 DEF Sound
  <2>4. r \in Request
    BY <1>3, <1>6, <2>3 DEF Request
  <2>5. /\ r.kind = "register" /\ r.stage = "created" /\ r.account = Len(users')
        /\ r.token = wire[s].token
    BY <2>2, <2>3 DEF Request
  <2> HIDE DEF r
  <2>6. Sound(r, DOMAIN users', boards', bucket')
    BY <1>3, <2>3, <2>4, <2>5 DEF Sound
  <2>7. QED
    BY <2>6 DEF r
<1>8. Answered(s, "created", Len(users'), None)
  BY DEF CreateUser
<1>9. Requests'
  BY <1>4, <1>7, <1>8, AnsweredRequests DEF IInv
<1>10. QED
  BY <1>4, <1>5, <1>9 DEF IInv

LEMMA CreateBoardKeeps ==
    ASSUME IInv, NEW s \in DOMAIN wire, CreateBoard(s)
    PROVE  IInv'
<1>1. /\ wire[s].stage = "created" /\ wire[s].kind = "register"
      /\ wire[s].account \in DOMAIN users
  BY Fields DEF CreateBoard, IInv, Sound
<1>2. /\ boards' = boards \cup {wire[s].account}
      /\ Answered(s, "ok", wire[s].account, None)
      /\ UNCHANGED <<users, bucket, client>>
  BY DEF CreateBoard
<1>3. Tables' /\ Grows
  BY <1>1, <1>2 DEF Tables, Grows, IInv
<1>4. Client' /\ OwnPending'
  BY <1>2, <1>3, ClientKept DEF IInv
<1>5. Sound([wire[s] EXCEPT !.stage = "ok", !.account = wire[s].account, !.seen = None],
            DOMAIN users', boards', bucket')
  <2>1. Sound(wire[s], DOMAIN users', boards', bucket')
    BY <1>3, Fields, SoundGrows DEF IInv, Grows
  <2>2. QED
    BY <1>1, <1>2, <2>1 DEF Sound, Request
<1>6. Requests'
  BY <1>2, <1>3, <1>5, AnsweredRequests DEF IInv
<1>7. QED
  BY <1>3, <1>4, <1>6 DEF IInv

\* ServeLogin, ServeInfo and ReadUser answer with a row of the table.
LEMMA FoundRow ==
    ASSUME IInv, NEW s \in DOMAIN wire, NEW i \in DOMAIN users,
           NEW stage \in {"read", "ok"},
           wire[s].kind \in {"login", "info", "edit", "upload", "delete"},
           stage = "ok" => wire[s].kind \in {"login", "info"},
           stage = "read" => /\ wire[s].kind \in {"edit", "upload", "delete"}
                             /\ wire[s].profile # None
    PROVE  Sound([wire[s] EXCEPT !.stage = stage, !.account = i, !.seen = users[i]],
                 DOMAIN users, boards, bucket)
<1>1. users[i] \in User /\ i \in Account
  BY Ids DEF IInv, Tables
<1>2. QED
  BY <1>1, Fields DEF IInv, Sound, Request

LEMMA ServeLoginKeeps ==
    ASSUME IInv, NEW s \in DOMAIN wire, ServeLogin(s)
    PROVE  IInv'
<1>1. PICK i \in DOMAIN users : Answered(s, "ok", i, users[i])
  BY DEF ServeLogin
<1>2. wire[s].kind = "login"
  BY DEF ServeLogin
<1>3. UNCHANGED <<server, client>>
  BY DEF ServeLogin
<1>4. Sound([wire[s] EXCEPT !.stage = "ok", !.account = i, !.seen = users[i]],
            DOMAIN users, boards, bucket)
  BY <1>2, FoundRow
<1>5. QED
  BY <1>1, <1>3, <1>4, AnswerOnly

\* Behind with_auth a token names an account.
LEMMA TokenIsAccount ==
    ASSUME IInv, NEW s \in DOMAIN wire, ~Refused(wire[s]),
           wire[s].kind \in {"info", "edit", "upload", "delete"}
    PROVE  /\ wire[s].token \in DOMAIN users
           /\ wire[s].kind # "info" => wire[s].profile # None
  BY Fields DEF IInv, Sound, Refused, EditRefused, Acceptable

LEMMA ServeInfoKeeps ==
    ASSUME IInv, NEW s \in DOMAIN wire, ServeInfo(s)
    PROVE  IInv'
<1> DEFINE i == wire[s].token
<1>1. wire[s].kind = "info" /\ i \in DOMAIN users
  BY TokenIsAccount DEF ServeInfo
<1>2. Answered(s, "ok", i, users[i]) /\ UNCHANGED <<server, client>>
  BY DEF ServeInfo
<1>3. Sound([wire[s] EXCEPT !.stage = "ok", !.account = i, !.seen = users[i]],
            DOMAIN users, boards, bucket)
  BY <1>1, FoundRow
<1>4. QED
  BY <1>2, <1>3, AnswerOnly

LEMMA ReadUserKeeps ==
    ASSUME IInv, NEW s \in DOMAIN wire, ReadUser(s)
    PROVE  IInv'
<1> DEFINE i == wire[s].token
<1>1. /\ wire[s].kind \in {"edit", "upload", "delete"}
      /\ i \in DOMAIN users
      /\ wire[s].profile # None
  BY TokenIsAccount DEF ReadUser
<1>2. Answered(s, "read", i, users[i]) /\ UNCHANGED <<server, client>>
  BY DEF ReadUser
<1>3. Sound([wire[s] EXCEPT !.stage = "read", !.account = i, !.seen = users[i]],
            DOMAIN users, boards, bucket)
  BY <1>1, FoundRow
<1>4. QED
  BY <1>2, <1>3, AnswerOnly

\* A row read and the fields of an accepted request make a row.
LEMMA UpdatedRow ==
    ASSUME IInv, NEW s \in DOMAIN wire, wire[s].stage \in {"read", "saved"},
           NEW avatar \in BOOLEAN
    PROVE  /\ Updated(wire[s], avatar) \in User
           /\ wire[s].seen \in User
           /\ wire[s].profile # None
           /\ wire[s].account \in DOMAIN users
<1>1. wire[s].seen \in User /\ wire[s].profile # None /\ wire[s].account \in DOMAIN users
  BY Fields DEF IInv, Sound
<1>2. wire[s].profile \in Profile /\ wire[s].password \in Password \cup {None}
  BY <1>1, Fields DEF IInv
<1>3. QED
  BY <1>1, <1>2 DEF Updated, User

\* A row is saved whole: the table keeps its ids.
LEMMA TableSaved ==
    ASSUME IInv, NEW id \in DOMAIN users, NEW row \in User, Update(id, row),
           boards' = boards, bucket' = bucket
    PROVE  Tables' /\ Grows /\ DOMAIN users' = DOMAIN users
<1>1. /\ users \in Seq(User) /\ Len(users) <= MaxAccounts
      /\ users' = [users EXCEPT ![id] = row]
  BY DEF IInv, Tables, Update
<1>2. users' \in Seq(User) /\ Len(users') = Len(users) /\ DOMAIN users' = DOMAIN users
  BY <1>1, UpdatedTable
<1>3. QED
  BY <1>1, <1>2 DEF Tables, Grows, IInv

LEMMA SaveKeeps ==
    ASSUME IInv, NEW s \in DOMAIN wire, NEW row \in User, NEW seen \in User,
           NEW stage \in {"saved", "ok"}, Save(s, row, stage, seen),
           stage = "saved" => wire[s].kind = "upload",
           stage = "ok" => wire[s].kind \in {"edit", "delete"}
    PROVE  IInv'
<1> DEFINE id == wire[s].account
<1>1. /\ wire[s].stage = "read" /\ UNCHANGED <<boards, bucket, client>>
      /\ boards' = boards /\ bucket' = bucket
  BY DEF Save
<1>2. id \in DOMAIN users /\ wire[s].profile # None
  BY <1>1, UpdatedRow
<1>3. CASE UNCHANGED users /\ Answered(s, "refused", Nobody, None)
  <2>1. UNCHANGED <<server, client>>
    BY <1>1, <1>3 DEF server
  <2>2. QED
    BY <1>3, <2>1, EmptyAnswer, AnswerOnly DEF IInv
<1>4. CASE Update(id, row) /\ Answered(s, stage, id, seen)
  <2>1. Tables' /\ Grows /\ DOMAIN users' = DOMAIN users
    BY <1>1, <1>2, <1>4, TableSaved
  <2>2. Client' /\ OwnPending'
    BY <1>1, <2>1, ClientKept DEF IInv
  <2>3. Sound([wire[s] EXCEPT !.stage = stage, !.account = id, !.seen = seen],
              DOMAIN users', boards', bucket')
    BY <1>1, <1>2, <2>1, Fields DEF IInv, Sound, Request
  <2>4. Requests'
    BY <1>4, <2>1, <2>3, AnsweredRequests DEF IInv
  <2>5. QED
    BY <2>1, <2>2, <2>4 DEF IInv
<1>5. QED
  BY <1>3, <1>4 DEF Save

LEMMA SaveEditKeeps ==
    ASSUME IInv, NEW s \in DOMAIN wire, SaveEdit(s)
    PROVE  IInv'
<1> DEFINE row == Updated(wire[s], wire[s].seen.avatar)
<1>1. wire[s].kind = "edit" /\ wire[s].stage = "read" /\ Save(s, row, "ok", row)
  BY DEF SaveEdit, Save
<1>2. wire[s].seen \in User
  BY <1>1, UpdatedRow
<1>3. wire[s].seen.avatar \in BOOLEAN
  BY <1>2 DEF User
<1>4. row \in User
  BY <1>1, <1>3, UpdatedRow
<1>5. QED
  BY <1>1, <1>4, SaveKeeps

LEMMA SaveDeleteKeeps ==
    ASSUME IInv, NEW s \in DOMAIN wire, SaveDelete(s)
    PROVE  IInv'
<1> DEFINE row == Updated(wire[s], FALSE)
<1>1. wire[s].kind = "delete" /\ wire[s].stage = "read" /\ Save(s, row, "ok", row)
  BY DEF SaveDelete, Save
<1>2. row \in User
  BY <1>1, UpdatedRow
<1>3. QED
  BY <1>1, <1>2, SaveKeeps

LEMMA SaveUploadKeeps ==
    ASSUME IInv, NEW s \in DOMAIN wire, SaveUpload(s)
    PROVE  IInv'
<1>1. /\ wire[s].kind = "upload" /\ wire[s].stage = "read"
      /\ Save(s, Updated(wire[s], TRUE), "saved", wire[s].seen)
  BY DEF SaveUpload, Save
<1>2. Updated(wire[s], TRUE) \in User /\ wire[s].seen \in User
  BY <1>1, UpdatedRow
<1>3. QED
  BY <1>1, <1>2, SaveKeeps

LEMMA StorePhotoKeeps ==
    ASSUME IInv, NEW s \in DOMAIN wire, StorePhoto(s)
    PROVE  IInv'
<1> DEFINE id == wire[s].account
           row == Updated(wire[s], TRUE)
<1>1. /\ wire[s].stage = "saved"
      /\ bucket' = bucket \cup {id}
      /\ Answered(s, "ok", id, row)
      /\ UNCHANGED <<users, boards, client>>
  BY DEF StorePhoto
<1>2. row \in User /\ id \in DOMAIN users
  BY <1>1, UpdatedRow
<1>3. wire[s].kind = "upload"
  BY <1>1, Fields DEF IInv, Sound
<1>4. Tables' /\ Grows
  BY <1>1, <1>2 DEF Tables, Grows, IInv
<1>5. Client' /\ OwnPending'
  BY <1>1, <1>4, ClientKept DEF IInv
<1>6. Sound([wire[s] EXCEPT !.stage = "ok", !.account = id, !.seen = row],
            DOMAIN users', boards', bucket')
  <2>1. Sound(wire[s], DOMAIN users', boards', bucket')
    BY <1>4, Fields, SoundGrows DEF IInv, Grows
  <2> HIDE DEF row
  <2>2. QED
    BY <1>1, <1>2, <1>3, <2>1 DEF Sound, Request
<1>7. Requests'
  BY <1>1, <1>4, <1>6, AnsweredRequests DEF IInv
<1>8. QED
  BY <1>4, <1>5, <1>7 DEF IInv

\* The row that is written back was read for the same account.
LEMMA StoreFailsKeeps ==
    ASSUME IInv, NEW s \in DOMAIN wire, StoreFails(s)
    PROVE  IInv'
<1> DEFINE r == wire[s]
<1>1. /\ r.stage = "saved"
      /\ UNCHANGED users \/ Update(r.account, r.seen)
      /\ Answered(s, "error", Nobody, None)
      /\ boards' = boards /\ bucket' = bucket
      /\ UNCHANGED client
  BY DEF StoreFails
<1>2. r.seen \in User /\ r.account \in DOMAIN users
  BY <1>1, UpdatedRow
<1>3. Tables' /\ Grows /\ DOMAIN users' = DOMAIN users
  <2>1. CASE UNCHANGED users
    BY <1>1, <2>1, TablesKept DEF IInv, server
  <2>2. CASE Update(r.account, r.seen)
    BY <1>1, <1>2, <2>2, TableSaved
  <2>3. QED
    BY <1>1, <2>1, <2>2
<1>4. Client' /\ OwnPending'
  BY <1>1, <1>3, ClientKept DEF IInv
<1>5. Sound([wire[s] EXCEPT !.stage = "error", !.account = Nobody, !.seen = None],
            DOMAIN users', boards', bucket')
  BY <1>1, <1>3, EmptyAnswer DEF IInv
<1>6. Requests'
  BY <1>1, <1>3, <1>5, AnsweredRequests DEF IInv
<1>7. QED
  BY <1>3, <1>4, <1>6 DEF IInv

-----------------------------------------------------------------------------
(* The client                                                              *)

\* Requests the client may send.
Good == {r \in Request : Sound(r, DOMAIN users, boards, bucket)}

LEMMA NewIsGood ==
    ASSUME IInv, NEW kind \in {"register", "login", "info", "upload", "delete"},
           NEW token \in DOMAIN users \cup {Nobody},
           NEW profile \in Profile \cup {None}, NEW password \in Password \cup {None}
    PROVE  NewRequest(kind, token, profile, password) \in Good
<1>1. DOMAIN users \subseteq Account
  BY Ids DEF IInv, Tables
<1>2. Sound(NewRequest(kind, token, profile, password), DOMAIN users, boards, bucket)
  BY <1>1, NewRequestSound
<1>3. QED
  BY <1>2 DEF Good, Sound

LEMMA PushIsGood ==
    ASSUME IInv, NEW i \in DOMAIN users, NEW token \in {i, Nobody},
           NEW profile \in Profile \cup {None}, NEW password \in Password \cup {None}
    PROVE  PushRequest(i, token, profile, password) \in Good
<1>1. DOMAIN users \subseteq Account
  BY Ids DEF IInv, Tables
<1>2. Sound(PushRequest(i, token, profile, password), DOMAIN users, boards, bucket)
  BY <1>1, PushRequestSound
<1>3. QED
  BY <1>2 DEF Good, Sound

LEMMA WireIsGood ==
    ASSUME IInv
    PROVE  DOMAIN wire \subseteq Slot /\ \A s \in DOMAIN wire : wire[s] \in Good
  BY DEF IInv, Requests, Good, Sound

\* It is safe to send good requests.
LEMMA SendKeeps ==
    ASSUME IInv, UNCHANGED server,
           NEW w, DOMAIN w \subseteq Slot, \A s \in DOMAIN w : w[s] \in Good,
           NEW requests \in Seq(Good), wire' = PutAll(w, requests)
    PROVE  Requests'
<1>1. /\ DOMAIN wire' \subseteq Slot
      /\ \A s \in DOMAIN wire' : (s \in DOMAIN w /\ wire'[s] = w[s]) \/ wire'[s] \in Good
  BY PutAllProperties
<1>2. \A s \in DOMAIN wire' : Sound(wire'[s], DOMAIN users, boards, bucket)
  BY <1>1 DEF Good
<1>3. QED
  BY <1>1, <1>2 DEF Requests, server

LEMMA PutKeeps ==
    ASSUME IInv, UNCHANGED server,
           NEW w, DOMAIN w \subseteq Slot, \A s \in DOMAIN w : w[s] \in Good,
           NEW request \in Good, wire' = Put(w, request)
    PROVE  Requests'
<1>1. <<request>> \in Seq(Good) /\ wire' = PutAll(w, <<request>>)
  BY DEF Put
<1>2. QED
  BY <1>1, SendKeeps

LEMMA WithoutRequest ==
    ASSUME NEW s
    PROVE  /\ DOMAIN Without(wire, s) = DOMAIN wire \ {s}
           /\ \A i \in DOMAIN Without(wire, s) : Without(wire, s)[i] = wire[i]
  BY DEF Without, Restrict

\* An answer that is taken off the wire.
LEMMA TakenOff ==
    ASSUME IInv, UNCHANGED server, NEW s, wire' = Without(wire, s)
    PROVE  Requests'
<1>1. Grows
  BY TablesKept DEF IInv
<1>2. QED
  BY <1>1, WithoutRequest, RequestsKept DEF IInv, Requests

-----------------------------------------------------------------------------
(* The client's table users                                                *)

LocalTable(table, ids) ==
    DOMAIN table \subseteq ids /\ \A i \in DOMAIN table : table[i] \in LocalUser

LEMMA SavedTable ==
    ASSUME NEW table, NEW ids, LocalTable(table, ids), NEW id \in ids, NEW row \in LocalUser
    PROVE  /\ LocalTable(Saved(table, id, row), ids)
           /\ Unsynced(Saved(table, id, row)) \subseteq Unsynced(table) \cup {id}
           /\ row.sync_status # "pending" =>
                 Unsynced(Saved(table, id, row)) \subseteq Unsynced(table)
  BY DEF LocalTable, Saved, Unsynced

\* What the server says never makes a row pending.
LEMMA SavedFromServerTable ==
    ASSUME NEW table, NEW ids, LocalTable(table, ids), NEW id \in ids, NEW profile \in Profile
    PROVE  /\ LocalTable(SavedFromServer(table, id, profile), ids)
           /\ Unsynced(SavedFromServer(table, id, profile)) \subseteq Unsynced(table)
<1> DEFINE conflict == [table[id] EXCEPT !.sync_status = "conflict"]
           synced == [profile |-> profile, changed |-> 0, sync_status |-> "synced"]
<1>1. CASE SavedFromServer(table, id, profile) = table
  BY <1>1
<1>2. CASE id \in DOMAIN table /\ SavedFromServer(table, id, profile) = Saved(table, id, conflict)
  <2>1. conflict \in LocalUser /\ conflict.sync_status # "pending"
    BY <1>2 DEF LocalTable, LocalUser
  <2> HIDE DEF conflict
  <2>2. QED
    BY <1>2, <2>1, SavedTable
<1>3. CASE SavedFromServer(table, id, profile) = Saved(table, id, synced)
  <2>1. synced \in LocalUser /\ synced.sync_status # "pending"
    BY DEF LocalUser
  <2> HIDE DEF synced
  <2>2. QED
    BY <1>3, <2>1, SavedTable
<1>4. QED
  BY <1>1, <1>2, <1>3 DEF SavedFromServer

LEMMA MarkedSyncedTable ==
    ASSUME NEW table, NEW ids, LocalTable(table, ids), NEW id
    PROVE  /\ LocalTable(MarkedSynced(table, id), ids)
           /\ Unsynced(MarkedSynced(table, id)) \subseteq Unsynced(table)
  BY DEF LocalTable, MarkedSynced, Unsynced, LocalUser

LEMMA LocalIsTable == ASSUME IInv PROVE LocalTable(local, DOMAIN users)
  BY DEF IInv, Client, LocalTable

-----------------------------------------------------------------------------
(* The screens                                                             *)

\* A step of the client that leaves its table and what it sends alone.
LEMMA ClientOnly ==
    ASSUME IInv, UNCHANGED <<server, session, local, pending_password, wire>>,
           screen' \in {"welcome", "login", "registration", "dashboard", "profile"},
           form' \in [profile : Profile \cup {None}, password : Password \cup {None},
                      photo : BOOLEAN],
           edit_screen' \in BOOLEAN, avatar_key' \in BOOLEAN
    PROVE  IInv'
<1>1. Tables' /\ Grows
  BY TablesKept DEF IInv
<1>2. Requests'
  BY <1>1, RequestsKept DEF IInv, Requests
<1>3. Client' /\ OwnPending'
  BY DEF IInv, Client, OwnPending, Unsynced, server
<1>4. QED
  BY <1>1, <1>2, <1>3 DEF IInv

LEMMA OpenScreenKeeps ==
    ASSUME IInv, NEW s \in {"login", "registration"}, OpenScreen(s)
    PROVE  IInv'
<1>1. Blank \in [profile : Profile \cup {None}, password : Password \cup {None},
                 photo : BOOLEAN]
  BY DEF Blank
<1>2. QED
  BY <1>1, ClientOnly DEF OpenScreen, IInv, Client

LEMMA OpenDashboardKeeps ==
    ASSUME IInv, OpenDashboard
    PROVE  IInv'
<1>1. Blank \in [profile : Profile \cup {None}, password : Password \cup {None},
                 photo : BOOLEAN]
  BY DEF Blank
<1>2. QED
  BY <1>1, ClientOnly DEF OpenDashboard, IInv, Client

LEMMA LogoutKeeps ==
    ASSUME IInv, Logout
    PROVE  IInv'
<1>1. UNCHANGED server /\ UNCHANGED wire
  BY DEF Logout
<1>2. Tables' /\ Grows
  BY <1>1, TablesKept DEF IInv
<1>3. Requests'
  BY <1>1, <1>2, RequestsKept DEF IInv, Requests
<1>4. DOMAIN local' = {}
  BY DEF Logout
<1>5. Client' /\ OwnPending'
  BY <1>4 DEF Logout, IInv, Client, OwnPending, Unsynced, Nobody
<1>6. QED
  BY <1>2, <1>3, <1>5 DEF IInv

\* One request sent, and nothing else but the fields of the registration screen and
\* a screen that is there.
LEMMA OneRequest ==
    ASSUME IInv, UNCHANGED <<server, session, local, pending_password, screen, avatar_key>>,
           form' \in [profile : Profile \cup {None}, password : Password \cup {None},
                      photo : BOOLEAN],
           edit_screen' \in BOOLEAN,
           NEW request \in Good, wire' = Put(wire, request)
    PROVE  IInv'
<1>1. Tables' /\ Grows
  BY TablesKept DEF IInv
<1>2. Requests'
  BY WireIsGood, PutKeeps
<1>3. Client' /\ OwnPending'
  BY DEF IInv, Client, OwnPending, Unsynced, server
<1>4. QED
  BY <1>1, <1>2, <1>3 DEF IInv

LEMMA SessionIsToken == ASSUME IInv PROVE session \in DOMAIN users \cup {Nobody}
  BY DEF IInv, Client

LEMMA RegisterKeeps ==
    ASSUME IInv, NEW profile \in Profile, NEW password \in Password, NEW photo \in BOOLEAN,
           Register(profile, password, photo)
    PROVE  IInv'
<1> DEFINE r == NewRequest("register", session, profile, password)
<1>1. r \in Good
  BY SessionIsToken, NewIsGood
<1> HIDE DEF r
<1>2. wire' = Put(wire, r)
  BY DEF Register, r
<1>3. QED
  BY <1>1, <1>2, OneRequest DEF Register, IInv, Client

LEMMA OpenProfileEditKeeps ==
    ASSUME IInv, OpenProfileEdit
    PROVE  IInv'
<1>1. InfoRequest \in Good
  BY SessionIsToken, NewIsGood DEF InfoRequest
<1>2. QED
  BY <1>1, OneRequest DEF OpenProfileEdit, IInv, Client

LEMMA LoginKeeps ==
    ASSUME IInv, NEW profile \in Profile, NEW password \in Password,
           Login(profile, password)
    PROVE  IInv'
<1> DEFINE r == NewRequest("login", session, profile, password)
<1>1. r \in Good
  BY SessionIsToken, NewIsGood
<1> HIDE DEF r
<1>2. wire' = Put(wire, r)
  BY DEF Login, r
<1>3. QED
  BY <1>1, <1>2, OneRequest DEF Login, client, IInv, Client

LEMMA SavePhotoKeeps ==
    ASSUME IInv, NEW kind \in {"upload", "delete"}, NEW profile \in Profile,
           NEW password \in Password \cup {None}, SavePhoto(kind, profile, password)
    PROVE  IInv'
<1> DEFINE r == NewRequest(kind, session, profile, password)
<1>1. r \in Good
  BY SessionIsToken, NewIsGood
<1> HIDE DEF r
<1>2. wire' = Put(wire, r)
  BY DEF SavePhoto, r
<1>3. QED
  BY <1>1, <1>2, OneRequest DEF SavePhoto, client, IInv, Client

\* What sync and the load of the user send, of a table of the session's account.
LEMMA SyncRequests ==
    ASSUME IInv, NEW table, LocalTable(table, DOMAIN users),
           session # Nobody => Unsynced(table) \subseteq {session},
           NEW password \in Password \cup {None}
    PROVE  Append(Pushes(table, password), InfoRequest) \in Seq(Good)
<1>1. IsFiniteSet(DOMAIN table)
  <2>1. IsFiniteSet(DOMAIN users)
    BY Ids, FS_Interval DEF IInv, Tables
  <2>2. QED
    BY <2>1, FS_Subset DEF LocalTable
<1>2. ASSUME NEW i \in Unsynced(table), NEW p \in {password, None}
      PROVE  PushRequest(i, session, table[i].profile, p) \in Good
  <2>1. table[i].profile \in Profile /\ i \in DOMAIN users
    BY DEF Unsynced, LocalTable, LocalUser
  <2>2. session \in {i, Nobody}
    OBVIOUS
  <2>3. QED
    BY <2>1, <2>2, PushIsGood
<1>3. Pushes(table, password) \in Seq(Good)
  BY <1>1, <1>2, PushesProperties
<1>4. InfoRequest \in Good
  BY SessionIsToken, NewIsGood DEF InfoRequest
<1>5. QED
  BY <1>3, <1>4, AppendProperties

LEMMA SaveProfileKeeps ==
    ASSUME IInv, NEW profile \in Profile, NEW password \in Password \cup {None},
           NEW changed \in 0 .. 1, SaveProfile(profile, password, changed)
    PROVE  IInv'
<1> DEFINE id == EditedUser
           row == Edited(local[id], profile, changed)
           given == IF password = None THEN pending_password ELSE password
<1>1. /\ id \in DOMAIN local
      /\ local' = Saved(local, id, row)
      /\ wire' = PutAll(wire, Append(Pushes(local', given), InfoRequest))
      /\ pending_password' = None
      /\ UNCHANGED server
      /\ UNCHANGED <<session, screen, form, edit_screen, avatar_key>>
  BY DEF SaveProfile
<1>2. id \in DOMAIN users
  BY <1>1 DEF IInv, Client
<1>3. row \in LocalUser
  BY <1>1 DEF IInv, Client, Edited, LocalUser
<1>4. given \in Password \cup {None}
  BY DEF IInv, Client
<1>5. session # Nobody => id = session
  BY DEF EditedUser
<1> HIDE DEF id, row, given
<1>6. LocalTable(local', DOMAIN users) /\ Unsynced(local') \subseteq Unsynced(local) \cup {id}
  BY <1>1, <1>2, <1>3, LocalIsTable, SavedTable
<1>7. session # Nobody => Unsynced(local') \subseteq {session}
  BY <1>5, <1>6 DEF IInv, OwnPending
<1>8. Tables' /\ Grows
  BY <1>1, TablesKept DEF IInv
<1>9. Append(Pushes(local', given), InfoRequest) \in Seq(Good)
  BY <1>4, <1>6, <1>7, SyncRequests
<1>10. Requests'
  BY <1>1, <1>9, WireIsGood, SendKeeps
<1>11. Client'
  BY <1>1, <1>6, <1>8 DEF IInv, Client, LocalTable, Grows
<1>12. OwnPending'
  BY <1>1, <1>7 DEF OwnPending, Unsynced
<1>13. QED
  BY <1>8, <1>10, <1>11, <1>12 DEF IInv

LEMMA PeriodicSyncKeeps ==
    ASSUME IInv, PeriodicSync
    PROVE  IInv'
<1>1. /\ wire' = PutAll(wire, Append(Pushes(local, pending_password), InfoRequest))
      /\ pending_password' \in {pending_password, None}
      /\ UNCHANGED server
      /\ UNCHANGED <<session, local, screen, form, edit_screen, avatar_key>>
  BY DEF PeriodicSync
<1>2. pending_password \in Password \cup {None} /\ pending_password = None
  BY DEF IInv, Client, OwnPending
<1>3. Tables' /\ Grows
  BY <1>1, TablesKept DEF IInv
<1>4. Append(Pushes(local, pending_password), InfoRequest) \in Seq(Good)
  BY <1>2, LocalIsTable, SyncRequests DEF IInv, OwnPending
<1>5. Requests'
  BY <1>1, <1>4, WireIsGood, SendKeeps
<1>6. Client' /\ OwnPending'
  BY <1>1, <1>2, <1>3 DEF IInv, Client, OwnPending, Grows, Unsynced
<1>7. QED
  BY <1>3, <1>5, <1>6 DEF IInv

-----------------------------------------------------------------------------
(* Answers                                                                 *)

LEMMA GiveUpKeeps ==
    ASSUME IInv, NEW s \in DOMAIN wire, NEW stage \in {"timeout", "none"}, GiveUp(s, stage)
    PROVE  IInv'
<1> DEFINE failed == [wire[s] EXCEPT !.stage = stage, !.account = Nobody, !.seen = None]
           unheard == [wire EXCEPT ![s].heard = FALSE]
<1>1. UNCHANGED <<server, client>>
  BY DEF GiveUp
<1>2. Tables' /\ Grows
  BY <1>1, TablesKept DEF IInv
<1>3. Client' /\ OwnPending'
  BY <1>1, <1>2, ClientKept DEF IInv
<1>4. failed \in Good
  <2>1. Sound(failed, DOMAIN users, boards, bucket)
    BY EmptyAnswer DEF IInv
  <2>2. QED
    BY <2>1 DEF Good, Sound
<1>5. CASE wire' = [wire EXCEPT ![s] = failed]
  <2> HIDE DEF failed
  <2>1. DOMAIN wire' = DOMAIN wire /\ \A i \in DOMAIN wire' : wire'[i] \in Good
    BY <1>4, <1>5, WireIsGood
  <2>2. DOMAIN wire' \subseteq Slot
    BY <2>1, WireIsGood
  <2>3. Requests'
    BY <1>1, <2>1, <2>2 DEF Requests, Good, server
  <2>4. QED
    BY <1>2, <1>3, <2>3 DEF IInv
<1>6. CASE wire' = Put(unheard, failed)
  <2>1. [wire[s] EXCEPT !.heard = FALSE] \in Good
    <3> DEFINE r == [wire[s] EXCEPT !.heard = FALSE]
    <3>1. wire[s] \in Request /\ Sound(wire[s], DOMAIN users, boards, bucket)
      BY Fields DEF IInv
    <3>2. r \in Request
      BY <3>1 DEF Request
    <3>3. /\ r.kind = wire[s].kind /\ r.token = wire[s].token /\ r.row = wire[s].row
          /\ r.profile = wire[s].profile /\ r.retries = wire[s].retries
          /\ r.stage = wire[s].stage /\ r.account = wire[s].account
          /\ r.seen = wire[s].seen
      BY <3>1 DEF Request
    <3> HIDE DEF r
    <3>4. Sound(r, DOMAIN users, boards, bucket)
      BY <3>1, <3>2, <3>3 DEF Sound
    <3>5. QED
      BY <3>2, <3>4 DEF Good, r
  <2>2. DOMAIN unheard \subseteq Slot /\ \A i \in DOMAIN unheard : unheard[i] \in Good
    BY <2>1, WireIsGood
  <2> HIDE DEF failed, unheard
  <2>3. Requests'
    BY <1>1, <1>4, <1>6, <2>2, PutKeeps
  <2>4. QED
    BY <1>2, <1>3, <2>3 DEF IInv
<1>7. QED
  BY <1>5, <1>6 DEF GiveUp

\* A retry starts from nothing, with a token that is still an account's.
LEMMA ResendKeeps ==
    ASSUME IInv, NEW s \in DOMAIN wire, Resend(s)
    PROVE  IInv'
<1> DEFINE again == [wire[s] EXCEPT !.stage = "sent", !.token = session,
                                    !.retries = wire[s].retries + 1]
<1>1. /\ wire[s].stage \in {"error", "timeout"}
      /\ wire[s].retries < MaxRetries
      /\ wire' = [wire EXCEPT ![s].stage = "sent", ![s].token = session, ![s].retries = @ + 1]
      /\ UNCHANGED <<server, client>>
  BY DEF Resend, Retryable
<1>2. Tables' /\ Grows
  BY <1>1, TablesKept DEF IInv
<1>3. Client' /\ OwnPending'
  BY <1>1, <1>2, ClientKept DEF IInv
<1>4. wire[s].retries + 1 \in 0 .. MaxRetries
  BY <1>1, Bounds, Fields DEF IInv, Request
<1>5. session \in Account \cup {Nobody}
  BY SessionIsToken, Ids DEF IInv, Tables
<1>6. again \in Good
  <2>1. wire[s] \in Request /\ wire[s].retries \in Nat
    BY Bounds, Fields DEF IInv, Request
  <2>2. again \in Request
    BY <1>4, <1>5, <2>1 DEF Request
  <2>3. /\ again.token = session /\ again.stage = "sent"
        /\ again.retries = wire[s].retries + 1
    BY <2>1 DEF Request
  <2> HIDE DEF again
  <2>4. again.retries # 0 /\ session \in DOMAIN users \cup {Nobody}
    BY <2>1, <2>3, SessionIsToken
  <2>5. Sound(again, DOMAIN users, boards, bucket)
    BY <2>2, <2>3, <2>4 DEF Sound
  <2>6. QED
    BY <2>2, <2>5 DEF Good
<1>7. DOMAIN wire' = DOMAIN wire /\ wire'[s] = again
  BY <1>1
<1> HIDE DEF again
<1>8. \A i \in DOMAIN wire' : wire'[i] \in Good
  BY <1>1, <1>6, <1>7, WireIsGood
<1>9. Requests'
  BY <1>1, <1>7, <1>8, WireIsGood DEF Requests, Good, server
<1>10. QED
  BY <1>2, <1>3, <1>9 DEF IInv

LEMMA DeliverFailureKeeps ==
    ASSUME IInv, NEW s \in DOMAIN wire, DeliverFailure(s)
    PROVE  IInv'
<1>1. UNCHANGED <<server, client>> /\ wire' = Without(wire, s)
  BY DEF DeliverFailure
<1>2. QED
  BY <1>1, TablesKept, ClientKept, TakenOff DEF IInv

\* What is left on the wire is good.
LEMMA RestIsGood ==
    ASSUME IInv, NEW s
    PROVE  /\ DOMAIN Without(wire, s) \subseteq Slot
           /\ \A i \in DOMAIN Without(wire, s) : Without(wire, s)[i] \in Good
  BY WithoutRequest, WireIsGood

LEMMA DeliverRegisterKeeps ==
    ASSUME IInv, NEW s \in DOMAIN wire, DeliverRegister(s)
    PROVE  IInv'
<1> DEFINE r == NewRequest("login", session, form.profile, form.password)
<1>1. UNCHANGED <<server, client>>
  BY DEF DeliverRegister
<1>2. Tables' /\ Grows /\ Client' /\ OwnPending'
  BY <1>1, TablesKept, ClientKept DEF IInv
<1>3. r \in Good
  BY SessionIsToken, NewIsGood DEF IInv, Client
<1> HIDE DEF r
<1>4. CASE wire' = Without(wire, s)
  BY <1>1, <1>2, <1>4, TakenOff DEF IInv
<1>5. CASE wire' = Put(Without(wire, s), r)
  <2>1. Requests'
    BY <1>1, <1>3, <1>5, RestIsGood, PutKeeps
  <2>2. QED
    BY <1>2, <2>1 DEF IInv
<1>6. QED
  BY <1>4, <1>5 DEF DeliverRegister, r

\* An answer with a row is about an account there is.
LEMMA AnsweredRow ==
    ASSUME IInv, NEW s \in DOMAIN wire, wire[s].stage = "ok", wire[s].kind # "register"
    PROVE  wire[s].account \in DOMAIN users /\ wire[s].seen.profile \in Profile
  BY Fields DEF IInv, Sound, User

LEMMA DeliverLoginKeeps ==
    ASSUME IInv, NEW s \in DOMAIN wire, DeliverLogin(s)
    PROVE  IInv'
<1> DEFINE id == wire[s].account
           info == NewRequest("info", id, None, None)
           upload == NewRequest("upload", id, form.profile, form.password)
           rest == Without(wire, s)
<1>1. wire[s].kind = "login" /\ wire[s].stage = "ok"
  BY DEF DeliverLogin, Delivered
<1>2. id \in DOMAIN users /\ wire[s].seen.profile \in Profile
  BY <1>1, AnsweredRow
<1>3. UNCHANGED server /\ UNCHANGED <<pending_password, form, edit_screen, avatar_key>>
  BY DEF DeliverLogin
<1>4. Tables' /\ Grows
  BY <1>3, TablesKept DEF IInv
<1>5. CASE wire' = rest /\ UNCHANGED <<session, local, screen>>
  <2>1. Client' /\ OwnPending'
    BY <1>3, <1>4, <1>5, ClientKept DEF IInv, client
  <2>2. QED
    BY <1>3, <1>4, <1>5, <2>1, TakenOff DEF IInv
<1>6. CASE /\ session' = id
           /\ local' = SavedFromServer(<<>>, id, wire[s].seen.profile)
           /\ screen' = IF screen = "login" THEN "welcome" ELSE screen
           /\ wire' \in {PutAll(rest, <<info, upload>>), PutAll(rest, <<info>>)}
  <2>1. info \in Good /\ upload \in Good
    BY <1>2, NewIsGood DEF IInv, Client
  <2> HIDE DEF info, upload, rest
  <2>2. <<info, upload>> \in Seq(Good) /\ <<info>> \in Seq(Good)
    BY <2>1
  <2>3. Requests'
    BY <1>3, <1>6, <2>2, RestIsGood, SendKeeps DEF rest
  <2>4. LocalTable(<<>>, DOMAIN users) /\ Unsynced(<<>>) = {}
    BY DEF LocalTable, Unsynced
  <2>5. LocalTable(local', DOMAIN users) /\ Unsynced(local') = {}
    BY <1>2, <1>6, <2>4, SavedFromServerTable
  <2>6. Client'
    BY <1>2, <1>3, <1>4, <1>6, <2>5 DEF IInv, Client, LocalTable, Grows
  <2>7. OwnPending'
    BY <1>3, <2>5 DEF IInv, OwnPending, Unsynced
  <2>8. QED
    BY <1>4, <2>3, <2>6, <2>7 DEF IInv
<1>7. QED
  BY <1>5, <1>6 DEF DeliverLogin

\* The client's table after an answer, of whichever session.
LEMMA TableAnswered ==
    ASSUME IInv, UNCHANGED server, NEW s, wire' = Without(wire, s),
           UNCHANGED <<session, pending_password, screen, form, edit_screen>>,
           avatar_key' \in BOOLEAN,
           LocalTable(local', DOMAIN users), Unsynced(local') \subseteq Unsynced(local)
    PROVE  IInv'
<1>1. Tables' /\ Grows
  BY TablesKept DEF IInv
<1>2. Requests'
  BY TakenOff
<1>3. Client'
  BY <1>1 DEF IInv, Client, LocalTable, Grows
<1>4. OwnPending'
  BY DEF IInv, OwnPending, Unsynced
<1>5. QED
  BY <1>1, <1>2, <1>3, <1>4 DEF IInv

LEMMA DeliverInfoKeeps ==
    ASSUME IInv, NEW s \in DOMAIN wire, DeliverInfo(s)
    PROVE  IInv'
<1>1. wire[s].kind = "info" /\ wire[s].stage = "ok"
  BY DEF DeliverInfo
<1>2. wire[s].account \in DOMAIN users /\ wire[s].seen.profile \in Profile
  BY <1>1, AnsweredRow
<1>3. wire[s].seen.avatar \in BOOLEAN
  BY <1>1, Fields DEF IInv, Sound, User
<1>4. local' = SavedFromServer(local, wire[s].account, wire[s].seen.profile)
  BY DEF DeliverInfo
<1>5. LocalTable(local', DOMAIN users) /\ Unsynced(local') \subseteq Unsynced(local)
  BY <1>2, <1>4, LocalIsTable, SavedFromServerTable
<1>6. QED
  BY <1>3, <1>5, TableAnswered DEF DeliverInfo

LEMMA DeliverEditKeeps ==
    ASSUME IInv, NEW s \in DOMAIN wire, DeliverEdit(s)
    PROVE  IInv'
<1> DEFINE saved == SavedFromServer(local, wire[s].account, wire[s].seen.profile)
<1>1. wire[s].kind = "edit" /\ wire[s].stage = "ok"
  BY DEF DeliverEdit
<1>2. wire[s].account \in DOMAIN users /\ wire[s].seen.profile \in Profile
  BY <1>1, AnsweredRow
<1>3. LocalTable(saved, DOMAIN users) /\ Unsynced(saved) \subseteq Unsynced(local)
  BY <1>2, LocalIsTable, SavedFromServerTable
<1>4. local' = MarkedSynced(saved, wire[s].row)
  BY DEF DeliverEdit
<1> HIDE DEF saved
<1>5. LocalTable(local', DOMAIN users) /\ Unsynced(local') \subseteq Unsynced(local)
  BY <1>3, <1>4, MarkedSyncedTable
<1>6. QED
  BY <1>5, TableAnswered DEF DeliverEdit, IInv, Client

LEMMA DeliverPhotoKeeps ==
    ASSUME IInv, NEW s \in DOMAIN wire, DeliverPhoto(s)
    PROVE  IInv'
<1>1. UNCHANGED <<server, session, local, pending_password, form, edit_screen>>
  BY DEF DeliverPhoto
<1>2. screen' \in {screen, "profile"} /\ avatar_key' \in BOOLEAN
  BY DEF DeliverPhoto, IInv, Client
<1>3. Tables' /\ Grows
  BY <1>1, TablesKept DEF IInv
<1>4. Client' /\ OwnPending'
  BY <1>1, <1>2, <1>3 DEF IInv, Client, OwnPending, Unsynced, Grows
<1>5. CASE wire' = Without(wire, s)
  BY <1>1, <1>3, <1>4, <1>5, TakenOff DEF IInv
<1>6. CASE wire' = Put(Without(wire, s), InfoRequest)
  <2>1. InfoRequest \in Good
    BY SessionIsToken, NewIsGood DEF InfoRequest
  <2>2. Requests'
    BY <1>1, <1>6, <2>1, RestIsGood, PutKeeps
  <2>3. QED
    BY <1>3, <1>4, <2>2 DEF IInv
<1>7. QED
  BY <1>5, <1>6 DEF DeliverPhoto

-----------------------------------------------------------------------------
(* The theorems                                                            *)

LEMMA InitIInv == Init => IInv
<1> SUFFICES ASSUME Init PROVE IInv
  OBVIOUS
<1>1. Tables
  BY Bounds DEF Init, Tables
<1>2. DOMAIN wire = {} /\ DOMAIN local = {}
  BY DEF Init
<1>3. Requests
  BY <1>2 DEF Requests
<1>4. Client /\ OwnPending
  BY <1>2 DEF Init, Client, OwnPending, Blank, Unsynced
<1>5. QED
  BY <1>1, <1>3, <1>4 DEF IInv

LEMMA NextIInv == IInv /\ [Next]_vars => IInv'
<1> SUFFICES ASSUME IInv, [Next]_vars PROVE IInv'
  OBVIOUS
<1>1. ASSUME NEW s \in {"login", "registration"}, OpenScreen(s) PROVE IInv'
  BY <1>1, OpenScreenKeeps
<1>2. ASSUME NEW profile \in Profile, NEW password \in Password, NEW photo \in BOOLEAN,
             Register(profile, password, photo)
      PROVE  IInv'
  BY <1>2, RegisterKeeps
<1>3. ASSUME NEW profile \in Profile, NEW password \in Password, Login(profile, password)
      PROVE  IInv'
  BY <1>3, LoginKeeps
<1>4. ASSUME NEW profile \in Profile, NEW password \in Password \cup {None},
             NEW changed \in 0 .. 1, SaveProfile(profile, password, changed)
      PROVE  IInv'
  BY <1>4, SaveProfileKeeps
<1>5. ASSUME NEW profile \in Profile, NEW password \in Password \cup {None},
             NEW kind \in {"upload", "delete"}, SavePhoto(kind, profile, password)
      PROVE  IInv'
  BY <1>5, SavePhotoKeeps
<1>6. CASE OpenDashboard
  BY <1>6, OpenDashboardKeeps
<1>7. CASE Logout
  BY <1>7, LogoutKeeps
<1>8. CASE PeriodicSync
  BY <1>8, PeriodicSyncKeeps
<1>9. ASSUME NEW s \in DOMAIN wire, Serve(s) PROVE IInv'
  BY <1>9, RefuseKeeps, CreateUserKeeps, CreateBoardKeeps, ServeLoginKeeps, ServeInfoKeeps,
     ReadUserKeeps, SaveEditKeeps, SaveDeleteKeeps, SaveUploadKeeps, StorePhotoKeeps DEF Serve
<1>10. ASSUME NEW s \in DOMAIN wire, Deliver(s) PROVE IInv'
  BY <1>10, ResendKeeps, DeliverFailureKeeps, DeliverRegisterKeeps, DeliverLoginKeeps,
     DeliverInfoKeeps, DeliverEditKeeps, DeliverPhotoKeeps DEF Deliver
<1>11. ASSUME NEW s \in DOMAIN wire, StoreFails(s) \/ DatabaseFails(s) PROVE IInv'
  BY <1>11, StoreFailsKeeps, DatabaseFailsKeeps
<1>12. ASSUME NEW s \in DOMAIN wire, NEW stage \in {"timeout", "none"}, GiveUp(s, stage)
       PROVE  IInv'
  BY <1>12, GiveUpKeeps
<1>13. CASE UNCHANGED vars
  BY <1>13, TablesKept, ClientKept, RequestsKept DEF vars, IInv, Requests
<1>14. CASE OpenProfileEdit
  BY <1>14, OpenProfileEditKeeps
<1>15. QED
  BY <1>1, <1>2, <1>3, <1>4, <1>5, <1>6, <1>7, <1>8, <1>9, <1>10, <1>11, <1>12, <1>13, <1>14
     DEF Next

LEMMA Invariant == Spec => []IInv
  BY InitIInv, NextIInv, PTL DEF Spec

\* Every variable keeps to the values the code can give it, for any number of
\* accounts, requests in flight and retries (UserRepository, UserSyncManager,
\* NetworkManager).
THEOREM TypeCorrect == Spec => []TypeOK
<1>1. IInv => TypeOK
  BY DEF IInv, Tables, Requests, Client, TypeOK, Sound
<1>2. QED
  BY <1>1, Invariant, PTL

\* handleRegister answers 200 only for an account with its board and
\* handleAvatarUpload only for a photo that is stored, whatever fails between
\* their steps and however often a request is sent again.
THEOREM SuccessIsWhole == Spec => []AnswersAreTrue
<1>1. IInv => AnswersAreTrue
  BY DEF IInv, Requests, AnswersAreTrue, Sound
<1>2. QED
  BY <1>1, Invariant, PTL

\* While somebody is logged in only their own row is pending, whatever a late
\* answer has left in the table before (DeliverPhoto, SaveProfile); what
\* UserSyncManager::sync sends goes out under no token or under that of the row's
\* account, and no password is left from an earlier session.
THEOREM PushesAreOwn == Spec => []PendingIsOwn
<1>1. IInv => PendingIsOwn
  BY DEF IInv, OwnPending, Requests, Sound, PendingIsOwn
<1>2. QED
  BY <1>1, Invariant, PTL

=============================================================================
