---------------------------- MODULE AccountsProofs ----------------------------
(***************************************************************************)
(* Machine-checked proofs about Accounts, for every number of clients,      *)
(* names, passwords and accounts.                                           *)
(***************************************************************************)
EXTENDS Accounts, TLAPS

-----------------------------------------------------------------------------
(* The inductive invariant: what requests and sessions carry of accounts that  *)
(* may have changed since.                                                    *)

\* Account a has authority r, or had it when somebody was given it.
Earned(a, r) == [account |-> a, role |-> r] \in had

RequestOK(q) ==
    /\ q \in Requests
    /\ q.pc = "login" => Earned(q.account, q.role)
    /\ q.pc \in {"password", "update"} => q.id \in Ids
    /\ q.pc \in {"password", "create"} => q.password \in Passwords
    /\ q.pc = "create" => q.name \in Names
    /\ q.pc \in {"create", "update"} => q.role \in Roles

SessionOK(s) ==
    /\ s \in Sessions
    /\ s # NoSession => Earned(s.account, s.role)

FullAccounts == [present : {TRUE}, account : Serials, name : Names, role : Roles,
                 enabled : BOOLEAN, password : Passwords]

IInv ==
    /\ TypeOK
    /\ UsernamesUnique
    /\ \A c \in Clients : RequestOK(request[c])
    /\ \A c \in Clients : SessionOK(session[c])
    /\ Authority \subseteq had

-----------------------------------------------------------------------------
(* The steps, by the tables they write. *)

\* What a step does to the accounts.
UsersGood ==
    /\ users' \in [Ids -> Users]
    /\ \A id \in Ids : users'[id].present => users'[id] \in FullAccounts
    /\ UsernamesUnique'
    /\ accounts' \in 1 .. MaxAccounts

\* What it does to the requests and the sessions: they carry what has been had.
RequestsGood ==
    /\ request' \in [Clients -> Requests]
    /\ \A c \in Clients : RequestOK(request'[c])

SessionsGood ==
    /\ session' \in [Clients -> Sessions]
    /\ \A c \in Clients : SessionOK(session'[c])

LEMMA Constants ==
    /\ NoRequest \in Requests /\ NoRequest.pc = "idle"
    /\ NoSession \in Sessions /\ NoSession.id = 0
    /\ NoUser \in Users /\ NoUser.present = FALSE
    /\ NoSession.account = 0 /\ 0 \notin Serials
    /\ 1 \in Ids /\ 1 \in Serials /\ Ids \subseteq Nat \ {0}
BY AccountsAssumption DEF NoRequest, Requests, NoSession, Sessions, NoUser, Users,
   Ids, Serials

\* Any step that treats the three tables well keeps the invariant: what is carried
\* after it is remembered.
LEMMA GoodStepKeeps ==
    ASSUME IInv, UsersGood, RequestsGood, SessionsGood, Remembers
    PROVE  IInv'
<1>1. Authority' \subseteq [account : Serials, role : Roles]
  <2>1. \A id \in Ids : users'[id].present =>
          users'[id].account \in Serials /\ users'[id].role \in Roles
    BY DEF UsersGood, FullAccounts
  <2>2. QED
    BY <2>1 DEF Authority, Present
<1>2. TypeOK'
  <2>1. had' \subseteq [account : Serials, role : Roles]
    BY <1>1 DEF IInv, TypeOK, Remembers
  <2>2. QED
    BY <2>1 DEF TypeOK, UsersGood, RequestsGood, SessionsGood, Present, FullAccounts
<1>3. ASSUME NEW c \in Clients, NEW h \in had,
             \/ session'[c].account = h.account /\ session'[c].role = h.role
             \/ /\ request'[c].pc = "login"
                /\ request'[c].account = h.account /\ request'[c].role = h.role
      PROVE  h \in had'
  BY <1>3 DEF Remembers, Carries
<1>4. ASSUME NEW c \in Clients PROVE RequestOK(request[c])'
  <2>1. RequestOK(request'[c])
    BY DEF RequestsGood
  <2>2. request'[c].pc = "login" =>
          [account |-> request'[c].account, role |-> request'[c].role] \in had'
    <3> DEFINE h == [account |-> request'[c].account, role |-> request'[c].role]
    <3>1. request'[c].pc = "login" => h \in had
      BY <2>1 DEF RequestOK, Earned
    <3>2. h.account = request'[c].account /\ h.role = request'[c].role
      OBVIOUS
    <3> HIDE DEF h
    <3>3. request'[c].pc = "login" => h \in had'
      BY <1>3, <3>1, <3>2
    <3>4. QED
      BY <3>3 DEF h
  <2>3. QED
    BY <2>1, <2>2 DEF RequestOK, Earned
<1>5. ASSUME NEW c \in Clients PROVE SessionOK(session[c])'
  <2>1. SessionOK(session'[c])
    BY DEF SessionsGood
  <2>2. session'[c] # NoSession =>
          [account |-> session'[c].account, role |-> session'[c].role] \in had'
    <3> DEFINE h == [account |-> session'[c].account, role |-> session'[c].role]
    <3>1. session'[c] # NoSession => h \in had
      BY <2>1 DEF SessionOK, Earned
    <3>2. h.account = session'[c].account /\ h.role = session'[c].role
      OBVIOUS
    <3> HIDE DEF h
    <3>3. session'[c] # NoSession => h \in had'
      BY <1>3, <3>1, <3>2
    <3>4. QED
      BY <3>3 DEF h
  <2>3. QED
    BY <2>1, <2>2 DEF SessionOK, Earned
<1>6. Authority' \subseteq had'
  BY DEF Remembers
<1>7. QED
  BY <1>2, <1>4, <1>5, <1>6 DEF IInv, UsersGood

LEMMA UsersSame ==
    ASSUME IInv, UNCHANGED table
    PROVE  UsersGood
BY DEF table, IInv, TypeOK, UsersGood, UsernamesUnique, Present, FullAccounts

LEMMA SessionsSame ==
    ASSUME IInv, UNCHANGED session
    PROVE  SessionsGood
BY DEF IInv, TypeOK, SessionsGood

LEMMA RequestsSame ==
    ASSUME IInv, UNCHANGED request
    PROVE  RequestsGood
BY DEF IInv, TypeOK, RequestsGood

\* A request begins as q, or ends.
LEMMA AsksGood ==
    ASSUME IInv, NEW c \in Clients, NEW q, RequestOK(q), Asks(c, q)
    PROVE  RequestsGood
<1>1. q \in Requests
  BY DEF RequestOK
<1>2. \A d \in Clients : request'[d] = IF d = c THEN q ELSE request[d]
  BY DEF Asks, IInv, TypeOK
<1>3. request' \in [Clients -> Requests]
  BY <1>1 DEF Asks, IInv, TypeOK
<1>4. QED
  BY <1>2, <1>3 DEF RequestsGood, IInv

LEMMA NoRequestOK == RequestOK(NoRequest)
BY Constants DEF RequestOK

LEMMA EndsGood ==
    ASSUME IInv, NEW c \in Clients, Ends(c)
    PROVE  RequestsGood
BY AsksGood, NoRequestOK DEF Ends

\* The row of an account that is there becomes u, of the same name, or none.
LEMMA ReplaceGood ==
    ASSUME IInv, NEW id \in Ids, NEW u, u \in Users, users[id].present,
           u.present => u \in FullAccounts /\ u.name = users[id].name,
           users' = [users EXCEPT ![id] = u], UNCHANGED accounts
    PROVE  UsersGood
<1>1. users \in [Ids -> Users] /\ accounts \in 1 .. MaxAccounts
  BY DEF IInv, TypeOK
<1>2. /\ users' \in [Ids -> Users]
      /\ \A j \in Ids : users'[j] = IF j = id THEN u ELSE users[j]
  BY <1>1
<1>3. \A j \in Ids : users'[j].present => users'[j] \in FullAccounts
  BY <1>2 DEF IInv, TypeOK, Present, FullAccounts
<1>4. \A j \in Ids : users'[j].present => users[j].present /\ users'[j].name = users[j].name
  BY <1>2
<1>5. UsernamesUnique'
  BY <1>4 DEF IInv, UsernamesUnique, Present
<1>6. QED
  BY <1>1, <1>2, <1>3, <1>5 DEF UsersGood

\* A fresh id is one that no row has.
LEMMA FreshIdFacts ==
    ASSUME IInv, accounts < MaxAccounts, NEW id \in FreshIds
    PROVE  id \in Ids /\ id \notin Present /\ ~users[id].present
<1>1. accounts \in 1 .. MaxAccounts /\ MaxAccounts \in Nat /\ id \in 1 .. accounts + 1
  BY AccountsAssumption DEF IInv, TypeOK, FreshIds
<1>2. id \in Ids
  BY <1>1 DEF Ids
<1>3. id \notin Present
  <2>1. id \in Nat /\ \A j \in Present : j < id
    BY <1>1 DEF FreshIds
  <2>2. QED
    BY <2>1
<1>4. QED
  BY <1>2, <1>3 DEF Present

\* A new account under a name that is free.
LEMMA InsertGood ==
    ASSUME IInv, NEW id \in FreshIds, NEW n \in Names, NEW r \in Roles, NEW p \in Passwords,
           \A j \in Present : users[j].name # n,
           Inserted(id, n, r, p)
    PROVE  UsersGood
<1>1. id \in Ids
  BY FreshIdFacts DEF Inserted
<1>2. accounts + 1 \in Serials
  BY AccountsAssumption DEF Inserted, IInv, TypeOK, Serials
<1>3. NewUser(n, r, p) \in FullAccounts /\ NewUser(n, r, p) \in Users
  BY <1>2 DEF NewUser, FullAccounts, Users
<1>4. users \in [Ids -> Users]
  BY DEF IInv, TypeOK
<1>5. /\ users' \in [Ids -> Users]
      /\ \A j \in Ids : users'[j] = IF j = id THEN NewUser(n, r, p) ELSE users[j]
  BY <1>1, <1>3, <1>4 DEF Inserted
<1>6. \A j \in Ids : users'[j].present => users'[j] \in FullAccounts
  BY <1>3, <1>5 DEF IInv, TypeOK, Present, FullAccounts
<1>7. UsernamesUnique'
  <2>1. NewUser(n, r, p).name = n
    BY DEF NewUser
  <2>2. QED
    BY <1>5, <2>1 DEF IInv, UsernamesUnique, Present
<1>8. accounts' \in 1 .. MaxAccounts
  BY <1>2 DEF Inserted, Serials
<1>9. QED
  BY <1>5, <1>6, <1>7, <1>8 DEF UsersGood

-----------------------------------------------------------------------------
(* The steps. *)

\* A step that only begins request q.
LEMMA BeginKeeps ==
    ASSUME IInv, NEW c \in Clients, NEW q, RequestOK(q), Asks(c, q),
           UNCHANGED <<table, session>>, Remembers
    PROVE  IInv'
BY AsksGood, UsersSame, SessionsSame, GoodStepKeeps

LEMMA LoginReadKeeps ==
    ASSUME IInv, NEW c \in Clients, NEW n \in Names, NEW p \in Passwords,
           LoginRead(c, n, p), Remembers
    PROVE  IInv'
<1>1. PICK id \in Present :
        /\ MayLogIn(users[id], n, p)
        /\ Asks(c, [NoRequest EXCEPT !.pc = "login", !.id = id,
                       !.account = users[id].account, !.role = users[id].role,
                       !.enabled = users[id].enabled])
  BY DEF LoginRead
<1> DEFINE q == [NoRequest EXCEPT !.pc = "login", !.id = id,
                       !.account = users[id].account, !.role = users[id].role,
                       !.enabled = users[id].enabled]
<1>2. id \in Ids /\ users[id] \in Users /\ users[id] \in FullAccounts
  BY DEF Present, IInv, TypeOK, FullAccounts
<1>3. q \in Requests /\ q.pc = "login" /\ q.account = users[id].account
        /\ q.role = users[id].role
  BY <1>2, Constants DEF Requests, Users, NoRequest
<1>5. Earned(users[id].account, users[id].role)
  BY <1>1 DEF Earned, MayLogIn, IInv, Authority
<1>6. RequestOK(q)
  BY <1>3, <1>5 DEF RequestOK
<1> HIDE DEF q
<1>7. Asks(c, q)
  BY <1>1 DEF q
<1>8. QED
  BY <1>6, <1>7, BeginKeeps DEF LoginRead

LEMMA LoginAnswerKeeps ==
    ASSUME IInv, NEW c \in Clients, LoginAnswer(c), Remembers
    PROVE  IInv'
<1> DEFINE s == [id |-> request[c].id, account |-> request[c].account,
                 role |-> request[c].role, enabled |-> request[c].enabled]
<1>1. RequestOK(request[c]) /\ request[c].pc = "login"
  BY DEF IInv, LoginAnswer
<1>2. SessionOK(s)
  BY <1>1 DEF RequestOK, SessionOK, Requests, Sessions
<1> HIDE DEF s
<1>3. session' = [session EXCEPT ![c] = s]
  BY DEF LoginAnswer, s
<1>4. \A d \in Clients : session'[d] = IF d = c THEN s ELSE session[d]
  BY <1>3 DEF IInv, TypeOK
<1>5. SessionsGood
  BY <1>2, <1>3, <1>4 DEF SessionsGood, SessionOK, IInv, TypeOK
<1>6. Ends(c) /\ UNCHANGED table
  BY DEF LoginAnswer
<1>7. QED
  BY <1>5, <1>6, EndsGood, UsersSame, GoodStepKeeps

LEMMA SessionEndsKeeps ==
    ASSUME IInv, NEW c \in Clients, Logout(c) \/ Expire(c), Remembers
    PROVE  IInv'
<1>1. session' = [session EXCEPT ![c] = NoSession] /\ UNCHANGED <<table, request>>
  BY DEF Logout, Expire
<1>2. \A d \in Clients : session'[d] = IF d = c THEN NoSession ELSE session[d]
  BY <1>1 DEF IInv, TypeOK
<1>3. SessionsGood
  BY <1>1, <1>2, Constants DEF SessionsGood, SessionOK, IInv, TypeOK
<1>4. QED
  BY <1>1, <1>3, UsersSame, RequestsSame, GoodStepKeeps

LEMMA ChangePasswordKeeps ==
    ASSUME IInv, NEW c \in Clients, NEW old \in Passwords, NEW new \in Passwords,
           ChangePassword(c, old, new), Remembers
    PROVE  IInv'
<1> DEFINE q == [NoRequest EXCEPT !.pc = "password", !.id = session[c].id,
                                  !.password = new]
<1>1. session[c].id \in Ids
  BY DEF ChangePassword, Present
<1>2. RequestOK(q)
  BY <1>1, Constants DEF RequestOK, Requests, NoRequest
<1> HIDE DEF q
<1>3. Asks(c, q) /\ UNCHANGED <<table, session>>
  BY DEF ChangePassword, q
<1>4. QED
  BY <1>2, <1>3, BeginKeeps

LEMMA ResetUserPasswordKeeps ==
    ASSUME IInv, NEW c \in Clients, NEW id \in Ids, NEW new \in Passwords,
           ResetUserPassword(c, id, new), Remembers
    PROVE  IInv'
<1> DEFINE q == [NoRequest EXCEPT !.pc = "password", !.id = id, !.password = new]
<1>1. RequestOK(q)
  BY Constants DEF RequestOK, Requests, NoRequest
<1> HIDE DEF q
<1>2. Asks(c, q) /\ UNCHANGED <<table, session>>
  BY DEF ResetUserPassword, q
<1>3. QED
  BY <1>1, <1>2, BeginKeeps

LEMMA CreateUserKeeps ==
    ASSUME IInv, NEW c \in Clients, NEW n \in Names, NEW r \in GivenRoles,
           NEW p \in Passwords, NEW fails \in BOOLEAN, CreateUser(c, n, r, p, fails),
           Remembers
    PROVE  IInv'
<1> DEFINE role == OrDefault(r, RoleSupplier)
           q == [NoRequest EXCEPT !.pc = "create", !.name = n, !.password = p,
                                  !.role = role]
<1>1. role \in Roles
  BY AccountsAssumption DEF OrDefault, GivenRoles, Roles
<1> HIDE DEF role
<1>2. RequestOK(q)
  BY <1>1, Constants DEF RequestOK, Requests, NoRequest
<1> HIDE DEF q
<1>3. Asks(c, q) /\ UNCHANGED <<table, session>>
  BY DEF CreateUser, q, role
<1>4. QED
  BY <1>2, <1>3, BeginKeeps

LEMMA UpdateUserKeeps ==
    ASSUME IInv, NEW c \in Clients, NEW id \in Ids, NEW r \in GivenRoles,
           NEW status \in GivenStatuses, UpdateUser(c, id, r, status),
           Remembers
    PROVE  IInv'
<1> DEFINE role == OrDefault(r, users[id].role)
           enabled == Enabled(status, users[id].enabled)
           keeps == {f \in {"role"} : r = 0} \cup {f \in {"status"} : status = "omitted"}
           q == [NoRequest EXCEPT !.pc = "update", !.id = id, !.role = role,
                                  !.enabled = enabled,
                                  !.keeps = {f \in {"role"} : r = 0} \cup
                                            {f \in {"status"} : status = "omitted"}]
<1>1. users[id] \in FullAccounts
  BY DEF UpdateUser, IInv, TypeOK, Present, FullAccounts
<1>2. role \in Roles
  BY <1>1, AccountsAssumption DEF OrDefault, GivenRoles, FullAccounts
<1>3. enabled \in BOOLEAN
  BY <1>1 DEF Enabled, FullAccounts
<1>4. keeps \subseteq {"role", "status"}
  OBVIOUS
<1>5. q = [NoRequest EXCEPT !.pc = "update", !.id = id, !.role = role,
                            !.enabled = enabled, !.keeps = keeps]
  OBVIOUS
<1> HIDE DEF role, enabled, keeps, q
<1>6. q \in Requests /\ q.pc = "update" /\ q.id = id /\ q.role = role
  BY <1>2, <1>3, <1>4, <1>5, Constants DEF Requests, NoRequest
<1>7. RequestOK(q)
  BY <1>1, <1>2, <1>6 DEF RequestOK
<1>8. Asks(c, q) /\ UNCHANGED <<table, session>>
  BY DEF UpdateUser, q, role, enabled
<1>9. QED
  BY <1>7, <1>8, BeginKeeps

\* An update that is overtaken stays in order.
LEMMA OvertakesGood ==
    ASSUME IInv, NEW c \in Clients, NEW id, Overtakes(c, id)
    PROVE  RequestsGood
<1>1. SUFFICES ASSUME NEW d \in Clients PROVE RequestOK(request'[d])
  BY DEF RequestsGood, Overtakes, RequestOK
<1>2. request'[d] \in {NoRequest, request[d], [request[d] EXCEPT !.keeps = {}]}
  BY DEF Overtakes
<1>3. RequestOK(request[d])
  BY DEF IInv
<1>4. RequestOK([request[d] EXCEPT !.keeps = {}])
  BY <1>3 DEF RequestOK, Requests
<1>5. QED
  BY <1>2, <1>3, <1>4, NoRequestOK

\* An UPDATE of columns other than the name.
LEMMA UpdatedGood ==
    ASSUME IInv, NEW id \in Ids, NEW u,
           id \in Present => u \in FullAccounts /\ u.name = users[id].name,
           users' = Updated(id, u), UNCHANGED accounts
    PROVE  UsersGood
<1>1. CASE id \notin Present
  BY <1>1, UsersSame DEF Updated, table
<1>2. CASE id \in Present
  <2>1. u \in Users /\ users[id].present
    BY <1>2 DEF FullAccounts, Users, Present
  <2>2. QED
    BY <1>2, <2>1, ReplaceGood DEF Updated
<1>3. QED
  BY <1>1, <1>2

LEMMA UpdatePasswordKeeps ==
    ASSUME IInv, NEW c \in Clients, UpdatePassword(c), Remembers
    PROVE  IInv'
<1> DEFINE id == request[c].id
           u == [users[id] EXCEPT !.password = request[c].password]
<1>1. id \in Ids /\ request[c].password \in Passwords
  BY DEF IInv, RequestOK, UpdatePassword
<1>2. id \in Present => u \in FullAccounts /\ u.name = users[id].name
  BY <1>1 DEF IInv, TypeOK, FullAccounts
<1>3. users' = Updated(id, u) /\ UNCHANGED accounts
  BY DEF UpdatePassword
<1> HIDE DEF u, id
<1>4. UsersGood
  BY <1>1, <1>2, <1>3, UpdatedGood
<1>5. QED
  BY <1>4, EndsGood, SessionsSame, GoodStepKeeps DEF UpdatePassword

LEMMA UpdateProfileKeeps ==
    ASSUME IInv, NEW c \in Clients, UpdateProfile(c), Remembers
    PROVE  IInv'
<1> DEFINE id == request[c].id
           u == [users[id] EXCEPT !.role = request[c].role,
                                  !.enabled = request[c].enabled]
<1>1. id \in Ids /\ request[c].role \in Roles /\ request[c].enabled \in BOOLEAN
  BY DEF IInv, RequestOK, UpdateProfile, Requests
<1>2. id \in Present => u \in FullAccounts /\ u.name = users[id].name
  BY <1>1 DEF IInv, TypeOK, FullAccounts
<1>3. users' = Updated(id, u) /\ UNCHANGED accounts
  BY DEF UpdateProfile
<1> HIDE DEF u, id
<1>4. UsersGood
  BY <1>1, <1>2, <1>3, UpdatedGood
<1>5. QED
  BY <1>4, OvertakesGood, SessionsSame, GoodStepKeeps DEF UpdateProfile

LEMMA CreateInsertKeeps ==
    ASSUME IInv, NEW c \in Clients, CreateInsert(c), Remembers
    PROVE  IInv'
<1>1. /\ request[c].name \in Names /\ request[c].role \in Roles
      /\ request[c].password \in Passwords
  BY DEF IInv, RequestOK, CreateInsert
<1>2. UsersGood
  BY <1>1, InsertGood, UsersSame DEF CreateInsert, Insertable
<1>3. RequestsGood
  BY EndsGood, OvertakesGood DEF CreateInsert
<1>4. QED
  BY <1>2, <1>3, SessionsSame, GoodStepKeeps DEF CreateInsert

LEMMA DeleteUserKeeps ==
    ASSUME IInv, NEW c \in Clients, NEW id \in Ids, DeleteUser(c, id),
           Remembers
    PROVE  IInv'
<1>1. users[id].present /\ NoUser \in Users /\ ~NoUser.present
  BY Constants DEF DeleteUser, Present
<1>2. UsersGood
  BY <1>1, ReplaceGood DEF DeleteUser
<1>3. QED
  BY <1>2, RequestsSame, SessionsSame, GoodStepKeeps DEF DeleteUser

LEMMA RequestFailsKeeps ==
    ASSUME IInv, NEW c \in Clients, RequestFails(c), Remembers
    PROVE  IInv'
BY EndsGood, UsersSame, SessionsSame, GoodStepKeeps DEF RequestFails

LEMMA RestartKeeps ==
    ASSUME IInv, Restart, Remembers
    PROVE  IInv'
<1>1. RequestsGood
  BY NoRequestOK, Constants DEF Restart, RequestsGood
<1>2. UsersGood
  BY InsertGood, UsersSame, AccountsAssumption DEF Restart, Roles
<1>3. QED
  BY <1>1, <1>2, SessionsSame, GoodStepKeeps DEF Restart

LEMMA InitIInv == Init => IInv
<1> SUFFICES ASSUME Init PROVE IInv
  OBVIOUS
<1>1. Seeded \in FullAccounts \cap Users
  BY AccountsAssumption, Constants DEF Seeded, FullAccounts, Users, Roles
<1>2. /\ users \in [Ids -> Users]
      /\ Present = {1}
      /\ users[1] = Seeded
  BY <1>1, Constants DEF Init, Present, FullAccounts
<1>3. TypeOK
  <2>1. \A id \in Present : users[id] \in FullAccounts
    BY <1>1, <1>2
  <2>2. accounts \in 1 .. MaxAccounts
    BY AccountsAssumption DEF Init
  <2>3. had \subseteq [account : Serials, role : Roles]
    BY Constants DEF Init, Roles
  <2>4. session \in [Clients -> Sessions] /\ request \in [Clients -> Requests]
    BY Constants DEF Init
  <2>5. QED
    BY <1>2, <2>1, <2>2, <2>3, <2>4 DEF TypeOK, FullAccounts
<1>4. UsernamesUnique
  BY <1>2 DEF UsernamesUnique
<1>5. Authority \subseteq had
  <2>1. users[1].account = 1 /\ users[1].role = RoleRoot
    BY <1>2 DEF Seeded
  <2>2. had = {[account |-> 1, role |-> RoleRoot]}
    BY DEF Init
  <2>3. QED
    BY <1>2, <2>1, <2>2 DEF Authority
<1>6. /\ \A c \in Clients : RequestOK(request[c])
      /\ \A c \in Clients : SessionOK(session[c])
  BY NoRequestOK, Constants DEF Init, SessionOK
<1>7. QED
  BY <1>3, <1>4, <1>5, <1>6 DEF IInv

LEMMA NextIInv == IInv /\ [Next]_vars => IInv'
<1> SUFFICES ASSUME IInv, [Next]_vars PROVE IInv'
  OBVIOUS
<1>1. CASE UNCHANGED vars
  <2>1. Present' = Present
    BY <1>1 DEF vars, Present
  <2>2. TypeOK' /\ UsernamesUnique'
    BY <1>1, <2>1 DEF vars, IInv, TypeOK, UsernamesUnique
  <2>3. Authority' = Authority /\ had' = had
    BY <1>1, <2>1 DEF vars, Authority
  <2>4. /\ \A c \in Clients : RequestOK(request[c])'
        /\ \A c \in Clients : SessionOK(session[c])'
    BY <1>1 DEF vars, IInv, RequestOK, SessionOK, Earned
  <2>5. QED
    BY <2>2, <2>3, <2>4 DEF IInv
<1>2. CASE Next
  <2>1. Steps /\ Remembers
    BY <1>2 DEF Next
  <2>2. CASE Restart
    BY <2>1, <2>2, RestartKeeps
  <2>3. ASSUME NEW c \in Clients,
               \/ \E n \in Names, p \in Passwords : LoginRead(c, n, p)
               \/ LoginAnswer(c)
               \/ Logout(c) \/ Expire(c)
               \/ \E old, new \in Passwords : ChangePassword(c, old, new)
               \/ \E id \in Ids, new \in Passwords : ResetUserPassword(c, id, new)
               \/ UpdatePassword(c)
        PROVE  IInv'
    BY <2>1, <2>3, LoginReadKeeps, LoginAnswerKeeps, SessionEndsKeeps,
       ChangePasswordKeeps, ResetUserPasswordKeeps, UpdatePasswordKeeps
  <2>4. ASSUME NEW c \in Clients,
               \/ \E n \in Names, r \in GivenRoles, p \in Passwords, fails \in BOOLEAN :
                    CreateUser(c, n, r, p, fails)
               \/ CreateInsert(c)
               \/ \E id \in Ids, r \in GivenRoles, status \in GivenStatuses :
                    UpdateUser(c, id, r, status)
               \/ UpdateProfile(c)
               \/ \E id \in Ids : DeleteUser(c, id)
               \/ RequestFails(c)
        PROVE  IInv'
    BY <2>1, <2>4, CreateUserKeeps, CreateInsertKeeps, UpdateUserKeeps,
       UpdateProfileKeeps, DeleteUserKeeps, RequestFailsKeeps
  <2>5. QED
    BY <2>1, <2>2, <2>3, <2>4 DEF Steps
<1>3. QED
  BY <1>1, <1>2

\* The inductive invariant holds in every state of every behaviour.
THEOREM InvariantHolds == Spec => []IInv
BY InitIInv, NextIInv, PTL DEF Spec

\* Accounts, sessions and requests keep their types, and every account has a
\* name, a password and one of the three roles.
THEOREM TypeCorrect == Spec => []TypeOK
<1>1. IInv => TypeOK
  BY DEF IInv
<1>2. QED
  BY <1>1, InvariantHolds, PTL

\* No two accounts have one username, for any number of administrators at a time
\* (controller/admin_user.go:52).
THEOREM UsernamesStayUnique == Spec => []UsernamesUnique
<1>1. IInv => UsernamesUnique
  BY DEF IInv
<1>2. QED
  BY <1>1, InvariantHolds, PTL

\* A cookie's role is one that the account that logged in has had while it was
\* enabled (controller/auth.go:40-55).
THEOREM SessionsAreEarned == Spec => []SessionEarned
<1>1. IInv => SessionEarned
  BY DEF IInv, SessionOK, Earned, SessionEarned
<1>2. QED
  BY <1>1, InvariantHolds, PTL

\* No step writes the row of an account that is gone, whatever request was under
\* way when it was deleted: UPDATEs match only accounts that are there, and a row
\* that comes back is a new account's (model/user.go:95-101, 128-135).
THEOREM DeletedAccountsStayDeleted == Spec => DeletedStaysDeleted
<1> DEFINE Kept == \A id \in Ids : id \notin Present =>
                     users'[id] = users[id] \/ users'[id].account = accounts + 1
<1>1. ASSUME IInv, Next PROVE Kept
  <2>1. users \in [Ids -> Users] /\ Steps
    BY <1>1 DEF IInv, TypeOK, Next
  <2>2. ASSUME NEW i \in Ids, NEW u, i \in Present \/ u.account = accounts + 1,
               users' = [users EXCEPT ![i] = u]
        PROVE  Kept
    BY <2>1, <2>2
  <2>3. CASE UNCHANGED users
    BY <2>3
  <2>4. ASSUME NEW c \in Clients, UpdatePassword(c) \/ UpdateProfile(c) PROVE Kept
    <3>1. PICK u : users' = Updated(request[c].id, u)
      BY <2>4 DEF UpdatePassword, UpdateProfile
    <3>2. QED
      BY <2>2, <2>3, <3>1 DEF Updated, Present
  <2>5. ASSUME NEW c \in Clients, NEW id \in Ids, DeleteUser(c, id) PROVE Kept
    BY <2>2, <2>5 DEF DeleteUser
  <2>6. ASSUME NEW id \in FreshIds, NEW n, NEW r, NEW p, Inserted(id, n, r, p) PROVE Kept
    <3>1. id \in Ids
      BY <1>1, <2>6, FreshIdFacts DEF Inserted
    <3>2. NewUser(n, r, p).account = accounts + 1
      BY DEF NewUser
    <3>3. QED
      BY <2>2, <2>6, <3>1, <3>2 DEF Inserted
  <2>7. ASSUME NEW c \in Clients, CreateInsert(c) PROVE Kept
    BY <2>3, <2>6, <2>7 DEF CreateInsert, table
  <2>8. CASE Restart
    BY <2>3, <2>6, <2>8 DEF Restart, table
  <2> HIDE DEF Kept
  <2>9. QED
    BY <2>1, <2>3, <2>4, <2>5, <2>7, <2>8 DEF Steps, LoginRead, LoginAnswer, Logout,
       Expire, ChangePassword, ResetUserPassword, CreateUser, UpdateUser, RequestFails, table
<1>2. UNCHANGED vars => Kept
  BY DEF vars
<1>3. IInv /\ [Next]_vars => [Kept]_vars
  BY <1>1, <1>2
<1>4. QED
  BY <1>3, InvariantHolds, PTL DEF Spec, DeletedStaysDeleted

-----------------------------------------------------------------------------
(* What an update writes back as it has read it.                              *)

\* What q omits, and nothing has overtaken since, is what it has read.
Current(q) ==
    q.pc = "update" /\ q.id \in Present =>
        /\ "role" \in q.keeps => users[q.id].role = q.role
        /\ "status" \in q.keeps => users[q.id].enabled = q.enabled

UpdatesCurrent == \A c \in Clients : Current(request[c])

\* The accounts there are were there before the step, and keep role and status.
ColumnsKept ==
    \A id \in Ids : users'[id].present =>
        /\ users[id].present
        /\ users'[id].role = users[id].role
        /\ users'[id].enabled = users[id].enabled

\* A column of id is written by an update that was asked to, or was overtaken.
Accounted(id) ==
    /\ users'[id].role # users[id].role =>
         \E c \in Updating(id) : "role" \notin request[c].keeps
    /\ users'[id].enabled # users[id].enabled =>
         \E c \in Updating(id) : "status" \notin request[c].keeps

\* The requests of such a step stay current.
LEMMA KeptCurrent ==
    ASSUME IInv, ColumnsKept, NEW q, RequestOK(q), Current(q)
    PROVE  Current(q)'
BY DEF RequestOK, Current, ColumnsKept, Present

\* A step that neither updates an account nor begins to.
LEMMA KeptStep ==
    ASSUME IInv, UpdatesCurrent, ColumnsKept,
           \A c \in Clients : request'[c] = request[c] \/ request'[c].pc # "update"
    PROVE  UpdatesCurrent'
<1>1. ASSUME NEW c \in Clients PROVE Current(request[c])'
  <2>1. CASE request'[c] = request[c]
    BY <2>1, KeptCurrent DEF UpdatesCurrent, IInv, Current
  <2>2. CASE request'[c].pc # "update"
    BY <2>2 DEF Current
  <2>3. QED
    BY <1>1, <2>1, <2>2
<1>2. QED
  BY <1>1 DEF UpdatesCurrent

LEMMA AsksKept ==
    ASSUME IInv, NEW c \in Clients, NEW q, q.pc # "update", Asks(c, q)
    PROVE  \A d \in Clients : request'[d] = request[d] \/ request'[d].pc # "update"
BY DEF Asks, IInv, TypeOK

LEMMA EndsKept ==
    ASSUME IInv, NEW c \in Clients, Ends(c)
    PROVE  \A d \in Clients : request'[d] = request[d] \/ request'[d].pc # "update"
BY Constants, AsksKept DEF Ends

\* A step that leaves role and status of all accounts alone, and what it does to
\* the requests.
Idles ==
    /\ ColumnsKept
    /\ \A c \in Clients : request'[c] = request[c] \/ request'[c].pc # "update"

LEMMA SameKept == UNCHANGED users => ColumnsKept
BY DEF ColumnsKept

LEMMA IdleSteps ==
    ASSUME IInv, NEW c \in Clients,
           \/ \E n \in Names, p \in Passwords : LoginRead(c, n, p)
           \/ LoginAnswer(c)
           \/ Logout(c) \/ Expire(c)
           \/ \E old, new \in Passwords : ChangePassword(c, old, new)
           \/ \E id \in Ids, new \in Passwords : ResetUserPassword(c, id, new)
           \/ \E n \in Names, r \in GivenRoles, p \in Passwords, fails \in BOOLEAN :
                CreateUser(c, n, r, p, fails)
           \/ RequestFails(c)
    PROVE  Idles
<1>1. UNCHANGED users
  BY DEF table, LoginRead, LoginAnswer, Logout, Expire, ChangePassword, ResetUserPassword,
         CreateUser, RequestFails
<1>2. \/ UNCHANGED request
      \/ Ends(c)
      \/ \E q : Asks(c, q) /\ q.pc # "update"
  <2>1. CASE Logout(c) \/ Expire(c)
    BY <2>1 DEF Logout, Expire
  <2>2. CASE LoginAnswer(c) \/ RequestFails(c)
    BY <2>2 DEF LoginAnswer, RequestFails
  <2>3. ASSUME NEW n \in Names, NEW p \in Passwords, LoginRead(c, n, p)
        PROVE  \E q : Asks(c, q) /\ q.pc # "update"
    <3>1. PICK id \in Present :
            Asks(c, [NoRequest EXCEPT !.pc = "login", !.id = id,
                       !.account = users[id].account, !.role = users[id].role,
                       !.enabled = users[id].enabled])
      BY <2>3 DEF LoginRead
    <3> DEFINE q == [NoRequest EXCEPT !.pc = "login", !.id = id,
                       !.account = users[id].account, !.role = users[id].role,
                       !.enabled = users[id].enabled]
    <3>2. Asks(c, q) /\ q.pc = "login"
      BY <3>1 DEF NoRequest
    <3> HIDE DEF q
    <3>3. QED
      BY <3>2
  <2>4. ASSUME NEW new \in Passwords, NEW id,
               Asks(c, [NoRequest EXCEPT !.pc = "password", !.id = id, !.password = new])
        PROVE  \E q : Asks(c, q) /\ q.pc # "update"
    <3> DEFINE q == [NoRequest EXCEPT !.pc = "password", !.id = id, !.password = new]
    <3>1. Asks(c, q) /\ q.pc = "password"
      BY <2>4 DEF NoRequest
    <3> HIDE DEF q
    <3>2. QED
      BY <3>1
  <2>5. ASSUME NEW n \in Names, NEW r \in GivenRoles, NEW p \in Passwords,
               NEW fails \in BOOLEAN, CreateUser(c, n, r, p, fails)
        PROVE  \E q : Asks(c, q) /\ q.pc # "update"
    <3> DEFINE q == [NoRequest EXCEPT !.pc = "create", !.name = n, !.password = p,
                                      !.role = OrDefault(r, RoleSupplier)]
    <3>1. Asks(c, q) /\ q.pc = "create"
      BY <2>5 DEF CreateUser, NoRequest
    <3> HIDE DEF q
    <3>2. QED
      BY <3>1
  <2>6. QED
    BY <2>1, <2>2, <2>3, <2>4, <2>5 DEF ChangePassword, ResetUserPassword, Present
<1>3. \A d \in Clients : request'[d] = request[d] \/ request'[d].pc # "update"
  BY <1>2, EndsKept, AsksKept
<1>4. QED
  BY <1>1, <1>3, SameKept DEF Idles

LEMMA WritingSteps ==
    ASSUME IInv, NEW c \in Clients, UpdatePassword(c) \/ \E id \in Ids : DeleteUser(c, id)
    PROVE  Idles
<1>1. CASE UpdatePassword(c)
  <2>1. request[c].id \in Ids /\ users \in [Ids -> Users]
    BY <1>1 DEF IInv, TypeOK, RequestOK, UpdatePassword
  <2>2. ColumnsKept
    BY <1>1, <2>1 DEF UpdatePassword, Updated, ColumnsKept, Present, Users
  <2>3. QED
    BY <1>1, <2>2, EndsKept DEF UpdatePassword, Idles
<1>2. ASSUME NEW id \in Ids, DeleteUser(c, id) PROVE Idles
  <2>1. users \in [Ids -> Users] /\ ~NoUser.present
    BY Constants DEF IInv, TypeOK
  <2>2. ColumnsKept
    BY <1>2, <2>1 DEF DeleteUser, ColumnsKept
  <2>3. QED
    BY <1>2, <2>2 DEF DeleteUser, Idles
<1>3. QED
  BY <1>1, <1>2

\* A step that writes the row i and overtakes its other updates.
LEMMA OvertakesCurrent ==
    ASSUME IInv, UpdatesCurrent, NEW c \in Clients, NEW i \in Ids, Overtakes(c, i),
           \A j \in Ids : j # i => users'[j] = users[j]
    PROVE  UpdatesCurrent'
<1>1. \A d \in Clients : RequestOK(request[d])
  BY DEF IInv
<1>2. ASSUME NEW d \in Clients PROVE Current(request[d])'
  <2>1. CASE d = c
    BY <2>1, Constants DEF Overtakes, Current
  <2>2. CASE d # c /\ request[d].pc = "update" /\ request[d].id = i
    <3>1. request'[d] = [request[d] EXCEPT !.keeps = {}]
      BY <2>2 DEF Overtakes
    <3>2. request'[d].keeps = {}
      BY <1>1, <3>1 DEF RequestOK, Requests
    <3>3. QED
      BY <3>2 DEF Current
  <2>3. CASE d # c /\ ~(request[d].pc = "update" /\ request[d].id = i)
    <3>1. request'[d] = request[d]
      BY <2>3 DEF Overtakes
    <3>2. request[d].pc = "update" => request[d].id \in Ids /\ request[d].id # i
      BY <1>1, <2>3 DEF RequestOK
    <3>3. request[d].pc = "update" => users'[request[d].id] = users[request[d].id]
      BY <3>2
    <3>4. QED
      BY <3>1, <3>3 DEF UpdatesCurrent, Current, Present
  <2>4. QED
    BY <2>1, <2>2, <2>3
<1>3. QED
  BY <1>2 DEF UpdatesCurrent

\* What a step promises of updates.
Promised ==
    /\ UpdatesCurrent'
    /\ \A id \in Ids : id \in Present /\ id \in Present' => Accounted(id)

LEMMA CreateInsertCurrent ==
    ASSUME IInv, UpdatesCurrent, NEW c \in Clients, CreateInsert(c)
    PROVE  Promised
<1>1. CASE Ends(c) /\ UNCHANGED table
  <2>1. ColumnsKept /\ UNCHANGED users
    BY <1>1, SameKept DEF table
  <2>2. UpdatesCurrent'
    BY <1>1, <2>1, EndsKept, KeptStep
  <2>3. QED
    BY <2>1, <2>2 DEF Promised, Accounted
<1>2. ASSUME NEW i \in FreshIds, Overtakes(c, i),
             Inserted(i, request[c].name, request[c].role, request[c].password)
      PROVE  Promised
  <2>1. i \in Ids /\ i \notin Present
    BY <1>2, FreshIdFacts DEF Inserted
  <2>2. \A j \in Ids : j # i => users'[j] = users[j]
    BY <1>2, <2>1 DEF Inserted, IInv, TypeOK
  <2>3. UpdatesCurrent'
    BY <1>2, <2>1, <2>2, OvertakesCurrent
  <2>4. QED
    BY <2>1, <2>2, <2>3 DEF Promised, Accounted
<1>3. QED
  BY <1>1, <1>2 DEF CreateInsert

LEMMA RestartCurrent ==
    ASSUME IInv, UpdatesCurrent, Restart
    PROVE  Promised
<1>1. UpdatesCurrent'
  BY Constants DEF Restart, UpdatesCurrent, Current
<1>2. CASE Present = {}
  BY <1>1, <1>2 DEF Promised
<1>3. CASE UNCHANGED table
  BY <1>1, <1>3 DEF Promised, Accounted, table
<1>4. QED
  BY <1>2, <1>3 DEF Restart

LEMMA UpdateUserCurrent ==
    ASSUME IInv, UpdatesCurrent, NEW c \in Clients, NEW id \in Ids, NEW r \in GivenRoles,
           NEW status \in GivenStatuses, UpdateUser(c, id, r, status)
    PROVE  UpdatesCurrent'
<1> DEFINE q == [NoRequest EXCEPT !.pc = "update", !.id = id,
                                  !.role = OrDefault(r, users[id].role),
                                  !.enabled = Enabled(status, users[id].enabled),
                                  !.keeps = {f \in {"role"} : r = 0} \cup
                                            {f \in {"status"} : status = "omitted"}]
<1>1. /\ q.id = id /\ q.role = OrDefault(r, users[id].role)
      /\ q.enabled = Enabled(status, users[id].enabled)
      /\ q.keeps = {f \in {"role"} : r = 0} \cup {f \in {"status"} : status = "omitted"}
  BY DEF NoRequest
<1>2. Asks(c, q) /\ UNCHANGED users
  BY DEF UpdateUser, table
<1> HIDE DEF q
<1>3. "role" \in q.keeps => q.role = users[id].role
  BY <1>1 DEF OrDefault
<1>4. "status" \in q.keeps => q.enabled = users[id].enabled
  BY <1>1 DEF Enabled
<1>5. \A d \in Clients : request'[d] = IF d = c THEN q ELSE request[d]
  BY <1>2 DEF Asks, IInv, TypeOK
<1>6. QED
  BY <1>1, <1>2, <1>3, <1>4, <1>5 DEF UpdatesCurrent, Current, Present

LEMMA UpdateProfileCurrent ==
    ASSUME IInv, UpdatesCurrent, NEW c \in Clients, UpdateProfile(c)
    PROVE  Promised
<1> DEFINE i == request[c].id
<1>1. /\ users \in [Ids -> Users] /\ i \in Ids /\ c \in Updating(i)
      /\ request[c].pc = "update"
  BY DEF IInv, TypeOK, RequestOK, UpdateProfile, Updating
<1>2. \A id \in Ids : users'[id] =
        IF id = i /\ id \in Present
        THEN [users[i] EXCEPT !.role = request[c].role, !.enabled = request[c].enabled]
        ELSE users[id]
  BY <1>1 DEF UpdateProfile, Updated
<1>3. UpdatesCurrent'
  <2>1. Overtakes(c, i) /\ \A j \in Ids : j # i => users'[j] = users[j]
    BY <1>2 DEF UpdateProfile
  <2>2. QED
    BY <1>1, <2>1, OvertakesCurrent
<1>4. ASSUME NEW id \in Present PROVE Accounted(id)
  <2>1. CASE id # i
    BY <1>2, <2>1 DEF Accounted, Present
  <2>2. CASE id = i
    <3>1. users'[i].role = request[c].role /\ users'[i].enabled = request[c].enabled
      BY <1>1, <1>2, <2>2 DEF Users
    <3>2. Current(request[c])
      BY DEF UpdatesCurrent
    <3>3. QED
      BY <1>1, <2>2, <3>1, <3>2 DEF Current, Accounted
  <2>3. QED
    BY <2>1, <2>2
<1>5. QED
  BY <1>3, <1>4 DEF Promised

\* Of every step: updates stay current, and what changes is accounted for.
LEMMA NextCurrent ==
    ASSUME IInv, UpdatesCurrent, [Next]_vars
    PROVE  Promised
<1>1. ASSUME Idles PROVE Promised
  BY <1>1, KeptStep DEF Promised, Idles, ColumnsKept, Accounted, Present
<1>2. CASE UNCHANGED vars
  BY <1>1, <1>2, SameKept DEF vars, Idles
<1>3. ASSUME NEW c \in Clients, UpdateProfile(c) \/ CreateInsert(c)
      PROVE  Promised
  BY <1>3, UpdateProfileCurrent, CreateInsertCurrent
<1>4. ASSUME NEW c \in Clients, NEW id \in Ids, NEW r \in GivenRoles,
             NEW status \in GivenStatuses, UpdateUser(c, id, r, status)
      PROVE  Promised
  BY <1>4, UpdateUserCurrent DEF UpdateUser, table, Promised, Accounted
<1>5. CASE Steps
  <2>1. \/ Idles
        \/ Restart
        \/ \E c \in Clients : UpdateProfile(c) \/ CreateInsert(c)
        \/ \E c \in Clients, id \in Ids, r \in GivenRoles, status \in GivenStatuses :
             UpdateUser(c, id, r, status)
    BY <1>5, IdleSteps, WritingSteps DEF Steps
  <2>2. QED
    BY <1>1, <1>3, <1>4, <2>1, RestartCurrent
<1>6. QED
  BY <1>2, <1>5 DEF Next

\* Role and status change only as an administrator gave them, or by an update
\* that another one overtook, for any number of administrators
\* (controller/admin_user.go:86-108, model/user.go:128-135).
THEOREM ChangesWereGiven == Spec => ChangesAreGiven
<1> DEFINE Given == \A id \in Ids : id \in Present /\ id \in Present' => Accounted(id)
<1>1. Init => UpdatesCurrent
  BY Constants DEF Init, UpdatesCurrent, Current
<1>2. IInv /\ UpdatesCurrent /\ [Next]_vars => UpdatesCurrent' /\ [Given]_vars
  BY NextCurrent DEF Promised
<1>3. Given <=> \A id \in Ids : id \in Present /\ id \in Present' =>
         /\ users'[id].role # users[id].role =>
              \E c \in Updating(id) : "role" \notin request[c].keeps
         /\ users'[id].enabled # users[id].enabled =>
              \E c \in Updating(id) : "status" \notin request[c].keeps
  BY DEF Accounted
<1> HIDE DEF Given
<1>4. Spec => [][Given]_vars
  BY <1>1, <1>2, InvariantHolds, PTL DEF Spec
<1>5. QED
  BY <1>3, <1>4, PTL DEF ChangesAreGiven

-----------------------------------------------------------------------------
(* What is left of an account's sessions once it is revoked: the safe half of *)
(* RevocationTakesEffect.                                                     *)

\* The request of c begins as something other than a login, or ends.
LEMMA NoLoginBegins ==
    ASSUME IInv, NEW c \in Clients, NEW q, q.pc # "login", Asks(c, q)
    PROVE  \A d \in Clients, a \in Serials : LoggingIn(d, a)' => LoggingIn(d, a)
BY DEF IInv, TypeOK, Asks, LoggingIn

\* A request that overtakes updates ends, and the others stay what they are.
LEMMA OvertakingBeginsNoLogin ==
    ASSUME IInv, NEW c \in Clients, NEW id, Overtakes(c, id)
    PROVE  \A d \in Clients, a \in Serials : LoggingIn(d, a)' => LoggingIn(d, a)
<1>1. request \in [Clients -> Requests] /\ NoRequest.pc = "idle"
  BY Constants DEF IInv, TypeOK
<1>2. \A e \in Clients : /\ [request[e] EXCEPT !.keeps = {}].pc = request[e].pc
                         /\ [request[e] EXCEPT !.keeps = {}].account = request[e].account
  BY <1>1 DEF Requests
<1>3. QED
  BY <1>1, <1>2 DEF Overtakes, LoggingIn

\* A step that begins no login and sets no cookie leaves no more than there was.
LEMMA NothingGained ==
    ASSUME NEW d \in Clients, NEW a \in Serials,
           LoggingIn(d, a)' => LoggingIn(d, a),
           session'[d].account = a => session[d].account = a
    PROVE  Left(d, a)' <= Left(d, a)
BY DEF Left

\* Steps other than LoginRead and LoginAnswer.
LEMMA BystandersGainNothing ==
    ASSUME IInv, Steps, NEW d \in Clients, NEW a \in Serials,
           \A c \in Clients : /\ ~LoginAnswer(c)
                              /\ \A n \in Names, p \in Passwords : ~LoginRead(c, n, p)
    PROVE  Left(d, a)' <= Left(d, a)
<1> DEFINE NoLogin == \A e \in Clients, b \in Serials : LoggingIn(e, b)' => LoggingIn(e, b)
           NoCookie == \A e \in Clients, b \in Serials :
                         session'[e].account = b => session[e].account = b
<1>1. NoRequest.pc = "idle"
  BY Constants
<1>2. ASSUME NEW c \in Clients, Ends(c) PROVE NoLogin
  BY <1>1, <1>2, NoLoginBegins DEF Ends
<1>3. ASSUME NEW c \in Clients, NEW q, q.pc # "login", Asks(c, q), UNCHANGED session
      PROVE  NoLogin /\ NoCookie
  BY <1>3, NoLoginBegins
<1>4. ASSUME NEW c \in Clients,
             \/ \E old, new \in Passwords : ChangePassword(c, old, new)
             \/ \E i \in Ids, new \in Passwords : ResetUserPassword(c, i, new)
      PROVE  NoLogin /\ NoCookie
  <2>1. PICK i, p : /\ Asks(c, [NoRequest EXCEPT !.pc = "password", !.id = i, !.password = p])
                    /\ UNCHANGED session
    BY <1>4 DEF ChangePassword, ResetUserPassword
  <2>2. [NoRequest EXCEPT !.pc = "password", !.id = i, !.password = p].pc = "password"
    BY DEF NoRequest
  <2>3. QED
    BY <1>3, <2>1, <2>2
<1>5. ASSUME NEW c \in Clients, NEW n \in Names, NEW r \in GivenRoles, NEW p \in Passwords,
             NEW fails \in BOOLEAN, CreateUser(c, n, r, p, fails)
      PROVE  NoLogin /\ NoCookie
  <2> DEFINE q == [NoRequest EXCEPT !.pc = "create", !.name = n, !.password = p,
                                    !.role = OrDefault(r, RoleSupplier)]
  <2>1. Asks(c, q) /\ UNCHANGED session
    BY <1>5 DEF CreateUser
  <2>2. q.pc = "create"
    BY DEF NoRequest
  <2>3. QED
    BY <1>3, <2>1, <2>2
<1>6. ASSUME NEW c \in Clients, NEW i \in Ids, NEW r \in GivenRoles,
             NEW status \in GivenStatuses, UpdateUser(c, i, r, status)
      PROVE  NoLogin /\ NoCookie
  <2> DEFINE q == [NoRequest EXCEPT !.pc = "update", !.id = i,
                                 !.role = OrDefault(r, users[i].role),
                                 !.enabled = Enabled(status, users[i].enabled),
                                 !.keeps = {f \in {"role"} : r = 0} \cup
                                           {f \in {"status"} : status = "omitted"}]
  <2>1. Asks(c, q) /\ UNCHANGED session
    BY <1>6 DEF UpdateUser
  <2>2. q.pc = "update"
    BY DEF NoRequest
  <2>3. QED
    BY <1>3, <2>1, <2>2
<1>7. ASSUME NEW c \in Clients, \/ UpdatePassword(c) \/ RequestFails(c)
                                \/ \E i \in Ids : DeleteUser(c, i)
      PROVE  NoLogin /\ NoCookie
  BY <1>2, <1>7 DEF UpdatePassword, RequestFails, DeleteUser, LoggingIn
<1>8. ASSUME NEW c \in Clients, UpdateProfile(c) \/ CreateInsert(c)
      PROVE  NoLogin /\ NoCookie
  <2>1. (Ends(c) \/ \E id : Overtakes(c, id)) /\ UNCHANGED session
    BY <1>8 DEF UpdateProfile, CreateInsert
  <2>2. QED
    BY <1>2, <2>1, OvertakingBeginsNoLogin
<1>9. ASSUME NEW c \in Clients, Logout(c) \/ Expire(c) PROVE NoLogin /\ NoCookie
  BY <1>9, Constants DEF Logout, Expire, LoggingIn, IInv, TypeOK
<1>10. ASSUME Restart PROVE NoLogin /\ NoCookie
  BY <1>1, <1>10 DEF Restart, LoggingIn
<1> HIDE DEF NoLogin, NoCookie
<1>11. NoLogin /\ NoCookie
  BY <1>4, <1>5, <1>6, <1>7, <1>8, <1>9, <1>10 DEF Steps
<1>12. QED
  BY <1>11, NothingGained DEF NoLogin, NoCookie

\* RevokedRunsDown: Login reads the status (controller/auth.go:45), and the cookie
\* is set there and nowhere else (controller/auth.go:132-139); of accounts, even
\* if an id is given again.
THEOREM RevokedAccountsRunDown == Spec => RevokedRunsDown
<1>1. ASSUME IInv, Next, NEW a \in Serials, NEW d \in Clients, Revoked(a)
      PROVE  Left(d, a)' <= Left(d, a)
  <2>1. Steps /\ request \in [Clients -> Requests] /\ session \in [Clients -> Sessions]
    BY <1>1 DEF Next, IInv, TypeOK
  <2>2. ASSUME NEW c \in Clients, NEW n \in Names, NEW p \in Passwords, LoginRead(c, n, p)
        PROVE  Left(d, a)' <= Left(d, a)
    <3>1. PICK i \in Present :
            /\ MayLogIn(users[i], n, p)
            /\ Asks(c, [NoRequest EXCEPT !.pc = "login", !.id = i,
                           !.account = users[i].account,
                           !.role = users[i].role, !.enabled = users[i].enabled])
      BY <2>2 DEF LoginRead
    <3>2. users[i].account # a
      BY <1>1, <3>1 DEF Revoked, MayLogIn
    <3>3. [NoRequest EXCEPT !.pc = "login", !.id = i, !.account = users[i].account,
              !.role = users[i].role, !.enabled = users[i].enabled].account
            = users[i].account
      BY DEF NoRequest
    <3>4. LoggingIn(d, a)' => LoggingIn(d, a)
      BY <2>1, <3>1, <3>2, <3>3 DEF Asks, LoggingIn
    <3>5. QED
      BY <2>2, <3>4, NothingGained DEF LoginRead
  <2>3. ASSUME NEW c \in Clients, LoginAnswer(c) PROVE Left(d, a)' <= Left(d, a)
    <3>1. CASE d # c
      BY <2>1, <2>3, <3>1, NothingGained DEF LoginAnswer, Ends, Asks, LoggingIn
    <3>2. CASE d = c
      <4>1. session'[c].account = request[c].account /\ request'[c] = NoRequest
            /\ request[c].pc = "login"
        BY <2>1, <2>3 DEF LoginAnswer, Ends, Asks
      <4>2. ~LoggingIn(c, a)'
        BY <4>1, Constants DEF LoggingIn
      <4>3. session'[c].account = a => LoggingIn(c, a)
        BY <4>1 DEF LoggingIn
      <4>4. QED
        BY <3>2, <4>2, <4>3 DEF Left
    <3>3. QED
      BY <3>1, <3>2
  <2>4. QED
    BY <1>1, <2>1, <2>2, <2>3, BystandersGainNothing
<1>2. ASSUME UNCHANGED vars, NEW a \in Serials, NEW d \in Clients
      PROVE  Left(d, a)' <= Left(d, a)
  BY <1>2, NothingGained DEF vars, LoggingIn
<1>3. IInv /\ [Next]_vars =>
        [\A a \in Serials, c \in Clients : Revoked(a) => Left(c, a)' <= Left(c, a)]_vars
  BY <1>1
<1>4. QED
  BY <1>3, InvariantHolds, PTL DEF Spec, RevokedRunsDown
===============================================================================
