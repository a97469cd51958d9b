------------------------------- MODULE Accounts -------------------------------
(***************************************************************************)
(* Accounts, sessions and the requests that change accounts: login and      *)
(* password change (controller/auth.go), the administrators' requests       *)
(* (controller/admin_user.go), the check in front of every handler          *)
(* (middleware/auth.go) and the seeding at start-up (model/user.go, main.go).*)
(* A session is a signed cookie with copies of id, role and status; no      *)
(* handler looks at the account again to check them.  A request takes one   *)
(* step per database statement.                                             *)
(*                                                                         *)
(* An id is not an account: MySQL before 8.0, which model/main.go:3 allows,  *)
(* numbers rows from max(id) + 1 again when the database server starts, so  *)
(* that the id of a deleted account can come to be another's.  What is said *)
(* of accounts here is therefore said of the serial numbers the history      *)
(* gives them, never of ids.                                                *)
(*                                                                         *)
(* Access tokens are left out: no route sets one.  The cascade of           *)
(* DeleteUser is in Admission.                                              *)
(***************************************************************************)
EXTENDS Naturals, FiniteSets

CONSTANTS
    Clients,        \* browsers, each with at most one session and one request
    Names,          \* usernames
    Root,           \* the username of the seeded account
    Passwords,      \* passwords
    RootPassword,   \* the password of the seeded account
    RequestedRoles, \* roles administrators give
    None,           \* no name, no password
    MaxAccounts     \* bound: accounts ever inserted

RoleSupplier == 1
RoleAdmin == 10
RoleRoot == 100

Roles == {RoleSupplier, RoleAdmin, RoleRoot}

ASSUME AccountsAssumption ==
    /\ Root \in Names /\ RootPassword \in Passwords
    /\ RequestedRoles \subseteq Roles
    /\ None \notin Names \cup Passwords
    /\ MaxAccounts \in Nat \ {0}

VARIABLES
    users,    \* the users table by id
    session,  \* the session cookie of each client
    request,  \* the request each client waits for
    accounts, \* history: how many accounts there have been
    had       \* history: the authority accounts have while enabled, or had when
              \* somebody was given it who still carries it

table == <<users, accounts>>

vars == <<users, session, request, accounts, had>>

-----------------------------------------------------------------------------
Ids == 1 .. MaxAccounts

\* History: the accounts by the order they were inserted in, 0 for none.
Serials == 1 .. MaxAccounts

\* A status other than StatusDisabled counts as enabled.  The serial of the
\* account is history.
Users == [present : BOOLEAN, account : Serials \cup {0}, name : Names \cup {None},
          role : Roles \cup {0}, enabled : BOOLEAN, password : Passwords \cup {None}]

NoUser == [present |-> FALSE, account |-> 0, name |-> None, role |-> 0,
           enabled |-> FALSE, password |-> None]

\* With the account that logged in, as history.
Sessions == [id : Ids \cup {0}, account : Serials \cup {0}, role : Roles \cup {0},
             enabled : BOOLEAN]

NoSession == [id |-> 0, account |-> 0, role |-> 0, enabled |-> FALSE]

Requests == [pc : {"idle", "login", "password", "create", "update"},
             id : Ids \cup {0}, name : Names \cup {None}, role : Roles \cup {0},
             enabled : BOOLEAN, password : Passwords \cup {None},
             account : Serials \cup {0},        \* history: the account that logs in
             keeps : SUBSET {"role", "status"}] \* history: what an update omits, while
                                                \* nothing has overtaken it

NoRequest == [pc |-> "idle", id |-> 0, name |-> None, role |-> 0, enabled |-> FALSE,
              password |-> None, account |-> 0, keeps |-> {}]

Present == {id \in Ids : users[id].present}

NewUser(n, r, p) == [present |-> TRUE, account |-> accounts + 1, name |-> n, role |-> r,
                     enabled |-> TRUE, password |-> p]

\* The database numbers the rows, above all that are there: it keeps count of the
\* ids it has given, or has been started again and counts from the highest left.
FreshIds == {id \in 1 .. accounts + 1 : \A j \in Present : j < id}

\* An INSERT that is given this id.
Inserted(id, n, r, p) ==
    /\ accounts < MaxAccounts
    /\ users' = [users EXCEPT ![id] = NewUser(n, r, p)]
    /\ accounts' = accounts + 1

\* Save would insert what is gone.
Updated_Saved(id, u) == [users EXCEPT ![id] = [u EXCEPT !.present = TRUE]]

\* An UPDATE of a row that is gone changes nothing.
Updated(id, u) == IF id \in Present THEN [users EXCEPT ![id] = u] ELSE users

OrDefault_Zero(r, default) == r

\* 0 stands for a role the request omits.
OrDefault(r, default) == IF r = 0 THEN default ELSE r

GivenRoles == RequestedRoles \cup {0}

GivenStatuses == {"enabled", "disabled", "omitted"}

Enabled_Default(status, enabled) == status # "disabled"

\* Whether an account is enabled after an update with this status.
Enabled(status, enabled) == IF status = "omitted" THEN enabled ELSE status = "enabled"

Asks(c, q) == request' = [request EXCEPT ![c] = q]

Ends(c) == Asks(c, NoRequest)

Seeded == [present |-> TRUE, account |-> 1, name |-> Root, role |-> RoleRoot,
           enabled |-> TRUE, password |-> RootPassword]

Init ==
    /\ users = [id \in Ids |-> IF id = 1 THEN Seeded ELSE NoUser]
    /\ session = [c \in Clients |-> NoSession]
    /\ request = [c \in Clients |-> NoRequest]
    /\ accounts = 1
    /\ had = {[account |-> 1, role |-> RoleRoot]}

-----------------------------------------------------------------------------
(* Sessions. *)

MayLogIn_Disabled(u, n, p) == u.name = n /\ u.password = p

MayLogIn(u, n, p) == u.name = n /\ u.password = p /\ u.enabled

\* Login, GetUserByUsername and the checks.
LoginRead(c, n, p) ==
    /\ request[c].pc = "idle"
    /\ \E id \in Present :
         /\ MayLogIn(users[id], n, p)
         /\ Asks(c, [NoRequest EXCEPT !.pc = "login", !.id = id,
                        !.account = users[id].account,
                        !.role = users[id].role, !.enabled = users[id].enabled])
    /\ UNCHANGED <<table, session>>

\* Login, establishSession: the cookie carries what was read.
LoginAnswer(c) ==
    /\ request[c].pc = "login"
    /\ session' = [session EXCEPT ![c] =
                     [id |-> request[c].id, account |-> request[c].account,
                      role |-> request[c].role, enabled |-> request[c].enabled]]
    /\ Ends(c)
    /\ UNCHANGED table

\* Logout.
Logout(c) ==
    /\ request[c].pc = "idle"
    /\ session[c] # NoSession
    /\ session' = [session EXCEPT ![c] = NoSession]
    /\ UNCHANGED <<table, request>>

\* A day after it was set the browser drops the cookie (its Max-Age,
\* router/router.go:33).
Expire(c) ==
    /\ session[c] # NoSession
    /\ session' = [session EXCEPT ![c] = NoSession]
    /\ UNCHANGED <<table, request>>

\* authHelper.
Authorized(c, minRole) ==
    /\ session[c] # NoSession
    /\ session[c].enabled
    /\ session[c].role >= minRole

-----------------------------------------------------------------------------
(* Requests.  UpdatePassword ends ChangePassword and ResetUserPassword. *)

\* ChangePassword, GetUserById and the check of the old password.
ChangePassword(c, old, new) ==
    /\ request[c].pc = "idle"
    /\ Authorized(c, RoleSupplier)
    /\ session[c].id \in Present
    /\ users[session[c].id].password = old
    /\ Asks(c, [NoRequest EXCEPT !.pc = "password", !.id = session[c].id,
                                 !.password = new])
    /\ UNCHANGED <<table, session>>

\* ResetUserPassword, GetUserById.
ResetUserPassword(c, id, new) ==
    /\ request[c].pc = "idle"
    /\ Authorized(c, RoleAdmin)
    /\ id \in Present
    /\ Asks(c, [NoRequest EXCEPT !.pc = "password", !.id = id, !.password = new])
    /\ UNCHANGED <<table, session>>

UpdatePassword(c) ==
    /\ request[c].pc = "password"
    /\ LET id == request[c].id
       IN  users' = Updated(id, [users[id] EXCEPT !.password = request[c].password])
    /\ Ends(c)
    /\ UNCHANGED <<accounts, session>>

\* CreateUser, the look for the username: one that fails reads as not found.
CreateUser(c, n, r, p, fails) ==
    /\ request[c].pc = "idle"
    /\ Authorized(c, RoleAdmin)
    /\ fails \/ \A id \in Present : users[id].name # n
    /\ Asks(c, [NoRequest EXCEPT !.pc = "create", !.name = n, !.password = p,
                                 !.role = OrDefault(r, RoleSupplier)])
    /\ UNCHANGED <<table, session>>

Insertable_NoIndex(n) == TRUE

\* The unique index on the username.
Insertable(n) == \A id \in Present : users[id].name # n

\* The request of c ends and has overtaken the other updates of id: what they
\* omit is no longer what they have read.
Overtakes(c, id) ==
    request' = [d \in Clients |->
                  IF d = c THEN NoRequest
                  ELSE IF request[d].pc = "update" /\ request[d].id = id
                  THEN [request[d] EXCEPT !.keeps = {}]
                  ELSE request[d]]

\* CreateUser, the INSERT.  It may give an id that a request under way has read
\* as another account's.
CreateInsert(c) ==
    /\ request[c].pc = "create"
    /\ \/ \E id \in FreshIds :
            /\ Insertable(request[c].name)
            /\ Inserted(id, request[c].name, request[c].role, request[c].password)
            /\ Overtakes(c, id)
       \/ /\ ~Insertable(request[c].name)
          /\ Ends(c)
          /\ UNCHANGED table
    /\ UNCHANGED session

\* UpdateUser, GetUserById: what the request omits is taken from the row.
UpdateUser(c, id, r, status) ==
    /\ request[c].pc = "idle"
    /\ Authorized(c, RoleAdmin)
    /\ id \in Present
    /\ Asks(c, [NoRequest EXCEPT !.pc = "update", !.id = id,
                                 !.role = OrDefault(r, users[id].role),
                                 !.enabled = Enabled(status, users[id].enabled),
                                 !.keeps = {f \in {"role"} : r = 0} \cup
                                           {f \in {"status"} : status = "omitted"}])
    /\ UNCHANGED <<table, session>>

\* UpdateUser, UpdateProfile: role and status are both written.
UpdateProfile(c) ==
    /\ request[c].pc = "update"
    /\ LET id == request[c].id
       IN  users' = Updated(id, [users[id] EXCEPT !.role = request[c].role,
                                                  !.enabled = request[c].enabled])
    /\ Overtakes(c, request[c].id)
    /\ UNCHANGED <<accounts, session>>

\* DeleteUser, its last statement.
DeleteUser(c, id) ==
    /\ request[c].pc = "idle"
    /\ Authorized(c, RoleAdmin)
    /\ id \in Present
    /\ users' = [users EXCEPT ![id] = NoUser]
    /\ UNCHANGED <<accounts, session, request>>

\* The statement fails, or the cookie cannot be set.
RequestFails(c) ==
    /\ request[c].pc # "idle"
    /\ Ends(c)
    /\ UNCHANGED <<table, session>>

\* A restart loses the requests, not the cookies; SeedRootUser creates an
\* account when there is none (or the bound is reached).
Restart ==
    /\ request' = [c \in Clients |-> NoRequest]
    /\ \/ /\ Present = {}
          /\ \E id \in FreshIds : Inserted(id, Root, RoleRoot, RootPassword)
       \/ /\ Present # {} \/ accounts = MaxAccounts
          /\ UNCHANGED table
    /\ UNCHANGED session

-----------------------------------------------------------------------------
Steps ==
    \/ \E c \in Clients :
         \/ \E n \in Names, p \in Passwords : LoginRead(c, n, p)
         \/ LoginAnswer(c)
         \/ Logout(c)
         \/ Expire(c)
         \/ \E old, new \in Passwords : ChangePassword(c, old, new)
         \/ \E id \in Ids, new \in Passwords : ResetUserPassword(c, id, new)
         \/ UpdatePassword(c)
         \/ \E n \in Names, r \in GivenRoles, p \in Passwords, fails \in BOOLEAN :
              CreateUser(c, n, r, p, fails)
         \/ CreateInsert(c)
         \/ \E id \in Ids, r \in GivenRoles, status \in GivenStatuses :
              UpdateUser(c, id, r, status)
         \/ UpdateProfile(c)
         \/ \E id \in Ids : DeleteUser(c, id)
         \/ RequestFails(c)
    \/ Restart

Authority == {[account |-> users[id].account, role |-> users[id].role] :
                 id \in {i \in Present : users[i].enabled}}

\* A session of c, or a login it waits for, carries authority h.
Carries(c, h) ==
    \/ session[c].account = h.account /\ session[c].role = h.role
    \/ request[c].pc = "login" /\ request[c].account = h.account /\ request[c].role = h.role

Remembers == had' = Authority' \cup {h \in had : \E c \in Clients : Carries(c, h)'}

Next == Steps /\ Remembers

Spec == Init /\ [][Next]_vars

\* Days pass, and browsers drop cookies that are too old.
FairSpec == Spec /\ \A c \in Clients : WF_vars(Expire(c) /\ Remembers)

-----------------------------------------------------------------------------
(* Properties. *)

\* Types; an account has a name, a password and one of the three roles, whatever
\* a request omits (controller/admin_user.go:47-51, 90-99).
TypeOK ==
    /\ users \in [Ids -> Users]
    /\ \A id \in Present : users[id] \in [present : {TRUE}, account : Serials, name : Names,
                              role : Roles, enabled : BOOLEAN, password : Passwords]
    /\ accounts \in 1 .. MaxAccounts
    /\ session \in [Clients -> Sessions]
    /\ request \in [Clients -> Requests]
    /\ had \subseteq [account : Serials, role : Roles]

\* The check of CreateUser and its INSERT are two statements, of two
\* administrators at a time: still no two accounts have one username
\* (controller/admin_user.go:52, model/user.go:16).
UsernamesUnique ==
    \A i, j \in Present : users[i].name = users[j].name => i = j

\* The role in a cookie is one that the account that logged in has had while it
\* was enabled: a role given to a disabled account never reaches a session,
\* although the row is read once and both may change before the cookie is set,
\* nor does one of the account that has its id later (controller/auth.go:40-55).
SessionEarned ==
    \A c \in Clients : session[c] # NoSession =>
        [account |-> session[c].account, role |-> session[c].role] \in had

\* No request that was under way brings a deleted account back: UpdateProfile and
\* UpdatePassword are UPDATEs (model/user.go:95-101, 128-135), so a row that is gone
\* comes back only as an account that never was.
DeletedStaysDeleted ==
    [][\A id \in Ids : id \notin Present =>
         users'[id] = users[id] \/ users'[id].account = accounts + 1]_vars

Updating(id) == {c \in Clients : request[c].pc = "update" /\ request[c].id = id}

\* The role and the status of an account change only as an administrator gave
\* them: UpdateUser writes both whatever it was asked (model/user.go:128-135), from
\* a copy read before, and so may put back the one it was not asked for; but only
\* if another update of the account came in between, or the account it has read
\* was deleted and another one has its id (controller/admin_user.go:86-108).
ChangesAreGiven ==
    [][\A id \in Ids : id \in Present /\ id \in Present' =>
         /\ users'[id].role # users[id].role =>
              \E c \in Updating(id) : "role" \notin request[c].keeps
         /\ users'[id].enabled # users[id].enabled =>
              \E c \in Updating(id) : "status" \notin request[c].keeps]_vars

Revoked(a) == ~\E id \in Present : users[id].account = a /\ users[id].enabled

LoggingIn(c, a) == request[c].pc = "login" /\ request[c].account = a

\* What c may still do as account a: use the cookie it has, and get one from a
\* login whose row has been read.
Left(c, a) ==
    (IF LoggingIn(c, a) THEN 2 ELSE 0) + (IF session[c].account = a THEN 1 ELSE 0)

\* While an account is disabled or gone, nobody comes closer to acting as it: no
\* login begins, a login under way sets at most the one cookie it would have set,
\* and no other request gives back what expired or was logged out, whoever gets
\* the id (controller/auth.go:45, 132-139).
RevokedRunsDown ==
    [][\A a \in Serials, c \in Clients : Revoked(a) => Left(c, a)' <= Left(c, a)]_vars

\* Disabling or deleting an account for good ends its sessions in the end,
\* though no request looks at the account again: a disabled account gets no new
\* cookie (controller/auth.go:45) and a browser drops one after a day
\* (router/router.go:33).
RevocationTakesEffect ==
    \A a \in Serials :
        <>[]Revoked(a) => <>[](\A c \in Clients : session[c].account # a)
===============================================================================
